------------------------------ MODULE Profile ------------------------------
(***************************************************************************)
(* POST /settings: handleSettingsUpdate of internal/handler/settings.go    *)
(* with UpdateUserSettings and GetUserByID of internal/db/queries.go.      *)
(*                                                                         *)
(* A save is a whole form.  It is checked, written by one UPDATE and then  *)
(* read back for the page that says it was saved; between the two other    *)
(* tabs and devices of the user save theirs.  A display name, a time zone  *)
(* or an avatar stands for a value that passes the check of its field, and *)
(* NoZone for an empty time zone.                                          *)
(***************************************************************************)
EXTENDS Naturals, Sequences

CONSTANTS
  Users, Saves, DisplayNames, Zones, Avatars,
  UTC,       \* what an empty time zone is taken for
  Default,   \* the columns' defaults
  NoZone, NoForm, NoUser

Profiles == [display : DisplayNames, timezone : Zones, avatar : Avatars]

Forms == [display : DisplayNames, timezone : Zones \union {NoZone}, avatar : Avatars]

ASSUME ZoneAssumption == UTC \in Zones /\ NoZone \notin Zones
ASSUME DefaultAssumption == Default \in Profiles /\ Default.timezone = UTC

VARIABLES
  row,      \* display_name, timezone and avatar_url of each user
  pc,       \* where each save is
  who,      \* its user
  form,     \* what it submits, with the empty time zone replaced
  shown,    \* the values on the page it answers with
  history,  \* history: the values each row has had, oldest first
  wrote     \* history: the position of the save's own values there, 0 before

profileVars == <<row, pc, who, form, shown, history, wrote>>

ProfileInit ==
  /\ row = [u \in Users |-> Default]
  /\ pc = [s \in Saves |-> "idle"]
  /\ who = [s \in Saves |-> NoUser]
  /\ form = [s \in Saves |-> NoForm]
  /\ shown = [s \in Saves |-> NoForm]
  /\ history = [u \in Users |-> <<Default>>]
  /\ wrote = [s \in Saves |-> 0]

Move(s, from, to) ==
  /\ pc[s] = from
  /\ pc' = [pc EXCEPT ![s] = to]

\* No session: nothing is read or written.
Unauthorized(s) ==
  /\ Move(s, "idle", "unauthorized")
  /\ UNCHANGED <<row, who, form, shown, history, wrote>>

\* A field fails its check: the page shows what was submitted, with the error.
RejectForm(s, u, f) ==
  /\ Move(s, "idle", "rejected")
  /\ who' = [who EXCEPT ![s] = u]
  /\ shown' = [shown EXCEPT ![s] = f]
  /\ UNCHANGED <<row, form, history, wrote>>

Normal(f) == IF f.timezone = NoZone THEN [f EXCEPT !.timezone = UTC] ELSE f

Submit(s, u, f) ==
  /\ Move(s, "idle", "update")
  /\ who' = [who EXCEPT ![s] = u]
  /\ form' = [form EXCEPT ![s] = Normal(f)]
  /\ UNCHANGED <<row, shown, history, wrote>>

\* Mutant of Columns: avatar_url is left out of the SET list.
ColumnsButAvatar(s) == [form[s] EXCEPT !.avatar = row[who[s]].avatar]

\* SET display_name = $1, timezone = $2, avatar_url = $3 WHERE id = $4.
Columns(s) == form[s]

UpdateRow(s) ==
  /\ row' = [row EXCEPT ![who[s]] = Columns(s)]
  /\ history' = [history EXCEPT ![who[s]] = Append(@, Columns(s))]
  /\ wrote' = [wrote EXCEPT ![s] = Len(history[who[s]]) + 1]

Update(s) ==
  /\ Move(s, "update", "reread")
  /\ UpdateRow(s)
  /\ UNCHANGED <<who, form, shown>>

\* UpdateUserSettings returns an error, whether the statement took effect or not;
\* the page shows what was submitted.
UpdateFails(s) ==
  /\ Move(s, "update", "not saved")
  /\ shown' = [shown EXCEPT ![s] = form[s]]
  /\ UpdateRow(s) \/ UNCHANGED <<row, history, wrote>>
  /\ UNCHANGED <<who, form>>

BeforeUpdate(s) == history[who[s]][wrote[s] - 1]   \* mutant of ReadBack

\* GetUserByID.
ReadBack(s) == row[who[s]]

Reread(s) ==
  /\ Move(s, "reread", "saved")
  /\ shown' = [shown EXCEPT ![s] = ReadBack(s)]
  /\ UNCHANGED <<row, who, form, history, wrote>>

\* GetUserByID or ListChannels fails: no page, though the form is saved.
RereadFails(s) ==
  /\ Move(s, "reread", "db error")
  /\ UNCHANGED <<row, who, form, shown, history, wrote>>

SaveStep(s) ==
  \/ Unauthorized(s)
  \/ \E u \in Users, f \in Forms : RejectForm(s, u, f) \/ Submit(s, u, f)
  \/ Update(s)
  \/ UpdateFails(s)
  \/ Reread(s)
  \/ RereadFails(s)

ProfileNext == \E s \in Saves : SaveStep(s)

ProfileSpec == ProfileInit /\ [][ProfileNext]_profileVars
-----------------------------------------------------------------------------
\* Types; and the time zone of a row is one that LoadLocation knows by a name,
\* which the empty one is not.
ProfileTypeOK ==
  /\ row \in [Users -> Profiles]
  /\ pc \in [Saves -> {"idle", "unauthorized", "rejected", "update", "reread",
                       "saved", "not saved", "db error"}]
  /\ who \in [Saves -> Users \union {NoUser}]
  /\ form \in [Saves -> Profiles \union {NoForm}]
  /\ shown \in [Saves -> Forms \union {NoForm}]
  /\ history \in [Users -> Seq(Profiles)]
  /\ wrote \in [Saves -> Nat]

\* Concurrent saves never mix: every version a row has had is the default or the
\* whole form of one save of that user, and no save made two.
VersionsAreSaves ==
  \A u \in Users : \A k \in 2..Len(history[u]) :
     \E s \in Saves : /\ who[s] = u /\ wrote[s] = k
                     /\ form[s] = history[u][k]

\* A page that says "saved" shows the save's own values or a whole later version
\* of them, never the values from before it.
SavedPageIsCurrent ==
  \A s \in Saves : pc[s] = "saved" =>
     \E k \in wrote[s]..Len(history[who[s]]) : shown[s] = history[who[s]][k]
=============================================================================
