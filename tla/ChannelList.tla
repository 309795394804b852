---------------------------- MODULE ChannelList ----------------------------
(***************************************************************************)
(* Making channels: handleNewChannel of internal/handler/handler.go with   *)
(* CreateChannel, ListChannels and GetChannelByName of                     *)
(* internal/db/queries.go, and the page that the browser goes to.          *)
(*                                                                         *)
(* CreateChannel is one INSERT into a table with a unique name: a second   *)
(* one of the same name waits until the first has committed or aborted.    *)
(* Nothing deletes a channel.                                              *)
(***************************************************************************)
EXTENDS Naturals

CONSTANTS Creators, ChannelNames, NoName

ASSUME NoNameAssumption == NoName \notin ChannelNames

VARIABLES
  channels,  \* names of the committed rows
  doing,     \* where each request to make a channel is
  wanted,    \* the name it asks for
  listed,    \* the channels on the page that it gets
  broken     \* history: requests whose statement failed other than by the name

channelVars == <<channels, doing, wanted, listed, broken>>

ChannelInit ==
  /\ channels \in SUBSET ChannelNames
  /\ doing = [c \in Creators |-> "idle"]
  /\ wanted = [c \in Creators |-> NoName]
  /\ listed = [c \in Creators |-> {}]
  /\ broken = {}

Step(c, from, to) ==
  /\ doing[c] = from
  /\ doing' = [doing EXCEPT ![c] = to]

\* ListChannels for the form's page; its error is dropped, and the list empty.
ShowForm(c, from, to) ==
  /\ Step(c, from, to)
  /\ \E names \in {channels, {}} : listed' = [listed EXCEPT ![c] = names]
  /\ UNCHANGED <<channels, wanted, broken>>

\* Not 1 to 64 bytes, or a character that may not be there.
RejectName(c) == ShowForm(c, "idle", "rejected")

CreateChannel(c, n) ==
  /\ Step(c, "idle", "inserting")
  /\ wanted' = [wanted EXCEPT ![c] = n]
  /\ UNCHANGED <<channels, listed, broken>>

Holder(n) == {c \in Creators : doing[c] = "holding" /\ wanted[c] = n}

Exists(n) == n \in channels

\* The name is free and nobody else's INSERT of it is open.
Insert(c) ==
  /\ ~Exists(wanted[c]) /\ Holder(wanted[c]) = {}
  /\ Step(c, "inserting", "holding")
  /\ UNCHANGED <<channels, wanted, listed, broken>>

RefuseHeld(c) ==   \* mutant of RefuseTaken: an open INSERT counts as well
  /\ wanted[c] \in channels \/ Holder(wanted[c]) # {}
  /\ Step(c, "inserting", "refused")
  /\ UNCHANGED <<channels, wanted, listed, broken>>

RefuseTaken(c) ==
  /\ Exists(wanted[c])
  /\ Step(c, "inserting", "refused")
  /\ UNCHANGED <<channels, wanted, listed, broken>>

Commit(c) ==
  /\ Step(c, "holding", "created")
  /\ channels' = channels \union {wanted[c]}
  /\ UNCHANGED <<wanted, listed, broken>>

Fail(c, from) ==
  /\ Step(c, from, "refused")
  /\ broken' = broken \union {c}
  /\ UNCHANGED <<wanted, listed>>

\* The connection is lost, the request goes away or the server dies, and the INSERT is rolled back
\* or, when it was open, perhaps committed all the same.
InsertFails(c) ==
  \/ Fail(c, "inserting") /\ UNCHANGED channels
  \/ Fail(c, "holding") /\ channels' \in {channels, channels \union {wanted[c]}}

\* Any error of CreateChannel is shown as "already exists".
SayExists(c) == ShowForm(c, "refused", "told it exists")

\* The browser follows the redirect: GetChannelByName has to find the row.
OpenPage(c) ==
  /\ Step(c, "created", IF wanted[c] \in channels THEN "open" ELSE "not found")
  /\ UNCHANGED <<channels, wanted, listed, broken>>

\* Any other error of it is a 404 as well.
LookupFails(c) ==
  /\ Step(c, "created", "not found")
  /\ broken' = broken \union {c}
  /\ UNCHANGED <<channels, wanted, listed>>

\* The response does not reach the browser, whatever became of the statement.
ResponseLost(c) ==
  /\ Step(c, "created", "lost") \/ Step(c, "refused", "lost")
  /\ UNCHANGED <<channels, wanted, listed, broken>>

CreatorStep(c) ==
  \/ RejectName(c)
  \/ \E n \in ChannelNames : CreateChannel(c, n)
  \/ Insert(c) \/ RefuseTaken(c) \/ Commit(c) \/ SayExists(c) \/ OpenPage(c)
  \/ InsertFails(c)
  \/ LookupFails(c)
  \/ ResponseLost(c)

ChannelNext == \E c \in Creators : CreatorStep(c)

ChannelSpec == ChannelInit /\ [][ChannelNext]_channelVars
-----------------------------------------------------------------------------
\* Types; and an open INSERT is the only one of a name that nobody has.
ChannelTypeOK ==
  /\ \A c \in Creators : doing[c] = "holding" =>
       wanted[c] \notin channels /\ Holder(wanted[c]) = {c}
  /\ channels \subseteq ChannelNames
  /\ doing \in [Creators -> {"idle", "rejected", "inserting", "holding", "refused",
                             "created", "told it exists", "open", "not found", "lost"}]
  /\ wanted \in [Creators -> ChannelNames \union {NoName}]
  /\ listed \in [Creators -> SUBSET ChannelNames]
  /\ broken \subseteq Creators

\* However many ask for a name at once, one of them at most is its maker.
OneMakerPerName ==
  \A c, d \in Creators :
     {doing[c], doing[d]} \subseteq {"created", "open", "not found"} /\ wanted[c] = wanted[d]
       => c = d

\* Makers are told what is so, also when others of the same name give up or have
\* their statement fail: one at most is sent to a new channel's page, it finds the
\* channel there, and who is told that it exists can find it, unless the
\* database failed in that very request.
MakersAreToldTruth ==
  /\ OneMakerPerName
  /\ \A c \in Creators \ broken :
       /\ doing[c] # "not found"
       /\ doing[c] = "told it exists" => wanted[c] \in channels
=============================================================================
