------------------------------ MODULE PagesMC ------------------------------
(***************************************************************************)
(* The two forms beside the chat, settings (Profile) and new channel       *)
(* (ChannelList), on small instances: three saves of two users with two    *)
(* values of two of the fields, and three makers of channels of two names. *)
(***************************************************************************)
EXTENDS Profile, ChannelList, TLC

CONSTANTS noName, name, noAvatar, avatar, utc

TwoNames == {noName, name}
TwoAvatars == {noAvatar, avatar}
OneZone == {utc}
NewUser == [display |-> noName, timezone |-> utc, avatar |-> noAvatar]

PagesInit == ProfileInit /\ ChannelInit

MakeChannel(c) == CreatorStep(c) /\ UNCHANGED profileVars

SaveSettings(s) == SaveStep(s) /\ UNCHANGED channelVars

PagesNext == (\E c \in Creators : MakeChannel(c)) \/ (\E s \in Saves : SaveSettings(s))

PagesSpec == PagesInit /\ [][PagesNext]_<<profileVars, channelVars>>

Symmetry == Permutations(Users) \union Permutations(Saves)
              \union Permutations(Creators) \union Permutations(ChannelNames)

\* Bound: the two share no state, so they are taken one at a time.
OneForm ==
  /\ channelVars' # channelVars => pc = [s \in Saves |-> "idle"]
  /\ profileVars' # profileVars => doing = [c \in Creators |-> "idle"]
=============================================================================
