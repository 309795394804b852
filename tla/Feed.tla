-------------------------------- MODULE Feed --------------------------------
(***************************************************************************)
(* What the chat promises a reader, whatever delivers it: a channel's      *)
(* messages are only ever added to, a page belongs to one channel, and the *)
(* rows a page shows are stored messages of its channel that stay shown.   *)
(* LiveChannel is shown to implement it.                                   *)
(***************************************************************************)
EXTENDS Chat

CONSTANTS Pages

VARIABLES
  stored,  \* channel -> its stored messages
  room,    \* page -> its channel
  shown    \* page -> the messages on it

feedVars == <<stored, room, shown>>

FeedInit ==
  /\ stored = [ch \in Channels |-> {}]
  /\ room = [v \in Pages |-> NoChannel]
  /\ shown = [v \in Pages |-> {}]

Store(ch, m) ==
  /\ \A c \in Channels : m \notin stored[c]
  /\ stored' = [stored EXCEPT ![ch] = @ \union {m}]
  /\ UNCHANGED <<room, shown>>

Open(v, ch, S) ==
  /\ room[v] = NoChannel
  /\ S \subseteq stored[ch]
  /\ room' = [room EXCEPT ![v] = ch]
  /\ shown' = [shown EXCEPT ![v] = S]
  /\ UNCHANGED stored

Show(v, S) ==
  /\ room[v] # NoChannel
  /\ S \subseteq stored[room[v]]
  /\ shown' = [shown EXCEPT ![v] = @ \union S]
  /\ UNCHANGED <<stored, room>>

FeedNext ==
  \/ \E ch \in Channels, m \in Messages : Store(ch, m)
  \/ \E v \in Pages, ch \in Channels : \E S \in SUBSET stored[ch] : Open(v, ch, S)
  \/ \E v \in Pages : \E S \in SUBSET Messages : Show(v, S)

FeedSpec == FeedInit /\ [][FeedNext]_feedVars
=============================================================================
