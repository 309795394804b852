------------------------------- MODULE Broker -------------------------------
(***************************************************************************)
(* The SSE broker of internal/handler/handler.go: the server's map from a  *)
(* channel to the Go channels of its subscribers, and the handleSSE loops  *)
(* that drain them.                                                        *)
(*                                                                         *)
(* A stream is one GET /channel/{name}/events request together with the    *)
(* buffered Go channel that subscribe makes for it; it is used once.  The  *)
(* mutex s.mu is held for the whole of subscribe, unsubscribe and          *)
(* broadcast, so each is one step.  A receive that runs while broadcast    *)
(* walks the subscribers commutes with the sends to all other streams, so  *)
(* nothing is lost by taking the walk as one step.  The code's slice of    *)
(* subscribers is a set here: every stream has a fresh Go channel, and no  *)
(* subscriber can tell its position.                                       *)
(*                                                                         *)
(* A queued message is named by the position of its broadcast in the       *)
(* history log, which makes order and loss visible.                        *)
(***************************************************************************)
EXTENDS Chat, Naturals, Sequences

CONSTANTS
  Streams,    \* event-stream requests
  Cap         \* capacity of a subscriber's Go channel (16 in the code)

ASSUME CapAssumption == Cap \in Nat \ {0}

VARIABLES
  subscribers, \* s.subscribers: channel -> streams registered for it
  queue,       \* the contents of each stream's Go channel
  loop,        \* where each handleSSE call is
  topic,       \* the channel each handleSSE call looked up
  written,     \* what each handleSSE call has taken and written to its response
  log,         \* history: every broadcast so far, in order
  joined,      \* history: Len(log) when the stream subscribed
  dropped      \* history: the broadcasts the stream was too slow for

brokerVars == <<subscribers, queue, loop, topic, written, log, joined, dropped>>

Loops == {"idle", "serving", "leaving", "gone"}

\* The streams whose Go channel is in the broker's map.
Listed == {s \in Streams : loop[s] \in {"serving", "leaving"}}

\* What has been sent on the stream's Go channel, in order.
Delivered(s) == written[s] \o queue[s]

BrokerInit ==
  /\ subscribers = [ch \in Channels |-> {}]
  /\ queue = [s \in Streams |-> <<>>]
  /\ loop = [s \in Streams |-> "idle"]
  /\ topic = [s \in Streams |-> NoChannel]
  /\ written = [s \in Streams |-> <<>>]
  /\ log = <<>>
  /\ joined = [s \in Streams |-> 0]
  /\ dropped = [s \in Streams |-> {}]

Subscribe(s, ch) ==
  /\ loop[s] = "idle"
  /\ subscribers' = [subscribers EXCEPT ![ch] = @ \union {s}]
  /\ loop' = [loop EXCEPT ![s] = "serving"]
  /\ topic' = [topic EXCEPT ![s] = ch]
  /\ joined' = [joined EXCEPT ![s] = Len(log)]
  /\ UNCHANGED <<queue, written, log, dropped>>

\* A send on the stream's Go channel would block.
FullLate(s) == Len(queue[s]) > Cap         \* mutant of Full: one slot too many
FullEarly(s) == Len(queue[s]) >= Cap - 1   \* mutant of Full: one slot too few

Full(s) == Len(queue[s]) >= Cap

AllStreams(ch) == UNION {subscribers[c] : c \in Channels}          \* mutant of Receivers
WaitingStreams(ch) == {s \in subscribers[ch] : queue[s] = <<>>}   \* mutant of Receivers

Receivers(ch) == subscribers[ch]

\* Mutant of Broadcast: ch <- msg without the default branch.
BlockingBroadcast(ch, m) ==
  /\ \A s \in Receivers(ch) : ~Full(s)
  /\ log' = Append(log, [chan |-> ch, msg |-> m])
  /\ queue' = [s \in Streams |-> IF s \in Receivers(ch)
                                THEN Append(queue[s], Len(log) + 1) ELSE queue[s]]
  /\ UNCHANGED <<subscribers, loop, topic, written, joined, dropped>>

\* broadcast: a non-blocking send to every subscriber of the channel.
Broadcast(ch, m) ==
  LET here == Len(log) + 1 IN
  /\ log' = Append(log, [chan |-> ch, msg |-> m])
  /\ queue' = [s \in Streams |->
                 IF s \in Receivers(ch) /\ ~Full(s)
                 THEN Append(queue[s], here) ELSE queue[s]]
  /\ dropped' = [s \in Streams |->
                 IF s \in Receivers(ch) /\ Full(s)
                 THEN dropped[s] \union {here} ELSE dropped[s]]
  /\ UNCHANGED <<subscribers, loop, topic, written, joined>>

\* case msg := <-sub: one receive and one write of an event.
WriteEvent(s) ==
  /\ loop[s] = "serving"
  /\ queue[s] # <<>>
  /\ written' = [written EXCEPT ![s] = Append(@, Head(queue[s]))]
  /\ queue' = [queue EXCEPT ![s] = Tail(@)]
  /\ UNCHANGED <<subscribers, loop, topic, log, joined, dropped>>

\* The loop returns when the request's context is done.  Until the deferred
\* unsubscribe gets the lock, the stream is registered and nobody reads it.
LeaveLoop(s) ==
  /\ loop[s] = "serving"
  /\ loop' = [loop EXCEPT ![s] = "leaving"]
  /\ UNCHANGED <<subscribers, queue, topic, written, log, joined, dropped>>

NothingRemoved(s) == subscribers[topic[s]]   \* mutant of Removed

Removed(s) == subscribers[topic[s]] \ {s}

Unsubscribe(s) ==
  /\ loop[s] = "leaving"
  /\ subscribers' = [subscribers EXCEPT ![topic[s]] = Removed(s)]
  /\ loop' = [loop EXCEPT ![s] = "gone"]
  /\ UNCHANGED <<queue, topic, written, log, joined, dropped>>

\* The process dies: the map, the Go channels and the handlers go with it.
BrokerCrash ==
  /\ subscribers' = [ch \in Channels |-> {}]
  /\ queue' = [s \in Streams |-> <<>>]
  /\ loop' = [s \in Streams |-> IF s \in Listed THEN "gone" ELSE loop[s]]
  /\ UNCHANGED <<topic, written, log, joined, dropped>>

BrokerNext ==
  \/ \E s \in Streams, ch \in Channels : Subscribe(s, ch)
  \/ \E ch \in Channels, m \in Messages : Broadcast(ch, m)
  \/ \E s \in Streams : WriteEvent(s)
  \/ \E s \in Streams : LeaveLoop(s)
  \/ \E s \in Streams : Unsubscribe(s)
  \/ BrokerCrash

BrokerSpec == BrokerInit /\ [][BrokerNext]_brokerVars
-----------------------------------------------------------------------------
\* Every variable has its type; no Go channel holds more than its capacity.
BrokerTypeOK ==
  /\ subscribers \in [Channels -> SUBSET Streams]
  /\ queue \in [Streams -> Seq(Nat)]
  /\ \A s \in Streams : Len(queue[s]) <= Cap
  /\ loop \in [Streams -> Loops]
  /\ topic \in [Streams -> Channels \union {NoChannel}]
  /\ written \in [Streams -> Seq(Nat)]
  /\ log \in Seq([chan : Channels, msg : Messages])
  /\ joined \in [Streams -> Nat]
  /\ dropped \in [Streams -> SUBSET Nat]

\* The map and the handlers agree (subscribe, the deferred unsubscribe and a
\* restart): a channel lists exactly the streams whose handler looked that
\* channel up and has not returned, so no dead Go channel stays registered.
Registered ==
  \A ch \in Channels :
     subscribers[ch] = {s \in Listed : topic[s] = ch}

\* An event stream carries its own channel's messages only, each at most once,
\* in the order broadcast was called, and none from before it subscribed.
StreamOrder ==
  \A s \in Streams :
     /\ \A i \in 1..Len(Delivered(s)) :
           /\ Delivered(s)[i] \in joined[s] + 1 .. Len(log)
           /\ log[Delivered(s)[i]].chan = topic[s]
     /\ \A i, j \in 1..Len(Delivered(s)) :
           i < j => Delivered(s)[i] < Delivered(s)[j]

\* While a stream is registered, every broadcast on its channel since it
\* subscribed was either sent to it or recorded as an overflow, never both:
\* the default branch of the select is the only way to lose one.
Accounted ==
  \A s \in Listed :
     LET sent == {Delivered(s)[i] : i \in 1..Len(Delivered(s))} IN
     /\ sent \union dropped[s] =
          {p \in joined[s] + 1 .. Len(log) : log[p].chan = topic[s]}
     /\ sent \intersect dropped[s] = {}

\* A message is dropped only behind Cap earlier ones: however slow the client
\* is, the first Cap messages after it subscribed are sent to it.
FirstCapNeverDropped ==
  \A s \in Streams : loop[s] # "gone" =>
     \A p \in dropped[s] :
        /\ Len(Delivered(s)) >= Cap
        /\ Delivered(s)[Cap] < p
-----------------------------------------------------------------------------
\* What a handler that has not subscribed has, and what one that has knows:
\* nothing is buffered, written or lost before subscribe.
Lifecycle ==
  \A s \in Streams :
     IF loop[s] = "idle"
     THEN queue[s] = <<>> /\ written[s] = <<>> /\ dropped[s] = {}
     ELSE topic[s] \in Channels /\ joined[s] <= Len(log)

\* The inductive invariant of the broker.
BrokerInv ==
  /\ BrokerTypeOK
  /\ Registered
  /\ Lifecycle
  /\ StreamOrder
  /\ Accounted
  /\ FirstCapNeverDropped
============================================================================
