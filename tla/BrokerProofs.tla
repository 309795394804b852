---------------------------- MODULE BrokerProofs ----------------------------
(***************************************************************************)
(* What Broker promises, for all sets of channels, streams and messages    *)
(* and every capacity.                                                     *)
(***************************************************************************)
EXTENDS Broker, TLAPS

USE CapAssumption, NoChannelAssumption

-----------------------------------------------------------------------------
\* Moving the head of one sequence to the end of another changes nothing of
\* their concatenation (a handler's receive, seen from Delivered).
LEMMA MoveHead ==
  ASSUME NEW a \in Seq(Nat), NEW b \in Seq(Nat), b # <<>>
  PROVE  Append(a, Head(b)) \o Tail(b) = a \o b
<1>1. Append(a, Head(b)) = a \o <<Head(b)>>
  OBVIOUS
<1>2. b = <<Head(b)>> \o Tail(b)
  OBVIOUS
<1>3. (a \o <<Head(b)>>) \o Tail(b) = a \o (<<Head(b)>> \o Tail(b))
  OBVIOUS
<1> QED BY <1>1, <1>2, <1>3

\* Appending to the second part is appending to the whole (a send).
LEMMA AppendToWhole ==
  ASSUME NEW a \in Seq(Nat), NEW b \in Seq(Nat), NEW x \in Nat
  PROVE  a \o Append(b, x) = Append(a \o b, x)
  OBVIOUS

\* What appending does to the length and the elements.
LEMMA AppendElements ==
  ASSUME NEW d \in Seq(Nat), NEW x \in Nat
  PROVE  /\ Append(d, x) \in Seq(Nat)
         /\ Len(d) \in Nat
         /\ Len(Append(d, x)) = Len(d) + 1
         /\ Append(d, x)[Len(d) + 1] = x
         /\ \A i \in 1..Len(d) : Append(d, x)[i] = d[i]
  OBVIOUS

-----------------------------------------------------------------------------
\* Every step of the broker keeps the types; Broadcast sends only below Cap.
LEMMA BrokerTypeStep ==
  ASSUME BrokerTypeOK, [BrokerNext]_brokerVars
  PROVE  BrokerTypeOK'
<1> USE DEF BrokerTypeOK, Loops
<1>1. ASSUME NEW s \in Streams, NEW ch \in Channels, Subscribe(s, ch)
      PROVE  BrokerTypeOK'
  BY <1>1 DEF Subscribe
<1>2. ASSUME NEW ch \in Channels, NEW m \in Messages, Broadcast(ch, m)
      PROVE  BrokerTypeOK'
  <2>1. log' \in Seq([chan : Channels, msg : Messages])
    BY <1>2 DEF Broadcast, Receivers
  <2>2. queue' \in [Streams -> Seq(Nat)]
    BY <1>2 DEF Broadcast, Receivers
  <2>3. \A s \in Streams : Len(queue'[s]) <= Cap
    BY <1>2 DEF Broadcast, Receivers, Full
  <2>4. dropped' \in [Streams -> SUBSET Nat]
    BY <1>2 DEF Broadcast, Receivers
  <2> QED
    BY <2>1, <2>2, <2>3, <2>4, <1>2 DEF Broadcast, Receivers
<1>3. ASSUME NEW s \in Streams, WriteEvent(s)
      PROVE  BrokerTypeOK'
  <2>1. /\ queue[s] \in Seq(Nat)
        /\ queue[s] # <<>>
    BY <1>3 DEF WriteEvent
  <2>2. /\ Head(queue[s]) \in Nat
        /\ Tail(queue[s]) \in Seq(Nat)
        /\ Len(Tail(queue[s])) <= Len(queue[s])
    BY <2>1
  <2> QED
    BY <2>2, <1>3 DEF WriteEvent
<1>4. ASSUME NEW s \in Streams, LeaveLoop(s)
      PROVE  BrokerTypeOK'
  BY <1>4 DEF LeaveLoop
<1>5. ASSUME NEW s \in Streams, Unsubscribe(s)
      PROVE  BrokerTypeOK'
  BY <1>5 DEF Unsubscribe, Removed
<1>6. CASE BrokerCrash
  BY <1>6 DEF BrokerCrash
<1>7. CASE UNCHANGED brokerVars
  BY <1>7 DEF brokerVars
<1> QED
  BY <1>1, <1>2, <1>3, <1>4, <1>5, <1>6, <1>7 DEF BrokerNext

\* The variables keep their types and no Go channel exceeds its capacity.
THEOREM BrokerTypeCorrect == BrokerSpec => []BrokerTypeOK
<1>1. BrokerInit => BrokerTypeOK
  BY DEF BrokerInit, BrokerTypeOK, Loops
<1>2. BrokerTypeOK /\ [BrokerNext]_brokerVars => BrokerTypeOK'
  BY BrokerTypeStep
<1> QED
  BY <1>1, <1>2, PTL DEF BrokerSpec

-----------------------------------------------------------------------------
\* What each step does to the messages sent on a stream.
LEMMA DeliveredByWrite ==
  ASSUME BrokerTypeOK, NEW t \in Streams, WriteEvent(t)
  PROVE  \A s \in Streams : Delivered(s)' = Delivered(s)
<1> TAKE s \in Streams
<1>1. /\ queue[s] \in Seq(Nat)
      /\ written[s] \in Seq(Nat)
  BY DEF BrokerTypeOK
<1>2. CASE s = t
  <2>1. /\ written'[s] = Append(written[s], Head(queue[s]))
        /\ queue'[s] = Tail(queue[s])
        /\ queue[s] # <<>>
    BY <1>2 DEF WriteEvent, BrokerTypeOK
  <2> QED
    BY <1>1, <2>1, MoveHead DEF Delivered
<1>3. CASE s # t
  BY <1>3 DEF WriteEvent, BrokerTypeOK, Delivered
<1> QED
  BY <1>2, <1>3

LEMMA DeliveredByBroadcast ==
  ASSUME BrokerTypeOK, NEW ch \in Channels, NEW m \in Messages, Broadcast(ch, m),
         NEW s \in Streams
  PROVE  Delivered(s)' = IF s \in subscribers[ch] /\ ~Full(s)
                         THEN Append(Delivered(s), Len(log) + 1)
                         ELSE Delivered(s)
<1>1. /\ queue[s] \in Seq(Nat)
      /\ written[s] \in Seq(Nat)
      /\ Len(log) + 1 \in Nat
  BY DEF BrokerTypeOK
<1>2. /\ written'[s] = written[s]
      /\ queue'[s] = IF s \in subscribers[ch] /\ ~Full(s)
                     THEN Append(queue[s], Len(log) + 1) ELSE queue[s]
  BY DEF Broadcast, Receivers
<1>3. written[s] \o Append(queue[s], Len(log) + 1)
        = Append(written[s] \o queue[s], Len(log) + 1)
  BY <1>1, AppendToWhole
<1>4. CASE s \in subscribers[ch] /\ ~Full(s)
  BY <1>2, <1>3, <1>4 DEF Delivered
<1>5. CASE ~(s \in subscribers[ch] /\ ~Full(s))
  BY <1>2, <1>5 DEF Delivered
<1> QED
  BY <1>4, <1>5

LEMMA DeliveredByCrash ==
  ASSUME BrokerTypeOK, BrokerCrash, NEW s \in Streams
  PROVE  Delivered(s)' = written[s]
BY DEF BrokerCrash, BrokerTypeOK, Delivered

-----------------------------------------------------------------------------
\* A step that broadcasts nothing, subscribes nobody and moves no message out
\* of a stream keeps order, accounting and the bound on drops.
LEMMA QuietStep ==
  ASSUME BrokerInv,
         UNCHANGED <<topic, log, joined, dropped>>,
         \A s \in Streams : Delivered(s)' = Delivered(s),
         \A s \in Streams : loop'[s] # "gone" => loop[s] # "gone",
         Listed' \subseteq Listed
  PROVE  StreamOrder' /\ Accounted' /\ FirstCapNeverDropped'
<1>1. StreamOrder'
  BY DEF BrokerInv, StreamOrder
<1>2. Accounted'
  <2> SUFFICES ASSUME NEW s \in Listed'
               PROVE  LET sent == {Delivered(s)'[i] : i \in 1..Len(Delivered(s)')} IN
                      /\ sent \union dropped'[s] =
                           {p \in joined'[s] + 1 .. Len(log') : log'[p].chan = topic'[s]}
                      /\ sent \intersect dropped'[s] = {}
    BY DEF Accounted
  <2>1. s \in Listed /\ s \in Streams
    BY DEF Listed
  <2> QED
    BY <2>1 DEF BrokerInv, Accounted
<1>3. FirstCapNeverDropped'
  BY DEF BrokerInv, FirstCapNeverDropped
<1> QED
  BY <1>1, <1>2, <1>3

\* subscribe starts a stream with nothing sent, nothing lost and nothing owed.
LEMMA SubscribeStep ==
  ASSUME BrokerInv, NEW t \in Streams, NEW ch \in Channels, Subscribe(t, ch)
  PROVE  BrokerInv'
<1>0. BrokerTypeOK /\ BrokerTypeOK'
  BY BrokerTypeStep DEF BrokerInv, BrokerNext
<1>1. /\ \A s \in Streams : Delivered(s)' = Delivered(s)
      /\ Delivered(t) = <<>>
      /\ dropped[t] = {}
  BY <1>0 DEF BrokerInv, Lifecycle, Subscribe, Delivered
<1>2. \A s \in Streams \ {t} : /\ topic'[s] = topic[s]
                               /\ joined'[s] = joined[s]
                               /\ loop'[s] = loop[s]
  BY <1>0 DEF Subscribe, BrokerTypeOK
<1>3. /\ topic'[t] = ch
      /\ joined'[t] = Len(log)
      /\ loop'[t] = "serving"
      /\ loop[t] = "idle"
      /\ log' = log
      /\ dropped' = dropped
  BY <1>0 DEF Subscribe, BrokerTypeOK
<1>4. Listed' = Listed \union {t}
  BY <1>2, <1>3 DEF Listed
<1>5. Registered'
  BY <1>0, <1>2, <1>3, <1>4 DEF BrokerInv, Registered, Subscribe, BrokerTypeOK, Listed
<1>6. Lifecycle'
  BY <1>0, <1>2, <1>3 DEF BrokerInv, Lifecycle, Subscribe, BrokerTypeOK
<1>7. StreamOrder'
  BY <1>1, <1>2, <1>3 DEF BrokerInv, StreamOrder
<1>8. Accounted'
  <2> SUFFICES ASSUME NEW s \in Listed'
               PROVE  LET sent == {Delivered(s)'[i] : i \in 1..Len(Delivered(s)')} IN
                      /\ sent \union dropped'[s] =
                           {p \in joined'[s] + 1 .. Len(log') : log'[p].chan = topic'[s]}
                      /\ sent \intersect dropped'[s] = {}
    BY DEF Accounted
  <2>1. CASE s = t
    <3>1. joined'[s] + 1 .. Len(log') = {}
      BY <2>1, <1>0, <1>3 DEF BrokerTypeOK
    <3>2. 1..Len(Delivered(s)') = {}
      BY <2>1, <1>1
    <3> QED
      BY <2>1, <1>1, <1>3, <3>1, <3>2
  <2>2. CASE s # t
    <3>1. s \in Listed /\ s \in Streams \ {t}
      BY <1>4, <2>2 DEF Listed
    <3> QED
      BY <3>1, <1>1, <1>2, <1>3 DEF BrokerInv, Accounted
  <2> QED
    BY <2>1, <2>2
<1>9. FirstCapNeverDropped'
  BY <1>1, <1>2, <1>3 DEF BrokerInv, FirstCapNeverDropped
<1> QED
  BY <1>0, <1>5, <1>6, <1>7, <1>8, <1>9 DEF BrokerInv

\* broadcast sends the new position, larger than every other, to the streams
\* with room and charges it to the ones without.
LEMMA BroadcastStep ==
  ASSUME BrokerInv, NEW ch \in Channels, NEW m \in Messages, Broadcast(ch, m)
  PROVE  BrokerInv'
<1> DEFINE here == Len(log) + 1
           gets(s) == s \in subscribers[ch] /\ ~Full(s)
           misses(s) == s \in subscribers[ch] /\ Full(s)
<1>0. BrokerTypeOK /\ BrokerTypeOK'
  BY BrokerTypeStep DEF BrokerInv, BrokerNext
<1>1. /\ Len(log') = here
      /\ here \in Nat
      /\ log'[here].chan = ch
      /\ \A p \in 1..Len(log) : log'[p] = log[p]
  <2>1. log' = Append(log, [chan |-> ch, msg |-> m]) /\ log \in Seq([chan : Channels, msg : Messages])
    BY <1>0 DEF Broadcast, Receivers, BrokerTypeOK
  <2> QED
    BY <2>1
<1>2. Listed' = Listed /\ UNCHANGED <<subscribers, loop, topic, written, joined>>
  BY DEF Broadcast, Receivers, Listed
<1>3. \A s \in Streams :
        /\ Delivered(s)' = IF gets(s) THEN Append(Delivered(s), here) ELSE Delivered(s)
        /\ Delivered(s) \in Seq(Nat)
        /\ dropped'[s] = IF misses(s) THEN dropped[s] \union {here} ELSE dropped[s]
  <2> TAKE s \in Streams
  <2>1. Delivered(s) \in Seq(Nat)
    BY <1>0 DEF BrokerTypeOK, Delivered
  <2>2. dropped'[s] = IF misses(s) THEN dropped[s] \union {here} ELSE dropped[s]
    BY DEF Broadcast, Receivers
  <2> QED
    BY <1>0, <2>1, <2>2, DeliveredByBroadcast
<1>4. \A s \in Streams : s \in subscribers[ch] <=> s \in Listed /\ topic[s] = ch
  BY DEF BrokerInv, Registered
<1>5. Registered'
  BY <1>2 DEF BrokerInv, Registered
<1>6. Lifecycle'
  <2> SUFFICES ASSUME NEW s \in Streams
               PROVE  IF loop'[s] = "idle"
                      THEN queue'[s] = <<>> /\ written'[s] = <<>> /\ dropped'[s] = {}
                      ELSE topic'[s] \in Channels /\ joined'[s] <= Len(log')
    BY DEF Lifecycle
  <2>1. CASE loop[s] = "idle"
    <3>1. s \notin subscribers[ch]
      BY <2>1, <1>4 DEF Listed
    <3> QED
      BY <3>1, <2>1, <1>2 DEF BrokerInv, Lifecycle, Broadcast, Receivers
  <2>2. CASE loop[s] # "idle"
    BY <2>2, <1>0, <1>1, <1>2 DEF BrokerInv, Lifecycle, BrokerTypeOK
  <2> QED
    BY <2>1, <2>2
<1>7. StreamOrder'
  <2> SUFFICES ASSUME NEW s \in Streams
               PROVE  /\ \A i \in 1..Len(Delivered(s)') :
                           /\ Delivered(s)'[i] \in joined'[s] + 1 .. Len(log')
                           /\ log'[Delivered(s)'[i]].chan = topic'[s]
                      /\ \A i, j \in 1..Len(Delivered(s)') :
                           i < j => Delivered(s)'[i] < Delivered(s)'[j]
    BY DEF StreamOrder
  <2>0. /\ joined'[s] = joined[s]
        /\ joined[s] \in Nat
        /\ topic'[s] = topic[s]
        /\ Len(log) \in Nat
    BY <1>0, <1>2 DEF BrokerTypeOK
  <2>1. /\ \A i \in 1..Len(Delivered(s)) :
              /\ Delivered(s)[i] \in joined[s] + 1 .. Len(log)
              /\ log[Delivered(s)[i]].chan = topic[s]
        /\ \A i, j \in 1..Len(Delivered(s)) :
              i < j => Delivered(s)[i] < Delivered(s)[j]
    BY DEF BrokerInv, StreamOrder
  <2>2. \A i \in 1..Len(Delivered(s)) :
              /\ Delivered(s)[i] \in joined[s] + 1 .. here
              /\ Delivered(s)[i] < here
              /\ log'[Delivered(s)[i]].chan = topic[s]
    <3> SUFFICES ASSUME NEW i \in 1..Len(Delivered(s))
                 PROVE  /\ Delivered(s)[i] \in joined[s] + 1 .. here
                        /\ Delivered(s)[i] < here
                        /\ log'[Delivered(s)[i]].chan = topic[s]
      OBVIOUS
    <3>1. Delivered(s)[i] \in 1..Len(log)
      BY <2>0, <2>1
    <3> QED
      BY <2>0, <2>1, <3>1, <1>1
  <2>3. CASE gets(s)
    <3>1. /\ loop[s] # "idle"
          /\ topic[s] = ch
      BY <2>3, <1>4 DEF Listed
    <3>2. joined[s] <= Len(log)
      BY <3>1 DEF BrokerInv, Lifecycle
    <3>3. here \in joined[s] + 1 .. here
      BY <3>2, <2>0
    <3>4. /\ Len(Delivered(s)') = Len(Delivered(s)) + 1
          /\ Delivered(s)'[Len(Delivered(s)) + 1] = here
          /\ \A i \in 1..Len(Delivered(s)) : Delivered(s)'[i] = Delivered(s)[i]
          /\ Len(Delivered(s)) \in Nat
      <4>1. Delivered(s)' = Append(Delivered(s), here) /\ Delivered(s) \in Seq(Nat)
        BY <2>3, <1>3
      <4> HIDE DEF here
      <4> QED
        BY <4>1, <1>1, AppendElements
    <3>5. \A i \in 1..Len(Delivered(s)') : i \in 1..Len(Delivered(s)) \/ i = Len(Delivered(s)) + 1
      BY <3>4
    <3> HIDE DEF here
    <3>6. \A i \in 1..Len(Delivered(s)') :
             /\ Delivered(s)'[i] \in joined'[s] + 1 .. Len(log')
             /\ log'[Delivered(s)'[i]].chan = topic'[s]
      BY <2>0, <2>2, <3>1, <3>3, <3>4, <3>5, <1>1
    <3>7. \A i, j \in 1..Len(Delivered(s)') :
             i < j => Delivered(s)'[i] < Delivered(s)'[j]
      <4> SUFFICES ASSUME NEW i \in 1..Len(Delivered(s)'), NEW j \in 1..Len(Delivered(s)'), i < j
                   PROVE  Delivered(s)'[i] < Delivered(s)'[j]
        OBVIOUS
      <4>1. i \in 1..Len(Delivered(s))
        BY <3>4
      <4> QED
        BY <4>1, <2>1, <2>2, <3>4, <3>5
    <3> QED
      BY <3>6, <3>7
  <2>4. CASE ~gets(s)
    BY <2>4, <1>3, <2>0, <2>1, <2>2, <1>1
  <2> QED
    BY <2>3, <2>4
<1>8. Accounted'
  <2> SUFFICES ASSUME NEW s \in Listed
               PROVE  LET sent == {Delivered(s)'[i] : i \in 1..Len(Delivered(s)')} IN
                      /\ sent \union dropped'[s] =
                           {p \in joined'[s] + 1 .. Len(log') : log'[p].chan = topic'[s]}
                      /\ sent \intersect dropped'[s] = {}
    BY <1>2 DEF Accounted
  <2> DEFINE sent == {Delivered(s)[i] : i \in 1..Len(Delivered(s))}
             owed == {p \in joined[s] + 1 .. Len(log) : log[p].chan = topic[s]}
  <2>0. /\ s \in Streams
        /\ joined[s] \in Nat
        /\ joined[s] <= Len(log)
        /\ Len(log) \in Nat
        /\ joined'[s] = joined[s] /\ topic'[s] = topic[s]
    BY <1>0, <1>2 DEF BrokerTypeOK, BrokerInv, Lifecycle, Listed
  <2>1. /\ sent \union dropped[s] = owed
        /\ sent \intersect dropped[s] = {}
    BY DEF BrokerInv, Accounted
  <2>2. here \notin owed
    BY <2>0
  <2>3. {p \in joined'[s] + 1 .. Len(log') : log'[p].chan = topic'[s]}
          = IF topic[s] = ch THEN owed \union {here} ELSE owed
    <3> HIDE DEF here
    <3>1. here = Len(log) + 1
      BY DEF here
    <3>2. joined[s] + 1 .. here = (joined[s] + 1 .. Len(log)) \union {here}
      BY <2>0, <3>1
    <3>3. \A p \in joined[s] + 1 .. Len(log) : log'[p] = log[p]
      BY <2>0, <1>1
    <3> QED
      BY <3>2, <3>3, <1>1, <2>0
  <2>4. {Delivered(s)'[i] : i \in 1..Len(Delivered(s)')}
          = IF gets(s) THEN sent \union {here} ELSE sent
    <3>1. CASE gets(s)
      <4>1. /\ Len(Delivered(s)') = Len(Delivered(s)) + 1
            /\ Delivered(s)'[Len(Delivered(s)) + 1] = here
            /\ \A i \in 1..Len(Delivered(s)) : Delivered(s)'[i] = Delivered(s)[i]
            /\ Len(Delivered(s)) \in Nat
        <5>1. Delivered(s)' = Append(Delivered(s), here) /\ Delivered(s) \in Seq(Nat)
          BY <3>1, <2>0, <1>3
        <5> HIDE DEF here
        <5> QED
          BY <5>1, <1>1, AppendElements
      <4>2. 1..Len(Delivered(s)') = (1..Len(Delivered(s))) \union {Len(Delivered(s)) + 1}
        BY <4>1
      <4> QED
        BY <3>1, <4>1, <4>2
    <3>2. CASE ~gets(s)
      BY <3>2, <2>0, <1>3
    <3> QED
      BY <3>1, <3>2
  <2>5. dropped'[s] = IF misses(s) THEN dropped[s] \union {here} ELSE dropped[s]
    BY <2>0, <1>3
  <2>6. topic[s] = ch <=> gets(s) \/ misses(s)
    BY <2>0, <1>4
  <2> HIDE DEF here, sent, owed
  <2> QED
    BY <2>1, <2>2, <2>3, <2>4, <2>5, <2>6
<1>9. FirstCapNeverDropped'
  <2> SUFFICES ASSUME NEW s \in Streams, loop'[s] # "gone", NEW p \in dropped'[s]
               PROVE  /\ Len(Delivered(s)') >= Cap
                      /\ Delivered(s)'[Cap] < p
    BY DEF FirstCapNeverDropped
  <2>0. /\ Delivered(s) \in Seq(Nat)
        /\ Len(Delivered(s)) \in Nat
        /\ loop[s] # "gone"
    <3>1. Delivered(s) \in Seq(Nat)
      BY <1>3
    <3> QED
      BY <3>1, <1>2
  <2>1. CASE p \in dropped[s]
    <3>1. Len(Delivered(s)) >= Cap /\ Delivered(s)[Cap] < p
      BY <2>0, <2>1 DEF BrokerInv, FirstCapNeverDropped
    <3>2. Cap \in 1..Len(Delivered(s))
      BY <2>0, <3>1
    <3>3. CASE gets(s)
      <4>1. Delivered(s)' = Append(Delivered(s), here)
        BY <3>3, <1>3
      <4> HIDE DEF here
      <4>2. /\ Len(Delivered(s)') = Len(Delivered(s)) + 1
            /\ Delivered(s)'[Cap] = Delivered(s)[Cap]
        BY <4>1, <3>2, <2>0, <1>1, AppendElements
      <4> QED
        BY <4>2, <3>1, <2>0
    <3>4. CASE ~gets(s)
      BY <3>1, <3>4, <1>3
    <3> QED
      BY <3>3, <3>4
  <2>2. CASE p \notin dropped[s]
    <3>1. p = here /\ Full(s) /\ ~gets(s)
      BY <2>2, <1>3
    <3>2. /\ Len(queue[s]) >= Cap
          /\ queue[s] \in Seq(Nat)
          /\ written[s] \in Seq(Nat)
      BY <3>1, <1>0 DEF Full, BrokerTypeOK
    <3>3. Len(Delivered(s)) >= Cap
      <4> DEFINE a == written[s]
                 b == queue[s]
      <4>1. a \in Seq(Nat) /\ b \in Seq(Nat) /\ Len(b) >= Cap
        BY <3>2
      <4> HIDE DEF a, b
      <4>2. Len(a \o b) >= Cap
        BY <4>1
      <4> QED
        BY <4>2 DEF Delivered, a, b
    <3>4. Cap \in 1..Len(Delivered(s))
      BY <2>0, <3>3
    <3>5. Delivered(s)[Cap] < here
      <4>1. Delivered(s)[Cap] \in joined[s] + 1 .. Len(log)
        BY <3>4 DEF BrokerInv, StreamOrder
      <4>2. joined[s] \in Nat /\ Len(log) \in Nat
        BY <1>0 DEF BrokerTypeOK
      <4> QED
        BY <4>1, <4>2
    <3> QED
      BY <3>1, <3>3, <3>5, <1>3
  <2> QED
    BY <2>1, <2>2
<1> QED
  BY <1>0, <1>5, <1>6, <1>7, <1>8, <1>9 DEF BrokerInv

\* A crash forgets what was queued; what was written stays an ordered prefix.
LEMMA CrashStep ==
  ASSUME BrokerInv, BrokerCrash
  PROVE  BrokerInv'
<1>0. BrokerTypeOK /\ BrokerTypeOK'
  BY BrokerTypeStep DEF BrokerInv, BrokerNext
<1>1. Listed' = {}
  BY DEF BrokerCrash, Listed
<1>2. Registered'
  BY <1>1 DEF Registered, BrokerCrash
<1>3. Lifecycle'
  BY <1>0 DEF BrokerInv, Lifecycle, BrokerCrash, Listed
<1>4. StreamOrder'
  <2> SUFFICES ASSUME NEW s \in Streams
               PROVE  /\ \A i \in 1..Len(written[s]) :
                           /\ written[s][i] \in joined[s] + 1 .. Len(log)
                           /\ log[written[s][i]].chan = topic[s]
                      /\ \A i, j \in 1..Len(written[s]) :
                           i < j => written[s][i] < written[s][j]
    BY <1>0, DeliveredByCrash DEF StreamOrder, BrokerCrash
  <2>1. /\ written[s] \in Seq(Nat)
        /\ queue[s] \in Seq(Nat)
    BY <1>0 DEF BrokerTypeOK
  <2>2. /\ 1..Len(written[s]) \subseteq 1..Len(Delivered(s))
        /\ \A i \in 1..Len(written[s]) : Delivered(s)[i] = written[s][i]
    <3> DEFINE a == written[s]
               b == queue[s]
    <3>1. a \in Seq(Nat) /\ b \in Seq(Nat)
      BY <2>1
    <3> HIDE DEF a, b
    <3>2. /\ 1..Len(a) \subseteq 1..Len(a \o b)
          /\ \A i \in 1..Len(a) : (a \o b)[i] = a[i]
      BY <3>1
    <3> QED
      BY <3>2 DEF Delivered, a, b
  <2> QED
    BY <2>2 DEF BrokerInv, StreamOrder
<1>5. Accounted'
  BY <1>1 DEF Accounted
<1>6. FirstCapNeverDropped'
  <2> SUFFICES ASSUME NEW s \in Streams, loop'[s] # "gone"
               PROVE  dropped'[s] = {}
    BY DEF FirstCapNeverDropped
  <2>1. loop[s] = "idle"
    BY <1>0 DEF BrokerCrash, BrokerTypeOK, Listed, Loops
  <2> QED
    BY <2>1 DEF BrokerInv, Lifecycle, BrokerCrash
<1> QED
  BY <1>0, <1>2, <1>3, <1>4, <1>5, <1>6 DEF BrokerInv

LEMMA BrokerStep ==
  ASSUME BrokerInv, [BrokerNext]_brokerVars
  PROVE  BrokerInv'
<1>0. BrokerTypeOK /\ BrokerTypeOK'
  BY BrokerTypeStep DEF BrokerInv
<1>1. ASSUME NEW s \in Streams, NEW ch \in Channels, Subscribe(s, ch)
      PROVE  BrokerInv'
  BY <1>1, SubscribeStep
<1>2. ASSUME NEW ch \in Channels, NEW m \in Messages, Broadcast(ch, m)
      PROVE  BrokerInv'
  BY <1>2, BroadcastStep
<1>3. ASSUME NEW t \in Streams, WriteEvent(t)
      PROVE  BrokerInv'
  <2>1. Registered' /\ Listed' = Listed
    BY <1>3 DEF BrokerInv, Registered, WriteEvent, Listed
  <2>2. Lifecycle'
    BY <1>0, <1>3 DEF BrokerInv, Lifecycle, WriteEvent, BrokerTypeOK
  <2>3. StreamOrder' /\ Accounted' /\ FirstCapNeverDropped'
    BY <1>0, <1>3, <2>1, DeliveredByWrite, QuietStep DEF WriteEvent
  <2> QED
    BY <1>0, <2>1, <2>2, <2>3 DEF BrokerInv
<1>4. ASSUME NEW t \in Streams, LeaveLoop(t)
      PROVE  BrokerInv'
  <2>1. Registered' /\ Listed' = Listed
    BY <1>0, <1>4 DEF BrokerInv, Registered, LeaveLoop, Listed, BrokerTypeOK
  <2>2. Lifecycle'
    BY <1>0, <1>4 DEF BrokerInv, Lifecycle, LeaveLoop, BrokerTypeOK
  <2>3. \A s \in Streams : Delivered(s)' = Delivered(s)
    BY <1>4 DEF LeaveLoop, Delivered
  <2>4. \A s \in Streams : loop'[s] # "gone" => loop[s] # "gone"
    BY <1>0, <1>4 DEF LeaveLoop, BrokerTypeOK
  <2>5. StreamOrder' /\ Accounted' /\ FirstCapNeverDropped'
    BY <1>4, <2>1, <2>3, <2>4, QuietStep DEF LeaveLoop
  <2> QED
    BY <1>0, <2>1, <2>2, <2>5 DEF BrokerInv
<1>5. ASSUME NEW t \in Streams, Unsubscribe(t)
      PROVE  BrokerInv'
  <2>0. topic[t] \in Channels
    BY <1>5 DEF BrokerInv, Lifecycle, Unsubscribe
  <2>1. Listed' = Listed \ {t}
    BY <1>0, <1>5 DEF Unsubscribe, Removed, Listed, BrokerTypeOK
  <2>2. Registered'
    BY <1>0, <1>5, <2>0, <2>1 DEF BrokerInv, Registered, Unsubscribe, Removed, Listed, BrokerTypeOK
  <2>3. Lifecycle'
    BY <1>0, <1>5 DEF BrokerInv, Lifecycle, Unsubscribe, BrokerTypeOK
  <2>4. \A s \in Streams : Delivered(s)' = Delivered(s)
    BY <1>5 DEF Unsubscribe, Removed, Delivered
  <2>5. \A s \in Streams : loop'[s] # "gone" => loop[s] # "gone"
    BY <1>0, <1>5 DEF Unsubscribe, Removed, BrokerTypeOK
  <2>6. StreamOrder' /\ Accounted' /\ FirstCapNeverDropped'
    BY <1>5, <2>1, <2>4, <2>5, QuietStep DEF Unsubscribe, Removed
  <2> QED
    BY <1>0, <2>2, <2>3, <2>6 DEF BrokerInv
<1>6. CASE BrokerCrash
  BY <1>6, CrashStep
<1>7. CASE UNCHANGED brokerVars
  <2>1. Registered' /\ Lifecycle' /\ Listed' = Listed
    BY <1>7 DEF brokerVars, BrokerInv, Registered, Lifecycle, Listed
  <2>2. \A s \in Streams : Delivered(s)' = Delivered(s)
    BY <1>7 DEF brokerVars, Delivered
  <2>3. StreamOrder' /\ Accounted' /\ FirstCapNeverDropped'
    BY <1>7, <2>1, <2>2, QuietStep DEF brokerVars
  <2> QED
    BY <1>0, <2>1, <2>3 DEF BrokerInv
<1> QED
  BY <1>1, <1>2, <1>3, <1>4, <1>5, <1>6, <1>7 DEF BrokerNext

LEMMA BrokerInitially == BrokerInit => BrokerInv
<1> SUFFICES ASSUME BrokerInit PROVE BrokerInv
  OBVIOUS
<1>1. BrokerTypeOK
  BY DEF BrokerInit, BrokerTypeOK, Loops
<1>2. Listed = {} /\ \A s \in Streams : Delivered(s) = <<>> /\ dropped[s] = {}
  BY DEF BrokerInit, Listed, Delivered
<1>3. Registered
  BY <1>2 DEF BrokerInit, Registered
<1>4. Lifecycle
  BY DEF BrokerInit, Lifecycle
<1>5. StreamOrder /\ Accounted /\ FirstCapNeverDropped
  BY <1>2 DEF StreamOrder, Accounted, FirstCapNeverDropped
<1> QED
  BY <1>1, <1>3, <1>4, <1>5 DEF BrokerInv

-----------------------------------------------------------------------------
\* The inductive invariant of subscribe, unsubscribe, broadcast and handleSSE.
THEOREM BrokerInvariant == BrokerSpec => []BrokerInv
<1>1. BrokerInit => BrokerInv
  BY BrokerInitially
<1>2. BrokerInv /\ [BrokerNext]_brokerVars => BrokerInv'
  BY BrokerStep
<1> QED
  BY <1>1, <1>2, PTL DEF BrokerSpec

\* A channel's entry in s.subscribers lists exactly the live streams of that
\* channel, whatever subscriptions, returns and restarts happened before.
THEOREM NoStaleSubscriber == BrokerSpec => []Registered
BY BrokerInvariant, PTL DEF BrokerInv

\* A stream delivers its own channel's messages once and in broadcast order.
THEOREM StreamsKeepOrder == BrokerSpec => []StreamOrder
BY BrokerInvariant, PTL DEF BrokerInv

\* A registered stream loses a message only through broadcast's default branch.
THEOREM OverflowIsTheOnlyLoss == BrokerSpec => []Accounted
BY BrokerInvariant, PTL DEF BrokerInv

\* The buffer absorbs the first Cap messages of every stream.
THEOREM BufferAbsorbsCap == BrokerSpec => []FirstCapNeverDropped
BY BrokerInvariant, PTL DEF BrokerInv

=============================================================================
