------------------------- MODULE PostPipelineProofs -------------------------
(***************************************************************************)
(* What the message path promises, for all sets of requests, integrations, *)
(* channels and streams and every buffer capacity: its steps are steps of  *)
(* the broker, and its invariants.                                         *)
(***************************************************************************)
EXTENDS PostPipeline, BrokerProofs

USE MessagesAssumption

-----------------------------------------------------------------------------
\* Every request has two messages of its own.
LEMMA MessageNames ==
  /\ \A r \in Requests : Own(r) \in Messages /\ Reply(r) \in Messages
  /\ \A r, q \in Requests : Own(r) # Reply(q)
  /\ \A r, q \in Requests : Own(r) = Own(q) => r = q
  /\ \A r, q \in Requests : Reply(r) = Reply(q) => r = q
  /\ \A m \in Messages : \E r \in Requests : m = Own(r) \/ m = Reply(r)
BY DEF Own, Reply

-----------------------------------------------------------------------------
\* The table: what each step of a statement does to its types and invariant.
LEMMA BeginStep ==
  ASSUME TableTypeOK, TableInv, NEW i \in Messages, NEW ch \in Channels, Begin(i, ch)
  PROVE  TableTypeOK' /\ TableInv'
<1>1. TableTypeOK'
  BY DEF TableTypeOK, Begin, Phases
<1>2. \A j \in Messages : Numbered(j)' <=> Numbered(j)
  BY DEF TableTypeOK, Begin, Numbered
<1>3. TableInv'
  BY <1>1, <1>2 DEF TableTypeOK, TableInv, Begin
<1> QED
  BY <1>1, <1>3

LEMMA NumberStep ==
  ASSUME TableTypeOK, TableInv, NEW i \in Messages, Number(i)
  PROVE  TableTypeOK' /\ TableInv'
<1>1. TableTypeOK'
  BY DEF TableTypeOK, Number, Phases
<1>2. \A j \in Messages : Numbered(j)' <=> j = i \/ Numbered(j)
  BY DEF TableTypeOK, Number, Numbered
<1>3. TableInv'
  BY <1>1, <1>2 DEF TableTypeOK, TableInv, Number
<1> QED
  BY <1>1, <1>3

LEMMA CommitStep ==
  ASSUME TableTypeOK, TableInv, NEW i \in Messages, Commit(i)
  PROVE  TableTypeOK' /\ TableInv'
<1>1. TableTypeOK'
  BY DEF TableTypeOK, Commit, Phases
<1>2. \A j \in Messages : Numbered(j)' <=> Numbered(j)
  BY DEF TableTypeOK, Commit, Numbered
<1>3. TableInv'
  BY <1>1, <1>2 DEF TableTypeOK, TableInv, Commit
<1> QED
  BY <1>1, <1>3

LEMMA AbortStep ==
  ASSUME TableTypeOK, TableInv, NEW i \in Messages, Abort(i)
  PROVE  TableTypeOK' /\ TableInv'
<1>1. TableTypeOK'
  BY DEF TableTypeOK, Abort, Phases
<1>2. \A j \in Messages : Numbered(j)' => Numbered(j)
  BY DEF TableTypeOK, Abort, Numbered
<1>3. TableInv'
  BY <1>1, <1>2 DEF TableTypeOK, TableInv, Abort
<1> QED
  BY <1>1, <1>3
-----------------------------------------------------------------------------
\* What a broadcast does to the history of broadcasts.
LEMMA BroadcastLog ==
  ASSUME BrokerTypeOK, NEW ch \in Channels, NEW m \in Messages, Broadcast(ch, m)
  PROVE  /\ Len(log) \in Nat
         /\ Len(log') = Len(log) + 1
         /\ log'[Len(log) + 1] = [chan |-> ch, msg |-> m]
         /\ \A p \in 1..Len(log) : log'[p] = log[p]
         /\ \A p \in 1..Len(log') : p \in 1..Len(log) \/ p = Len(log) + 1
         /\ \A n : Published(n)' <=> Published(n) \/ n = m
<1>1. /\ log \in Seq([chan : Channels, msg : Messages])
      /\ log' = Append(log, [chan |-> ch, msg |-> m])
  BY DEF BrokerTypeOK, Broadcast
<1>2. /\ Len(log) \in Nat
      /\ Len(log') = Len(log) + 1
      /\ log'[Len(log) + 1] = [chan |-> ch, msg |-> m]
      /\ \A p \in 1..Len(log) : log'[p] = log[p]
  BY <1>1
<1>3. \A p \in 1..Len(log') : p \in 1..Len(log) \/ p = Len(log) + 1
  BY <1>2
<1>4. \A n : Published(n)' <=> Published(n) \/ n = m
  <2>1. 1..Len(log') = (1..Len(log)) \union {Len(log) + 1}
    BY <1>2
  <2> QED
    BY <1>2, <2>1 DEF Published
<1> QED
  BY <1>2, <1>3, <1>4

-----------------------------------------------------------------------------
\* Every step of the message path is a step of the broker or leaves it alone.
LEMMA ChannelOfRow ==
  ASSUME PipelineTypeOK, TableInv, HandlerInv, NEW r \in Requests,
         pc[r] \in {"broadcast", "dispatch", "announce"}
  PROVE  chan[Own(r)] \in Channels
BY MessageNames DEF TableInv, HandlerInv, HandlerAt

LEMMA PipelineBrokerStep ==
  ASSUME PipelineTypeOK, TableInv, HandlerInv, [PipelineNext]_pipelineVars
  PROVE  [BrokerNext]_brokerVars
<1>1. ASSUME NEW r \in Requests, RequestArrives(r)
      PROVE  UNCHANGED brokerVars
  BY <1>1 DEF RequestArrives, Reject, Accept
<1>2. ASSUME NEW r \in Requests, BroadcastOwn(r)
      PROVE  BrokerNext
  <2>1. chan[Own(r)] \in Channels /\ Own(r) \in Messages
    BY <1>2, ChannelOfRow, MessageNames DEF BroadcastOwn, Goto
  <2> QED
    BY <1>2, <2>1 DEF BroadcastOwn, BrokerNext
<1>3. ASSUME NEW r \in Requests, BroadcastReply(r)
      PROVE  BrokerNext
  <2>1. chan[Own(r)] \in Channels /\ Reply(r) \in Messages
    BY <1>3, ChannelOfRow, MessageNames DEF BroadcastReply, Goto
  <2> QED
    BY <1>3, <2>1 DEF BroadcastReply, BrokerNext
<1>4. ASSUME NEW r \in Requests,
             InsertReturns(r) \/ InsertFails(r) \/ NoDispatch(r) \/ Answer(r)
               \/ ReplyReturns(r) \/ ReplyFails(r) \/ CallAbandoned(r)
      PROVE  UNCHANGED brokerVars
  BY <1>4 DEF InsertReturns, InsertFails, NoDispatch, Answer, ReplyReturns, ReplyFails,
              CallAbandoned
<1>5. ASSUME NEW i \in Messages, DbStep(i)
      PROVE  UNCHANGED brokerVars
  BY <1>5 DEF DbStep
<1>6. ASSUME NEW s \in Streams, StreamStep(s)
      PROVE  BrokerNext
  BY <1>6 DEF StreamStep, BrokerNext
<1>7. CASE ServerCrash
  BY <1>7 DEF ServerCrash, BrokerNext
<1>8. CASE UNCHANGED pipelineVars
  BY <1>8 DEF pipelineVars, brokerVars
<1> QED
  BY <1>1, <1>2, <1>3, <1>4, <1>5, <1>6, <1>7, <1>8 DEF PipelineNext, HandlerStep
-----------------------------------------------------------------------------
\* What is in the log is the broadcast of a message.
LEMMA LogEntry ==
  ASSUME BrokerTypeOK, NEW p \in 1..Len(log)
  PROVE  log[p].msg \in Messages /\ Published(log[p].msg)
<1> DEFINE Entry == [chan : Channels, msg : Messages]
<1>1. log[p] \in Entry
  <2>1. log \in Seq(Entry)
    BY DEF BrokerTypeOK
  <2> HIDE DEF Entry
  <2> QED
    BY <2>1
<1>2. log[p].msg \in Messages
  BY <1>1
<1> QED
  BY <1>2 DEF Published

\* A step that writes no row and broadcasts nothing keeps all that is said of
\* rows and broadcasts.
LEMMA SameRows ==
  ASSUME PipelineInv, UNCHANGED <<tableVars, log>>
  PROVE  /\ TableTypeOK' /\ TableInv'
         /\ OnlyCommittedBroadcast' /\ BroadcastOnce'
         /\ RepliesLater' /\ ReplyFollowsTrigger'
         /\ \A m : Published(m)' <=> Published(m)
<1>1. TableTypeOK' /\ TableInv'
  BY DEF PipelineInv, PipelineTypeOK, TableTypeOK, TableInv, Numbered, tableVars
<1>2. \A m : Published(m)' <=> Published(m)
  BY DEF Published
<1>3. OnlyCommittedBroadcast' /\ BroadcastOnce'
  BY DEF PipelineInv, OnlyCommittedBroadcast, BroadcastOnce, tableVars
<1>4. RepliesLater'
  BY DEF PipelineInv, RepliesLater, Numbered, tableVars
<1>5. ReplyFollowsTrigger'
  BY <1>2 DEF PipelineInv, ReplyFollowsTrigger, tableVars
<1> QED
  BY <1>1, <1>2, <1>3, <1>4, <1>5

\* A handler that only goes on, after a reply of the database or without one.
LEMMA HandlerMoves ==
  ASSUME PipelineInv, NEW r \in Requests,
         Reject(r) \/ InsertReturns(r) \/ InsertFails(r) \/ NoDispatch(r)
           \/ ReplyReturns(r) \/ ReplyFails(r) \/ CallAbandoned(r)
  PROVE  PipelineInv'
<1>1. UNCHANGED <<mention, tableVars, brokerVars>>
  BY DEF Reject, InsertReturns, InsertFails, NoDispatch, ReplyReturns, ReplyFails,
         CallAbandoned
<1>2. UNCHANGED log
  BY <1>1 DEF brokerVars
<1>3. PICK from \in {"idle", "insert", "dispatch", "reply"},
            to \in {"rejected", "broadcast", "failed", "ok", "announce"} :
        /\ Goto(r, from, to)
        /\ \/ from = "idle" /\ to = "rejected"
           \/ from = "insert" /\ to = "broadcast" /\ phase[Own(r)] = "committed"
           \/ from = "insert" /\ to = "failed"
           \/ from = "dispatch" /\ to = "ok"
           \/ from = "reply" /\ to = "announce" /\ phase[Reply(r)] = "committed"
           \/ from = "reply" /\ to = "ok"
  BY DEF Reject, InsertReturns, InsertFails, NoDispatch, ReplyReturns, ReplyFails,
         CallAbandoned, Stored
<1>4. PipelineTypeOK'
  <2>1. BrokerTypeOK'
    BY <1>1 DEF PipelineInv, PipelineTypeOK, BrokerTypeOK, brokerVars, Loops
  <2> QED
    BY <2>1, <1>1, <1>2, <1>3, SameRows
    DEF PipelineInv, PipelineTypeOK, Goto, Done, Going
<1>5. HandlerInv'
  <2> SUFFICES ASSUME NEW q \in Requests
               PROVE  HandlerAt(q)'
    BY DEF HandlerInv
  <2>1. HandlerAt(q)
    BY DEF PipelineInv, HandlerInv
  <2>2. phase' = phase /\ \A m : Published(m)' <=> Published(m)
    BY <1>1, <1>2, SameRows DEF tableVars
  <2>3. CASE q # r
    BY <2>1, <2>2, <2>3, <1>3 DEF HandlerAt, Goto, PipelineInv, PipelineTypeOK
  <2>4. CASE q = r
    BY <2>1, <2>2, <2>4, <1>3 DEF HandlerAt, Goto, PipelineInv, PipelineTypeOK
  <2> QED
    BY <2>3, <2>4
<1> QED
  BY <1>1, <1>2, <1>4, <1>5, SameRows DEF PipelineInv
-----------------------------------------------------------------------------
\* A statement begins: the request's own, or its answer's.
LEMMA AcceptKeeps ==
  ASSUME PipelineInv, NEW r \in Requests, NEW ch \in Channels, NEW b \in BOOLEAN,
         Accept(r, ch, b)
  PROVE  PipelineInv'
<1>1. /\ Begin(Own(r), ch)
      /\ Goto(r, "idle", "insert")
      /\ mention' = [mention EXCEPT ![r] = b]
      /\ UNCHANGED brokerVars
      /\ log' = log
  BY DEF Accept, brokerVars
<1>2. TableTypeOK' /\ TableInv'
  BY <1>1, BeginStep, MessageNames DEF PipelineInv, PipelineTypeOK
<1>3. \A m : Published(m)' <=> Published(m)
  BY <1>1 DEF Published
<1>4. \A m \in Messages :
        m # Own(r) => /\ phase'[m] = phase[m] /\ chan'[m] = chan[m]
                      /\ stamp'[m] = stamp[m] /\ id'[m] = id[m]
  BY <1>1 DEF PipelineInv, PipelineTypeOK, TableTypeOK, Begin
<1>5. /\ phase[Own(r)] = "new" /\ phase'[Own(r)] = "begun"
      /\ ~Published(Own(r)) /\ phase[Reply(r)] = "new"
  BY <1>1, MessageNames
  DEF PipelineInv, HandlerInv, HandlerAt, PipelineTypeOK, TableTypeOK, Begin, Goto
<1>6. PipelineTypeOK'
  BY <1>1, <1>2 DEF PipelineInv, PipelineTypeOK, BrokerTypeOK, brokerVars, Loops,
                    Goto, Going, Done
<1>7. HandlerInv'
  <2> SUFFICES ASSUME NEW q \in Requests
               PROVE  HandlerAt(q)'
    BY DEF HandlerInv
  <2>1. HandlerAt(q)
    BY DEF PipelineInv, HandlerInv
  <2>2. CASE q # r
    BY <2>1, <2>2, <1>1, <1>3, <1>4, MessageNames
    DEF HandlerAt, Goto, PipelineInv, PipelineTypeOK
  <2>3. CASE q = r
    BY <2>1, <2>3, <1>1, <1>3, <1>4, <1>5, MessageNames
    DEF HandlerAt, Goto, PipelineInv, PipelineTypeOK
  <2> QED
    BY <2>2, <2>3
<1>8. OnlyCommittedBroadcast'
  <2> SUFFICES ASSUME NEW p \in 1..Len(log)
               PROVE  /\ phase'[log[p].msg] = "committed"
                      /\ chan'[log[p].msg] = log[p].chan
    BY <1>1 DEF OnlyCommittedBroadcast
  <2>1. log[p].msg \in Messages /\ log[p].msg # Own(r)
    BY <1>5, LogEntry DEF PipelineInv, PipelineTypeOK
  <2> QED
    BY <2>1, <1>4 DEF PipelineInv, OnlyCommittedBroadcast
<1>9. BroadcastOnce'
  BY <1>1 DEF PipelineInv, BroadcastOnce
<1>10. RepliesLater'
  BY <1>4, <1>5, MessageNames DEF PipelineInv, RepliesLater, Numbered
<1>11. ReplyFollowsTrigger'
  <2>1. ASSUME NEW q \in Requests, phase'[Reply(q)] # "new"
        PROVE  Own(q) # Own(r)
    BY <2>1, <1>4, <1>5, MessageNames
  <2> QED
    BY <2>1, <1>1, <1>3, <1>4, MessageNames DEF PipelineInv, ReplyFollowsTrigger
<1> QED
  BY <1>2, <1>6, <1>7, <1>8, <1>9, <1>10, <1>11 DEF PipelineInv

LEMMA AnswerKeeps ==
  ASSUME PipelineInv, NEW r \in Requests, Answer(r)
  PROVE  PipelineInv'
<1>1. /\ Begin(Reply(r), chan[Own(r)])
      /\ Goto(r, "dispatch", "reply")
      /\ mention' = mention
      /\ UNCHANGED brokerVars
      /\ log' = log
  BY DEF Answer, brokerVars
<1>2. /\ phase[Own(r)] = "committed" /\ Published(Own(r))
      /\ chan[Own(r)] \in Channels
      /\ stamp[Own(r)] < clock
  BY <1>1, MessageNames
  DEF PipelineInv, HandlerInv, HandlerAt, TableInv, Goto
<1>3. TableTypeOK' /\ TableInv'
  BY <1>1, <1>2, BeginStep, MessageNames DEF PipelineInv, PipelineTypeOK
<1>4. \A m : Published(m)' <=> Published(m)
  BY <1>1 DEF Published
<1>5. \A m \in Messages :
        m # Reply(r) => /\ phase'[m] = phase[m] /\ chan'[m] = chan[m]
                        /\ stamp'[m] = stamp[m] /\ id'[m] = id[m]
  BY <1>1 DEF PipelineInv, PipelineTypeOK, TableTypeOK, Begin
<1>6. /\ phase[Reply(r)] = "new" /\ phase'[Reply(r)] = "begun"
      /\ chan'[Reply(r)] = chan[Own(r)] /\ stamp'[Reply(r)] = clock
      /\ ~Published(Reply(r))
  BY <1>1, MessageNames
  DEF PipelineInv, HandlerInv, HandlerAt, PipelineTypeOK, TableTypeOK, Begin, Goto
<1>7. PipelineTypeOK'
  BY <1>1, <1>3 DEF PipelineInv, PipelineTypeOK, BrokerTypeOK, brokerVars, Loops,
                    Goto, Going, Done
<1>8. HandlerInv'
  <2> SUFFICES ASSUME NEW q \in Requests
               PROVE  HandlerAt(q)'
    BY DEF HandlerInv
  <2>1. HandlerAt(q)
    BY DEF PipelineInv, HandlerInv
  <2>2. CASE q # r
    BY <2>1, <2>2, <1>1, <1>4, <1>5, MessageNames
    DEF HandlerAt, Goto, PipelineInv, PipelineTypeOK
  <2>3. CASE q = r
    BY <2>1, <2>3, <1>1, <1>2, <1>4, <1>5, <1>6, MessageNames
    DEF HandlerAt, Goto, PipelineInv, PipelineTypeOK
  <2> QED
    BY <2>2, <2>3
<1>9. OnlyCommittedBroadcast'
  <2> SUFFICES ASSUME NEW p \in 1..Len(log)
               PROVE  /\ phase'[log[p].msg] = "committed"
                      /\ chan'[log[p].msg] = log[p].chan
    BY <1>1 DEF OnlyCommittedBroadcast
  <2>1. log[p].msg \in Messages /\ log[p].msg # Reply(r)
    BY <1>6, LogEntry DEF PipelineInv, PipelineTypeOK
  <2> QED
    BY <2>1, <1>5 DEF PipelineInv, OnlyCommittedBroadcast
<1>10. BroadcastOnce'
  BY <1>1 DEF PipelineInv, BroadcastOnce
<1>11. RepliesLater'
  BY <1>2, <1>5, <1>6, MessageNames DEF PipelineInv, RepliesLater, Numbered
<1>12. ReplyFollowsTrigger'
  BY <1>1, <1>2, <1>4, <1>5, <1>6, MessageNames DEF PipelineInv, ReplyFollowsTrigger
<1> QED
  BY <1>3, <1>7, <1>8, <1>9, <1>10, <1>11, <1>12 DEF PipelineInv

-----------------------------------------------------------------------------
\* The database moves a statement on: an id only ever grows, and a committed row
\* stays as it is.
LEMMA DbKeeps ==
  ASSUME PipelineInv, NEW i \in Messages, DbStep(i)
  PROVE  PipelineInv'
<1>1. UNCHANGED <<pc, mention, brokerVars>> /\ log' = log
  BY DEF DbStep, brokerVars
<1>2. TableTypeOK' /\ TableInv'
  BY NumberStep, CommitStep, AbortStep DEF PipelineInv, PipelineTypeOK, DbStep
<1>3. \A m : Published(m)' <=> Published(m)
  BY <1>1 DEF Published
<1>4. /\ chan' = chan /\ stamp' = stamp
      /\ \A m \in Messages : phase'[m] = "new" <=> phase[m] = "new"
      /\ \A m \in Messages : phase[m] = "committed" =>
                               phase'[m] = "committed" /\ id'[m] = id[m]
  <2>1. CASE Number(i)
    BY <2>1 DEF PipelineInv, PipelineTypeOK, TableTypeOK, Number
  <2>2. CASE Commit(i)
    BY <2>2 DEF PipelineInv, PipelineTypeOK, TableTypeOK, Commit
  <2>3. CASE Abort(i)
    BY <2>3 DEF PipelineInv, PipelineTypeOK, TableTypeOK, Abort
  <2> QED
    BY <2>1, <2>2, <2>3 DEF DbStep
<1>5. PipelineTypeOK'
  BY <1>1, <1>2 DEF PipelineInv, PipelineTypeOK, BrokerTypeOK, brokerVars, Loops
<1>6. HandlerInv'
  <2> SUFFICES ASSUME NEW q \in Requests
               PROVE  HandlerAt(q)'
    BY DEF HandlerInv
  <2> QED
    BY <1>1, <1>3, <1>4, MessageNames DEF PipelineInv, HandlerInv, HandlerAt
<1>7. OnlyCommittedBroadcast'
  <2> SUFFICES ASSUME NEW p \in 1..Len(log)
               PROVE  /\ phase'[log[p].msg] = "committed"
                      /\ chan'[log[p].msg] = log[p].chan
    BY <1>1 DEF OnlyCommittedBroadcast
  <2>1. log[p].msg \in Messages
    BY LogEntry DEF PipelineInv, PipelineTypeOK
  <2> QED
    BY <2>1, <1>4 DEF PipelineInv, OnlyCommittedBroadcast
<1>8. BroadcastOnce'
  BY <1>1 DEF PipelineInv, BroadcastOnce
<1>9. RepliesLater'
  <2> SUFFICES ASSUME NEW q \in Requests, phase'[Reply(q)] # "new"
               PROVE  /\ phase'[Own(q)] = "committed"
                      /\ Numbered(Reply(q))' => id'[Own(q)] < id'[Reply(q)]
    BY DEF RepliesLater
  <2>1. /\ Own(q) \in Messages /\ Reply(q) \in Messages
        /\ phase[Own(q)] = "committed"
        /\ Numbered(Reply(q)) => id[Own(q)] < id[Reply(q)]
    BY <1>4, MessageNames DEF PipelineInv, RepliesLater
  <2>2. phase'[Own(q)] = "committed" /\ id'[Own(q)] = id[Own(q)]
    BY <2>1, <1>4
  <2>3. ASSUME Numbered(Reply(q))'
        PROVE  id'[Own(q)] < id'[Reply(q)]
    <3>1. CASE Number(i) /\ i = Reply(q)
      <4>1. id'[Reply(q)] = nextId
        BY <3>1 DEF Number, PipelineInv, PipelineTypeOK, TableTypeOK
      <4>2. id[Own(q)] < nextId
        BY <2>1 DEF PipelineInv, TableInv, Numbered
      <4> QED
        BY <2>2, <4>1, <4>2
    <3>2. CASE ~(Number(i) /\ i = Reply(q))
      <4>1. Numbered(Reply(q)) /\ id'[Reply(q)] = id[Reply(q)]
        BY <2>1, <2>3, <3>2
        DEF DbStep, Number, Commit, Abort, Numbered, PipelineInv, PipelineTypeOK, TableTypeOK
      <4> QED
        BY <2>1, <2>2, <4>1
    <3> QED
      BY <3>1, <3>2
  <2> QED
    BY <2>2, <2>3
<1>10. ReplyFollowsTrigger'
  <2>1. ASSUME NEW q \in Requests, phase'[Reply(q)] = "committed"
        PROVE  id'[Own(q)] < id'[Reply(q)]
    BY <2>1, <1>9 DEF RepliesLater, Numbered
  <2> QED
    BY <1>1, <1>3, <1>4, <2>1, MessageNames DEF PipelineInv, ReplyFollowsTrigger
<1> QED
  BY <1>2, <1>5, <1>6, <1>7, <1>8, <1>9, <1>10 DEF PipelineInv
-----------------------------------------------------------------------------
\* The broadcast of a stored row that was not broadcast before, and whose answer
\* was not.
LEMMA BroadcastKeeps ==
  ASSUME PipelineInv, NEW ch \in Channels, NEW m \in Messages, Broadcast(ch, m),
         UNCHANGED tableVars,
         phase[m] = "committed", chan[m] = ch, ~Published(m),
         \A q \in Requests : m = Own(q) => ~Published(Reply(q))
  PROVE  /\ TableTypeOK' /\ TableInv' /\ BrokerTypeOK'
         /\ OnlyCommittedBroadcast' /\ BroadcastOnce'
         /\ RepliesLater' /\ ReplyFollowsTrigger'
         /\ \A n : Published(n)' <=> Published(n) \/ n = m
<1> DEFINE last == Len(log) + 1
<1>1. /\ Len(log) \in Nat
      /\ Len(log') = last
      /\ log'[last] = [chan |-> ch, msg |-> m]
      /\ \A p \in 1..Len(log) : log'[p] = log[p]
      /\ \A p \in 1..Len(log') : p \in 1..Len(log) \/ p = last
      /\ \A n : Published(n)' <=> Published(n) \/ n = m
  BY BroadcastLog DEF PipelineInv, PipelineTypeOK
<1>2. \A p \in 1..Len(log) : log[p].msg \in Messages /\ Published(log[p].msg)
  BY LogEntry DEF PipelineInv, PipelineTypeOK
<1>3. BrokerTypeOK'
  <2>1. BrokerNext
    BY DEF BrokerNext
  <2> QED
    BY <2>1, BrokerTypeStep DEF PipelineInv, PipelineTypeOK
<1>4. TableTypeOK' /\ TableInv'
  BY DEF PipelineInv, PipelineTypeOK, TableTypeOK, TableInv, Numbered, tableVars
<1>5. OnlyCommittedBroadcast'
  <2> SUFFICES ASSUME NEW p \in 1..Len(log')
               PROVE  /\ phase[log'[p].msg] = "committed"
                      /\ chan[log'[p].msg] = log'[p].chan
    BY DEF OnlyCommittedBroadcast, tableVars
  <2>1. CASE p = last
    BY <2>1, <1>1
  <2>2. CASE p \in 1..Len(log)
    BY <2>2, <1>1 DEF PipelineInv, OnlyCommittedBroadcast
  <2> QED
    BY <2>1, <2>2, <1>1
<1>6. \A p \in 1..Len(log) : log'[p].msg = log[p].msg /\ log[p].msg # m
  BY <1>1, <1>2
<1>7. log'[last].msg = m
  BY <1>1
<1>8. BroadcastOnce'
  <2> SUFFICES ASSUME NEW p \in 1..Len(log'), NEW q \in 1..Len(log'),
                      log'[p].msg = log'[q].msg
               PROVE  p = q
    BY DEF BroadcastOnce
  <2> HIDE DEF last
  <2>1. CASE p \in 1..Len(log) /\ q \in 1..Len(log)
    BY <2>1, <1>6 DEF PipelineInv, BroadcastOnce
  <2>2. CASE ~(p \in 1..Len(log) /\ q \in 1..Len(log))
    BY <2>2, <1>1, <1>6, <1>7
  <2> QED
    BY <2>1, <2>2
<1>9. RepliesLater'
  BY DEF PipelineInv, RepliesLater, Numbered, tableVars
<1>10. ReplyFollowsTrigger'
  <2>1. ASSUME NEW r \in Requests, NEW p \in 1..Len(log'), NEW q \in 1..Len(log'),
               log'[p].msg = Own(r), log'[q].msg = Reply(r)
        PROVE  p < q
    <3>1. CASE q = last
      <4>1. p # last
        BY <2>1, <3>1, <1>7, MessageNames
      <4>2. p \in 1..Len(log)
        BY <4>1, <1>1
      <4> QED
        BY <3>1, <4>2, <1>1
    <3>2. CASE q \in 1..Len(log)
      <4>1. Published(Reply(r))
        BY <2>1, <3>2, <1>2, <1>6
      <4>2. p \in 1..Len(log)
        BY <2>1, <4>1, <1>1, <1>7
      <4> QED
        BY <2>1, <3>2, <4>2, <1>6 DEF PipelineInv, ReplyFollowsTrigger
    <3> QED
      BY <3>1, <3>2, <1>1
  <2>2. ASSUME NEW r \in Requests
        PROVE  /\ phase'[Reply(r)] # "new" =>
                    /\ Published(Own(r))'
                    /\ chan'[Reply(r)] = chan'[Own(r)]
                    /\ stamp'[Own(r)] < stamp'[Reply(r)]
               /\ phase'[Reply(r)] = "committed" => id'[Own(r)] < id'[Reply(r)]
    BY <1>1 DEF PipelineInv, ReplyFollowsTrigger, tableVars
  <2> QED
    BY <2>1, <2>2 DEF ReplyFollowsTrigger
<1> QED
  BY <1>1, <1>3, <1>4, <1>5, <1>8, <1>9, <1>10

\* The two broadcasts of a handler.
LEMMA BroadcastOwnKeeps ==
  ASSUME PipelineInv, NEW r \in Requests, BroadcastOwn(r)
  PROVE  PipelineInv'
<1>1. /\ Goto(r, "broadcast", "dispatch")
      /\ Broadcast(chan[Own(r)], Own(r))
      /\ UNCHANGED <<mention, tableVars>>
      /\ phase' = phase
  BY DEF BroadcastOwn, tableVars
<1>2. /\ Own(r) \in Messages /\ Reply(r) \in Messages
      /\ phase[Own(r)] = "committed" /\ phase[Reply(r)] = "new"
      /\ chan[Own(r)] \in Channels
      /\ ~Published(Own(r)) /\ ~Published(Reply(r))
  BY <1>1, MessageNames DEF PipelineInv, HandlerInv, HandlerAt, TableInv, Goto
<1>3. /\ TableTypeOK' /\ TableInv' /\ BrokerTypeOK'
      /\ OnlyCommittedBroadcast' /\ BroadcastOnce'
      /\ RepliesLater' /\ ReplyFollowsTrigger'
      /\ \A n : Published(n)' <=> Published(n) \/ n = Own(r)
  BY <1>1, <1>2, MessageNames, BroadcastKeeps
<1>4. HandlerInv'
  <2> SUFFICES ASSUME NEW q \in Requests
               PROVE  HandlerAt(q)'
    BY DEF HandlerInv
  <2>1. HandlerAt(q)
    BY DEF PipelineInv, HandlerInv
  <2>2. CASE q # r
    BY <2>1, <2>2, <1>1, <1>3, MessageNames
    DEF HandlerAt, Goto, PipelineInv, PipelineTypeOK
  <2>3. CASE q = r
    BY <2>1, <2>3, <1>1, <1>2, <1>3, MessageNames
    DEF HandlerAt, Goto, PipelineInv, PipelineTypeOK
  <2> QED
    BY <2>2, <2>3
<1>5. PipelineTypeOK'
  BY <1>1, <1>3 DEF PipelineInv, PipelineTypeOK, Goto, Going, Done
<1> QED
  BY <1>3, <1>4, <1>5 DEF PipelineInv

LEMMA BroadcastReplyKeeps ==
  ASSUME PipelineInv, NEW r \in Requests, BroadcastReply(r)
  PROVE  PipelineInv'
<1>1. /\ Goto(r, "announce", "ok")
      /\ Broadcast(chan[Own(r)], Reply(r))
      /\ UNCHANGED <<mention, tableVars>>
      /\ phase' = phase
  BY DEF BroadcastReply, tableVars
<1>2. /\ Own(r) \in Messages /\ Reply(r) \in Messages
      /\ phase[Reply(r)] = "committed"
      /\ chan[Reply(r)] = chan[Own(r)]
      /\ chan[Own(r)] \in Channels
      /\ Published(Own(r)) /\ ~Published(Reply(r))
  BY <1>1, MessageNames
  DEF PipelineInv, HandlerInv, HandlerAt, TableInv, ReplyFollowsTrigger, Goto
<1>3. /\ TableTypeOK' /\ TableInv' /\ BrokerTypeOK'
      /\ OnlyCommittedBroadcast' /\ BroadcastOnce'
      /\ RepliesLater' /\ ReplyFollowsTrigger'
      /\ \A n : Published(n)' <=> Published(n) \/ n = Reply(r)
  BY <1>1, <1>2, MessageNames, BroadcastKeeps
<1>4. HandlerInv'
  <2> SUFFICES ASSUME NEW q \in Requests
               PROVE  HandlerAt(q)'
    BY DEF HandlerInv
  <2>1. HandlerAt(q)
    BY DEF PipelineInv, HandlerInv
  <2>2. CASE q # r
    BY <2>1, <2>2, <1>1, <1>3, MessageNames
    DEF HandlerAt, Goto, PipelineInv, PipelineTypeOK
  <2>3. CASE q = r
    BY <2>1, <2>3, <1>1, <1>2, <1>3, MessageNames
    DEF HandlerAt, Goto, PipelineInv, PipelineTypeOK
  <2> QED
    BY <2>2, <2>3
<1>5. PipelineTypeOK'
  BY <1>1, <1>3 DEF PipelineInv, PipelineTypeOK, Goto, Going, Done
<1> QED
  BY <1>3, <1>4, <1>5 DEF PipelineInv

-----------------------------------------------------------------------------
\* The event streams and a restart: no row changes, nothing is broadcast.
LEMMA StreamKeeps ==
  ASSUME PipelineInv, NEW s \in Streams, StreamStep(s)
  PROVE  PipelineInv'
<1>1. UNCHANGED <<pc, mention, tableVars>> /\ UNCHANGED log
  BY DEF StreamStep, Subscribe, WriteEvent, LeaveLoop, Unsubscribe
<1>2. BrokerTypeOK'
  <2>1. BrokerNext
    BY DEF StreamStep, BrokerNext
  <2> QED
    BY <2>1, BrokerTypeStep DEF PipelineInv, PipelineTypeOK
<1>3. HandlerInv'
  BY <1>1, SameRows DEF PipelineInv, HandlerInv, HandlerAt, tableVars
<1> QED
  BY <1>1, <1>2, <1>3, SameRows DEF PipelineInv, PipelineTypeOK

LEMMA CrashKeeps ==
  ASSUME PipelineInv, ServerCrash
  PROVE  PipelineInv'
<1>1. /\ UNCHANGED <<mention, tableVars>> /\ UNCHANGED log
      /\ phase' = phase
      /\ pc' = [r \in Requests |-> IF pc[r] \in Going THEN "dead" ELSE pc[r]]
  BY DEF ServerCrash, BrokerCrash, tableVars
<1>2. BrokerTypeOK'
  BY BrokerTypeStep DEF PipelineInv, PipelineTypeOK, ServerCrash, BrokerNext
<1>3. HandlerInv'
  <2> SUFFICES ASSUME NEW q \in Requests
               PROVE  HandlerAt(q)'
    BY DEF HandlerInv
  <2>1. HandlerAt(q) /\ pc[q] \in {"idle"} \union Going \union Done
    BY DEF PipelineInv, PipelineTypeOK, HandlerInv
  <2> QED
    BY <2>1, <1>1, SameRows DEF HandlerAt, Going, Done
<1>4. PipelineTypeOK'
  BY <1>1, <1>2, SameRows DEF PipelineInv, PipelineTypeOK, Going, Done
<1> QED
  BY <1>1, <1>3, <1>4, SameRows DEF PipelineInv

LEMMA PipelineStep ==
  ASSUME PipelineInv, [PipelineNext]_pipelineVars
  PROVE  PipelineInv'
<1>1. ASSUME NEW r \in Requests, RequestArrives(r)
      PROVE  PipelineInv'
  BY <1>1, AcceptKeeps, HandlerMoves DEF RequestArrives
<1>2. ASSUME NEW r \in Requests, HandlerStep(r)
      PROVE  PipelineInv'
  BY <1>2, HandlerMoves, BroadcastOwnKeeps, AnswerKeeps, BroadcastReplyKeeps DEF HandlerStep
<1>3. ASSUME NEW r \in Requests, CallAbandoned(r)
      PROVE  PipelineInv'
  BY <1>3, HandlerMoves
<1>4. CASE UNCHANGED pipelineVars
  <2>1. UNCHANGED <<pc, mention, tableVars, brokerVars>> /\ log' = log /\ phase' = phase
    BY <1>4 DEF pipelineVars, brokerVars, tableVars
  <2>2. BrokerTypeOK'
    BY <2>1, BrokerTypeStep DEF PipelineInv, PipelineTypeOK
  <2>3. HandlerInv'
    BY <2>1, SameRows DEF PipelineInv, HandlerInv, HandlerAt
  <2> QED
    BY <2>1, <2>2, <2>3, SameRows DEF PipelineInv, PipelineTypeOK
<1> QED
  BY <1>1, <1>2, <1>3, <1>4, DbKeeps, StreamKeeps, CrashKeeps DEF PipelineNext
LEMMA PipelineInitially ==
  ASSUME PipelineInit
  PROVE  PipelineInv
<1>1. TableTypeOK /\ TableInv
  BY DEF PipelineInit, TableInit, TableTypeOK, TableInv, Phases, Numbered
<1>2. BrokerTypeOK
  BY BrokerInitially DEF PipelineInit, BrokerInv
<1>3. log = <<>> /\ \A m : ~Published(m)
  BY DEF PipelineInit, BrokerInit, Published
<1>4. \A r \in Requests : /\ pc[r] = "idle"
                         /\ phase[Own(r)] = "new" /\ phase[Reply(r)] = "new"
  BY MessageNames DEF PipelineInit, TableInit
<1>5. PipelineTypeOK
  BY <1>1, <1>2 DEF PipelineInit, PipelineTypeOK
<1>6. HandlerInv
  BY <1>3, <1>4 DEF HandlerInv, HandlerAt
<1>7. OnlyCommittedBroadcast /\ BroadcastOnce
  BY <1>3 DEF OnlyCommittedBroadcast, BroadcastOnce
<1>8. RepliesLater /\ ReplyFollowsTrigger
  BY <1>3, <1>4 DEF RepliesLater, ReplyFollowsTrigger
<1> QED
  BY <1>1, <1>5, <1>6, <1>7, <1>8 DEF PipelineInv
-----------------------------------------------------------------------------
\* The inductive invariant of handlePost, the messages table and the log holds
\* in every state, with any number of concurrent requests and restarts.
THEOREM PipelineInvariant == PipelineSpec => []PipelineInv
<1>1. PipelineInit => PipelineInv
  BY PipelineInitially
<1>2. PipelineInv /\ [PipelineNext]_pipelineVars => PipelineInv'
  BY PipelineStep
<1> QED
  BY <1>1, <1>2, PTL DEF PipelineSpec

\* The types of the handlers' positions and of the rows they insert, for any
\* number of requests, through failing statements and restarts.
THEOREM PipelineTypeCorrect == PipelineSpec => []PipelineTypeOK
<1>1. PipelineInv => PipelineTypeOK
  BY DEF PipelineInv
<1> QED
  BY <1>1, PipelineInvariant, PTL

\* handlePost and dispatchIntegration broadcast only what PostMessage returned,
\* so only rows that are stored, on the channel they are stored in.
THEOREM BroadcastsAreStored == PipelineSpec => []OnlyCommittedBroadcast
<1>1. PipelineInv => OnlyCommittedBroadcast
  BY DEF PipelineInv
<1> QED
  BY <1>1, PipelineInvariant, PTL

\* No two calls of broadcast carry the same message.
THEOREM BroadcastsAreDistinct == PipelineSpec => []BroadcastOnce
<1>1. PipelineInv => BroadcastOnce
  BY DEF PipelineInv
<1> QED
  BY <1>1, PipelineInvariant, PTL

\* An integration's answer follows the message it answers in id, in created_at
\* and in the order of the broadcasts, on the same channel.
THEOREM RepliesFollow == PipelineSpec => []ReplyFollowsTrigger
<1>1. PipelineInv => ReplyFollowsTrigger
  BY DEF PipelineInv
<1> QED
  BY <1>1, PipelineInvariant, PTL

\* A post answered with success is stored and broadcast; a stored message that
\* is not broadcast is one a client abandoned, a crash cut off, or still on its way.
THEOREM AcknowledgedPostsArePublished == PipelineSpec => []AcknowledgedIsPublished
<1>1. PipelineInv => AcknowledgedIsPublished
  <2> SUFFICES ASSUME PipelineInv, NEW r \in Requests
               PROVE  /\ pc[r] = "ok" => Published(Own(r))
                      /\ phase[Own(r)] = "committed" /\ ~Published(Own(r)) =>
                           pc[r] \in {"insert", "broadcast", "failed", "dead"}
                      /\ pc[r] \in {"idle", "rejected"} => phase[Own(r)] = "new"
    BY DEF AcknowledgedIsPublished
  <2>1. HandlerAt(r) /\ pc[r] \in {"idle"} \union Going \union Done
    BY DEF PipelineInv, PipelineTypeOK, HandlerInv
  <2> QED
    BY <2>1 DEF HandlerAt, Going, Done
<1> QED
  BY <1>1, PipelineInvariant, PTL
-----------------------------------------------------------------------------
\* The handlers use the broker as its specification allows: the message path
\* implements the broker, so what is proved of the broker holds of it.
THEOREM PipelineUsesTheBroker == PipelineSpec => BrokerSpec
<1>1. PipelineInit => BrokerInit
  BY DEF PipelineInit
<1>2. PipelineInv /\ [PipelineNext]_pipelineVars => [BrokerNext]_brokerVars
  BY PipelineBrokerStep DEF PipelineInv
<1> QED
  BY <1>1, <1>2, PipelineInvariant, PTL DEF PipelineSpec, BrokerSpec

\* The place of the question follows from what the broker promises of a stream
\* and what the handler promises of its two broadcasts.
LEMMA QuestionIsBefore ==
  ASSUME BrokerInv, PipelineInv
  PROVE  QuestionBeforeAnswer
<1> SUFFICES ASSUME NEW s \in Listed, NEW r \in Requests,
                    NEW j \in 1..Len(Delivered(s)), NEW p \in joined[s] + 1 .. Len(log),
                    log[Delivered(s)[j]].msg = Reply(r), log[p].msg = Own(r)
             PROVE  p \in dropped[s] \/ \E i \in 1..j - 1 : Delivered(s)[i] = p
  BY DEF QuestionBeforeAnswer
<1> DEFINE d == Delivered(s)
<1>1. s \in Streams
  BY DEF Listed
<1>2. /\ \A i \in 1..Len(d) : /\ d[i] \in joined[s] + 1 .. Len(log)
                              /\ log[d[i]].chan = topic[s]
      /\ \A i, k \in 1..Len(d) : i < k => d[i] < d[k]
  BY <1>1 DEF BrokerInv, StreamOrder
<1>3. /\ joined[s] \in Nat /\ Len(log) \in Nat /\ Len(d) \in Nat
      /\ log \in Seq([chan : Channels, msg : Messages])
  <2>1. written[s] \in Seq(Nat) /\ queue[s] \in Seq(Nat)
    BY <1>1 DEF BrokerInv, BrokerTypeOK
  <2> QED
    BY <2>1, <1>1 DEF BrokerInv, BrokerTypeOK, Delivered
<1>4. p \in 1..Len(log) /\ d[j] \in 1..Len(log)
  BY <1>2, <1>3
<1>5. p < d[j]
  BY <1>4 DEF PipelineInv, ReplyFollowsTrigger
<1>6. log[p].chan = topic[s]
  <2>1. /\ phase[Reply(r)] = "committed"
        /\ chan[Reply(r)] = log[d[j]].chan
        /\ chan[Own(r)] = log[p].chan
    BY <1>4 DEF PipelineInv, OnlyCommittedBroadcast
  <2>2. chan[Reply(r)] = chan[Own(r)]
    BY <2>1 DEF PipelineInv, ReplyFollowsTrigger
  <2> QED
    BY <2>1, <2>2, <1>2
<1>7. p \in {d[i] : i \in 1..Len(d)} \union dropped[s]
  BY <1>6 DEF BrokerInv, Accounted
<1>8. ASSUME NEW i \in 1..Len(d), d[i] = p
      PROVE  i \in 1..j - 1
  <2> HIDE DEF d
  <2>1. ~(j < i) /\ i # j
    BY <1>2, <1>3, <1>4, <1>5, <1>8
  <2> QED
    BY <2>1, <1>3
<1> QED
  BY <1>7, <1>8

\* On every open stream the question stands before its answer, or overflowed.
THEOREM QuestionsComeFirst == PipelineSpec => []QuestionBeforeAnswer
<1>1. BrokerInv /\ PipelineInv => QuestionBeforeAnswer
  BY QuestionIsBefore
<1> QED
  BY <1>1, PipelineInvariant, PipelineUsesTheBroker, BrokerInvariant, PTL

=============================================================================
