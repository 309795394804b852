------------------------- MODULE LiveChannelProofs -------------------------
(***************************************************************************)
(* The pages, for any number of them, of requests and of messages.  What   *)
(* they do to the server is nothing but steps of the post pipeline and its *)
(* broker, so that whatever is proved of those holds behind them.  What    *)
(* they show is no row twice and none that is not stored, and each row     *)
(* they lack has a cause: that is the invariant PageInv with, on top of    *)
(* it, one account each for the stream, the polls and the older pages.     *)
(* Last, the pages and the table implement Feed.                           *)
(***************************************************************************)
EXTENDS LiveChannel, PostPipelineProofs, OrderingProofs

\* A page that is not blank has a channel: the one that it asks a stream for.
RoomOK ==
  /\ mode \in [Streams -> {"blank", "page", "sse", "poll"}]
  /\ room \in [Streams -> Channels \union {NoChannel}]
  /\ \A v \in Streams : mode[v] # "blank" => room[v] \in Channels

LEMMA InitialRooms == LiveInit => RoomOK
  BY DEF LiveInit, RoomOK

LEMMA LoadPageRooms ==
  ASSUME RoomOK, NEW v \in Streams, NEW ch \in Channels, LoadPage(v, ch)
  PROVE  RoomOK'
<1>1. mode' = [mode EXCEPT ![v] = "page"] /\ room' = [room EXCEPT ![v] = ch]
  BY DEF LoadPage
<1> QED
  BY <1>1 DEF RoomOK

LEMMA PageStepRooms ==
  ASSUME RoomOK, NEW v \in Streams, PageStep(v)
  PROVE  RoomOK'
<1>1. CASE OpenStream(v)
  BY <1>1 DEF OpenStream, RoomOK
<1>2. CASE StartPolling(v)
  BY <1>2 DEF StartPolling, RoomOK
<1>3. CASE UNCHANGED <<mode, room>>
  BY <1>3 DEF RoomOK
<1>4. ASSUME NEW k \in Slots,
             SendPoll(v, k) \/ ServePoll(v, k) \/ ReceivePoll(v, k) \/ LosePoll(v, k)
      PROVE  UNCHANGED <<mode, room>>
  BY <1>4 DEF SendPoll, ServePoll, ReceivePoll, LosePoll
<1>5. ASSUME \/ ReceiveEvent(v) \/ AskOlder(v) \/ ServeOlder(v)
             \/ ReceiveOlder(v) \/ LoseOlder(v)
      PROVE  UNCHANGED <<mode, room>>
  BY <1>5 DEF ReceiveEvent, AskOlder, ServeOlder, ReceiveOlder, LoseOlder
<1> QED
  BY <1>1, <1>2, <1>3, <1>4, <1>5, LoadPageRooms DEF PageStep

LEMMA RoomStep == RoomOK /\ [LiveNext]_liveVars => RoomOK'
<1> SUFFICES ASSUME RoomOK, [LiveNext]_liveVars PROVE RoomOK'
  OBVIOUS
<1>1. UNCHANGED pageVars => RoomOK'
  BY DEF pageVars, RoomOK
<1>2. CASE UNCHANGED liveVars \/ Behind \/ \E v \in Streams : HandleStream(v)
  BY <1>1, <1>2 DEF liveVars, Behind, HandleStream, pageVars
<1> QED
  BY <1>2, PageStepRooms DEF LiveNext

-----------------------------------------------------------------------------
\* A page opens the stream of its channel, and does nothing else to the server.
LEMMA PageUsesPipeline ==
  ASSUME RoomOK, NEW v \in Streams, PageStep(v)
  PROVE  PipelineNext \/ UNCHANGED pipelineVars
<1>1. CASE OpenStream(v)
  <2>1. room[v] \in Channels
    BY <1>1 DEF OpenStream, RoomOK
  <2>2. StreamStep(v)
    BY <1>1, <2>1 DEF OpenStream, StreamStep
  <2> QED
    BY <2>2 DEF PipelineNext
<1>2. ASSUME NEW k \in Slots,
             SendPoll(v, k) \/ ServePoll(v, k) \/ ReceivePoll(v, k) \/ LosePoll(v, k)
      PROVE  UNCHANGED pipelineVars
  BY <1>2 DEF SendPoll, ServePoll, ReceivePoll, LosePoll
<1>3. ASSUME \/ \E ch \in Channels : LoadPage(v, ch)
             \/ StartPolling(v) \/ ReceiveEvent(v) \/ AskOlder(v) \/ ServeOlder(v)
             \/ ReceiveOlder(v) \/ LoseOlder(v)
      PROVE  UNCHANGED pipelineVars
  BY <1>3 DEF LoadPage, StartPolling, ReceiveEvent, AskOlder, ServeOlder, ReceiveOlder, LoseOlder
<1> QED
  BY <1>1, <1>2, <1>3 DEF PageStep

LEMMA LiveStep == RoomOK /\ [LiveNext]_liveVars => [PipelineNext]_pipelineVars
<1> SUFFICES ASSUME RoomOK, [LiveNext]_liveVars PROVE PipelineNext \/ UNCHANGED pipelineVars
  OBVIOUS
<1>1. CASE UNCHANGED liveVars
  BY <1>1 DEF liveVars, pipelineVars
<1>2. ASSUME NEW v \in Streams, HandleStream(v)
      PROVE  PipelineNext
  BY <1>2 DEF HandleStream, StreamStep, PipelineNext
<1>3. CASE Behind
  BY <1>3 DEF Behind, PipelineNext
<1> QED
  BY <1>1, <1>2, <1>3, PageUsesPipeline DEF LiveNext

-----------------------------------------------------------------------------
\* Every behaviour of the pages and the server is one of the post pipeline: the
\* handlers of the page read the table and subscribe, and write nothing.
THEOREM PagesUsePipeline == LiveSpec => PipelineSpec
<1>1. LiveInit => PipelineInit
  BY DEF LiveInit
<1> QED
  BY <1>1, InitialRooms, RoomStep, LiveStep, PTL DEF LiveSpec, PipelineSpec

\* So with pages that reload, poll and stream as they like, what is broadcast is
\* stored, no message is broadcast twice, answers follow their questions on every
\* open stream, and streams carry their channel's messages in order.
THEOREM PipelineHoldsBehindPages ==
  LiveSpec => [](/\ OnlyCommittedBroadcast /\ BroadcastOnce
                 /\ QuestionBeforeAnswer /\ StreamOrder)
  BY PagesUsePipeline, BroadcastsAreStored, BroadcastsAreDistinct, QuestionsComeFirst,
     PipelineUsesTheBroker, StreamsKeepOrder, PTL

-----------------------------------------------------------------------------
\* What the inductive invariants of the pages say.

\* Visible rows are those that were committed, and no two have the same time.
RowsInv ==
  /\ \A i, j \in Messages :
        phase[i] # "new" /\ phase[j] # "new" /\ stamp[i] = stamp[j] => i = j
  /\ \A i \in Messages :
        phase[i] = "committed" <=> \E k \in 1..Len(commits) : commits[k] = i

\* What holds behind the pages whatever they do.
Behavior == PipelineInv /\ BrokerInv /\ RowsInv

\* Stored rows of the page's channel, none twice.
RowsOf(v, s) == s \in Seq(Messages) /\ ToSet(s) \subseteq Rows(room[v]) /\ IsInjective(s)

Answered == [at : {"answered"}, msgs : Seq(Messages)]

PageTypeOK ==
  /\ RoomOK
  /\ view \in [Streams -> Seq(Messages)]
  /\ lastID \in [Streams -> Nat]
  /\ oldestID \in [Streams -> Nat]
  /\ older \in [Streams -> BOOLEAN]
  /\ seen \in [Streams -> Nat]
  /\ polls \in [Streams -> [Slots -> {Idle} \union [at : {"sent"}, after : Nat] \union Answered]]
  /\ history \in [Streams -> {Idle} \union [at : {"sent"}, before : Nat] \union Answered]
  /\ loaded \in [Streams -> SUBSET Messages]

\* A page not loaded has nothing.
Blank(v) ==
  mode[v] = "blank" =>
    /\ room[v] = NoChannel /\ loaded[v] = {} /\ ~older[v] /\ lastID[v] = 0
    /\ history[v] = Idle /\ \A k \in Slots : polls[v][k] = Idle

\* A loaded page asks for the stream of its channel, and takes what it carries.
StreamOf(v) ==
  /\ loop[v] = "idle" => mode[v] # "sse"
  /\ loop[v] # "idle" => mode[v] \in {"sse", "poll"} /\ topic[v] = room[v]
  /\ seen[v] <= Len(written[v])

\* All that the page shows or is sent are rows of its channel, each once.
PageRows(v) ==
  /\ RowsOf(v, view[v])
  /\ loaded[v] \subseteq Rows(room[v])
  /\ \A k \in Slots : polls[v][k].at = "answered" => RowsOf(v, polls[v][k].msgs)
  /\ history[v].at = "answered" => RowsOf(v, history[v].msgs)

IDShown(v, n) == n # 0 => \E m \in Shown(v) : id[m] = n

\* A watermark, the next poll's or one on the way, is the id of a row shown.
Watermarks(v) ==
  /\ IDShown(v, lastID[v])
  /\ \A k \in Slots : polls[v][k].at = "sent" => IDShown(v, polls[v][k].after)

PageInv ==
  /\ PageTypeOK
  /\ \A v \in Streams : Blank(v) /\ StreamOf(v) /\ PageRows(v) /\ Watermarks(v)

PageOf(v) ==
  <<mode[v], room[v], view[v], lastID[v], oldestID[v], older[v], seen[v], polls[v],
    history[v], loaded[v]>>

-----------------------------------------------------------------------------
\* What the page's query saw and the page lacks is older than the page; what
\* the stream has brought is shown.
Received(v) ==
  /\ \A m \in loaded[v] \ Shown(v) : BeforeFirstRow(v, m)
  /\ \A i \in 1..seen[v] : log[written[v][i]].msg \in Shown(v)

\* A row of the page's query that is not shown has a later one with a smaller
\* id, or is still to be asked for: its id is below n.
ToBeAsked(v, m, n) ==
  \/ \E n1 \in loaded[v] : stamp[m] < stamp[n1] /\ id[n1] < id[m]
  \/ id[m] < n

\* All rows of the page's query are shown, among S, or so.
Covers(v, n, S) == \A m \in (loaded[v] \ Shown(v)) \ S : ToBeAsked(v, m, n)

\* From where an answer leaves rows to be asked for: nowhere if it is short.
Rest(msgs) == IF MayHaveOlder(msgs) THEN id[Head(msgs)] ELSE 0

\* The button stays while something is to be asked for, and the answer on the
\* way leaves nothing out above its first row.
Backlog(v) ==
  /\ Covers(v, IF older[v] THEN oldestID[v] ELSE 0, {})
  /\ history[v].at # "idle" => older[v]
  /\ history[v].at = "sent" => history[v].before = oldestID[v]
  /\ history[v].at = "answered" =>
       Covers(v, Rest(history[v].msgs), ToSet(history[v].msgs))

\* Why the page lacks a row that no later poll will fetch.
LossCause(v, m) == BeforeFirstRow(v, m) \/ Overtaken(m) \/ SkippedByStream(v, m)

\* Every row at or below n is shown, is among S, or is lost for a cause.
LostBelow(v, n, S) ==
  \A m \in (Rows(room[v]) \ Shown(v)) \ S : id[m] <= n => LossCause(v, m)

\* So of a poll on the way: what its answer will not bring is lost for a cause.
PollLoss(v, poll) ==
  /\ poll.at = "sent" => LostBelow(v, poll.after, {})
  /\ poll.at = "answered" /\ poll.msgs # <<>> =>
       LostBelow(v, id[Last(poll.msgs)], ToSet(poll.msgs))

Losses(v) ==
  /\ LostBelow(v, lastID[v], {})
  /\ \A k \in Slots : PollLoss(v, polls[v][k])
-----------------------------------------------------------------------------
\* The queries.

\* LIMIT and the reversal keep the end of a list.
LEMMA NewestOfList ==
  ASSUME NEW T, NEW q \in Seq(T), NEW n \in Nat \ {0}, NEW r, r = Newest(n, q)
  PROVE  /\ r \in Seq(T)
         /\ Len(r) = IF Len(q) <= n THEN Len(q) ELSE n
         /\ \A i \in 1..Len(r) : Len(q) - Len(r) + i \in 1..Len(q) /\ r[i] = q[Len(q) - Len(r) + i]
<1>1. Len(q) \in Nat
  OBVIOUS
<1>2. CASE Len(q) <= n
  BY <1>1, <1>2 DEF Newest
<1>3. CASE ~(Len(q) <= n)
  <2>1. r = SubSeq(q, Len(q) - n + 1, Len(q))
    BY <1>3 DEF Newest
  <2>2. Len(q) - n + 1 \in 1..Len(q) + 1
    BY <1>1, <1>3
  <2>3. r \in Seq(T) /\ Len(r) = n /\ \A i \in 1..n : r[i] = q[Len(q) - n + i]
    BY <1>1, <1>3, <2>1, <2>2
  <2> QED
    BY <1>1, <1>3, <2>3
<1> QED
  BY <1>2, <1>3

\* Of rows in an order, those that LIMIT n leaves out come before the first of n
\* that it keeps.
LastOf(r, key, S, n) ==
  /\ r \in Seq(S)
  /\ IsInjective(r)
  /\ \A m \in S \ ToSet(r) :
       /\ Len(r) = n
       /\ key[m] < key[r[1]]
       /\ n <= Cardinality({i \in S : key[m] < key[i]})

LEMMA NewestRows ==
  ASSUME NEW S, NEW key, DistinctBy(key, S), NEW n \in Nat \ {0},
         NEW r, r = Newest(n, SortedBy(key, S))
  PROVE  LastOf(r, key, S, n)
<1> DEFINE q == SortedBy(key, S)
<1>1. /\ q \in Seq(S) /\ Len(q) = Cardinality(S) /\ Len(q) \in Nat
      /\ \A i, j \in 1..Len(q) : i < j => key[q[i]] < key[q[j]]
      /\ \A m \in S : \E k \in 1..Len(q) : q[k] = m
      /\ \A i, j \in 1..Len(q) : q[i] = q[j] => i = j
  <2>1. Cardinality(S) \in Nat
    BY FS_CardinalityType DEF DistinctBy
  <2>2. \A i, j \in 1..Len(q) : q[i] = q[j] => i = j
    BY SortedByElements
  <2> QED
    BY <2>1, <2>2, SortedByKey
<1>2. r = Newest(n, q)
  OBVIOUS
<1> HIDE DEF q
<1>3. /\ r \in Seq(S) /\ Len(r) \in Nat
      /\ Len(r) = IF Len(q) <= n THEN Len(q) ELSE n
      /\ \A i \in 1..Len(r) : Len(q) - Len(r) + i \in 1..Len(q) /\ r[i] = q[Len(q) - Len(r) + i]
  <2>1. q \in Seq(S)
    BY <1>1
  <2> QED
    BY <1>2, <2>1, NewestOfList
<1>4. IsInjective(r)
  <2> SUFFICES ASSUME NEW i \in 1..Len(r), NEW j \in 1..Len(r), r[i] = r[j]
               PROVE  i = j
    BY <1>3 DEF IsInjective
  <2>1. Len(q) - Len(r) + i = Len(q) - Len(r) + j
    BY <1>1, <1>3
  <2> QED
    BY <1>1, <1>3, <2>1
<1>5. ASSUME NEW m \in S, m \notin ToSet(r)
      PROVE  /\ Len(r) = n
             /\ key[m] < key[r[1]]
             /\ n <= Cardinality({i \in S : key[m] < key[i]})
  <2>1. PICK k \in 1..Len(q) : q[k] = m
    BY <1>1
  <2>2. ~(k \in Len(q) - Len(r) + 1 .. Len(q))
    <3> SUFFICES ASSUME k \in Len(q) - Len(r) + 1 .. Len(q) PROVE FALSE
      OBVIOUS
    <3>1. /\ k - (Len(q) - Len(r)) \in 1..Len(r)
          /\ Len(q) - Len(r) + (k - (Len(q) - Len(r))) = k
      <4>1. Len(q) \in Nat /\ Len(r) \in Nat
        BY <1>1, <1>3
      <4> QED
        BY <4>1
    <3>2. r[k - (Len(q) - Len(r))] = m
      BY <1>3, <2>1, <3>1
    <3> QED
      BY <1>3, <1>5, <3>1, <3>2 DEF ToSet
  <2>3. Len(r) = n /\ k < Len(q) - n + 1
    BY <1>1, <1>3, <2>2
  <2>4. \A i \in 1..n : r[i] \in S /\ key[m] < key[r[i]]
    <3> TAKE i \in 1..n
    <3>1. Len(q) - n + i \in 1..Len(q) /\ r[i] = q[Len(q) - n + i]
      BY <1>3, <2>3
    <3>2. k < Len(q) - n + i
      BY <1>1, <2>3
    <3>3. key[q[k]] < key[q[Len(q) - n + i]]
      BY <1>1, <3>1, <3>2
    <3> QED
      BY <1>3, <2>1, <2>3, <3>1, <3>3
  <2> DEFINE later == {i \in S : key[m] < key[i]}
             place == [i \in 1..n |-> r[i]]
  <2>5. IsFiniteSet(later)
    BY FS_Subset DEF DistinctBy
  <2>6. place \in [1..n -> later]
    BY <2>4
  <2>7. place \in Injection(1..n, later)
    BY <1>3, <1>4, <2>3, <2>6 DEF IsInjective, Injection
  <2> HIDE DEF later, place
  <2>8. Cardinality(1..n) <= Cardinality(later)
    BY <2>5, <2>7, FS_Injection
  <2>9. Cardinality(1..n) = n
    BY FS_Interval
  <2> QED
    BY <2>3, <2>4, <2>8, <2>9 DEF later
<1> QED
  BY <1>3, <1>4, <1>5 DEF LastOf

\* The table is a finite one: its rows are those of the commits so far.
LEMMA FiniteRows ==
  ASSUME TableTypeOK, RowsInv, NEW ch
  PROVE  IsFiniteSet(Rows(ch))
<1> DEFINE n == Len(commits)
           T == {commits[k] : k \in 1..n}
           f == [k \in 1..n |-> commits[k]]
<1>1. n \in Nat
  BY DEF TableTypeOK
<1>2. IsFiniteSet(1..n)
  BY <1>1, FS_Interval
<1>3. f \in Surjection(1..n, T)
  BY DEF Surjection
<1>4. IsFiniteSet(T)
  BY <1>2, <1>3, FS_Surjection
<1>5. Rows(ch) \subseteq T
  BY DEF Rows, RowsInv
<1> QED
  BY <1>4, <1>5, FS_Subset

\* ORDER BY created_at and ORDER BY id both decide between any two rows.
LEMMA RowsAreOrdered ==
  ASSUME TableTypeOK, TableInv, RowsInv, NEW ch, NEW S \in SUBSET Rows(ch)
  PROVE  DistinctBy(stamp, S) /\ DistinctBy(id, S)
<1>1. IsFiniteSet(S)
  BY FiniteRows, FS_Subset
<1>2. \A m \in S : m \in Messages /\ phase[m] = "committed"
  BY DEF Rows
<1>3. \A m \in S : stamp[m] \in Nat /\ id[m] \in Nat
  BY <1>2 DEF TableTypeOK
<1>4. \A i, j \in S : stamp[i] = stamp[j] => i = j
  BY <1>2 DEF RowsInv
<1>5. \A i, j \in S : id[i] = id[j] => i = j
  BY <1>2 DEF TableInv, Numbered
<1> QED
  BY <1>1, <1>3, <1>4, <1>5 DEF DistinctBy

\* RecentMessages: rows of the channel, each once; one that LIMIT leaves out is
\* older than all of them, and there are as many as the limit.
LEMMA RecentRows ==
  ASSUME TableTypeOK, TableInv, RowsInv, NEW ch, NEW r, r = RecentMessages(ch, PageSize)
  PROVE  /\ r \in Seq(Rows(ch))
         /\ IsInjective(r)
         /\ \A m \in Rows(ch) \ ToSet(r) :
              /\ Len(r) = PageSize
              /\ stamp[m] < stamp[r[1]]
              /\ PageSize <= Cardinality({i \in Rows(ch) : stamp[m] < stamp[i]})
<1>1. DistinctBy(stamp, Rows(ch))
  BY RowsAreOrdered
<1>2. r = Newest(PageSize, SortedBy(stamp, Rows(ch)))
  BY DEF RecentMessages, ByTime
<1>3. PageSize \in Nat \ {0}
  BY PageAssumption
<1>4. LastOf(r, stamp, Rows(ch), PageSize)
  BY <1>1, <1>2, <1>3, NewestRows
<1> QED
  BY <1>4 DEF LastOf

\* MessagesBefore: the same for the ids below before.
LEMMA BeforeRows ==
  ASSUME TableTypeOK, TableInv, RowsInv, NEW ch, NEW before \in Nat,
         NEW r, r = MessagesBefore(ch, before, PageSize)
  PROVE  /\ r \in Seq(Rows(ch))
         /\ IsInjective(r)
         /\ \A m \in Rows(ch) \ ToSet(r) :
              id[m] < before => Len(r) = PageSize /\ id[m] < id[r[1]]
<1> DEFINE S == {i \in Rows(ch) : id[i] < before}
<1>1. DistinctBy(id, S)
  BY RowsAreOrdered
<1>2. r = Newest(PageSize, SortedBy(id, S))
  BY DEF MessagesBefore, ById
<1>3. S \subseteq Rows(ch) /\ \A m \in Rows(ch) : id[m] < before => m \in S
  OBVIOUS
<1> HIDE DEF S
<1>4. /\ r \in Seq(S) /\ IsInjective(r)
      /\ \A m \in S \ ToSet(r) : Len(r) = PageSize /\ id[m] < id[r[1]]
  <2>1. PageSize \in Nat \ {0}
    BY PageAssumption
  <2>2. LastOf(r, id, S, PageSize)
    BY <1>1, <1>2, <2>1, NewestRows
  <2> QED
    BY <2>2 DEF LastOf
<1>5. r \in Seq(Rows(ch))
  BY <1>3, <1>4
<1> QED
  BY <1>3, <1>4, <1>5

\* MessagesSinceID: all the rows with an id above after, each once.
LEMMA SinceRows ==
  ASSUME TableTypeOK, TableInv, RowsInv, NEW ch, NEW after,
         NEW r, r = MessagesSinceID(ch, after)
  PROVE  /\ r \in Seq(Rows(ch))
         /\ IsInjective(r)
         /\ ToSet(r) = {i \in Rows(ch) : id[i] > after}
<1> DEFINE S == {i \in Rows(ch) : id[i] > after}
<1>1. DistinctBy(stamp, S)
  BY RowsAreOrdered
<1>2. r = SortedBy(stamp, S)
  BY DEF MessagesSinceID, ByTime
<1>3. S \subseteq Rows(ch)
  OBVIOUS
<1> HIDE DEF S
<1>4. r \in Seq(S) /\ (\A i, j \in 1..Len(r) : r[i] = r[j] => i = j) /\ {r[k] : k \in 1..Len(r)} = S
  BY <1>1, <1>2, SortedByKey, SortedByElements
<1>5. r \in Seq(Rows(ch)) /\ DOMAIN r = 1..Len(r)
  BY <1>3, <1>4
<1> QED
  BY <1>4, <1>5 DEF IsInjective, ToSet, S

-----------------------------------------------------------------------------
\* What the steps behind the pages do to the rows.

\* A step leaves the table alone, or is a step of one statement.
LEMMA TableSteps ==
  ASSUME PipelineInv, [PipelineNext]_pipelineVars
  PROVE  \/ UNCHANGED tableVars
         \/ \E i \in Messages :
              (\E ch \in Channels : Begin(i, ch)) \/ Number(i) \/ Commit(i) \/ Abort(i)
<1>1. ASSUME NEW r \in Requests, RequestArrives(r)
      PROVE  UNCHANGED tableVars \/ \E ch \in Channels : Begin(Own(r), ch)
  BY <1>1 DEF RequestArrives, Reject, Accept
<1>2. ASSUME NEW r \in Requests, HandlerStep(r)
      PROVE  UNCHANGED tableVars \/ \E ch \in Channels : Begin(Reply(r), ch)
  <2>1. CASE Answer(r)
    <3>1. chan[Own(r)] \in Channels
      <4>1. pc[r] = "dispatch"
        BY <2>1 DEF Answer, Goto
      <4> QED
        BY <4>1, ChannelOfRow DEF PipelineInv
    <3> QED
      BY <2>1, <3>1 DEF Answer
  <2>2. CASE ~Answer(r)
    BY <1>2, <2>2 DEF HandlerStep, InsertReturns, InsertFails, BroadcastOwn, NoDispatch,
                      ReplyReturns, ReplyFails, BroadcastReply
  <2> QED
    BY <2>1, <2>2
<1>3. ASSUME NEW r \in Requests, CallAbandoned(r)
      PROVE  UNCHANGED tableVars
  BY <1>3 DEF CallAbandoned
<1>4. ASSUME NEW i \in Messages, DbStep(i)
      PROVE  Number(i) \/ Commit(i) \/ Abort(i)
  BY <1>4 DEF DbStep
<1>5. ASSUME NEW s \in Streams, StreamStep(s)
      PROVE  UNCHANGED tableVars
  BY <1>5 DEF StreamStep
<1>6. ServerCrash => UNCHANGED tableVars
  BY DEF ServerCrash
<1>7. UNCHANGED pipelineVars => UNCHANGED tableVars
  BY DEF pipelineVars
<1> QED
  BY <1>1, <1>2, <1>3, <1>4, <1>5, <1>6, <1>7, MessageNames DEF PipelineNext

\* A committed row stays what it is, and the histories are only added to.
RowsStay ==
  /\ \A m \in Messages : phase[m] = "committed" =>
       /\ phase'[m] = "committed"
       /\ chan'[m] = chan[m] /\ stamp'[m] = stamp[m] /\ id'[m] = id[m]
  /\ Len(commits) <= Len(commits')
  /\ \A k \in 1..Len(commits) : commits'[k] = commits[k]

LogStays ==
  /\ Len(log) <= Len(log')
  /\ \A p \in 1..Len(log) : log'[p] = log[p]

LEMMA RowsAreKept ==
  ASSUME PipelineInv, RowsInv, [PipelineNext]_pipelineVars
  PROVE  RowsStay /\ RowsInv'
<1> USE DEF PipelineInv, PipelineTypeOK
<1>0. TableTypeOK /\ Len(commits) \in Nat
  BY DEF TableTypeOK
<1>1. CASE UNCHANGED tableVars
  BY <1>0, <1>1 DEF tableVars, RowsStay, RowsInv
<1>2. ASSUME NEW i \in Messages, NEW ch \in Channels, Begin(i, ch)
      PROVE  RowsStay /\ RowsInv'
  <2>1. /\ phase[i] = "new"
        /\ phase' = [phase EXCEPT ![i] = "begun"]
        /\ chan' = [chan EXCEPT ![i] = ch]
        /\ stamp' = [stamp EXCEPT ![i] = clock]
        /\ id' = id /\ commits' = commits
    BY <1>2 DEF Begin
  <2>2. RowsStay
    BY <1>0, <2>1 DEF RowsStay, TableTypeOK
  <2>3. \A j \in Messages : j # i => phase'[j] = phase[j] /\ stamp'[j] = stamp[j]
    BY <2>1 DEF TableTypeOK
  <2>4. stamp'[i] = clock /\ phase'[i] = "begun"
    BY <2>1 DEF TableTypeOK
  <2>5. \A j \in Messages : phase[j] # "new" => stamp[j] \in Nat /\ stamp[j] < clock
    BY DEF TableTypeOK, TableInv
  <2>6. clock \in Nat
    BY DEF TableTypeOK
  <2>7. \A j, k \in Messages :
          phase'[j] # "new" /\ phase'[k] # "new" /\ stamp'[j] = stamp'[k] => j = k
    BY <2>3, <2>4, <2>5, <2>6 DEF RowsInv
  <2>8. \A j \in Messages : phase'[j] = "committed" <=> phase[j] = "committed"
    BY <2>1, <2>3, <2>4
  <2> QED
    BY <2>1, <2>2, <2>7, <2>8 DEF RowsInv
<1>3. ASSUME NEW i \in Messages, Number(i) \/ Abort(i)
      PROVE  RowsStay /\ RowsInv'
  <2>1. /\ phase[i] \in {"begun", "numbered"}
        /\ phase'[i] \in {"numbered", "aborted"}
        /\ \A j \in Messages : j # i => phase'[j] = phase[j] /\ id'[j] = id[j]
        /\ chan' = chan /\ stamp' = stamp /\ commits' = commits
    BY <1>3 DEF Number, Abort, TableTypeOK
  <2>2. \A j \in Messages : phase'[j] = "committed" <=> phase[j] = "committed"
    BY <2>1
  <2>3. \A j \in Messages : phase'[j] # "new" <=> phase[j] # "new"
    BY <2>1
  <2>4. RowsInv'
    BY <2>1, <2>2, <2>3 DEF RowsInv
  <2>5. RowsStay
    BY <1>0, <2>1 DEF RowsStay
  <2> QED
    BY <2>4, <2>5
<1>4. ASSUME NEW i \in Messages, Commit(i)
      PROVE  RowsStay /\ RowsInv'
  <2>1. /\ phase[i] = "numbered"
        /\ phase'[i] = "committed"
        /\ \A j \in Messages : j # i => phase'[j] = phase[j]
        /\ chan' = chan /\ stamp' = stamp /\ id' = id
        /\ commits' = Append(commits, i)
    BY <1>4 DEF Commit, TableTypeOK
  <2>2. /\ Len(commits') = Len(commits) + 1
        /\ commits'[Len(commits) + 1] = i
        /\ \A k \in 1..Len(commits) : commits'[k] = commits[k]
    BY <2>1 DEF TableTypeOK
  <2>3. RowsStay
    BY <1>0, <2>1, <2>2 DEF RowsStay
  <2>4. \A j \in Messages : phase'[j] # "new" <=> phase[j] # "new"
    BY <2>1
  <2>5. \A j \in Messages : phase'[j] = "committed" <=> j = i \/ phase[j] = "committed"
    BY <2>1
  <2>6. ASSUME NEW j \in Messages
        PROVE  (\E k \in 1..Len(commits') : commits'[k] = j) <=>
                 j = i \/ \E k \in 1..Len(commits) : commits[k] = j
    BY <1>0, <2>2
  <2> QED
    BY <2>1, <2>3, <2>4, <2>5, <2>6 DEF RowsInv
<1> QED
  BY <1>1, <1>2, <1>3, <1>4, TableSteps

LEMMA LogIsKept ==
  ASSUME BrokerTypeOK, [BrokerNext]_brokerVars
  PROVE  LogStays
<1>1. Len(log) \in Nat
  BY DEF BrokerTypeOK
<1>2. ASSUME NEW ch \in Channels, NEW m \in Messages, Broadcast(ch, m)
      PROVE  LogStays
  <2>1. Len(log') = Len(log) + 1 /\ \A p \in 1..Len(log) : log'[p] = log[p]
    BY <1>2, BroadcastLog
  <2> QED
    BY <1>1, <2>1 DEF LogStays
<1>3. CASE log' = log
  BY <1>1, <1>3 DEF LogStays
<1>4. ASSUME NEW s \in Streams,
             \/ \E ch \in Channels : Subscribe(s, ch)
             \/ WriteEvent(s) \/ LeaveLoop(s) \/ Unsubscribe(s)
      PROVE  log' = log
  BY <1>4 DEF Subscribe, WriteEvent, LeaveLoop, Unsubscribe
<1>5. BrokerCrash \/ UNCHANGED brokerVars => log' = log
  BY DEF BrokerCrash, brokerVars
<1> QED
  BY <1>2, <1>3, <1>4, <1>5 DEF BrokerNext

\* Every step keeps what holds behind the pages, and undoes no row.
LEMMA BehaviorStep ==
  ASSUME RoomOK, Behavior, [LiveNext]_liveVars
  PROVE  Behavior' /\ RowsStay /\ LogStays
<1>1. [PipelineNext]_pipelineVars
  BY LiveStep
<1>2. PipelineInv' /\ RowsInv' /\ RowsStay
  BY <1>1, PipelineStep, RowsAreKept DEF Behavior
<1>3. [BrokerNext]_brokerVars
  BY <1>1, PipelineBrokerStep DEF Behavior, PipelineInv
<1>4. BrokerInv' /\ LogStays
  BY <1>3, BrokerStep, LogIsKept DEF Behavior, BrokerInv
<1> QED
  BY <1>2, <1>4 DEF Behavior

LEMMA BehaviorInitially == LiveInit => Behavior
<1> SUFFICES ASSUME LiveInit PROVE Behavior
  OBVIOUS
<1>1. PipelineInit /\ TableInit /\ BrokerInit
  BY DEF LiveInit, PipelineInit
<1>2. RowsInv
  BY <1>1 DEF TableInit, RowsInv
<1> QED
  BY <1>1, <1>2, PipelineInitially, BrokerInitially DEF Behavior

-----------------------------------------------------------------------------
\* Lists of rows.

\* A loop over distinct rows keeps those that the list has not, each once.
LEMMA FreshRows ==
  ASSUME NEW T, NEW rows \in Seq(T), NEW msgs \in Seq(T), IsInjective(msgs),
         NEW f, f = Fresh(rows, msgs)
  PROVE  f \in Seq(T) /\ IsInjective(f) /\ ToSet(f) = ToSet(msgs) \ ToSet(rows)
<1> DEFINE P == NewRows(rows, msgs)
           n == Cardinality(P)
<1>1. /\ DOMAIN msgs = 1..Len(msgs) /\ DOMAIN rows = 1..Len(rows)
      /\ P = {k \in 1..Len(msgs) : msgs[k] \notin ToSet(rows)}
  BY DEF NewRows, Contains, ToSet
<1>2. f = Picked(msgs, P)
  BY DEF Fresh
<1> HIDE DEF P
<1>3. /\ f \in Seq(T) /\ Len(f) = n
      /\ \E o \in [1..n -> P] :
           /\ \A i, j \in 1..n : i < j => o[i] < o[j]
           /\ \A k \in P : \E i \in 1..n : o[i] = k
           /\ \A i \in 1..n : f[i] = msgs[o[i]]
  <2>1. P \in SUBSET (1..Len(msgs))
    BY <1>1
  <2> QED
    BY <1>2, <2>1, PickedInOrder
<1>4. PICK o \in [1..n -> P] :
           /\ \A i, j \in 1..n : i < j => o[i] < o[j]
           /\ \A k \in P : \E i \in 1..n : o[i] = k
           /\ \A i \in 1..n : f[i] = msgs[o[i]]
  BY <1>3
<1>5. DOMAIN f = 1..n /\ n \in Nat
  BY <1>3
<1>6. IsInjective(f)
  <2> SUFFICES ASSUME NEW i \in 1..n, NEW j \in 1..n, f[i] = f[j]
               PROVE  i = j
    BY <1>5 DEF IsInjective
  <2>1. o[i] \in 1..Len(msgs) /\ o[j] \in 1..Len(msgs)
    BY <1>1, <1>4
  <2>2. o[i] = o[j]
    BY <1>1, <1>4, <2>1 DEF IsInjective
  <2>3. ~(i < j) /\ ~(j < i)
    BY <1>4, <2>1, <2>2
  <2> QED
    BY <1>5, <2>3
<1>7. \A m \in ToSet(f) : m \in ToSet(msgs) \ ToSet(rows)
  BY <1>1, <1>4, <1>5 DEF ToSet
<1>8. ASSUME NEW m \in ToSet(msgs), m \notin ToSet(rows)
      PROVE  m \in ToSet(f)
  <2>1. PICK k \in 1..Len(msgs) : msgs[k] = m
    BY <1>1 DEF ToSet
  <2>2. PICK i \in 1..n : o[i] = k
    BY <1>1, <1>4, <1>8, <2>1
  <2> QED
    BY <1>4, <1>5, <2>1, <2>2 DEF ToSet
<1> QED
  BY <1>3, <1>6, <1>7, <1>8

\* Two lists without a row in common, one after the other.
LEMMA Joined ==
  ASSUME NEW T, NEW a \in Seq(T), NEW b \in Seq(T), IsInjective(a), IsInjective(b),
         ToSet(a) \intersect ToSet(b) = {}
  PROVE  a \o b \in Seq(T) /\ IsInjective(a \o b) /\ ToSet(a \o b) = ToSet(a) \union ToSet(b)
<1> DEFINE c == a \o b
<1>1. /\ c \in Seq(T) /\ Len(a) \in Nat /\ Len(b) \in Nat /\ Len(c) = Len(a) + Len(b)
      /\ \A i \in 1..Len(a) : c[i] = a[i]
      /\ \A i \in Len(a) + 1 .. Len(c) : c[i] = b[i - Len(a)]
      /\ DOMAIN a = 1..Len(a) /\ DOMAIN b = 1..Len(b) /\ DOMAIN c = 1..Len(c)
  OBVIOUS
<1> HIDE DEF c
<1>2. \A i \in 1..Len(c) : \/ i \in 1..Len(a)
                           \/ i \in Len(a) + 1 .. Len(c) /\ i - Len(a) \in 1..Len(b)
  BY <1>1
<1>3. \A i \in 1..Len(b) : Len(a) + i \in Len(a) + 1 .. Len(c) /\ c[Len(a) + i] = b[i]
  BY <1>1
<1>4. \A i \in 1..Len(a) : a[i] \in ToSet(a) /\ i \in 1..Len(c)
  BY <1>1 DEF ToSet
<1>5. \A i \in 1..Len(b) : b[i] \in ToSet(b) /\ Len(a) + i \in 1..Len(c)
  BY <1>1 DEF ToSet
<1>6. ToSet(c) \subseteq ToSet(a) \union ToSet(b)
  <2>1. \A i \in 1..Len(c) : c[i] \in ToSet(a) \/ c[i] \in ToSet(b)
    BY <1>1, <1>2, <1>4, <1>5
  <2>2. DOMAIN c = 1..Len(c)
    BY <1>1
  <2> QED
    BY <2>1, <2>2 DEF ToSet
<1>7. ToSet(a) \subseteq ToSet(c)
  BY <1>1, <1>4 DEF ToSet
<1>8. ToSet(b) \subseteq ToSet(c)
  <2>1. \A i \in 1..Len(b) : Len(a) + i \in DOMAIN c /\ c[Len(a) + i] = b[i]
    BY <1>1, <1>3, <1>5
  <2>2. DOMAIN b = 1..Len(b)
    BY <1>1
  <2>3. \A i \in 1..Len(b) : b[i] \in ToSet(c)
    <3> TAKE i \in 1..Len(b)
    <3> DEFINE k == Len(a) + i
    <3>1. k \in DOMAIN c /\ c[k] = b[i]
      BY <2>1
    <3> HIDE DEF k
    <3> QED
      BY <3>1 DEF ToSet
  <2> QED
    BY <2>2, <2>3 DEF ToSet
<1>9. IsInjective(c)
  <2> SUFFICES ASSUME NEW i \in 1..Len(c), NEW j \in 1..Len(c), c[i] = c[j]
               PROVE  i = j
    BY <1>1 DEF IsInjective
  <2>1. CASE i \in 1..Len(a) /\ j \in 1..Len(a)
    BY <1>1, <2>1 DEF IsInjective
  <2>2. CASE i \notin 1..Len(a) /\ j \notin 1..Len(a)
    <3>1. /\ i - Len(a) \in 1..Len(b) /\ j - Len(a) \in 1..Len(b)
          /\ b[i - Len(a)] = b[j - Len(a)]
      BY <1>1, <1>2, <2>2
    <3>2. i - Len(a) = j - Len(a)
      BY <1>1, <3>1 DEF IsInjective
    <3> QED
      BY <1>1, <3>2
  <2>3. CASE (i \in 1..Len(a)) # (j \in 1..Len(a))
    BY <1>1, <1>2, <1>4, <1>5, <2>3
  <2> QED
    BY <2>1, <2>2, <2>3
<1> QED
  BY <1>1, <1>6, <1>7, <1>8, <1>9 DEF c

\* appendMessageHTML and the insertion of older rows, over whole answers.
LEMMA AddedRows ==
  ASSUME NEW T, NEW rows \in Seq(T), NEW msgs \in Seq(T), IsInjective(rows), IsInjective(msgs),
         NEW s, s = AppendRows(rows, msgs) \/ s = Fresh(rows, msgs) \o rows
  PROVE  s \in Seq(T) /\ IsInjective(s) /\ ToSet(s) = ToSet(rows) \union ToSet(msgs)
<1>1. PICK f : f = Fresh(rows, msgs)
  OBVIOUS
<1>2. f \in Seq(T) /\ IsInjective(f) /\ ToSet(f) = ToSet(msgs) \ ToSet(rows)
  BY <1>1, FreshRows
<1>3. s = rows \o f \/ s = f \o rows
  BY <1>1 DEF AppendRows
<1>4. /\ rows \o f \in Seq(T) /\ IsInjective(rows \o f)
      /\ ToSet(rows \o f) = ToSet(rows) \union ToSet(f)
  BY <1>2, Joined
<1>5. /\ f \o rows \in Seq(T) /\ IsInjective(f \o rows)
      /\ ToSet(f \o rows) = ToSet(rows) \union ToSet(f)
  BY <1>2, Joined
<1> QED
  BY <1>2, <1>3, <1>4, <1>5

-----------------------------------------------------------------------------
\* The invariant of the pages.

LEMMA RowsGrow ==
  ASSUME RowsStay, NEW ch
  PROVE  /\ Rows(ch) \subseteq Rows(ch)'
         /\ \A m \in Rows(ch) : /\ m \in Messages
                                /\ chan'[m] = chan[m] /\ stamp'[m] = stamp[m] /\ id'[m] = id[m]
  BY DEF RowsStay, Rows

\* A step of one page changes nothing of another.
LEMMA OthersStay ==
  ASSUME PageTypeOK, NEW v \in Streams, PageStep(v), NEW w \in Streams, w # v
  PROVE  UNCHANGED PageOf(w)
<1> USE DEF PageTypeOK, RoomOK, PageOf
<1>1. ASSUME NEW ch \in Channels, LoadPage(v, ch) PROVE UNCHANGED PageOf(w)
  BY <1>1 DEF LoadPage
<1>2. CASE OpenStream(v) \/ StartPolling(v)
  BY <1>2 DEF OpenStream, StartPolling
<1>3. CASE ReceiveEvent(v)
  BY <1>3 DEF ReceiveEvent
<1>4. ASSUME NEW k \in Slots,
             SendPoll(v, k) \/ ServePoll(v, k) \/ ReceivePoll(v, k) \/ LosePoll(v, k)
      PROVE  UNCHANGED PageOf(w)
  BY <1>4 DEF SendPoll, ServePoll, ReceivePoll, LosePoll, SetPoll
<1>5. CASE AskOlder(v) \/ ServeOlder(v) \/ ReceiveOlder(v) \/ LoseOlder(v)
  BY <1>5 DEF AskOlder, ServeOlder, ReceiveOlder, LoseOlder
<1> QED
  BY <1>1, <1>2, <1>3, <1>4, <1>5 DEF PageStep

\* Steps that are not a page's change no page.
LEMMA PagesStay ==
  ASSUME Behind \/ UNCHANGED liveVars \/ \E s \in Streams : HandleStream(s), NEW w \in Streams
  PROVE  UNCHANGED PageOf(w)
  BY DEF Behind, liveVars, HandleStream, pageVars, PageOf

\* Rows that are shown or on their way stay rows of the page's channel.
LEMMA ListsStay ==
  ASSUME RowsStay, NEW v \in Streams, UNCHANGED room[v], NEW s, RowsOf(v, s)
  PROVE  RowsOf(v, s)'
<1>1. Rows(room[v]) \subseteq Rows(room[v])'
  BY RowsGrow
<1> QED
  BY <1>1 DEF RowsOf

LEMMA ShownIDsStay ==
  ASSUME RowsStay, NEW v \in Streams, RowsOf(v, view[v]), ToSet(view[v]) \subseteq ToSet(view'[v]),
         NEW n, IDShown(v, n)
  PROVE  IDShown(v, n)'
<1>1. \A m \in Shown(v) : m \in Shown(v)' /\ id'[m] = id[m]
  BY RowsGrow DEF RowsOf, Shown
<1> QED
  BY <1>1 DEF IDShown

LEMMA SamePage ==
  ASSUME RowsStay, NEW v \in Streams, Blank(v), PageRows(v), Watermarks(v), UNCHANGED PageOf(v)
  PROVE  Blank(v)' /\ PageRows(v)' /\ Watermarks(v)'
<1>1. /\ mode'[v] = mode[v] /\ room'[v] = room[v] /\ view'[v] = view[v] /\ lastID'[v] = lastID[v]
      /\ older'[v] = older[v] /\ polls'[v] = polls[v] /\ history'[v] = history[v]
      /\ loaded'[v] = loaded[v]
  BY DEF PageOf
<1>2. Blank(v)'
  BY <1>1 DEF Blank
<1>3. PageRows(v)'
  <2>1. Rows(room[v]) \subseteq Rows(room[v])'
    BY <1>1, RowsGrow
  <2> QED
    BY <1>1, <2>1, ListsStay DEF PageRows
<1>4. Watermarks(v)'
  BY <1>1, ShownIDsStay DEF Watermarks, PageRows
<1> QED
  BY <1>2, <1>3, <1>4

-----------------------------------------------------------------------------
\* The id of the last row of an answer, or the old watermark, is that of a row
\* shown when the answer's rows are.
LEMMA WatermarkMoves ==
  ASSUME NEW v \in Streams, NEW msgs \in Seq(Messages), ToSet(msgs) \subseteq Shown(v)',
         id' = id, NEW old, IDShown(v, old)', NEW n, n = LastIDOf(msgs, old)
  PROVE  IDShown(v, n)'
<1>1. CASE msgs = <<>>
  BY <1>1 DEF LastIDOf, IDShown
<1>2. CASE msgs # <<>>
  <2>1. Last(msgs) \in ToSet(msgs)
    BY <1>2 DEF Last, ToSet
  <2> QED
    BY <1>2, <2>1 DEF LastIDOf, IDShown
<1> QED
  BY <1>1, <1>2

LEMMA LoadPageKeeps ==
  ASSUME Behavior, PageInv, RowsStay, NEW v \in Streams, NEW ch \in Channels, LoadPage(v, ch)
  PROVE  Blank(v)' /\ PageRows(v)' /\ Watermarks(v)'
<1> DEFINE msgs == RecentMessages(ch, PageSize)
<1>0. TableTypeOK /\ TableInv /\ RowsInv
  BY DEF Behavior, PipelineInv, PipelineTypeOK
<1>1. msgs \in Seq(Rows(ch)) /\ IsInjective(msgs)
  BY <1>0, RecentRows
<1>2. Rows(ch) \subseteq Messages
  BY DEF Rows
<1>3. msgs \in Seq(Messages) /\ ToSet(msgs) \subseteq Rows(ch)
  BY <1>1, <1>2 DEF ToSet
<1>4. /\ mode[v] = "blank" /\ mode'[v] = "page" /\ room'[v] = ch
      /\ view'[v] = msgs /\ lastID'[v] = LastIDOf(msgs, 0) /\ loaded'[v] = Rows(ch)
      /\ polls' = polls /\ history' = history /\ UNCHANGED tableVars
  BY DEF LoadPage, PageInv, PageTypeOK, RoomOK, pipelineVars
<1> HIDE DEF msgs
<1>5. Rows(ch)' = Rows(ch) /\ id' = id
  BY <1>4 DEF tableVars, Rows
<1>6. history[v] = Idle /\ \A k \in Slots : polls[v][k] = Idle
  BY <1>4 DEF PageInv, Blank
<1>7. Blank(v)'
  BY <1>4 DEF Blank
<1>8. PageRows(v)'
  BY <1>1, <1>3, <1>4, <1>5, <1>6 DEF PageRows, RowsOf, Idle
<1>9. Shown(v)' = ToSet(msgs)
  BY <1>4 DEF Shown
<1>10. IDShown(v, 0)'
  BY DEF IDShown
<1>11. PICK n : n = LastIDOf(msgs, 0)
  OBVIOUS
<1>12. IDShown(v, n)'
  BY <1>3, <1>5, <1>9, <1>10, <1>11, WatermarkMoves
<1>13. lastID'[v] = n
  BY <1>4, <1>11
<1>14. Watermarks(v)'
  BY <1>4, <1>6, <1>12, <1>13 DEF Watermarks, Idle
<1> QED
  BY <1>7, <1>8, <1>14

\* No page writes the table.
LEMMA PageReads ==
  ASSUME NEW v \in Streams, PageStep(v)
  PROVE  UNCHANGED tableVars /\ UNCHANGED log /\ id' = id /\ \A ch : Rows(ch)' = Rows(ch)
<1>1. UNCHANGED tableVars /\ UNCHANGED log
  BY DEF PageStep, LoadPage, OpenStream, Subscribe, StartPolling, ReceiveEvent, SendPoll, ServePoll,
         ReceivePoll, LosePoll, AskOlder, ServeOlder, ReceiveOlder, LoseOlder,
         pipelineVars, brokerVars
<1> QED
  BY <1>1 DEF tableVars, Rows

\* A page switches to its stream, or to polling.
LEMMA SwitchKeeps ==
  ASSUME PageInv, NEW v \in Streams, OpenStream(v) \/ StartPolling(v)
  PROVE  Blank(v)' /\ PageRows(v)' /\ Watermarks(v)'
<1>1. /\ mode'[v] # "blank"
      /\ UNCHANGED <<room, view, lastID, oldestID, older, seen, polls, history, loaded>>
  BY DEF OpenStream, StartPolling, PageInv, PageTypeOK, RoomOK
<1>2. PageStep(v)
  BY DEF PageStep
<1>3. id' = id /\ \A ch : Rows(ch)' = Rows(ch)
  BY <1>2, PageReads
<1>4. Blank(v)'
  BY <1>1 DEF Blank
<1>5. PageRows(v)'
  BY <1>1, <1>3 DEF PageRows, RowsOf, PageInv
<1>6. Watermarks(v)'
  BY <1>1, <1>3 DEF Watermarks, IDShown, Shown, PageInv
<1> QED
  BY <1>4, <1>5, <1>6

\* What the k-th event of a stream brings is a stored row of the page's channel.
LEMMA EventRow ==
  ASSUME Behavior, PageInv, NEW v \in Streams, NEW i \in 1..Len(written[v])
  PROVE  /\ written[v][i] \in joined[v] + 1 .. Len(log)
         /\ written[v][i] \in 1..Len(log)
         /\ log[written[v][i]].msg \in Rows(room[v])
<1>0. /\ BrokerTypeOK /\ StreamOrder /\ Lifecycle /\ OnlyCommittedBroadcast
      /\ StreamOf(v) /\ joined[v] \in Nat /\ Len(log) \in Nat
  BY DEF Behavior, BrokerInv, PipelineInv, PageInv, BrokerTypeOK
<1>1. /\ written[v] \in Seq(Nat) /\ queue[v] \in Seq(Nat)
      /\ Delivered(v) = written[v] \o queue[v]
  BY <1>0 DEF BrokerTypeOK, Delivered
<1>2. i \in 1..Len(Delivered(v)) /\ Delivered(v)[i] = written[v][i]
  <2>1. \A a, b \in Seq(Nat) : \A j \in 1..Len(a) : j \in 1..Len(a \o b) /\ (a \o b)[j] = a[j]
    OBVIOUS
  <2> QED
    BY <1>1, <2>1
<1>3. PICK p \in joined[v] + 1 .. Len(log) : p = written[v][i] /\ log[p].chan = topic[v]
  BY <1>0, <1>2 DEF StreamOrder
<1>4. p \in 1..Len(log)
  BY <1>0
<1>5. loop[v] # "idle"
  BY <1>0, <1>1 DEF Lifecycle
<1>6. topic[v] = room[v]
  BY <1>0, <1>5 DEF StreamOf
<1>7. log[p].msg \in Messages
  BY <1>0, <1>4, LogEntry
<1>8. phase[log[p].msg] = "committed" /\ chan[log[p].msg] = log[p].chan
  BY <1>0, <1>4 DEF OnlyCommittedBroadcast
<1> QED
  BY <1>3, <1>4, <1>6, <1>7, <1>8 DEF Rows

LEMMA EventKeeps ==
  ASSUME Behavior, PageInv, NEW v \in Streams, ReceiveEvent(v)
  PROVE  /\ Blank(v)' /\ PageRows(v)' /\ Watermarks(v)'
         /\ view'[v] \in Seq(Messages) /\ lastID'[v] \in Nat
         /\ Shown(v)' = Shown(v) \union {log[written[v][seen[v] + 1]].msg}
<1>1. PICK m : m = log[written[v][seen[v] + 1]].msg
  OBVIOUS
<1>2. /\ mode[v] = "sse" /\ seen[v] < Len(written[v])
      /\ view'[v] = AppendRows(view[v], <<m>>) /\ lastID'[v] = id[m]
      /\ UNCHANGED <<mode, room, oldestID, older, polls, history, loaded>>
  BY <1>1 DEF ReceiveEvent, PageInv, PageTypeOK
<1>3. m \in Rows(room[v])
  <2>1. seen[v] \in Nat /\ Len(written[v]) \in Nat
    BY DEF PageInv, PageTypeOK, Behavior, BrokerInv, BrokerTypeOK
  <2>2. seen[v] + 1 \in 1..Len(written[v])
    BY <1>2, <2>1
  <2> QED
    BY <1>1, <2>2, EventRow
<1>4. PageStep(v)
  BY DEF PageStep
<1>5. id' = id /\ \A ch : Rows(ch)' = Rows(ch)
  BY <1>4, PageReads
<1>6. m \in Messages /\ id[m] \in Nat
  BY <1>3 DEF Rows, Behavior, PipelineInv, PipelineTypeOK, TableTypeOK
<1>7. <<m>> \in Seq(Messages) /\ IsInjective(<<m>>) /\ ToSet(<<m>>) = {m}
  BY <1>6 DEF IsInjective, ToSet
<1>8. RowsOf(v, view[v])
  BY DEF PageInv, PageRows
<1>9. /\ view'[v] \in Seq(Messages) /\ IsInjective(view'[v])
      /\ ToSet(view'[v]) = ToSet(view[v]) \union {m}
  <2>1. view[v] \in Seq(Messages) /\ IsInjective(view[v])
    BY <1>8 DEF RowsOf
  <2>2. PICK one : one = <<m>>
    OBVIOUS
  <2>3. one \in Seq(Messages) /\ IsInjective(one) /\ ToSet(one) = {m}
    BY <1>7, <2>2
  <2>4. PICK s : s = AppendRows(view[v], one)
    OBVIOUS
  <2>5. s \in Seq(Messages) /\ IsInjective(s) /\ ToSet(s) = ToSet(view[v]) \union ToSet(one)
    BY <2>1, <2>3, <2>4, AddedRows
  <2> QED
    BY <1>2, <2>2, <2>3, <2>4, <2>5
<1>10. Blank(v)'
  BY <1>2 DEF Blank
<1>11. PageRows(v)'
  BY <1>2, <1>3, <1>5, <1>8, <1>9 DEF PageRows, RowsOf, PageInv
<1>12. Watermarks(v)'
  BY <1>2, <1>5, <1>9 DEF Watermarks, IDShown, Shown, PageInv
<1> QED
  BY <1>1, <1>2, <1>6, <1>9, <1>10, <1>11, <1>12 DEF Shown

\* An answer to a poll: the rows of the channel above the watermark it was sent
\* with, each once.
LEMMA PollAnswer ==
  ASSUME Behavior, PageInv, NEW v \in Streams, NEW k \in Slots, ServePoll(v, k)
  PROVE  \E msgs \in Seq(Messages) :
            /\ polls'[v] = [polls[v] EXCEPT ![k] = [at |-> "answered", msgs |-> msgs]]
            /\ RowsOf(v, msgs)
            /\ ToSet(msgs) = {i \in Rows(room[v]) : id[i] > polls[v][k].after}
<1>0. TableTypeOK /\ TableInv /\ RowsInv
  BY DEF Behavior, PipelineInv, PipelineTypeOK
<1>1. PICK msgs : msgs = MessagesSinceID(room[v], polls[v][k].after)
  OBVIOUS
<1>2. PICK ch, after : ch = room[v] /\ after = polls[v][k].after
  OBVIOUS
<1>3. /\ msgs \in Seq(Rows(ch)) /\ IsInjective(msgs)
      /\ ToSet(msgs) = {i \in Rows(ch) : id[i] > after}
  BY <1>0, <1>1, <1>2, SinceRows
<1>4. Rows(ch) \subseteq Messages
  BY DEF Rows
<1>5. msgs \in Seq(Messages) /\ RowsOf(v, msgs)
  BY <1>2, <1>3, <1>4 DEF RowsOf
<1>6. polls'[v] = [polls[v] EXCEPT ![k] = [at |-> "answered", msgs |-> msgs]]
  BY <1>1 DEF ServePoll, SetPoll, PageInv, PageTypeOK
<1> QED
  BY <1>2, <1>3, <1>5, <1>6

\* What a page makes of the answer to a poll.
LEMMA PollReceived ==
  ASSUME Behavior, PageInv, NEW v \in Streams, NEW k \in Slots, ReceivePoll(v, k)
  PROVE  \E msgs \in Seq(Messages) :
            /\ polls[v][k].at = "answered" /\ polls[v][k].msgs = msgs /\ RowsOf(v, msgs)
            /\ polls'[v] = [polls[v] EXCEPT ![k] = Idle]
            /\ view'[v] \in Seq(Messages) /\ IsInjective(view'[v])
            /\ Shown(v)' = Shown(v) \union ToSet(msgs)
            /\ lastID'[v] = LastIDOf(msgs, lastID[v]) /\ lastID'[v] \in Nat
            /\ UNCHANGED <<mode, room, oldestID, older, seen, history, loaded, pipelineVars>>
<1>1. PICK msgs : msgs = polls[v][k].msgs
  OBVIOUS
<1>2. /\ polls[v][k].at = "answered"
      /\ polls'[v] = [polls[v] EXCEPT ![k] = Idle]
      /\ view'[v] = AppendRows(view[v], msgs)
      /\ lastID'[v] = LastIDOf(msgs, lastID[v])
      /\ UNCHANGED <<mode, room, oldestID, older, seen, history, loaded, pipelineVars>>
  BY <1>1 DEF ReceivePoll, SetPoll, PageInv, PageTypeOK
<1>3. RowsOf(v, msgs) /\ RowsOf(v, view[v])
  BY <1>1, <1>2 DEF PageInv, PageRows
<1>4. PICK s : s = AppendRows(view[v], msgs)
  OBVIOUS
<1>5. s \in Seq(Messages) /\ IsInjective(s) /\ ToSet(s) = ToSet(view[v]) \union ToSet(msgs)
  BY <1>3, <1>4, AddedRows DEF RowsOf
<1>6. lastID'[v] \in Nat
  <2>1. lastID[v] \in Nat /\ id \in [Messages -> Nat] /\ msgs \in Seq(Messages)
    BY <1>3 DEF PageInv, PageTypeOK, RowsOf, Behavior, PipelineInv, PipelineTypeOK, TableTypeOK
  <2> QED
    BY <1>2, <2>1 DEF LastIDOf, Last
<1> QED
  BY <1>1, <1>2, <1>3, <1>4, <1>5, <1>6 DEF RowsOf, Shown

LEMMA PollKeeps ==
  ASSUME Behavior, PageInv, NEW v \in Streams, NEW k \in Slots,
         SendPoll(v, k) \/ ServePoll(v, k) \/ ReceivePoll(v, k) \/ LosePoll(v, k)
  PROVE  Blank(v)' /\ PageRows(v)' /\ Watermarks(v)'
<1>0. PageStep(v)
  BY DEF PageStep
<1>1. id' = id /\ \A ch : Rows(ch)' = Rows(ch)
  BY <1>0, PageReads
<1>2. mode' = mode /\ room' = room /\ loaded' = loaded /\ history' = history /\ older' = older
  BY DEF SendPoll, ServePoll, ReceivePoll, LosePoll
<1>3. \A j \in Slots : j # k => polls'[v][j] = polls[v][j]
  BY DEF SendPoll, ServePoll, ReceivePoll, LosePoll, SetPoll, PageInv, PageTypeOK
<1>4. Blank(v) /\ PageRows(v) /\ Watermarks(v)
  BY DEF PageInv
<1>5. \A s : RowsOf(v, s) => RowsOf(v, s)'
  BY <1>1, <1>2 DEF RowsOf
<1>6. mode[v] # "blank"
  <2>1. mode[v] = "blank" => polls[v][k] = Idle
    BY <1>4 DEF Blank
  <2> QED
    BY <2>1 DEF SendPoll, ServePoll, ReceivePoll, LosePoll, Idle
<1>7. Blank(v)'
  BY <1>2, <1>6 DEF Blank
<1>8. CASE SendPoll(v, k)
  <2>1. polls'[v][k] = [at |-> "sent", after |-> lastID[v]] /\ view' = view /\ lastID' = lastID
    BY <1>8 DEF SendPoll, SetPoll, PageInv, PageTypeOK
  <2>2. PageRows(v)'
    BY <1>1, <1>2, <1>3, <1>4, <1>5, <2>1 DEF PageRows
  <2>3. Watermarks(v)'
    BY <1>1, <1>3, <1>4, <2>1 DEF Watermarks, IDShown, Shown
  <2> QED
    BY <1>7, <2>2, <2>3
<1>9. CASE ServePoll(v, k)
  <2>1. view' = view /\ lastID' = lastID
    BY <1>9 DEF ServePoll
  <2>2. PICK msgs \in Seq(Messages) :
           /\ polls'[v] = [polls[v] EXCEPT ![k] = [at |-> "answered", msgs |-> msgs]]
           /\ RowsOf(v, msgs)
    BY <1>9, PollAnswer
  <2>3. polls'[v][k] = [at |-> "answered", msgs |-> msgs]
    BY <2>2 DEF PageInv, PageTypeOK
  <2>4. PageRows(v)'
    BY <1>1, <1>2, <1>3, <1>4, <1>5, <2>1, <2>2, <2>3 DEF PageRows
  <2>5. Watermarks(v)'
    BY <1>1, <1>3, <1>4, <2>1, <2>3 DEF Watermarks, IDShown, Shown
  <2> QED
    BY <1>7, <2>4, <2>5
<1>10. CASE ReceivePoll(v, k)
  <2>1. PICK msgs \in Seq(Messages) :
            /\ RowsOf(v, msgs)
            /\ polls'[v] = [polls[v] EXCEPT ![k] = Idle]
            /\ view'[v] \in Seq(Messages) /\ IsInjective(view'[v])
            /\ Shown(v)' = Shown(v) \union ToSet(msgs)
            /\ lastID'[v] = LastIDOf(msgs, lastID[v])
    BY <1>10, PollReceived
  <2>2. polls'[v][k] = Idle
    BY <2>1 DEF PageInv, PageTypeOK
  <2>3. RowsOf(v, view'[v])
    BY <1>4, <2>1 DEF PageRows, RowsOf, Shown
  <2>4. PageRows(v)'
    BY <1>1, <1>2, <1>3, <1>4, <1>5, <2>2, <2>3 DEF PageRows, RowsOf, Idle
  <2>5. \A n : IDShown(v, n) => IDShown(v, n)'
    BY <1>1, <2>1 DEF IDShown
  <2>6. PICK old, n : old = lastID[v] /\ n = LastIDOf(msgs, old)
    OBVIOUS
  <2>7. IDShown(v, n)'
    BY <1>1, <1>4, <2>1, <2>5, <2>6, WatermarkMoves DEF Watermarks
  <2>8. Watermarks(v)'
    BY <1>3, <1>4, <2>1, <2>2, <2>5, <2>6, <2>7 DEF Watermarks, Idle
  <2> QED
    BY <1>7, <2>4, <2>8
<1>11. CASE LosePoll(v, k)
  <2>1. polls'[v][k] = Idle /\ view' = view /\ lastID' = lastID
    BY <1>11 DEF LosePoll, SetPoll, PageInv, PageTypeOK
  <2>2. PageRows(v)'
    BY <1>1, <1>2, <1>3, <1>4, <1>5, <2>1 DEF PageRows, Idle
  <2>3. Watermarks(v)'
    BY <1>1, <1>3, <1>4, <2>1 DEF Watermarks, IDShown, Shown, Idle
  <2> QED
    BY <1>7, <2>2, <2>3
<1> QED
  BY <1>8, <1>9, <1>10, <1>11

\* An answer to "load older": rows of the channel, each once; a row below the
\* one it was asked from that it leaves out is below its first, and it is full.
LEMMA OlderAnswer ==
  ASSUME Behavior, PageInv, NEW v \in Streams, ServeOlder(v)
  PROVE  \E msgs \in Seq(Messages) :
            /\ history'[v] = [at |-> "answered", msgs |-> msgs]
            /\ RowsOf(v, msgs)
            /\ \A m \in Rows(room[v]) \ ToSet(msgs) : id[m] < history[v].before =>
                 Len(msgs) = PageSize /\ id[m] < id[msgs[1]]
<1>0. TableTypeOK /\ TableInv /\ RowsInv
  BY DEF Behavior, PipelineInv, PipelineTypeOK
<1>1. PICK ch, before : ch = room[v] /\ before = history[v].before
  OBVIOUS
<1>2. PICK msgs : msgs = MessagesBefore(ch, before, PageSize)
  OBVIOUS
<1>3. /\ history'[v] = [at |-> "answered", msgs |-> msgs]
      /\ before \in Nat
  <2>1. history \in [Streams -> {Idle} \union [at : {"sent"}, before : Nat] \union Answered]
    BY DEF PageInv, PageTypeOK
  <2>2. history[v].at = "sent" /\ history'[v] = [at |-> "answered", msgs |-> msgs]
    BY <1>1, <1>2, <2>1 DEF ServeOlder
  <2>3. history[v] \in [at : {"sent"}, before : Nat]
    BY <2>1, <2>2 DEF Answered, Idle
  <2> QED
    BY <1>1, <2>2, <2>3
<1>4. /\ msgs \in Seq(Rows(ch)) /\ IsInjective(msgs)
      /\ \A m \in Rows(ch) \ ToSet(msgs) :
           id[m] < before => Len(msgs) = PageSize /\ id[m] < id[msgs[1]]
  BY <1>0, <1>2, <1>3, BeforeRows
<1>5. Rows(ch) \subseteq Messages
  BY DEF Rows
<1>6. msgs \in Seq(Messages) /\ RowsOf(v, msgs)
  <2>1. msgs \in Seq(Rows(ch)) /\ IsInjective(msgs)
    BY <1>4
  <2>2. msgs \in Seq(Messages)
    BY <1>5, <2>1
  <2>3. \A k \in 1..Len(msgs) : msgs[k] \in Rows(ch)
    BY <2>1
  <2>4. ToSet(msgs) \subseteq Rows(ch)
    <3>1. DOMAIN msgs = 1..Len(msgs)
      BY <2>1
    <3> QED
      BY <2>3, <3>1 DEF ToSet
  <2>5. Rows(ch) = Rows(room[v])
    BY <1>1
  <2> QED
    BY <2>1, <2>2, <2>4, <2>5 DEF RowsOf
<1> QED
  BY <1>1, <1>3, <1>4, <1>6

LEMMA OlderReceived ==
  ASSUME Behavior, PageInv, NEW v \in Streams, ReceiveOlder(v)
  PROVE  \E msgs \in Seq(Messages) :
            /\ history[v].at = "answered" /\ history[v].msgs = msgs /\ RowsOf(v, msgs)
            /\ history'[v] = Idle
            /\ view'[v] \in Seq(Messages) /\ IsInjective(view'[v])
            /\ Shown(v)' = Shown(v) \union ToSet(msgs)
            /\ oldestID'[v] = OldestIDOf(msgs, oldestID[v]) /\ oldestID'[v] \in Nat
            /\ older'[v] = MayHaveOlder(msgs)
            /\ UNCHANGED <<mode, room, lastID, seen, polls, loaded, pipelineVars>>
<1>1. PICK msgs : msgs = history[v].msgs
  OBVIOUS
<1>2. /\ history[v].at = "answered"
      /\ history'[v] = Idle
      /\ view'[v] = Fresh(view[v], msgs) \o view[v]
      /\ oldestID'[v] = OldestIDOf(msgs, oldestID[v])
      /\ older'[v] = MayHaveOlder(msgs)
      /\ UNCHANGED <<mode, room, lastID, seen, polls, loaded, pipelineVars>>
  BY <1>1 DEF ReceiveOlder, PageInv, PageTypeOK
<1>3. RowsOf(v, msgs) /\ RowsOf(v, view[v])
  BY <1>1, <1>2 DEF PageInv, PageRows
<1>4. PICK rows : rows = view[v]
  OBVIOUS
<1>5. PICK s : s = Fresh(rows, msgs) \o rows
  OBVIOUS
<1>7. s \in Seq(Messages) /\ IsInjective(s) /\ ToSet(s) = ToSet(rows) \union ToSet(msgs)
  <2>1. /\ rows \in Seq(Messages) /\ IsInjective(rows)
        /\ msgs \in Seq(Messages) /\ IsInjective(msgs)
    BY <1>3, <1>4 DEF RowsOf
  <2>2. s = AppendRows(rows, msgs) \/ s = Fresh(rows, msgs) \o rows
    BY <1>5
  <2> HIDE <1>5
  <2> QED
    BY <2>1, <2>2, AddedRows
<1>6. oldestID'[v] \in Nat
  <2>1. oldestID[v] \in Nat /\ id \in [Messages -> Nat] /\ msgs \in Seq(Messages)
    BY <1>3 DEF PageInv, PageTypeOK, RowsOf, Behavior, PipelineInv, PipelineTypeOK, TableTypeOK
  <2> QED
    BY <1>2, <2>1 DEF OldestIDOf
<1> QED
  BY <1>1, <1>2, <1>3, <1>4, <1>5, <1>6, <1>7 DEF RowsOf, Shown

LEMMA OlderKeeps ==
  ASSUME Behavior, PageInv, NEW v \in Streams,
         AskOlder(v) \/ ServeOlder(v) \/ ReceiveOlder(v) \/ LoseOlder(v)
  PROVE  Blank(v)' /\ PageRows(v)' /\ Watermarks(v)'
<1>0. PageStep(v)
  BY DEF PageStep
<1>1. id' = id /\ \A ch : Rows(ch)' = Rows(ch)
  BY <1>0, PageReads
<1>2. mode' = mode /\ room' = room /\ loaded' = loaded /\ polls' = polls /\ lastID' = lastID
  BY DEF AskOlder, ServeOlder, ReceiveOlder, LoseOlder
<1>4. Blank(v) /\ PageRows(v) /\ Watermarks(v)
  BY DEF PageInv
<1>5. \A s : RowsOf(v, s) => RowsOf(v, s)'
  BY <1>1, <1>2 DEF RowsOf
<1>6. mode[v] # "blank"
  <2>1. CASE AskOlder(v)
    BY <2>1 DEF AskOlder
  <2>2. CASE ServeOlder(v) \/ ReceiveOlder(v) \/ LoseOlder(v)
    <3>1. history[v].at # "idle"
      BY <2>2 DEF ServeOlder, ReceiveOlder, LoseOlder
    <3>2. history[v] # Idle
      BY <3>1 DEF Idle
    <3> QED
      BY <1>4, <3>2 DEF Blank
  <2> QED
    BY <2>1, <2>2
<1>7. Blank(v)'
  BY <1>2, <1>6 DEF Blank
<1>8. CASE AskOlder(v) \/ LoseOlder(v)
  <2>1. history'[v].at # "answered" /\ view' = view
    BY <1>8 DEF AskOlder, LoseOlder, Idle, PageInv, PageTypeOK
  <2>2. PageRows(v)' /\ Watermarks(v)'
    BY <1>1, <1>2, <1>4, <1>5, <2>1 DEF PageRows, Watermarks, IDShown, Shown
  <2> QED
    BY <1>7, <2>2
<1>9. CASE ServeOlder(v)
  <2>1. view' = view
    BY <1>9 DEF ServeOlder
  <2>2. PICK msgs \in Seq(Messages) :
           history'[v] = [at |-> "answered", msgs |-> msgs] /\ RowsOf(v, msgs)
    BY <1>9, OlderAnswer
  <2>3. PageRows(v)' /\ Watermarks(v)'
    BY <1>1, <1>2, <1>4, <1>5, <2>1, <2>2 DEF PageRows, Watermarks, IDShown, Shown
  <2> QED
    BY <1>7, <2>3
<1>10. CASE ReceiveOlder(v)
  <2>1. PICK msgs \in Seq(Messages) :
            /\ RowsOf(v, msgs)
            /\ history'[v] = Idle
            /\ view'[v] \in Seq(Messages) /\ IsInjective(view'[v])
            /\ Shown(v)' = Shown(v) \union ToSet(msgs)
    BY <1>10, OlderReceived
  <2>2. RowsOf(v, view'[v])
    BY <1>4, <2>1 DEF PageRows, RowsOf, Shown
  <2>3. PageRows(v)'
    BY <1>1, <1>2, <1>4, <1>5, <2>1, <2>2 DEF PageRows, RowsOf, Idle
  <2>4. Watermarks(v)'
    BY <1>1, <1>2, <1>4, <2>1 DEF Watermarks, IDShown
  <2> QED
    BY <1>7, <2>3, <2>4
<1> QED
  BY <1>8, <1>9, <1>10

-----------------------------------------------------------------------------
\* The streams under the pages.

\* A stream that has subscribed stays that stream: its channel and what it has
\* carried do not change.
StreamStays(w) ==
  /\ (loop'[w] = "idle") <=> (loop[w] = "idle")
  /\ loop[w] = "gone" => loop'[w] = "gone"
  /\ topic'[w] = topic[w] /\ joined'[w] = joined[w]
  /\ Len(written[w]) <= Len(written'[w])
  /\ \A i \in 1..Len(written[w]) : written'[w][i] = written[w][i]

LEMMA StreamKept ==
  ASSUME BrokerTypeOK, NEW w \in Streams,
         \/ UNCHANGED brokerVars
         \/ BrokerCrash
         \/ \E ch \in Channels, m \in Messages : Broadcast(ch, m)
         \/ \E s \in Streams : WriteEvent(s) \/ LeaveLoop(s) \/ Unsubscribe(s)
         \/ \E s \in Streams, ch \in Channels : s # w /\ Subscribe(s, ch)
  PROVE  StreamStays(w)
<1>0. /\ loop \in [Streams -> Loops] /\ written[w] \in Seq(Nat) /\ Len(written[w]) \in Nat
      /\ topic \in [Streams -> Channels \union {NoChannel}] /\ joined \in [Streams -> Nat]
      /\ written \in [Streams -> Seq(Nat)]
  BY DEF BrokerTypeOK
<1>1. CASE UNCHANGED brokerVars \/ \E ch \in Channels, m \in Messages : Broadcast(ch, m)
  <2>1. UNCHANGED <<loop, topic, joined, written>>
    BY <1>1 DEF brokerVars, Broadcast
  <2> QED
    BY <1>0, <2>1 DEF StreamStays
<1>2. CASE BrokerCrash
  BY <1>0, <1>2 DEF BrokerCrash, Listed, StreamStays
<1>3. ASSUME NEW s \in Streams, LeaveLoop(s) \/ Unsubscribe(s)
      PROVE  StreamStays(w)
  BY <1>0, <1>3 DEF LeaveLoop, Unsubscribe, StreamStays
<1>4. ASSUME NEW s \in Streams, WriteEvent(s)
      PROVE  StreamStays(w)
  <2>1. UNCHANGED <<loop, topic, joined>>
    BY <1>4 DEF WriteEvent
  <2>2. PICK p : p = Head(queue[s])
    OBVIOUS
  <2>3. written' = [written EXCEPT ![s] = Append(@, p)]
    BY <1>4, <2>2 DEF WriteEvent
  <2>4. written'[w] = IF w = s THEN Append(written[w], p) ELSE written[w]
    BY <1>0, <2>3
  <2>5. /\ Len(written[w]) <= Len(written'[w])
        /\ \A i \in 1..Len(written[w]) : written'[w][i] = written[w][i]
    BY <1>0, <2>4
  <2> QED
    BY <2>1, <2>5 DEF StreamStays
<1>5. ASSUME NEW s \in Streams, s # w, NEW ch \in Channels, Subscribe(s, ch)
      PROVE  StreamStays(w)
  BY <1>0, <1>5 DEF Subscribe, StreamStays
<1> QED
  BY <1>1, <1>2, <1>3, <1>4, <1>5

\* The handlers behind the pages broadcast, or leave the broker alone; a crash
\* takes the broker with it.
LEMMA BehindBroker ==
  ASSUME PipelineInv, Behind
  PROVE  \/ UNCHANGED brokerVars
         \/ /\ UNCHANGED tableVars
            /\ \/ BrokerCrash
               \/ \E ch \in Channels, m \in Messages : Broadcast(ch, m)
<1>1. ASSUME NEW r \in Requests, RequestArrives(r) \/ CallAbandoned(r)
      PROVE  UNCHANGED brokerVars
  BY <1>1 DEF RequestArrives, Reject, Accept, CallAbandoned
<1>2. ASSUME NEW r \in Requests, BroadcastOwn(r) \/ BroadcastReply(r)
      PROVE  UNCHANGED tableVars /\ \E ch \in Channels, m \in Messages : Broadcast(ch, m)
  <2>1. pc[r] \in {"broadcast", "announce"} /\ UNCHANGED tableVars
    BY <1>2 DEF BroadcastOwn, BroadcastReply, Goto
  <2>2. chan[Own(r)] \in Channels
    BY <2>1, ChannelOfRow DEF PipelineInv
  <2> QED
    BY <1>2, <2>1, <2>2, MessageNames DEF BroadcastOwn, BroadcastReply
<1>3. ASSUME NEW r \in Requests, HandlerStep(r), ~(BroadcastOwn(r) \/ BroadcastReply(r))
      PROVE  UNCHANGED brokerVars
  BY <1>3 DEF HandlerStep, InsertReturns, InsertFails, NoDispatch, Answer, ReplyReturns, ReplyFails
<1>4. ASSUME NEW i \in Messages, DbStep(i)
      PROVE  UNCHANGED brokerVars
  BY <1>4 DEF DbStep
<1>5. ServerCrash => UNCHANGED tableVars /\ BrokerCrash
  BY DEF ServerCrash
<1> QED
  BY <1>1, <1>2, <1>3, <1>4, <1>5 DEF Behind

\* Only OpenStream touches the server.
LEMMA PageLeavesServer ==
  ASSUME NEW v \in Streams, PageStep(v), ~OpenStream(v)
  PROVE  UNCHANGED pipelineVars
<1>1. ASSUME NEW k \in Slots,
             SendPoll(v, k) \/ ServePoll(v, k) \/ ReceivePoll(v, k) \/ LosePoll(v, k)
      PROVE  UNCHANGED pipelineVars
  BY <1>1 DEF SendPoll, ServePoll, ReceivePoll, LosePoll
<1>2. ASSUME \/ \E ch \in Channels : LoadPage(v, ch)
             \/ StartPolling(v) \/ ReceiveEvent(v) \/ AskOlder(v) \/ ServeOlder(v)
             \/ ReceiveOlder(v) \/ LoseOlder(v)
      PROVE  UNCHANGED pipelineVars
  BY <1>2 DEF LoadPage, StartPolling, ReceiveEvent, AskOlder, ServeOlder, ReceiveOlder, LoseOlder
<1> QED
  BY <1>1, <1>2 DEF PageStep

\* Every stream but one that is being opened stays what it is.
LEMMA StreamsStay ==
  ASSUME RoomOK, Behavior, [LiveNext]_liveVars, NEW w \in Streams, ~OpenStream(w)
  PROVE  StreamStays(w)
<1>0. BrokerTypeOK /\ PipelineInv
  BY DEF Behavior, BrokerInv
<1>1. CASE UNCHANGED liveVars
  BY <1>0, <1>1, StreamKept DEF liveVars, pipelineVars
<1>2. CASE Behind
  BY <1>0, <1>2, BehindBroker, StreamKept
<1>3. ASSUME NEW s \in Streams, HandleStream(s)
      PROVE  StreamStays(w)
  BY <1>0, <1>3, StreamKept DEF HandleStream
<1>4. ASSUME NEW v \in Streams, PageStep(v)
      PROVE  StreamStays(w)
  <2>1. CASE OpenStream(v)
    <3>1. room[v] \in Channels /\ v # w
      BY <2>1 DEF OpenStream, RoomOK
    <3> QED
      BY <1>0, <2>1, <3>1, StreamKept DEF OpenStream
  <2>2. CASE ~OpenStream(v)
    BY <1>0, <1>4, <2>2, PageLeavesServer, StreamKept DEF pipelineVars
  <2> QED
    BY <2>1, <2>2
<1> QED
  BY <1>1, <1>2, <1>3, <1>4 DEF LiveNext

\* The page and its stream agree after every step.
LEMMA StreamOfStep ==
  ASSUME Behavior, PageInv, [LiveNext]_liveVars, NEW w \in Streams
  PROVE  StreamOf(w)'
<1>0. /\ BrokerTypeOK /\ RoomOK /\ StreamOf(w)
      /\ written[w] \in Seq(Nat) /\ Len(written[w]) \in Nat /\ seen[w] \in Nat
      /\ mode \in [Streams -> {"blank", "page", "sse", "poll"}] /\ seen \in [Streams -> Nat]
      /\ room \in [Streams -> Channels \union {NoChannel}]
  BY DEF Behavior, BrokerInv, PageInv, PageTypeOK, BrokerTypeOK, RoomOK
<1>1. CASE OpenStream(w)
  <2>1. /\ mode'[w] = "sse" /\ room' = room /\ seen' = seen
        /\ loop'[w] = "serving" /\ topic'[w] = room[w] /\ written' = written
    BY <1>0, <1>1 DEF OpenStream, Subscribe, BrokerTypeOK
  <2> QED
    BY <1>0, <2>1 DEF StreamOf
<1>2. CASE ~OpenStream(w)
  <2>1. StreamStays(w)
    BY <1>0, <1>2, StreamsStay
  <2>2. Len(written'[w]) \in Nat
    <3>1. [PipelineNext]_pipelineVars
      BY <1>0, LiveStep
    <3>2. BrokerTypeOK'
      BY <3>1, PipelineStep DEF Behavior, PipelineInv, PipelineTypeOK
    <3> QED
      BY <3>2 DEF BrokerTypeOK
  <2>3. CASE mode'[w] = mode[w] /\ room'[w] = room[w] /\ seen'[w] = seen[w]
    BY <1>0, <2>1, <2>2, <2>3 DEF StreamOf, StreamStays
  <2>4. CASE StartPolling(w)
    <3>1. mode[w] \in {"page", "sse"} /\ mode'[w] = "poll" /\ room' = room /\ seen' = seen
      BY <1>0, <2>4 DEF StartPolling
    <3> QED
      BY <1>0, <2>1, <2>2, <3>1 DEF StreamOf, StreamStays
  <2>5. ASSUME NEW ch \in Channels, LoadPage(w, ch)
        PROVE  StreamOf(w)'
    <3>1. mode[w] = "blank" /\ mode'[w] = "page" /\ seen' = seen
      BY <1>0, <2>5 DEF LoadPage
    <3> QED
      BY <1>0, <2>1, <2>2, <3>1 DEF StreamOf, StreamStays
  <2>6. CASE ReceiveEvent(w)
    <3>1. mode' = mode /\ room' = room /\ seen[w] < Len(written[w]) /\ seen'[w] = seen[w] + 1
      BY <1>0, <2>6 DEF ReceiveEvent
    <3> QED
      BY <1>0, <2>1, <2>2, <3>1 DEF StreamOf, StreamStays
  <2>7. ASSUME NEW k \in Slots,
               SendPoll(w, k) \/ ServePoll(w, k) \/ ReceivePoll(w, k) \/ LosePoll(w, k)
        PROVE  mode' = mode /\ room' = room /\ seen' = seen
    BY <2>7 DEF SendPoll, ServePoll, ReceivePoll, LosePoll
  <2>8. CASE AskOlder(w) \/ ServeOlder(w) \/ ReceiveOlder(w) \/ LoseOlder(w)
    BY <2>3, <2>8 DEF AskOlder, ServeOlder, ReceiveOlder, LoseOlder
  <2>9. CASE PageStep(w)
    BY <1>2, <2>3, <2>4, <2>5, <2>6, <2>7, <2>8, <2>9 DEF PageStep
  <2>10. ASSUME NEW v \in Streams, v # w, PageStep(v)
         PROVE  StreamOf(w)'
    BY <2>3, <2>10, OthersStay DEF PageOf, PageInv
  <2>11. CASE Behind \/ UNCHANGED liveVars \/ \E s \in Streams : HandleStream(s)
    BY <2>3, <2>11, PagesStay DEF PageOf
  <2> QED
    BY <2>9, <2>10, <2>11 DEF LiveNext
<1> QED
  BY <1>1, <1>2

-----------------------------------------------------------------------------
\* The types of a page, and the invariant of the pages.

LEMMA FirstOrLastID ==
  ASSUME TableTypeOK, NEW msgs \in Seq(Messages), NEW old \in Nat
  PROVE  LastIDOf(msgs, old) \in Nat /\ OldestIDOf(msgs, old) \in Nat
  BY DEF TableTypeOK, LastIDOf, OldestIDOf, Last

LEMMA PageTypeStep ==
  ASSUME Behavior, PageInv, RoomOK', NEW v \in Streams, PageStep(v)
  PROVE  PageTypeOK'
<1> USE DEF PageTypeOK
<1>0. PageTypeOK /\ TableTypeOK
  BY DEF PageInv, Behavior, PipelineInv, PipelineTypeOK
<1>1. ASSUME NEW ch \in Channels, LoadPage(v, ch)
      PROVE  PageTypeOK'
  <2>1. PICK msgs : msgs = RecentMessages(ch, PageSize)
    OBVIOUS
  <2>2. msgs \in Seq(Messages) /\ Rows(ch) \in SUBSET Messages
    <3>1. msgs \in Seq(Rows(ch))
      BY <2>1, RecentRows DEF Behavior, PipelineInv, PipelineTypeOK
    <3>2. Rows(ch) \subseteq Messages
      BY DEF Rows
    <3> QED
      BY <3>1, <3>2
  <2>3. LastIDOf(msgs, 0) \in Nat /\ OldestIDOf(msgs, 0) \in Nat
    BY <1>0, <2>2, FirstOrLastID
  <2>4. /\ view' = [view EXCEPT ![v] = msgs]
        /\ lastID' = [lastID EXCEPT ![v] = LastIDOf(msgs, 0)]
        /\ oldestID' = [oldestID EXCEPT ![v] = OldestIDOf(msgs, 0)]
        /\ older' = [older EXCEPT ![v] = MayHaveOlder(msgs)]
        /\ loaded' = [loaded EXCEPT ![v] = Rows(ch)]
        /\ UNCHANGED <<seen, polls, history>>
    BY <1>1, <2>1 DEF LoadPage
  <2>5. MayHaveOlder(msgs) \in BOOLEAN
    BY DEF MayHaveOlder
  <2> QED
    BY <1>0, <2>2, <2>3, <2>4, <2>5
<1>2. CASE OpenStream(v) \/ StartPolling(v)
  BY <1>0, <1>2 DEF OpenStream, StartPolling
<1>3. CASE ReceiveEvent(v)
  <2>1. PICK s, n : s = view'[v] /\ n = lastID'[v]
    OBVIOUS
  <2>2. /\ UNCHANGED <<oldestID, older, polls, history, loaded>>
        /\ seen' = [seen EXCEPT ![v] = @ + 1]
        /\ view' = [view EXCEPT ![v] = s]
        /\ lastID' = [lastID EXCEPT ![v] = n]
    BY <1>0, <1>3, <2>1 DEF ReceiveEvent
  <2>3. s \in Seq(Messages) /\ n \in Nat
    BY <1>3, <2>1, EventKeeps
  <2> QED
    BY <1>0, <2>2, <2>3
<1>4. ASSUME NEW k \in Slots, SendPoll(v, k)
      PROVE  PageTypeOK'
  <2>1. /\ UNCHANGED <<view, lastID, oldestID, older, seen, history, loaded>>
        /\ polls' = [polls EXCEPT ![v][k] = [at |-> "sent", after |-> lastID[v]]]
    BY <1>4 DEF SendPoll, SetPoll
  <2>2. [at |-> "sent", after |-> lastID[v]] \in [at : {"sent"}, after : Nat]
    BY <1>0
  <2> QED
    BY <1>0, <2>1, <2>2
<1>5. ASSUME NEW k \in Slots, ServePoll(v, k)
      PROVE  PageTypeOK'
  <2>1. /\ UNCHANGED <<view, lastID, oldestID, older, seen, history, loaded>>
        /\ \E p : polls' = [polls EXCEPT ![v][k] = p]
    BY <1>5 DEF ServePoll, SetPoll
  <2>2. PICK msgs \in Seq(Messages) :
          polls'[v] = [polls[v] EXCEPT ![k] = [at |-> "answered", msgs |-> msgs]]
    BY <1>5, PollAnswer
  <2>3. [at |-> "answered", msgs |-> msgs] \in Answered
    BY DEF Answered
  <2>4. polls' = [polls EXCEPT ![v][k] = [at |-> "answered", msgs |-> msgs]]
    BY <1>0, <2>1, <2>2
  <2> QED
    BY <1>0, <2>1, <2>3, <2>4
<1>6. ASSUME NEW k \in Slots, ReceivePoll(v, k)
      PROVE  PageTypeOK'
  <2>1. PICK s, n : s = view'[v] /\ n = lastID'[v]
    OBVIOUS
  <2>2. /\ UNCHANGED <<oldestID, older, seen, history, loaded>>
        /\ polls' = [polls EXCEPT ![v][k] = Idle]
        /\ view' = [view EXCEPT ![v] = s]
        /\ lastID' = [lastID EXCEPT ![v] = n]
    BY <1>0, <1>6, <2>1 DEF ReceivePoll, SetPoll
  <2>3. s \in Seq(Messages) /\ n \in Nat
    BY <1>6, <2>1, PollReceived
  <2> QED
    BY <1>0, <2>2, <2>3
<1>7. ASSUME NEW k \in Slots, LosePoll(v, k)
      PROVE  PageTypeOK'
  BY <1>0, <1>7 DEF LosePoll, SetPoll
<1>8. CASE AskOlder(v) \/ LoseOlder(v)
  <2>1. [at |-> "sent", before |-> oldestID[v]] \in [at : {"sent"}, before : Nat]
    BY <1>0
  <2>2. /\ UNCHANGED <<view, lastID, oldestID, older, seen, polls, loaded>>
        /\ \E h \in {Idle, [at |-> "sent", before |-> oldestID[v]]} :
             history' = [history EXCEPT ![v] = h]
    BY <1>8 DEF AskOlder, LoseOlder
  <2> QED
    BY <1>0, <2>1, <2>2
<1>9. CASE ServeOlder(v)
  <2>1. /\ UNCHANGED <<view, lastID, oldestID, older, seen, polls, loaded>>
        /\ \E h : history' = [history EXCEPT ![v] = h]
    BY <1>9 DEF ServeOlder
  <2>2. PICK msgs \in Seq(Messages) : history'[v] = [at |-> "answered", msgs |-> msgs]
    BY <1>9, OlderAnswer
  <2>3. [at |-> "answered", msgs |-> msgs] \in Answered
    BY DEF Answered
  <2> QED
    BY <1>0, <2>1, <2>2, <2>3
<1>10. CASE ReceiveOlder(v)
  <2>1. PICK s, n : s = view'[v] /\ n = oldestID'[v]
    OBVIOUS
  <2>2. PICK b : b = older'[v]
    OBVIOUS
  <2>3. /\ UNCHANGED <<lastID, seen, polls, loaded>>
        /\ history' = [history EXCEPT ![v] = Idle]
        /\ view' = [view EXCEPT ![v] = s]
        /\ oldestID' = [oldestID EXCEPT ![v] = n]
        /\ older' = [older EXCEPT ![v] = b]
    BY <1>0, <1>10, <2>1, <2>2 DEF ReceiveOlder
  <2>4. s \in Seq(Messages) /\ n \in Nat /\ b \in BOOLEAN
    BY <1>10, <2>1, <2>2, OlderReceived DEF MayHaveOlder
  <2> QED
    BY <1>0, <2>3, <2>4
<1> QED
  BY <1>1, <1>2, <1>3, <1>4, <1>5, <1>6, <1>7, <1>8, <1>9, <1>10 DEF PageStep

LEMMA PageStepKeeps ==
  ASSUME Behavior, PageInv, RowsStay, NEW v \in Streams, PageStep(v)
  PROVE  Blank(v)' /\ PageRows(v)' /\ Watermarks(v)'
<1>1. ASSUME NEW ch \in Channels, LoadPage(v, ch)
      PROVE  Blank(v)' /\ PageRows(v)' /\ Watermarks(v)'
  BY <1>1, LoadPageKeeps
<1>2. ASSUME NEW k \in Slots,
             SendPoll(v, k) \/ ServePoll(v, k) \/ ReceivePoll(v, k) \/ LosePoll(v, k)
      PROVE  Blank(v)' /\ PageRows(v)' /\ Watermarks(v)'
  BY <1>2, PollKeeps
<1> QED
  BY <1>1, <1>2, SwitchKeeps, EventKeeps, OlderKeeps DEF PageStep

LEMMA PageInvStep ==
  ASSUME Behavior, PageInv, [LiveNext]_liveVars
  PROVE  Behavior' /\ PageInv' /\ RowsStay /\ LogStays
<1>1. RoomOK /\ PageTypeOK
  BY DEF PageInv, PageTypeOK
<1>2. Behavior' /\ RowsStay /\ LogStays /\ RoomOK'
  BY <1>1, BehaviorStep, RoomStep
<1>3. PageTypeOK'
  <2>1. UNCHANGED pageVars => PageTypeOK'
    BY <1>1, <1>2 DEF PageTypeOK, pageVars
  <2>2. CASE UNCHANGED liveVars \/ Behind \/ \E s \in Streams : HandleStream(s)
    BY <2>1, <2>2 DEF liveVars, Behind, HandleStream
  <2> QED
    BY <1>2, <2>2, PageTypeStep DEF LiveNext
<1>4. ASSUME NEW w \in Streams
      PROVE  Blank(w)' /\ PageRows(w)' /\ Watermarks(w)'
  <2>1. Blank(w) /\ PageRows(w) /\ Watermarks(w)
    BY DEF PageInv
  <2>2. UNCHANGED PageOf(w) => Blank(w)' /\ PageRows(w)' /\ Watermarks(w)'
    BY <1>2, <2>1, SamePage
  <2>3. CASE Behind \/ UNCHANGED liveVars \/ \E s \in Streams : HandleStream(s)
    BY <2>2, <2>3, PagesStay
  <2>4. ASSUME NEW v \in Streams, PageStep(v), v # w
        PROVE  Blank(w)' /\ PageRows(w)' /\ Watermarks(w)'
    BY <1>1, <2>2, <2>4, OthersStay
  <2> QED
    BY <1>2, <2>3, <2>4, PageStepKeeps DEF LiveNext
<1>5. \A w \in Streams : StreamOf(w)'
  BY StreamOfStep
<1> QED
  BY <1>2, <1>3, <1>4, <1>5 DEF PageInv

LEMMA PageInitially == LiveInit => PageInv
<1> SUFFICES ASSUME LiveInit PROVE PageInv
  OBVIOUS
<1> USE DEF LiveInit
<1>1. PageTypeOK
  BY DEF PageTypeOK, RoomOK
<1>2. ASSUME NEW v \in Streams
      PROVE  Blank(v) /\ StreamOf(v) /\ PageRows(v) /\ Watermarks(v)
  <2>1. Blank(v)
    BY DEF Blank
  <2>2. StreamOf(v)
    BY DEF StreamOf, PipelineInit, BrokerInit
  <2>3. PageRows(v)
    <3>1. <<>> \in Seq(Messages) /\ IsInjective(<<>>) /\ ToSet(<<>>) = {}
      BY DEF IsInjective, ToSet
    <3> QED
      BY <3>1 DEF PageRows, RowsOf, Idle
  <2>4. Watermarks(v)
    BY DEF Watermarks, IDShown, Idle
  <2> QED
    BY <2>1, <2>2, <2>3, <2>4
<1> QED
  BY <1>1, <1>2 DEF PageInv

\* The inductive invariant of the pages: what they show, are sent and ask for.
THEOREM PageInvariant == LiveSpec => [](Behavior /\ PageInv)
<1>1. LiveInit => Behavior /\ PageInv
  BY BehaviorInitially, PageInitially
<1>2. Behavior /\ PageInv /\ [LiveNext]_liveVars => Behavior' /\ PageInv'
  BY PageInvStep
<1> QED
  BY <1>1, <1>2, PTL DEF LiveSpec

\* The types of the page's variables in every state of any number of pages, and
\* no page has handled more events than its stream has written.
THEOREM LiveTypeCorrect == LiveSpec => []LiveTypeOK
<1>1. Behavior /\ PageInv => LiveTypeOK
  <2> SUFFICES ASSUME Behavior, PageInv PROVE LiveTypeOK
    OBVIOUS
  <2>1. PipelineTypeOK /\ PageTypeOK /\ RoomOK
    BY DEF Behavior, PipelineInv, PageInv, PageTypeOK
  <2>2. \A v \in Streams : seen[v] <= Len(written[v])
    BY DEF PageInv, StreamOf
  <2>3. \A v \in Streams, k \in Slots : polls[v][k].at \in {"idle", "sent", "answered"}
    BY <2>1 DEF PageTypeOK, Idle, Answered
  <2>4. \A v \in Streams : history[v].at \in {"idle", "sent", "answered"}
    BY <2>1 DEF PageTypeOK, Idle, Answered
  <2> QED
    BY <2>1, <2>2, <2>3, <2>4 DEF LiveTypeOK, PageTypeOK, RoomOK
<1> QED
  BY <1>1, PageInvariant, PTL

\* chat.js never puts a message on the page twice: the page's query, the stream,
\* overlapping polls and "load older" bring rows of which each is looked up.
THEOREM RowsAreDistinct == LiveSpec => []NoDuplicateRows
<1>1. PageInv => NoDuplicateRows
  BY DEF PageInv, PageRows, RowsOf, NoDuplicateRows
<1> QED
  BY <1>1, PageInvariant, PTL

\* The id a poll asks from is that of a row on the page, whatever answers were
\* lost, refused or came in another order.
THEOREM WatermarksAreShown == LiveSpec => []WatermarkIsShown
<1>1. PageInv => WatermarkIsShown
  BY DEF PageInv, Watermarks, IDShown, WatermarkIsShown
<1> QED
  BY <1>1, PageInvariant, PTL

-----------------------------------------------------------------------------
\* What a page has taken from the channel stays on it.

\* A page that is not being loaded keeps its channel and the rows it shows.
PageGrows(w) ==
  /\ mode'[w] = "blank" => mode[w] = "blank"
  /\ room'[w] = room[w] /\ loaded'[w] = loaded[w]
  /\ Shown(w) \subseteq Shown(w)'
  /\ seen'[w] = seen[w] \/ ReceiveEvent(w)

LEMMA PagesGrow ==
  ASSUME Behavior, PageInv, [LiveNext]_liveVars, NEW w \in Streams,
         \A ch \in Channels : ~LoadPage(w, ch)
  PROVE  PageGrows(w)
<1>0. PageTypeOK /\ RoomOK
  BY DEF PageInv, PageTypeOK
<1>1. CASE UNCHANGED PageOf(w)
  BY <1>1 DEF PageGrows, PageOf, Shown
<1>2. CASE OpenStream(w) \/ StartPolling(w)
  BY <1>0, <1>2 DEF OpenStream, StartPolling, PageGrows, Shown, PageTypeOK, RoomOK
<1>3. CASE ReceiveEvent(w)
  <2>1. mode' = mode /\ room' = room /\ loaded' = loaded
    BY <1>3 DEF ReceiveEvent
  <2> QED
    BY <1>3, <2>1, EventKeeps DEF PageGrows
<1>4. ASSUME NEW k \in Slots, SendPoll(w, k) \/ ServePoll(w, k) \/ LosePoll(w, k)
      PROVE  PageGrows(w)
  BY <1>4 DEF SendPoll, ServePoll, LosePoll, PageGrows, Shown
<1>5. ASSUME NEW k \in Slots, ReceivePoll(w, k)
      PROVE  PageGrows(w)
  <2>1. mode' = mode /\ room' = room /\ loaded' = loaded /\ seen' = seen
    BY <1>5 DEF ReceivePoll
  <2>2. Shown(w) \subseteq Shown(w)'
    BY <1>5, PollReceived
  <2> QED
    BY <2>1, <2>2 DEF PageGrows
<1>6. CASE AskOlder(w) \/ ServeOlder(w) \/ LoseOlder(w)
  BY <1>6 DEF AskOlder, ServeOlder, LoseOlder, PageGrows, Shown
<1>7. CASE ReceiveOlder(w)
  <2>1. mode' = mode /\ room' = room /\ loaded' = loaded /\ seen' = seen
    BY <1>7 DEF ReceiveOlder
  <2>2. Shown(w) \subseteq Shown(w)'
    BY <1>7, OlderReceived
  <2> QED
    BY <2>1, <2>2 DEF PageGrows
<1>8. CASE PageStep(w)
  BY <1>2, <1>3, <1>4, <1>5, <1>6, <1>7, <1>8 DEF PageStep
<1>9. ASSUME NEW v \in Streams, v # w, PageStep(v)
      PROVE  UNCHANGED PageOf(w)
  BY <1>0, <1>9, OthersStay
<1>10. CASE Behind \/ UNCHANGED liveVars \/ \E s \in Streams : HandleStream(s)
  BY <1>1, <1>10, PagesStay
<1> QED
  BY <1>1, <1>8, <1>9, <1>10 DEF LiveNext

\* created_at of rows does not change, so what is older than the page stays so.
LEMMA OlderThanPageStays ==
  ASSUME Behavior, PageInv, RowsStay, NEW w \in Streams, loaded'[w] = loaded[w],
         NEW m, BeforeFirstRow(w, m)
  PROVE  BeforeFirstRow(w, m)'
<1>1. \A i \in loaded[w] : stamp'[i] = stamp[i]
  <2>1. loaded[w] \subseteq Rows(room[w])
    BY DEF PageInv, PageRows
  <2> QED
    BY <2>1, RowsGrow
<1>2. m \in loaded[w]
  BY DEF BeforeFirstRow
<1>3. {i \in loaded[w] : stamp[m] < stamp[i]} = {i \in loaded'[w] : stamp'[m] < stamp'[i]}
  BY <1>1, <1>2
<1> QED
  BY <1>2, <1>3 DEF BeforeFirstRow

LEMMA ReceivedByLoad ==
  ASSUME Behavior, PageInv, NEW v \in Streams, NEW ch \in Channels, LoadPage(v, ch)
  PROVE  Received(v)'
<1>1. PICK msgs : msgs = RecentMessages(ch, PageSize)
  OBVIOUS
<1>2. /\ mode[v] = "blank" /\ view'[v] = msgs /\ loaded'[v] = Rows(ch) /\ seen' = seen
      /\ UNCHANGED pipelineVars
  BY <1>1 DEF LoadPage, PageInv, PageTypeOK
<1>3. stamp' = stamp
  BY <1>2 DEF pipelineVars, tableVars
<1>4. \A m \in Rows(ch) \ ToSet(msgs) :
        PageSize <= Cardinality({i \in Rows(ch) : stamp[m] < stamp[i]})
  <2>1. TableTypeOK /\ TableInv /\ RowsInv
    BY DEF Behavior, PipelineInv, PipelineTypeOK
  <2> QED
    BY <1>1, <2>1, RecentRows
<1>5. seen'[v] = 0
  <2>1. loop[v] = "idle"
    BY <1>2 DEF PageInv, StreamOf
  <2>2. written[v] = <<>>
    BY <2>1 DEF Behavior, BrokerInv, Lifecycle
  <2>3. seen[v] <= Len(written[v]) /\ seen[v] \in Nat
    BY DEF PageInv, StreamOf, PageTypeOK
  <2> QED
    BY <1>2, <2>2, <2>3
<1> QED
  BY <1>2, <1>3, <1>4, <1>5 DEF Received, BeforeFirstRow, Shown

LEMMA ReceivedStep ==
  ASSUME Behavior, PageInv, [LiveNext]_liveVars, RowsStay, LogStays, NEW w \in Streams, Received(w)
  PROVE  Received(w)'
<1>1. CASE \A ch \in Channels : ~LoadPage(w, ch)
  <2>0. PageGrows(w)
    BY <1>1, PagesGrow
  <2>1. \A m \in loaded'[w] \ Shown(w)' : BeforeFirstRow(w, m)'
    BY <2>0, OlderThanPageStays DEF PageGrows, Received
  <2>2. /\ written[w] \in Seq(Nat) /\ Len(written[w]) \in Nat /\ seen[w] \in Nat
        /\ seen[w] <= Len(written[w])
    BY DEF PageInv, PageTypeOK, StreamOf, Behavior, BrokerInv, BrokerTypeOK
  <2>3. ASSUME NEW i \in 1..seen[w]
        PROVE  log'[written'[w][i]].msg \in Shown(w)'
    <3>1. i \in 1..Len(written[w])
      BY <2>2
    <3>2. written'[w][i] = written[w][i]
      <4>1. CASE OpenStream(w)
        BY <4>1 DEF OpenStream, Subscribe
      <4>2. CASE ~OpenStream(w)
        BY <3>1, <4>2, StreamsStay DEF StreamStays, PageInv, PageTypeOK
      <4> QED
        BY <4>1, <4>2
    <3>3. PICK p : p = written[w][i]
      OBVIOUS
    <3>4. p \in 1..Len(log)
      BY <3>1, <3>3, EventRow
    <3>5. log'[p] = log[p]
      BY <3>4 DEF LogStays
    <3>6. log[p].msg \in Shown(w)
      BY <3>3 DEF Received
    <3> QED
      BY <2>0, <3>2, <3>3, <3>5, <3>6 DEF PageGrows
  <2>4. CASE seen'[w] = seen[w]
    BY <2>1, <2>3, <2>4 DEF Received
  <2>5. CASE ReceiveEvent(w)
    <3>1. seen'[w] = seen[w] + 1 /\ UNCHANGED pipelineVars
      BY <2>5 DEF ReceiveEvent, PageInv, PageTypeOK
    <3>2. log' = log /\ written' = written
      BY <3>1 DEF pipelineVars, brokerVars
    <3>3. log[written[w][seen[w] + 1]].msg \in Shown(w)'
      BY <2>5, EventKeeps
    <3>4. \A i \in 1..seen'[w] : i \in 1..seen[w] \/ i = seen[w] + 1
      BY <2>2, <3>1
    <3> QED
      BY <2>1, <2>3, <3>2, <3>3, <3>4 DEF Received
  <2> QED
    BY <2>0, <2>4, <2>5 DEF PageGrows
<1> QED
  BY <1>1, ReceivedByLoad

\* A broadcast on the page's channel is shown, missed or still to come.
LEMMA StreamHas ==
  ASSUME Behavior, PageInv, NEW v \in Streams, Received(v), loop[v] \in {"serving", "leaving"},
         NEW p \in 1..Len(log), log[p].chan = room[v]
  PROVE  log[p].msg \in Shown(v) \/ Missed(v, p) \/ Coming(v, p)
<1> SUFFICES ASSUME ~Missed(v, p), log[p].msg \notin Shown(v) PROVE Coming(v, p)
  OBVIOUS
<1>0. /\ BrokerTypeOK /\ Accounted /\ StreamOf(v) /\ joined[v] \in Nat /\ Len(log) \in Nat
      /\ seen[v] \in Nat
  BY DEF Behavior, BrokerInv, PageInv, PageTypeOK, BrokerTypeOK
<1>1. /\ written[v] \in Seq(Nat) /\ queue[v] \in Seq(Nat)
      /\ Len(written[v]) \in Nat /\ Len(queue[v]) \in Nat
  BY <1>0 DEF BrokerTypeOK
<1>2. p \in joined[v] + 1 .. Len(log) /\ p \notin dropped[v] /\ log[p].chan = topic[v]
  BY <1>0 DEF Missed, StreamOf
<1>3. PICK d : d = Delivered(v)
  OBVIOUS
<1>4. PICK i \in 1..Len(d) : d[i] = p
  <2>1. v \in Listed
    BY DEF Listed
  <2> QED
    BY <1>0, <1>2, <1>3, <2>1 DEF Accounted
<1>5. \/ i \in 1..Len(written[v]) /\ written[v][i] = p
      \/ \E k \in 1..Len(queue[v]) : queue[v][k] = p
  <2>1. PICK a, b : a = written[v] /\ b = queue[v]
    OBVIOUS
  <2>2. d = a \o b /\ a \in Seq(Nat) /\ b \in Seq(Nat)
    BY <1>1, <1>3, <2>1 DEF Delivered
  <2>3. CASE i <= Len(a)
    BY <1>4, <2>1, <2>2, <2>3
  <2>4. CASE ~(i <= Len(a))
    <3>1. i - Len(a) \in 1..Len(b) /\ b[i - Len(a)] = p
      BY <1>4, <2>2, <2>4
    <3> QED
      BY <2>1, <3>1
  <2> QED
    BY <2>3, <2>4
<1>6. CASE i \in 1..Len(written[v]) /\ written[v][i] = p
  <2>1. i \notin 1..seen[v]
    BY <1>6 DEF Received
  <2>2. i \in seen[v] + 1 .. Len(written[v])
    BY <1>0, <1>1, <1>6, <2>1
  <2> QED
    BY <1>6, <2>2 DEF Coming
<1> QED
  BY <1>5, <1>6 DEF Coming

LEMMA LossIsExplained ==
  ASSUME Behavior, PageInv, \A v \in Streams : Received(v)
  PROVE  StreamLossHasCause
<1> SUFFICES ASSUME NEW v \in Streams, mode[v] = "sse", loop[v] = "serving",
                    NEW m \in Rows(room[v]) \ Shown(v), m \notin loaded[v], Published(m)
             PROVE  \E p \in 1..Len(log) : log[p].msg = m /\ (Missed(v, p) \/ Coming(v, p))
  BY DEF StreamLossHasCause, Received
<1>1. PICK p \in 1..Len(log) : log[p].msg = m
  BY DEF Published
<1>2. log[p].chan = room[v]
  BY <1>1 DEF Behavior, PipelineInv, OnlyCommittedBroadcast, Rows
<1> QED
  BY <1>1, <1>2, StreamHas

LEMMA ReceivedInitially == LiveInit => \A v \in Streams : Received(v)
  BY DEF LiveInit, Received

LEMMA PagesReceive == LiveSpec => [](\A v \in Streams : Received(v))
<1> DEFINE R == \A v \in Streams : Received(v)
<1>1. Behavior /\ PageInv /\ R /\ [LiveNext]_liveVars => R'
  BY PageInvStep, ReceivedStep
<1>2. LiveInit => R
  BY ReceivedInitially
<1> HIDE DEF R
<1>3. LiveSpec => []R
  BY <1>1, <1>2, PageInvariant, PTL DEF LiveSpec
<1> QED
  BY <1>3 DEF R

\* While its stream is served, a page lacks a stored message of its channel only
\* for a cause: it is older than the page, its broadcast has not happened, is on
\* its way, overflowed the buffer, or fell between page and subscribe.
THEOREM StreamLossesHaveCauses == LiveSpec => []StreamLossHasCause
  BY LossIsExplained, PageInvariant, PagesReceive, PTL

-----------------------------------------------------------------------------
\* What a polling page will not get.

\* The histories are lists of positions that are only added to.
LEMMA HistoryLengths ==
  ASSUME Behavior
  PROVE  Len(commits) \in Nat /\ Len(log) \in Nat
  BY DEF Behavior, BrokerInv, BrokerTypeOK, PipelineInv, PipelineTypeOK, TableTypeOK

\* A row that is overtaken stays overtaken.
LEMMA OvertakenStays ==
  ASSUME Behavior, Behavior', RowsStay, LogStays, NEW ch, NEW m \in Rows(ch), Overtaken(m)
  PROVE  Overtaken(m)'
<1>0. /\ Len(commits) \in Nat /\ Len(commits') \in Nat
      /\ Len(log) \in Nat /\ Len(log') \in Nat
  BY HistoryLengths
<1>1. m \in Messages /\ chan[m] = ch /\ chan'[m] = ch /\ id'[m] = id[m]
  BY RowsGrow DEF Rows
<1>2. PICK n \in Rows(ch) :
        /\ id[m] < id[n]
        /\ \/ \E i, j \in 1..Len(commits) : i < j /\ commits[i] = n /\ commits[j] = m
           \/ \E p \in 1..Len(log) : log[p].msg = n /\ \A q \in 1..p : log[q].msg # m
  BY <1>1 DEF Overtaken
<1>3. n \in Rows(ch)' /\ id'[n] = id[n]
  BY RowsGrow
<1>4. ASSUME NEW i \in 1..Len(commits), NEW j \in 1..Len(commits),
             i < j, commits[i] = n, commits[j] = m
      PROVE  \E a, b \in 1..Len(commits') : a < b /\ commits'[a] = n /\ commits'[b] = m
  <2>1. i \in 1..Len(commits') /\ j \in 1..Len(commits')
    BY <1>0 DEF RowsStay
  <2>2. commits'[i] = n /\ commits'[j] = m
    BY <1>4 DEF RowsStay
  <2> QED
    BY <1>4, <2>1, <2>2
<1>5. ASSUME NEW p \in 1..Len(log), log[p].msg = n, \A q \in 1..p : log[q].msg # m
      PROVE  \E a \in 1..Len(log') : log'[a].msg = n /\ \A q \in 1..a : log'[q].msg # m
  <2>1. p \in 1..Len(log') /\ \A q \in 1..p : q \in 1..Len(log)
    BY <1>0 DEF LogStays
  <2>2. \A q \in 1..p : log'[q] = log[q]
    BY <2>1 DEF LogStays
  <2> QED
    BY <1>5, <2>1, <2>2 DEF LogStays
<1> QED
  BY <1>1, <1>2, <1>3, <1>4, <1>5 DEF Overtaken

\* A stream has no gaps: what was broadcast on its channel between its subscribe
\* and an event it has written was written before that event, or dropped.
Gapless ==
  \A s \in Streams : \A i \in 1..Len(written[s]) : \A p \in joined[s] + 1 .. written[s][i] :
     log[p].chan = topic[s] => p \in dropped[s] \/ \E j \in 1..i : written[s][j] = p

\* What a stream has lost stays lost.
LEMMA DroppedStays ==
  ASSUME BrokerTypeOK, [BrokerNext]_brokerVars, NEW s \in Streams
  PROVE  dropped[s] \subseteq dropped'[s]
<1>1. \/ UNCHANGED dropped
      \/ \E ch \in Channels, m \in Messages : Broadcast(ch, m)
  BY DEF BrokerNext, brokerVars, Subscribe, WriteEvent, LeaveLoop, Unsubscribe, BrokerCrash
<1> QED
  BY <1>1 DEF Broadcast

\* The next event to be written comes after all that was sent before it.
LEMMA WriteLeavesNoGap ==
  ASSUME BrokerInv, Gapless, NEW s \in Streams, WriteEvent(s)
  PROVE  \A i \in 1..Len(written'[s]) : \A p \in joined[s] + 1 .. written'[s][i] :
            log[p].chan = topic[s] => p \in dropped[s] \/ \E j \in 1..i : written'[s][j] = p
<1>1. /\ written[s] \in Seq(Nat) /\ queue[s] \in Seq(Nat) /\ joined[s] \in Nat
      /\ Len(log) \in Nat /\ written \in [Streams -> Seq(Nat)] /\ loop[s] = "serving"
  BY DEF BrokerInv, BrokerTypeOK, WriteEvent
<1>2. PICK w, q, d : w = written[s] /\ q = queue[s] /\ d = Delivered(s)
  OBVIOUS
<1>3. /\ q # <<>> /\ w \in Seq(Nat) /\ q \in Seq(Nat) /\ d = w \o q
      /\ written'[s] = Append(w, Head(q))
  BY <1>1, <1>2 DEF WriteEvent, Delivered
<1>4. /\ Len(w) \in Nat /\ Len(Append(w, Head(q))) = Len(w) + 1
      /\ \A j \in 1..Len(w) : Append(w, Head(q))[j] = w[j]
      /\ Append(w, Head(q))[Len(w) + 1] = Head(q)
      /\ Len(d) \in Nat /\ Len(w) + 1 <= Len(d)
      /\ \A j \in 1..Len(w) + 1 : d[j] = Append(w, Head(q))[j]
  BY <1>3
<1>5. PICK x : x = Append(w, Head(q))
  OBVIOUS
<1>6. /\ written'[s] = x /\ Len(x) = Len(w) + 1
      /\ \A j \in 1..Len(w) : x[j] = w[j]
      /\ \A j \in 1..Len(x) : j \in 1..Len(d) /\ x[j] = d[j]
  BY <1>3, <1>4, <1>5
<1> SUFFICES ASSUME NEW i \in 1..Len(x), NEW p \in joined[s] + 1 .. x[i],
                    log[p].chan = topic[s], p \notin dropped[s]
             PROVE  \E j \in 1..i : x[j] = p
  BY <1>6
<1>7. \A j, k \in 1..Len(d) : j < k => d[j] < d[k]
  BY <1>2 DEF BrokerInv, StreamOrder
<1>8. d[i] \in joined[s] + 1 .. Len(log)
  BY <1>2, <1>6 DEF BrokerInv, StreamOrder
<1>9. p \in joined[s] + 1 .. Len(log) /\ p <= d[i] /\ p \in Nat
  <2>1. PICK lo, hi, top : lo = joined[s] + 1 /\ hi = d[i] /\ top = Len(log)
    OBVIOUS
  <2>2. lo \in Nat /\ top \in Nat /\ hi \in lo..top /\ p \in lo..hi
    BY <1>1, <1>6, <1>8, <2>1
  <2>3. p \in lo..top /\ p <= hi /\ p \in Nat
    BY <2>2
  <2> QED
    BY <2>1, <2>3
<1>10. PICK k \in 1..Len(d) : d[k] = p
  <2>1. s \in Listed
    BY <1>1 DEF Listed
  <2> QED
    BY <1>2, <1>9, <2>1 DEF BrokerInv, Accounted
<1>11. k <= i
  <2> SUFFICES ASSUME i < k PROVE FALSE
    BY <1>4, <1>6
  <2>1. d[i] < d[k] /\ d[i] \in Nat
    BY <1>1, <1>6, <1>7, <1>8
  <2> QED
    BY <1>9, <1>10, <2>1
<1> QED
  BY <1>4, <1>6, <1>10, <1>11

LEMMA GaplessStep ==
  ASSUME BrokerInv, Gapless, [BrokerNext]_brokerVars, LogStays
  PROVE  Gapless'
<1>0. /\ BrokerTypeOK /\ written \in [Streams -> Seq(Nat)] /\ Len(log) \in Nat
      /\ \A s \in Streams : joined[s] \in Nat /\ dropped[s] \subseteq dropped'[s]
  BY DroppedStays DEF BrokerInv, BrokerTypeOK
<1> SUFFICES ASSUME NEW s \in Streams,
                    NEW i \in 1..Len(written'[s]), NEW p \in joined'[s] + 1 .. written'[s][i],
                    log'[p].chan = topic'[s]
             PROVE  p \in dropped'[s] \/ \E j \in 1..i : written'[s][j] = p
  BY DEF Gapless
<1>1. ASSUME written'[s] = written[s], joined'[s] = joined[s], topic'[s] = topic[s]
      PROVE  p \in dropped'[s] \/ \E j \in 1..i : written'[s][j] = p
  <2>1. p \in 1..Len(log)
    <3>1. PICK d : d = Delivered(s)
      OBVIOUS
    <3>2. written[s] \in Seq(Nat) /\ queue[s] \in Seq(Nat) /\ d = written[s] \o queue[s]
      BY <1>0, <3>1 DEF BrokerTypeOK, Delivered
    <3>3. i \in 1..Len(d) /\ d[i] = written[s][i]
      <4>1. PICK a, b : a = written[s] /\ b = queue[s]
        OBVIOUS
      <4>2. a \in Seq(Nat) /\ b \in Seq(Nat) /\ i \in 1..Len(a)
        BY <1>1, <3>2, <4>1
      <4>3. i \in 1..Len(a \o b) /\ (a \o b)[i] = a[i]
        BY <4>2
      <4> QED
        BY <3>2, <4>1, <4>3
    <3>4. d[i] \in joined[s] + 1 .. Len(log)
      BY <3>1, <3>3 DEF BrokerInv, StreamOrder
    <3> QED
      BY <1>0, <1>1, <3>3, <3>4
  <2>2. log[p].chan = topic[s]
    BY <1>1, <2>1 DEF LogStays
  <2>3. p \in dropped[s] \/ \E j \in 1..i : written[s][j] = p
    BY <1>1, <2>2 DEF Gapless
  <2> QED
    BY <1>0, <1>1, <2>3
<1>2. CASE WriteEvent(s)
  <2>1. UNCHANGED <<joined, topic, log, dropped>>
    BY <1>2 DEF WriteEvent
  <2> QED
    BY <1>2, <2>1, WriteLeavesNoGap
<1>3. ASSUME NEW ch \in Channels, Subscribe(s, ch)
      PROVE  written'[s] = <<>>
  BY <1>3 DEF Subscribe, BrokerInv, Lifecycle
<1>4. \/ written'[s] = written[s] /\ joined'[s] = joined[s] /\ topic'[s] = topic[s]
      \/ WriteEvent(s)
      \/ \E ch \in Channels : Subscribe(s, ch)
  <2>1. ASSUME NEW r \in Streams, r # s, WriteEvent(r) \/ \E ch \in Channels : Subscribe(r, ch)
        PROVE  written'[s] = written[s] /\ joined'[s] = joined[s] /\ topic'[s] = topic[s]
    BY <1>0, <2>1 DEF WriteEvent, Subscribe, BrokerTypeOK
  <2>2. CASE UNCHANGED <<written, joined, topic>>
    BY <2>2
  <2> QED
    BY <2>1, <2>2 DEF BrokerNext, brokerVars, Broadcast, LeaveLoop, Unsubscribe, BrokerCrash
<1>5. written'[s] # <<>>
  OBVIOUS
<1> QED
  BY <1>1, <1>2, <1>3, <1>4, <1>5

LEMMA StreamsHaveNoGaps == LiveSpec => []Gapless
<1>1. Behavior /\ PageInv /\ Gapless /\ [LiveNext]_liveVars => Gapless'
  <2> SUFFICES ASSUME Behavior, PageInv, Gapless, [LiveNext]_liveVars PROVE Gapless'
    OBVIOUS
  <2>1. [BrokerNext]_brokerVars /\ LogStays
    BY LiveStep, PipelineBrokerStep, PageInvStep DEF Behavior, PageInv, PageTypeOK, PipelineInv
  <2> QED
    BY <2>1, GaplessStep DEF Behavior
<1>2. LiveInit => Gapless
  BY DEF LiveInit, PipelineInit, BrokerInit, Gapless
<1> QED
  BY <1>1, <1>2, PageInvariant, PTL DEF LiveSpec

\* What the stream has gone past it has gone past.
LEMMA SkippedStays ==
  ASSUME Behavior, PageInv, [LiveNext]_liveVars, RowsStay, LogStays, NEW v \in Streams,
         \A ch \in Channels : ~LoadPage(v, ch),
         NEW m \in Rows(room[v]), SkippedByStream(v, m)
  PROVE  SkippedByStream(v, m)'
<1>0. /\ BrokerTypeOK /\ PipelineInv /\ RoomOK /\ PageTypeOK /\ Lifecycle
      /\ Len(log) \in Nat /\ seen[v] \in Nat /\ seen[v] <= Len(written[v])
      /\ Len(written[v]) \in Nat
  BY DEF Behavior, BrokerInv, PageInv, PageTypeOK, StreamOf, BrokerTypeOK
<1>1. PICK p \in 1..Len(log), i \in 1..seen[v] :
        /\ log[p].msg = m /\ Missed(v, p)
        /\ p < written[v][i] /\ id[m] < id[log[written[v][i]].msg]
  BY DEF SkippedByStream
<1>2. i \in 1..Len(written[v])
  BY <1>0
<1>3. PICK p1 : p1 = written[v][i]
  OBVIOUS
<1>4. p1 \in 1..Len(log) /\ log[p1].msg \in Rows(room[v])
  BY <1>2, <1>3, EventRow
<1>5. PICK n : n = log[p1].msg
  OBVIOUS
<1>6. id'[m] = id[m] /\ id'[n] = id[n]
  BY <1>4, <1>5, RowsGrow
<1>7. StreamStays(v)
  <2>1. ~OpenStream(v)
    <3> SUFFICES ASSUME OpenStream(v) PROVE FALSE
      OBVIOUS
    <3>1. loop[v] = "idle"
      BY DEF OpenStream, Subscribe
    <3>2. written[v] = <<>>
      BY <1>0, <3>1 DEF Lifecycle
    <3> QED
      BY <1>2, <3>2
  <2> QED
    BY <1>0, <2>1, StreamsStay
<1>8. Missed(v, p)'
  <2>1. [BrokerNext]_brokerVars
    BY <1>0, LiveStep, PipelineBrokerStep DEF PipelineInv
  <2>2. dropped[v] \subseteq dropped'[v]
    BY <1>0, <2>1, DroppedStays
  <2> QED
    BY <1>1, <1>7, <2>2 DEF Missed, StreamStays
<1>9. seen'[v] = seen[v] \/ seen'[v] = seen[v] + 1
  <2>1. seen'[v] = seen[v] \/ ReceiveEvent(v)
    BY PagesGrow DEF PageGrows
  <2> QED
    BY <1>0, <2>1 DEF ReceiveEvent, PageTypeOK
<1>10. i \in 1..seen'[v] /\ p \in 1..Len(log')
  BY <1>0, <1>9, HistoryLengths DEF LogStays
<1>11. /\ written'[v][i] = p1 /\ log'[p1] = log[p1] /\ log'[p] = log[p]
  BY <1>2, <1>3, <1>4, <1>7 DEF StreamStays, LogStays
<1> QED
  BY <1>1, <1>3, <1>5, <1>6, <1>8, <1>10, <1>11 DEF SkippedByStream

\* The id of a row of the channel, or 0: what watermarks are.
Mark(v, n) == n # 0 => \E w \in Rows(room[v]) : id[w] = n

LEMMA LossCauseStays ==
  ASSUME Behavior, Behavior', PageInv, [LiveNext]_liveVars, RowsStay, LogStays,
         NEW v \in Streams, \A ch \in Channels : ~LoadPage(v, ch),
         NEW m \in Rows(room[v]), LossCause(v, m)
  PROVE  LossCause(v, m)'
<1>1. CASE BeforeFirstRow(v, m)
  BY <1>1, PagesGrow, OlderThanPageStays DEF PageGrows, LossCause
<1>2. CASE Overtaken(m)
  BY <1>2, OvertakenStays DEF LossCause
<1>3. CASE SkippedByStream(v, m)
  BY <1>3, SkippedStays DEF LossCause
<1> QED
  BY <1>1, <1>2, <1>3 DEF LossCause

\* A row that becomes visible at or below a watermark has been overtaken by the
\* row whose id that is.
LEMMA LateRowIsOvertaken ==
  ASSUME Behavior, Behavior', RowsStay, NEW ch, NEW w \in Rows(ch),
         NEW m \in Rows(ch)', m \notin Rows(ch), id'[m] <= id[w]
  PROVE  Overtaken(m)'
<1>0. Len(commits) \in Nat /\ Len(commits') \in Nat
  BY HistoryLengths
<1>1. /\ m \in Messages /\ phase'[m] = "committed" /\ chan'[m] = ch
      /\ w \in Messages /\ phase[w] = "committed" /\ phase'[w] = "committed" /\ chan'[w] = ch
      /\ id'[w] = id[w] /\ m # w
  BY DEF Rows, RowsStay
<1>2. id'[m] < id'[w]
  <2>1. id'[m] \in Nat /\ id'[w] \in Nat
    BY <1>1 DEF Behavior, PipelineInv, PipelineTypeOK, TableTypeOK
  <2>2. id'[m] # id'[w]
    BY <1>1 DEF Behavior, PipelineInv, TableInv, Numbered
  <2> QED
    BY <1>1, <2>1, <2>2
<1>3. PICK i \in 1..Len(commits) : commits[i] = w
  BY <1>1 DEF Behavior, RowsInv
<1>4. PICK j \in 1..Len(commits') : commits'[j] = m
  BY <1>1 DEF Behavior, RowsInv
<1>5. ~(j \in 1..Len(commits))
  <2> SUFFICES ASSUME j \in 1..Len(commits) PROVE FALSE
    OBVIOUS
  <2>1. commits[j] = m
    BY <1>4 DEF RowsStay
  <2>2. phase[m] = "committed"
    BY <1>1, <2>1 DEF Behavior, RowsInv
  <2>3. chan[m] = ch
    BY <1>1, <2>2 DEF RowsStay
  <2> QED
    BY <1>1, <2>2, <2>3 DEF Rows
<1>6. i < j /\ i \in 1..Len(commits')
  BY <1>0, <1>5 DEF RowsStay
<1>7. commits'[i] = w
  BY <1>3 DEF RowsStay
<1>8. w \in Rows(chan[m])'
  BY <1>1 DEF Rows
<1> QED
  BY <1>2, <1>4, <1>6, <1>7, <1>8 DEF Overtaken

LEMMA LostBelowStays ==
  ASSUME Behavior, Behavior', PageInv, [LiveNext]_liveVars, RowsStay, LogStays,
         NEW v \in Streams, \A ch \in Channels : ~LoadPage(v, ch),
         NEW n, NEW S, Mark(v, n), LostBelow(v, n, S)
  PROVE  LostBelow(v, n, S)'
<1>0. PageGrows(v)
  BY PagesGrow
<1> SUFFICES ASSUME NEW m \in Rows(room[v])', m \notin Shown(v)', m \notin S, id'[m] <= n
             PROVE  LossCause(v, m)'
  BY DEF LostBelow
<1>1. CASE m \in Rows(room[v])
  <2>1. id'[m] = id[m] /\ m \notin Shown(v)
    BY <1>0, <1>1, RowsGrow DEF PageGrows
  <2>2. LossCause(v, m)
    BY <1>1, <2>1 DEF LostBelow
  <2> QED
    BY <1>1, <2>2, LossCauseStays
<1>2. CASE m \notin Rows(room[v])
  <2>1. PICK ch : ch = room[v] /\ ch = room'[v]
    BY <1>0 DEF PageGrows
  <2>2. m \in Rows(ch)' /\ m \notin Rows(ch)
    BY <1>2, <2>1
  <2>3. n # 0
    <3>1. m \in Messages /\ phase'[m] = "committed"
      BY DEF Rows
    <3>2. 0 < id'[m] /\ id'[m] \in Nat
      BY <3>1 DEF Behavior, PipelineInv, PipelineTypeOK, TableTypeOK, TableInv, Numbered
    <3> QED
      BY <3>2
  <2>4. PICK w \in Rows(ch) : id[w] = n
    BY <2>1, <2>3 DEF Mark
  <2>5. Overtaken(m)'
    BY <2>2, <2>4, LateRowIsOvertaken
  <2> QED
    BY <2>5 DEF LossCause
<1> QED
  BY <1>1, <1>2

Poll == {Idle} \union [at : {"sent"}, after : Nat] \union Answered

\* The watermarks of a page and of its polls are ids of rows of its channel.
LEMMA Marks ==
  ASSUME PageInv, NEW v \in Streams
  PROVE  /\ Mark(v, lastID[v])
         /\ \A k \in Slots : polls[v][k].at = "sent" => Mark(v, polls[v][k].after)
<1>1. Watermarks(v) /\ Shown(v) \subseteq Rows(room[v])
  BY DEF PageInv, PageRows, RowsOf, Shown
<1> QED
  BY <1>1 DEF Watermarks, IDShown, Mark

LEMMA LastOfAnswer ==
  ASSUME NEW v \in Streams, NEW msgs, RowsOf(v, msgs), msgs # <<>>
  PROVE  Last(msgs) \in Rows(room[v]) /\ Last(msgs) \in ToSet(msgs) /\ Mark(v, id[Last(msgs)])
<1>1. Last(msgs) \in ToSet(msgs)
  BY DEF RowsOf, Last, ToSet
<1> QED
  BY <1>1 DEF RowsOf, Mark

\* A poll that the step leaves on the way is lost no more than before.
LEMMA PollLossStays ==
  ASSUME Behavior, Behavior', PageInv, [LiveNext]_liveVars, RowsStay, LogStays,
         NEW v \in Streams, \A ch \in Channels : ~LoadPage(v, ch),
         NEW poll \in Poll, PollLoss(v, poll),
         poll.at = "sent" => Mark(v, poll.after),
         poll.at = "answered" => RowsOf(v, poll.msgs)
  PROVE  PollLoss(v, poll)'
<1>1. ASSUME poll.at = "sent"
      PROVE  LostBelow(v, poll.after, {})'
  <2>1. PICK n, S : n = poll.after /\ S = {}
    OBVIOUS
  <2>2. LostBelow(v, n, S) /\ Mark(v, n)
    BY <1>1, <2>1 DEF PollLoss
  <2>3. LostBelow(v, n, S)'
    BY <2>2, LostBelowStays
  <2> QED
    BY <2>1, <2>3
<1>2. ASSUME poll.at = "answered", poll.msgs # <<>>
      PROVE  LostBelow(v, id[Last(poll.msgs)], ToSet(poll.msgs))'
  <2>1. PICK msgs : msgs = poll.msgs
    OBVIOUS
  <2>2. PICK l : l = Last(msgs)
    OBVIOUS
  <2>3. PICK n, S : n = id[l] /\ S = ToSet(msgs)
    OBVIOUS
  <2>4. l \in Rows(room[v]) /\ Mark(v, n)
    BY <1>2, <2>1, <2>2, <2>3, LastOfAnswer
  <2>5. id'[l] = n
    BY <2>3, <2>4, RowsGrow
  <2>6. LostBelow(v, n, S)
    BY <1>2, <2>1, <2>2, <2>3 DEF PollLoss
  <2>7. LostBelow(v, n, S)'
    BY <2>4, <2>6, LostBelowStays
  <2> QED
    BY <2>1, <2>2, <2>3, <2>5, <2>7
<1> QED
  BY <1>1, <1>2 DEF PollLoss

\* What stays while the page is the same.
LEMMA LossesStay ==
  ASSUME Behavior, Behavior', PageInv, [LiveNext]_liveVars, RowsStay, LogStays,
         NEW v \in Streams, \A ch \in Channels : ~LoadPage(v, ch), Losses(v)
  PROVE  /\ \A n : n = lastID[v] => LostBelow(v, n, {})'
         /\ \A k \in Slots : \A poll : poll = polls[v][k] => PollLoss(v, poll)'
<1>1. ASSUME NEW n, n = lastID[v]
      PROVE  LostBelow(v, n, {})'
  <2>1. PICK S : S = {}
    OBVIOUS
  <2>2. LostBelow(v, n, S) /\ Mark(v, n)
    BY <1>1, <2>1, Marks DEF Losses
  <2>3. LostBelow(v, n, S)'
    BY <2>2, LostBelowStays
  <2> QED
    BY <2>1, <2>3
<1>2. ASSUME NEW k \in Slots, NEW poll, poll = polls[v][k]
      PROVE  PollLoss(v, poll)'
  <2>1. poll \in Poll /\ PollLoss(v, poll)
    BY <1>2 DEF PageInv, PageTypeOK, Poll, Losses
  <2>2. poll.at = "sent" => Mark(v, poll.after)
    BY <1>2, Marks
  <2>3. poll.at = "answered" => RowsOf(v, poll.msgs)
    BY <1>2 DEF PageInv, PageRows
  <2> QED
    BY <2>1, <2>2, <2>3, PollLossStays
<1> QED
  BY <1>1, <1>2

LEMMA LossesByLoad ==
  ASSUME Behavior, PageInv, NEW v \in Streams, NEW ch \in Channels, LoadPage(v, ch)
  PROVE  Losses(v)'
<1>1. /\ loaded'[v] = Rows(ch) /\ room'[v] = ch /\ mode[v] = "blank"
      /\ polls' = polls /\ UNCHANGED pipelineVars
  BY DEF LoadPage, PageInv, PageTypeOK, RoomOK
<1>2. Rows(ch)' = Rows(ch)
  BY <1>1 DEF pipelineVars, tableVars, Rows
<1>3. Received(v)'
  BY ReceivedByLoad
<1>4. \A m \in Rows(room[v])' \ Shown(v)' : LossCause(v, m)'
  BY <1>1, <1>2, <1>3 DEF Received, LossCause
<1>5. \A k \in Slots : polls'[v][k] = Idle
  BY <1>1 DEF PageInv, Blank
<1>6. LostBelow(v, lastID[v], {})'
  BY <1>4 DEF LostBelow
<1>7. \A k \in Slots : PollLoss(v, polls[v][k])'
  BY <1>5 DEF PollLoss, Idle
<1> QED
  BY <1>6, <1>7 DEF Losses

\* The event brings the watermark to its own id: a row below it that the page
\* lacks was on the page's query, was lost by the stream before the event, or is
\* broadcast later.
LEMMA LossesByEvent ==
  ASSUME Behavior, Behavior', PageInv, [LiveNext]_liveVars, RowsStay, LogStays,
         Gapless, NEW v \in Streams, Received(v), Losses(v), ReceiveEvent(v)
  PROVE  Losses(v)'
<1>0. /\ mode[v] = "sse" /\ seen[v] < Len(written[v])
      /\ UNCHANGED <<mode, room, polls, loaded, pipelineVars>>
      /\ lastID'[v] = id[log[written[v][seen[v] + 1]].msg]
  BY DEF ReceiveEvent, PageInv, PageTypeOK
<1>1. PICK p0 : p0 = written[v][seen[v] + 1]
  OBVIOUS
<1>2. PICK m0 : m0 = log[p0].msg
  OBVIOUS
<1>3. /\ p0 \in 1..Len(log) /\ m0 \in Rows(room[v])
      /\ seen[v] \in Nat /\ seen[v] + 1 \in 1..Len(written[v])
  <2>1. seen[v] \in Nat /\ Len(written[v]) \in Nat
    BY DEF PageInv, PageTypeOK, Behavior, BrokerInv, BrokerTypeOK
  <2>2. seen[v] + 1 \in 1..Len(written[v])
    BY <1>0, <2>1
  <2> QED
    BY <1>1, <1>2, <2>1, <2>2, EventRow
<1>4. \A ch \in Channels : ~LoadPage(v, ch)
  BY <1>0 DEF LoadPage
<1>5. UNCHANGED tableVars /\ id' = id /\ Rows(room[v])' = Rows(room[v])
  BY <1>0 DEF pipelineVars, tableVars, Rows
<1>6. PageGrows(v) /\ m0 \in Shown(v)'
  BY <1>1, <1>2, <1>4, PagesGrow, EventKeeps
<1>7. ASSUME NEW m \in Rows(room[v]), m \notin Shown(v)', id[m] <= id[m0]
      PROVE  LossCause(v, m)'
  <2>0. m \notin Shown(v) /\ chan[m] = room[v] /\ m \in Messages
    BY <1>6, <1>7 DEF PageGrows, Rows
  <2>1. CASE m \in loaded[v]
    <3>1. LossCause(v, m)
      BY <2>0, <2>1 DEF Received, LossCause
    <3> QED
      BY <1>4, <1>7, <3>1, LossCauseStays
  <2>2. id[m] < id[m0]
    <3>1. m # m0
      BY <1>6, <1>7
    <3>2. id[m] \in Nat /\ id[m0] \in Nat /\ id[m] # id[m0]
      BY <1>3, <3>1
      DEF Rows, Behavior, PipelineInv, PipelineTypeOK, TableTypeOK, TableInv, Numbered
    <3> QED
      BY <1>7, <3>2
  <2>3. CASE \E p \in 1..p0 : log[p].msg = m
    <3>1. PICK p \in 1..p0 : log[p].msg = m
      BY <2>3
    <3>2. p \in 1..Len(log) /\ p < p0
      <4>1. p # p0
        BY <1>2, <1>6, <1>7, <3>1
      <4> QED
        BY <1>3, <4>1, HistoryLengths
    <3>3. log[p].chan = topic[v]
      <4>1. log[p].chan = room[v]
        BY <2>0, <3>1, <3>2 DEF Behavior, PipelineInv, OnlyCommittedBroadcast
      <4> QED
        BY <1>0, <4>1 DEF PageInv, StreamOf
    <3>4. Missed(v, p)
      <4> SUFFICES ASSUME ~Missed(v, p) PROVE FALSE
        OBVIOUS
      <4>1. p \in joined[v] + 1 .. written[v][seen[v] + 1] /\ p \notin dropped[v]
        <5>1. joined[v] \in Nat
          BY DEF Behavior, BrokerInv, BrokerTypeOK
        <5> QED
          BY <1>1, <3>1, <3>2, <5>1 DEF Missed
      <4>2. PICK j \in 1..seen[v] + 1 : written[v][j] = p
        BY <1>3, <3>3, <4>1 DEF Gapless
      <4>3. j \in 1..seen[v]
        BY <1>1, <1>3, <3>2, <4>2
      <4> QED
        BY <2>0, <3>1, <4>2, <4>3 DEF Received
    <3>5. SkippedByStream(v, m)'
      <4>1. /\ UNCHANGED <<log, written, joined, dropped, id>>
            /\ seen'[v] = seen[v] + 1
        BY <1>0 DEF ReceiveEvent, PageInv, PageTypeOK, pipelineVars, brokerVars, tableVars
      <4>2. seen[v] + 1 \in 1..seen'[v]
        BY <1>3, <4>1
      <4>3. Missed(v, p)'
        BY <3>4, <4>1 DEF Missed
      <4> QED
        BY <1>1, <1>2, <2>2, <3>1, <3>2, <4>1, <4>2, <4>3 DEF SkippedByStream
    <3> QED
      BY <3>5 DEF LossCause
  <2>4. CASE \A q \in 1..p0 : log[q].msg # m
    <3>1. Overtaken(m)
      BY <1>2, <1>3, <2>0, <2>2, <2>4 DEF Overtaken
    <3>2. LossCause(v, m)
      BY <3>1 DEF LossCause
    <3> QED
      BY <1>4, <1>7, <3>2, LossCauseStays
  <2> QED
    BY <2>1, <2>3, <2>4
<1>8. LostBelow(v, lastID[v], {})'
  BY <1>0, <1>1, <1>2, <1>5, <1>7 DEF LostBelow
<1>9. \A k \in Slots : PollLoss(v, polls[v][k])'
  <2> TAKE k \in Slots
  <2>1. PICK poll : poll = polls[v][k]
    OBVIOUS
  <2>2. PollLoss(v, poll)'
    BY <1>4, <2>1, LossesStay
  <2>3. poll = polls'[v][k]
    BY <1>0, <2>1
  <2> QED
    BY <2>2, <2>3
<1> QED
  BY <1>8, <1>9 DEF Losses

\* An answer brings every row above its watermark, and the watermark of the next
\* poll is no higher than what the answer has covered.
LEMMA LossesByPoll ==
  ASSUME Behavior, Behavior', PageInv, [LiveNext]_liveVars, RowsStay, LogStays,
         NEW v \in Streams, Losses(v), NEW k \in Slots,
         SendPoll(v, k) \/ ServePoll(v, k) \/ ReceivePoll(v, k) \/ LosePoll(v, k)
  PROVE  Losses(v)'
<1>0. PageStep(v)
  BY DEF PageStep
<1>1. id' = id /\ \A ch : Rows(ch)' = Rows(ch)
  BY <1>0, PageReads
<1>2. room' = room /\ loaded' = loaded
  BY DEF SendPoll, ServePoll, ReceivePoll, LosePoll
<1>3. \A j \in Slots : j # k => polls'[v][j] = polls[v][j]
  BY DEF SendPoll, ServePoll, ReceivePoll, LosePoll, SetPoll, PageInv, PageTypeOK
<1>4. \A ch \in Channels : ~LoadPage(v, ch)
  <2>1. mode[v] # "blank"
    <3>1. CASE SendPoll(v, k)
      BY <3>1 DEF SendPoll
    <3>2. CASE ServePoll(v, k) \/ ReceivePoll(v, k) \/ LosePoll(v, k)
      <4>1. polls[v][k].at # "idle"
        BY <3>2 DEF ServePoll, ReceivePoll, LosePoll
      <4>2. polls[v][k] # Idle
        BY <4>1 DEF Idle
      <4> QED
        BY <4>2 DEF PageInv, Blank
    <3> QED
      BY <3>1, <3>2
  <2> QED
    BY <2>1 DEF LoadPage
<1>5. LostBelow(v, lastID[v], {}) /\ \A j \in Slots : PollLoss(v, polls[v][j])
  BY DEF Losses
<1>6. \A j \in Slots : j # k => PollLoss(v, polls[v][j])'
  <2> TAKE j \in Slots
  <2> HAVE j # k
  <2>1. PICK poll : poll = polls[v][j]
    OBVIOUS
  <2>2. PollLoss(v, poll)'
    BY <1>4, <2>1, LossesStay
  <2>3. poll = polls'[v][j]
    BY <1>3, <2>1
  <2> QED
    BY <2>2, <2>3
<1>7. PICK old : old = lastID[v]
  OBVIOUS
<1>8. LostBelow(v, old, {})'
  BY <1>4, <1>7, LossesStay
<1>9. CASE SendPoll(v, k)
  <2>1. lastID' = lastID /\ polls'[v][k] = [at |-> "sent", after |-> old]
    BY <1>7, <1>9 DEF SendPoll, SetPoll, PageInv, PageTypeOK
  <2>2. PollLoss(v, polls[v][k])'
    BY <1>8, <2>1 DEF PollLoss
  <2> QED
    BY <1>6, <1>7, <1>8, <2>1, <2>2 DEF Losses
<1>10. CASE ServePoll(v, k)
  <2>0. polls[v][k].at = "sent" /\ lastID' = lastID
    BY <1>10 DEF ServePoll
  <2>1. PICK poll : poll = polls[v][k]
    OBVIOUS
  <2>2. PICK after : after = poll.after
    OBVIOUS
  <2>3. LostBelow(v, after, {})'
    <3>1. PollLoss(v, poll)'
      BY <1>4, <2>1, LossesStay
    <3> QED
      BY <2>0, <2>1, <2>2, <3>1 DEF PollLoss
  <2>4. PICK msgs \in Seq(Messages) :
          /\ polls'[v] = [polls[v] EXCEPT ![k] = [at |-> "answered", msgs |-> msgs]]
          /\ ToSet(msgs) = {i \in Rows(room[v]) : id[i] > polls[v][k].after}
    BY <1>10, PollAnswer
  <2>5. polls'[v][k] = [at |-> "answered", msgs |-> msgs]
    BY <2>4 DEF PageInv, PageTypeOK
  <2>6. ASSUME NEW n, NEW m \in Rows(room[v])', m \notin Shown(v)',
               m \notin ToSet(msgs), id'[m] <= n
        PROVE  LossCause(v, m)'
    <3>1. m \in Rows(room[v]) /\ ~(id[m] > after)
      BY <1>1, <1>2, <2>1, <2>2, <2>4, <2>6
    <3>2. id[m] \in Nat /\ after \in Nat
      <4>1. polls[v][k] \in {Idle} \union [at : {"sent"}, after : Nat] \union Answered
        BY DEF PageInv, PageTypeOK
      <4>2. after \in Nat
        BY <2>0, <2>1, <2>2, <4>1 DEF Idle, Answered
      <4>3. id[m] \in Nat
        BY <3>1 DEF Rows, Behavior, PipelineInv, PipelineTypeOK, TableTypeOK
      <4> QED
        BY <4>2, <4>3
    <3>3. id'[m] <= after
      BY <1>1, <3>1, <3>2
    <3> QED
      BY <2>3, <2>6, <3>3 DEF LostBelow
  <2>7. \A n : LostBelow(v, n, ToSet(msgs))'
    BY <2>6 DEF LostBelow
  <2>8. PollLoss(v, polls[v][k])'
    BY <2>5, <2>7 DEF PollLoss
  <2> QED
    BY <1>6, <1>7, <1>8, <2>0, <2>8 DEF Losses
<1>11. CASE ReceivePoll(v, k)
  <2>1. PICK msgs \in Seq(Messages) :
            /\ polls[v][k].at = "answered" /\ polls[v][k].msgs = msgs /\ RowsOf(v, msgs)
            /\ polls'[v] = [polls[v] EXCEPT ![k] = Idle]
            /\ Shown(v)' = Shown(v) \union ToSet(msgs)
            /\ lastID'[v] = LastIDOf(msgs, lastID[v])
    BY <1>11, PollReceived
  <2>2. polls'[v][k] = Idle
    BY <2>1 DEF PageInv, PageTypeOK
  <2>3. PollLoss(v, polls[v][k])'
    BY <2>2 DEF PollLoss, Idle
  <2>4. CASE msgs = <<>>
    <3>1. lastID'[v] = old
      BY <1>7, <2>1, <2>4 DEF LastIDOf
    <3> QED
      BY <1>6, <1>8, <2>3, <3>1 DEF Losses
  <2>5. CASE msgs # <<>>
    <3>1. PICK poll, l, n, S : poll = polls[v][k] /\ l = Last(msgs) /\ n = id[l] /\ S = ToSet(msgs)
      OBVIOUS
    <3>2. lastID'[v] = n
      BY <2>1, <2>5, <3>1 DEF LastIDOf
    <3>3. LostBelow(v, n, S)'
      <4>1. PollLoss(v, poll)'
        BY <1>4, <3>1, LossesStay
      <4> QED
        BY <1>1, <2>1, <2>5, <3>1, <4>1 DEF PollLoss
    <3>4. LostBelow(v, n, {})'
      BY <2>1, <3>1, <3>3 DEF LostBelow
    <3> QED
      BY <1>6, <2>3, <3>2, <3>4 DEF Losses
  <2> QED
    BY <2>4, <2>5
<1>12. CASE LosePoll(v, k)
  <2>1. polls'[v][k] = Idle /\ lastID' = lastID
    BY <1>12 DEF LosePoll, SetPoll, PageInv, PageTypeOK
  <2>2. PollLoss(v, polls[v][k])'
    BY <2>1 DEF PollLoss, Idle
  <2> QED
    BY <1>6, <1>7, <1>8, <2>1, <2>2 DEF Losses
<1> QED
  BY <1>9, <1>10, <1>11, <1>12

LEMMA LossesStep ==
  ASSUME Behavior, Behavior', PageInv, [LiveNext]_liveVars, RowsStay, LogStays,
         Gapless, NEW v \in Streams, Received(v), Losses(v)
  PROVE  Losses(v)'
<1>1. ASSUME NEW ch \in Channels, LoadPage(v, ch)
      PROVE  Losses(v)'
  BY <1>1, LossesByLoad
<1>2. CASE ReceiveEvent(v)
  BY <1>2, LossesByEvent
<1>3. ASSUME NEW k \in Slots,
             SendPoll(v, k) \/ ServePoll(v, k) \/ ReceivePoll(v, k) \/ LosePoll(v, k)
      PROVE  Losses(v)'
  BY <1>3, LossesByPoll
<1>4. CASE /\ \A ch \in Channels : ~LoadPage(v, ch)
           /\ lastID'[v] = lastID[v] /\ polls'[v] = polls[v]
  <2>1. LostBelow(v, lastID[v], {})'
    <3>1. PICK n : n = lastID[v]
      OBVIOUS
    <3>2. LostBelow(v, n, {})'
      BY <1>4, <3>1, LossesStay
    <3> QED
      BY <1>4, <3>1, <3>2
  <2>2. \A k \in Slots : PollLoss(v, polls[v][k])'
    <3> TAKE k \in Slots
    <3>1. PICK poll : poll = polls[v][k]
      OBVIOUS
    <3>2. PollLoss(v, poll)'
      BY <1>4, <3>1, LossesStay
    <3> QED
      BY <1>4, <3>1, <3>2
  <2> QED
    BY <2>1, <2>2 DEF Losses
<1>5. OpenStream(v) \/ StartPolling(v) \/ AskOlder(v) \/ ServeOlder(v) \/ ReceiveOlder(v)
        \/ LoseOlder(v) => lastID' = lastID /\ polls' = polls
  BY DEF OpenStream, StartPolling, AskOlder, ServeOlder, ReceiveOlder, LoseOlder
<1>6. CASE PageStep(v)
  BY <1>1, <1>2, <1>3, <1>4, <1>5, <1>6 DEF PageStep
<1>7. ASSUME NEW w \in Streams, w # v, PageStep(w)
      PROVE  lastID'[v] = lastID[v] /\ polls'[v] = polls[v]
  BY <1>7, OthersStay DEF PageOf, PageInv
<1>8. Behind \/ UNCHANGED liveVars \/ (\E s \in Streams : HandleStream(s)) =>
        lastID'[v] = lastID[v] /\ polls'[v] = polls[v]
  BY PagesStay DEF PageOf
<1> QED
  BY <1>1, <1>4, <1>6, <1>7, <1>8 DEF LiveNext

LEMMA LossesInitially == LiveInit => \A v \in Streams : Losses(v)
<1> SUFFICES ASSUME LiveInit, NEW v \in Streams PROVE Losses(v)
  OBVIOUS
<1>1. \A ch : Rows(ch) = {}
  BY DEF LiveInit, PipelineInit, TableInit, Rows
<1> QED
  BY <1>1 DEF LiveInit, Losses, LostBelow, PollLoss, Idle

LEMMA PagesLose == LiveSpec => [](\A v \in Streams : Losses(v))
<1> DEFINE R == \A v \in Streams : Received(v)
           L == \A v \in Streams : Losses(v)
<1>1. Behavior /\ PageInv /\ Gapless /\ R /\ L /\ [LiveNext]_liveVars => L'
  BY PageInvStep, LossesStep
<1>2. LiveInit => L
  BY LossesInitially
<1>3. LiveSpec => []R
  BY PagesReceive
<1> HIDE DEF R, L
<1>4. LiveSpec => []L
  BY <1>1, <1>2, <1>3, StreamsHaveNoGaps, PageInvariant, PTL DEF LiveSpec
<1> QED
  BY <1>4 DEF L

\* A polling page lacks a stored message at or below its watermark, which no
\* later poll asks for, only for a cause: the row is older than the page, another
\* row overtook it between its id and its commit, or the stream had
\* gone past it before polling began.
THEOREM PollLossesHaveCauses == LiveSpec => []PollLossHasCause
<1>1. (\A v \in Streams : Losses(v)) => PollLossHasCause
  BY DEF Losses, LostBelow, LossCause, PollLossHasCause
<1> QED
  BY <1>1, PagesLose, PTL

-----------------------------------------------------------------------------
\* What "load older" has still to bring.

\* created_at and id of rows do not change, so what is to be asked for stays.
LEMMA CoversStays ==
  ASSUME PageInv, RowsStay, NEW v \in Streams, PageGrows(v), NEW n, NEW S, Covers(v, n, S)
  PROVE  Covers(v, n, S)'
<1>1. \A i \in loaded[v] : stamp'[i] = stamp[i] /\ id'[i] = id[i]
  <2>1. loaded[v] \subseteq Rows(room[v])
    BY DEF PageInv, PageRows
  <2> QED
    BY <2>1, RowsGrow
<1>2. loaded'[v] = loaded[v] /\ Shown(v) \subseteq Shown(v)'
  BY DEF PageGrows
<1>3. ASSUME NEW m \in loaded[v], m \notin Shown(v)', m \notin S
      PROVE  ToBeAsked(v, m, n)'
  <2>1. ToBeAsked(v, m, n)
    BY <1>2, <1>3 DEF Covers
  <2> QED
    BY <1>1, <1>2, <2>1 DEF ToBeAsked
<1> QED
  BY <1>2, <1>3 DEF Covers

LEMMA FullAnswer ==
  ASSUME NEW msgs \in Seq(Messages), MayHaveOlder(msgs)
  PROVE  msgs # <<>> /\ Head(msgs) \in ToSet(msgs) /\ Head(msgs) = msgs[1]
<1>1. Len(msgs) = PageSize /\ PageSize \in Nat \ {0}
  BY PageAssumption DEF MayHaveOlder
<1> QED
  BY <1>1 DEF ToSet

\* What a step leaves of the backlog that does not load the page or end a request.
LEMMA BacklogStays ==
  ASSUME PageInv, RowsStay, NEW v \in Streams, Backlog(v), PageGrows(v),
         older'[v] = older[v], oldestID'[v] = oldestID[v]
  PROVE  /\ Covers(v, IF older[v] THEN oldestID[v] ELSE 0, {})'
         /\ history'[v] = history[v] => Backlog(v)'
<1>1. Covers(v, IF older[v] THEN oldestID[v] ELSE 0, {})'
  <2>1. PICK n, S : n = (IF older[v] THEN oldestID[v] ELSE 0) /\ S = {}
    OBVIOUS
  <2>2. Covers(v, n, S)
    BY <2>1 DEF Backlog
  <2>3. Covers(v, n, S)'
    BY <2>2, CoversStays
  <2>4. n = (IF older'[v] THEN oldestID'[v] ELSE 0)
    BY <2>1
  <2> QED
    BY <2>1, <2>3, <2>4
<1>2. ASSUME history'[v] = history[v], history[v].at = "answered"
      PROVE  Covers(v, Rest(history[v].msgs), ToSet(history[v].msgs))'
  <2>1. PICK msgs : msgs = history[v].msgs
    OBVIOUS
  <2>2. RowsOf(v, msgs)
    BY <1>2, <2>1 DEF PageInv, PageRows
  <2>3. PICK n, S : n = Rest(msgs) /\ S = ToSet(msgs)
    OBVIOUS
  <2>4. Covers(v, n, S)
    BY <1>2, <2>1, <2>3 DEF Backlog
  <2>5. Covers(v, n, S)'
    BY <2>4, CoversStays
  <2>6. n = Rest(msgs)'
    <3>1. CASE MayHaveOlder(msgs)
      <4>1. PICK h : h = Head(msgs)
        OBVIOUS
      <4>2. h \in Rows(room[v])
        BY <2>2, <3>1, <4>1, FullAnswer DEF RowsOf
      <4>3. id'[h] = id[h]
        BY <4>2, RowsGrow
      <4> QED
        BY <2>3, <3>1, <4>1, <4>3 DEF Rest, MayHaveOlder
    <3>2. CASE ~MayHaveOlder(msgs)
      BY <2>3, <3>2 DEF Rest, MayHaveOlder
    <3> QED
      BY <3>1, <3>2
  <2> QED
    BY <1>2, <2>1, <2>3, <2>5, <2>6
<1> QED
  BY <1>1, <1>2 DEF Backlog

\* LIMIT keeps the newest, so a row the page's query leaves out comes before the
\* first row of the page, which is then full.
LEMMA BacklogByLoad ==
  ASSUME Behavior, PageInv, NEW v \in Streams, NEW ch \in Channels, LoadPage(v, ch)
  PROVE  Backlog(v)'
<1>0. TableTypeOK /\ TableInv /\ RowsInv
  BY DEF Behavior, PipelineInv, PipelineTypeOK
<1>1. PICK msgs : msgs = RecentMessages(ch, PageSize)
  OBVIOUS
<1>2. /\ mode[v] = "blank" /\ view'[v] = msgs /\ loaded'[v] = Rows(ch) /\ history' = history
      /\ older'[v] = MayHaveOlder(msgs) /\ oldestID'[v] = OldestIDOf(msgs, 0)
      /\ UNCHANGED pipelineVars
  BY <1>1 DEF LoadPage, PageInv, PageTypeOK
<1>3. stamp' = stamp /\ id' = id
  BY <1>2 DEF pipelineVars, tableVars
<1>4. /\ msgs \in Seq(Rows(ch))
      /\ \A m \in Rows(ch) \ ToSet(msgs) : Len(msgs) = PageSize /\ stamp[m] < stamp[msgs[1]]
  BY <1>0, <1>1, RecentRows
<1>5. msgs \in Seq(Messages) /\ ToSet(msgs) \subseteq Rows(ch) /\ Rows(ch) \subseteq Messages
  <2>1. Rows(ch) \subseteq Messages
    BY DEF Rows
  <2> QED
    BY <1>4, <2>1 DEF ToSet
<1>6. ASSUME NEW m \in Rows(ch), m \notin ToSet(msgs)
      PROVE  ToBeAsked(v, m, IF older[v] THEN oldestID[v] ELSE 0)'
  <2>1. MayHaveOlder(msgs) /\ stamp[m] < stamp[msgs[1]]
    BY <1>4, <1>6 DEF MayHaveOlder
  <2>2. msgs # <<>> /\ Head(msgs) \in ToSet(msgs) /\ Head(msgs) = msgs[1]
    BY <1>5, <2>1, FullAnswer
  <2>3. PICK h : h = Head(msgs)
    OBVIOUS
  <2>4. h \in Rows(ch) /\ stamp[m] < stamp[h] /\ h # m
    BY <1>5, <1>6, <2>1, <2>2, <2>3
  <2>5. older'[v] /\ oldestID'[v] = id[h]
    BY <1>2, <2>1, <2>2, <2>3 DEF OldestIDOf
  <2>6. id[m] < id[h] \/ id[h] < id[m]
    <3>1. id[m] \in Nat /\ id[h] \in Nat /\ id[m] # id[h]
      BY <1>0, <1>6, <2>4 DEF Rows, TableTypeOK, TableInv, Numbered
    <3> QED
      BY <3>1
  <2> QED
    BY <1>2, <1>3, <2>4, <2>5, <2>6 DEF ToBeAsked
<1>7. history'[v] = Idle
  BY <1>2 DEF PageInv, Blank
<1>8. Covers(v, IF older[v] THEN oldestID[v] ELSE 0, {})'
  BY <1>2, <1>6 DEF Covers, Shown
<1> QED
  BY <1>7, <1>8 DEF Backlog, Idle

\* A request for older rows, its answer and what the page makes of it.
LEMMA BacklogByOlder ==
  ASSUME Behavior, PageInv, RowsStay, NEW v \in Streams, Backlog(v), PageGrows(v),
         AskOlder(v) \/ ServeOlder(v) \/ ReceiveOlder(v) \/ LoseOlder(v)
  PROVE  Backlog(v)'
<1>0. PageStep(v)
  BY DEF PageStep
<1>1. id' = id /\ stamp' = stamp
  BY <1>0, PageReads DEF tableVars
<1>2. CASE AskOlder(v)
  <2>1. /\ older[v] /\ UNCHANGED <<older, oldestID>>
        /\ history'[v] = [at |-> "sent", before |-> oldestID[v]]
    BY <1>2 DEF AskOlder, PageInv, PageTypeOK
  <2> QED
    BY <2>1, BacklogStays DEF Backlog
<1>3. CASE LoseOlder(v)
  <2>1. UNCHANGED <<older, oldestID>> /\ history'[v] = Idle
    BY <1>3 DEF LoseOlder, PageInv, PageTypeOK
  <2> QED
    BY <2>1, BacklogStays DEF Backlog, Idle
<1>4. CASE ServeOlder(v)
  <2>1. history[v].at = "sent" /\ UNCHANGED <<older, oldestID, loaded, view>>
    BY <1>4 DEF ServeOlder
  <2>2. PICK msgs \in Seq(Messages) :
            /\ history'[v] = [at |-> "answered", msgs |-> msgs]
            /\ RowsOf(v, msgs)
            /\ \A m \in Rows(room[v]) \ ToSet(msgs) : id[m] < history[v].before =>
                 Len(msgs) = PageSize /\ id[m] < id[msgs[1]]
    BY <1>4, OlderAnswer
  <2>3. older[v] /\ history[v].before = oldestID[v] /\ Covers(v, oldestID[v], {})
    BY <2>1 DEF Backlog
  <2>4. ASSUME NEW m \in loaded[v], m \notin Shown(v), m \notin ToSet(msgs)
        PROVE  ToBeAsked(v, m, Rest(msgs))
    <3>1. ToBeAsked(v, m, oldestID[v])
      BY <2>3, <2>4 DEF Covers
    <3>2. CASE id[m] < oldestID[v]
      <4>1. m \in Rows(room[v])
        BY DEF PageInv, PageRows
      <4>2. Len(msgs) = PageSize /\ id[m] < id[msgs[1]]
        BY <2>2, <2>3, <2>4, <3>2, <4>1
      <4>3. MayHaveOlder(msgs) /\ Head(msgs) = msgs[1]
        BY <4>2, FullAnswer DEF MayHaveOlder
      <4> QED
        BY <4>2, <4>3 DEF ToBeAsked, Rest
    <3> QED
      BY <3>1, <3>2 DEF ToBeAsked
  <2>5. PICK n, S : n = Rest(msgs) /\ S = ToSet(msgs)
    OBVIOUS
  <2>6. Covers(v, n, S)
    BY <2>4, <2>5 DEF Covers
  <2>7. Covers(v, n, S)'
    BY <2>6, CoversStays
  <2>8. n = Rest(msgs)'
    BY <1>1, <2>5 DEF Rest, MayHaveOlder
  <2>9. Covers(v, Rest(msgs), ToSet(msgs))'
    BY <2>5, <2>7, <2>8
  <2>10. /\ history'[v].at = "answered" /\ history'[v].msgs = msgs /\ older'[v]
         /\ Covers(v, IF older[v] THEN oldestID[v] ELSE 0, {})'
    BY <2>1, <2>2, <2>3, BacklogStays
  <2> QED
    BY <2>9, <2>10 DEF Backlog
<1>5. CASE ReceiveOlder(v)
  <2>1. PICK msgs \in Seq(Messages) :
            /\ history[v].at = "answered" /\ history[v].msgs = msgs
            /\ history'[v] = Idle
            /\ Shown(v)' = Shown(v) \union ToSet(msgs)
            /\ oldestID'[v] = OldestIDOf(msgs, oldestID[v])
            /\ older'[v] = MayHaveOlder(msgs)
    BY <1>5, OlderReceived
  <2>2. PICK n, S : n = Rest(msgs) /\ S = ToSet(msgs)
    OBVIOUS
  <2>3. Covers(v, n, S)
    BY <2>1, <2>2 DEF Backlog
  <2>4. Covers(v, n, S)'
    BY <2>3, CoversStays
  <2>5. n = (IF older'[v] THEN oldestID'[v] ELSE 0)
    BY <2>1, <2>2, FullAnswer DEF Rest, OldestIDOf
  <2>6. Covers(v, n, {})'
    BY <2>1, <2>2, <2>4 DEF Covers
  <2>7. Covers(v, IF older[v] THEN oldestID[v] ELSE 0, {})'
    BY <2>5, <2>6
  <2> QED
    BY <2>1, <2>7 DEF Backlog, Idle
<1> QED
  BY <1>2, <1>3, <1>4, <1>5

LEMMA BacklogStep ==
  ASSUME Behavior, PageInv, [LiveNext]_liveVars, RowsStay, NEW v \in Streams, Backlog(v)
  PROVE  Backlog(v)'
<1>1. ASSUME NEW ch \in Channels, LoadPage(v, ch)
      PROVE  Backlog(v)'
  BY <1>1, BacklogByLoad
<1>2. CASE \A ch \in Channels : ~LoadPage(v, ch)
  <2>0. PageGrows(v)
    BY <1>2, PagesGrow
  <2>1. CASE older'[v] = older[v] /\ oldestID'[v] = oldestID[v] /\ history'[v] = history[v]
    BY <2>0, <2>1, BacklogStays
  <2>2. CASE AskOlder(v) \/ ServeOlder(v) \/ ReceiveOlder(v) \/ LoseOlder(v)
    BY <2>0, <2>2, BacklogByOlder
  <2>3. CASE OpenStream(v) \/ StartPolling(v) \/ ReceiveEvent(v)
    BY <2>1, <2>3 DEF OpenStream, StartPolling, ReceiveEvent
  <2>4. ASSUME NEW k \in Slots,
               SendPoll(v, k) \/ ServePoll(v, k) \/ ReceivePoll(v, k) \/ LosePoll(v, k)
        PROVE  UNCHANGED <<older, oldestID, history>>
    BY <2>4 DEF SendPoll, ServePoll, ReceivePoll, LosePoll
  <2>5. CASE PageStep(v)
    BY <1>2, <2>1, <2>2, <2>3, <2>4, <2>5 DEF PageStep
  <2>6. ASSUME NEW w \in Streams, w # v, PageStep(w)
        PROVE  Backlog(v)'
    BY <2>1, <2>6, OthersStay DEF PageOf, PageInv
  <2>7. CASE Behind \/ UNCHANGED liveVars \/ \E s \in Streams : HandleStream(s)
    BY <2>1, <2>7, PagesStay DEF PageOf
  <2> QED
    BY <2>5, <2>6, <2>7 DEF LiveNext
<1> QED
  BY <1>1, <1>2

LEMMA BacklogInitially == LiveInit => \A v \in Streams : Backlog(v)
  BY DEF LiveInit, Backlog, Covers, Idle

LEMMA PagesAsk == LiveSpec => [](\A v \in Streams : Backlog(v))
<1> DEFINE B == \A v \in Streams : Backlog(v)
<1>1. Behavior /\ PageInv /\ B /\ [LiveNext]_liveVars => B'
  BY PageInvStep, BacklogStep
<1>2. LiveInit => B
  BY BacklogInitially
<1> HIDE DEF B
<1>3. LiveSpec => []B
  BY <1>1, <1>2, PageInvariant, PTL DEF LiveSpec
<1> QED
  BY <1>3 DEF B

\* Once "load older" is gone, the page has every row its own query could see, but
\* for those whose id and created_at disagree: the query goes by created_at and
\* the requests by id.
THEOREM OlderRowsAreExhausted == LiveSpec => []OlderIsExhaustive
<1>1. Behavior /\ PageInv /\ (\A v \in Streams : Backlog(v)) => OlderIsExhaustive
  <2> SUFFICES ASSUME Behavior, PageInv, NEW v \in Streams, Backlog(v), ~older[v],
                      NEW m \in loaded[v] \ Shown(v)
               PROVE  \E n \in loaded[v] : stamp[m] < stamp[n] /\ id[n] < id[m]
    BY DEF OlderIsExhaustive
  <2>1. ToBeAsked(v, m, 0)
    BY DEF Backlog, Covers
  <2>2. id[m] \in Nat
    BY DEF PageInv, PageTypeOK, Behavior, PipelineInv, PipelineTypeOK, TableTypeOK
  <2> QED
    BY <2>1, <2>2 DEF ToBeAsked
<1> QED
  BY <1>1, PageInvariant, PagesAsk, PTL

-----------------------------------------------------------------------------
\* The pages implement the feed.

\* A step on the table adds one row to what is stored, or none.
LEMMA StoredStep ==
  ASSUME Behavior, [PipelineNext]_pipelineVars
  PROVE  \/ \A ch : Rows(ch)' = Rows(ch)
         \/ \E i \in Messages :
              /\ chan[i] \in Channels /\ \A ch : i \notin Rows(ch)
              /\ \A ch : Rows(ch)' = IF ch = chan[i] THEN Rows(ch) \union {i} ELSE Rows(ch)
<1>0. PipelineInv /\ TableTypeOK /\ TableInv
  BY DEF Behavior, PipelineInv, PipelineTypeOK
<1>1. CASE UNCHANGED tableVars
  BY <1>1 DEF tableVars, Rows
<1>2. ASSUME NEW i \in Messages,
             (\E ch \in Channels : Begin(i, ch)) \/ Number(i) \/ Abort(i)
      PROVE  \A ch : Rows(ch)' = Rows(ch)
  <2>1. /\ phase[i] # "committed" /\ phase'[i] # "committed"
        /\ \A j \in Messages : j # i => phase'[j] = phase[j] /\ chan'[j] = chan[j]
    BY <1>0, <1>2 DEF Begin, Number, Abort, TableTypeOK
  <2> QED
    BY <2>1 DEF Rows
<1>3. ASSUME NEW i \in Messages, Commit(i)
      PROVE  /\ chan[i] \in Channels /\ \A ch : i \notin Rows(ch)
             /\ \A ch : Rows(ch)' = IF ch = chan[i] THEN Rows(ch) \union {i} ELSE Rows(ch)
  <2>1. /\ phase[i] = "numbered" /\ phase'[i] = "committed" /\ chan' = chan
        /\ \A j \in Messages : j # i => phase'[j] = phase[j]
    BY <1>0, <1>3 DEF Commit, TableTypeOK
  <2>2. chan[i] \in Channels
    BY <1>0, <2>1 DEF TableInv
  <2> QED
    BY <2>1, <2>2 DEF Rows
<1> QED
  BY <1>0, <1>1, <1>2, <1>3, TableSteps

\* A page that is opened shows stored rows of its channel.
LEMMA LoadOpens ==
  ASSUME Behavior, PageInv, NEW v \in Streams, NEW ch \in Channels, LoadPage(v, ch)
  PROVE  \E S \in SUBSET Rows(ch) : TheFeed!Open(v, ch, S)
<1>1. PICK msgs : msgs = RecentMessages(ch, PageSize)
  OBVIOUS
<1>2. msgs \in Seq(Rows(ch))
  BY <1>1, RecentRows DEF Behavior, PipelineInv, PipelineTypeOK
<1>3. PICK S : S = ToSet(msgs)
  OBVIOUS
<1>4. S \subseteq Rows(ch)
  BY <1>2, <1>3 DEF ToSet
<1>5. /\ room[v] = NoChannel /\ room' = [room EXCEPT ![v] = ch]
      /\ view' = [view EXCEPT ![v] = msgs] /\ view \in [Streams -> Seq(Messages)]
      /\ UNCHANGED pipelineVars
  BY <1>1 DEF LoadPage, PageInv, PageTypeOK, Blank
<1>6. \A c : Rows(c)' = Rows(c)
  BY <1>5 DEF pipelineVars, tableVars, Rows
<1>7. [w \in Streams |-> Shown(w)]' = [[w \in Streams |-> Shown(w)] EXCEPT ![v] = S]
  BY <1>3, <1>5 DEF Shown
<1>8. TheFeed!Open(v, ch, S)
  BY <1>4, <1>5, <1>6, <1>7 DEF TheFeed!Open
<1> QED
  BY <1>4, <1>8

\* What a loaded page takes in are stored rows of its channel.
LEMMA PageShows ==
  ASSUME Behavior, PageInv, PageInv', RowsStay, NEW v \in Streams, PageStep(v), PageGrows(v),
         \A w \in Streams : w # v => UNCHANGED PageOf(w)
  PROVE  (\E S \in SUBSET Messages : TheFeed!Show(v, S)) \/ UNCHANGED TheFeed!feedVars
<1>1. \A c : Rows(c)' = Rows(c)
  BY PageReads
<1>2. room' = room
  <2>1. room \in [Streams -> Channels \union {NoChannel}]
    BY DEF PageInv, PageTypeOK, RoomOK
  <2>2. room' \in [Streams -> Channels \union {NoChannel}]
    BY DEF PageInv, PageTypeOK, RoomOK
  <2>3. \A w \in Streams : room'[w] = room[w]
    BY DEF PageGrows, PageOf
  <2> QED
    BY <2>1, <2>2, <2>3
<1>3. \A w \in Streams : w # v => Shown(w)' = Shown(w)
  BY DEF PageOf, Shown
<1>4. PICK S : S = Shown(v)'
  OBVIOUS
<1>5. S \subseteq Rows(room[v]) /\ Shown(v) \subseteq S
  BY <1>1, <1>2, <1>4 DEF PageInv, PageRows, RowsOf, Shown, PageGrows
<1>6. [w \in Streams |-> Shown(w)]' =
        [[w \in Streams |-> Shown(w)] EXCEPT ![v] = @ \union S]
  BY <1>3, <1>4, <1>5
<1>7. [c \in Channels |-> Rows(c)]' = [c \in Channels |-> Rows(c)]
  BY <1>1
<1>8. CASE room[v] \in Channels
  <2>1. room[v] # NoChannel
    BY <1>8, NoChannelAssumption
  <2>2. S \subseteq Messages
    BY <1>5 DEF Rows
  <2>3. TheFeed!Show(v, S)
    BY <1>2, <1>5, <1>6, <1>7, <1>8, <2>1 DEF TheFeed!Show
  <2> QED
    BY <2>2, <2>3
<1>9. CASE room[v] \notin Channels
  <2>1. Rows(room[v]) = {}
    BY <1>9 DEF Rows, Behavior, PipelineInv, TableInv
  <2>2. Shown(v) = S
    BY <1>5, <2>1
  <2>3. [w \in Streams |-> Shown(w)]' = [w \in Streams |-> Shown(w)]
    BY <1>3, <1>4, <2>2
  <2> QED
    BY <1>2, <1>7, <2>3 DEF TheFeed!feedVars
<1> QED
  BY <1>8, <1>9

LEMMA FeedStep ==
  ASSUME Behavior, PageInv, [LiveNext]_liveVars
  PROVE  [TheFeed!FeedNext]_(TheFeed!feedVars)
<1>0. Behavior' /\ PageInv' /\ RowsStay /\ LogStays /\ RoomOK
  BY PageInvStep DEF PageInv, PageTypeOK
<1>1. CASE Behind \/ UNCHANGED liveVars \/ \E s \in Streams : HandleStream(s)
  <2>1. room' = room /\ view' = view
    BY <1>1 DEF Behind, liveVars, HandleStream, pageVars
  <2>2. [w \in Streams |-> Shown(w)]' = [w \in Streams |-> Shown(w)]
    BY <2>1 DEF Shown
  <2>3. [PipelineNext]_pipelineVars
    BY <1>0, LiveStep
  <2>4. CASE \A ch : Rows(ch)' = Rows(ch)
    <3>1. [c \in Channels |-> Rows(c)]' = [c \in Channels |-> Rows(c)]
      BY <2>4
    <3> QED
      BY <2>1, <2>2, <3>1 DEF TheFeed!feedVars
  <2>5. ASSUME NEW i \in Messages,
               chan[i] \in Channels, \A ch : i \notin Rows(ch),
               \A ch : Rows(ch)' = IF ch = chan[i] THEN Rows(ch) \union {i} ELSE Rows(ch)
        PROVE  TheFeed!FeedNext
    <3>1. [c \in Channels |-> Rows(c)]' =
            [[c \in Channels |-> Rows(c)] EXCEPT ![chan[i]] = @ \union {i}]
      BY <2>5
    <3>2. TheFeed!Store(chan[i], i)
      BY <2>1, <2>2, <2>5, <3>1 DEF TheFeed!Store
    <3> QED
      BY <2>5, <3>2 DEF TheFeed!FeedNext
  <2> QED
    BY <2>3, <2>4, <2>5, StoredStep
<1>2. ASSUME NEW v \in Streams, PageStep(v)
      PROVE  TheFeed!FeedNext \/ UNCHANGED TheFeed!feedVars
  <2>1. ASSUME NEW ch \in Channels, LoadPage(v, ch)
        PROVE  TheFeed!FeedNext
    BY <2>1, LoadOpens DEF TheFeed!FeedNext
  <2>2. CASE \A ch \in Channels : ~LoadPage(v, ch)
    <3>1. PageGrows(v)
      BY <2>2, PagesGrow
    <3>2. \A w \in Streams : w # v => UNCHANGED PageOf(w)
      BY <1>2, OthersStay DEF PageInv
    <3> QED
      BY <1>0, <1>2, <3>1, <3>2, PageShows DEF TheFeed!FeedNext
  <2> QED
    BY <2>1, <2>2
<1> QED
  BY <1>1, <1>2 DEF LiveNext

\* The page, its stream, its polls and "load older", over any interleaving of
\* posts, crashes and lost answers, are a feed of the channel: rows are only ever
\* added, a page keeps its channel, and shows stored rows of it that stay.
THEOREM PagesImplementFeed == LiveSpec => ImplementsFeed
<1>1. LiveInit => TheFeed!FeedInit
  BY DEF LiveInit, PipelineInit, TableInit, Rows, Shown, ToSet, TheFeed!FeedInit
<1>2. Behavior /\ PageInv /\ [LiveNext]_liveVars => [TheFeed!FeedNext]_(TheFeed!feedVars)
  BY FeedStep
<1> QED
  BY <1>1, <1>2, PageInvariant, PTL DEF LiveSpec, ImplementsFeed, TheFeed!FeedSpec
=============================================================================
