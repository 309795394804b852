---------------------------- MODULE LiveChannel -----------------------------
(***************************************************************************)
(* A channel page in a browser (static/js/chat.js) and the handlers it     *)
(* talks to: handleChannelPage, handleSSE, handlePoll and handleHistory of *)
(* internal/handler/handler.go.                                            *)
(*                                                                         *)
(* A page opens at most one event stream, so a page is named by its        *)
(* stream; a reload is a new page.  Every request is three steps: it is    *)
(* sent, the handler runs its query, and the answer arrives, unless it is  *)
(* lost or refused on the way.  A poll is sent every three seconds whether *)
(* or not the last one was answered, so up to MaxPolls are on the way at   *)
(* once and their answers arrive in any order.                             *)
(***************************************************************************)
EXTENDS PostPipeline

CONSTANTS
  PageSize,  \* rows of a page and of a "load older" answer (50 in the code)
  MaxPolls   \* polls of a page on the way at once

ASSUME PageAssumption == PageSize \in Nat \ {0} /\ MaxPolls \in Nat \ {0}

VARIABLES
  mode,      \* blank, page (loaded), sse (event stream open) or poll
  room,      \* the page's channel
  view,      \* the rows of #message-list, top to bottom
  lastID,    \* chat.js lastID
  oldestID,  \* chat.js oldestID
  older,     \* whether the "load older" button is there
  seen,      \* how many of the stream's events onmessage has handled
  polls,     \* the page's polls on the way
  history,   \* the page's "load older" request on the way
  loaded     \* history: the rows visible to the page's own query

pageVars == <<mode, room, view, lastID, oldestID, older, seen, polls, history, loaded>>

liveVars == <<pageVars, pipelineVars>>

Slots == 1..MaxPolls

Idle == [at |-> "idle"]

LiveInit ==
  /\ PipelineInit
  /\ mode = [v \in Streams |-> "blank"]
  /\ room = [v \in Streams |-> NoChannel]
  /\ view = [v \in Streams |-> <<>>]
  /\ lastID = [v \in Streams |-> 0]
  /\ oldestID = [v \in Streams |-> 0]
  /\ older = [v \in Streams |-> FALSE]
  /\ seen = [v \in Streams |-> 0]
  /\ polls = [v \in Streams |-> [k \in Slots |-> Idle]]
  /\ history = [v \in Streams |-> Idle]
  /\ loaded = [v \in Streams |-> {}]

-----------------------------------------------------------------------------
\* Loading the page and opening the stream.

\* Mutant of LastIDOf: the id expected next.
NextIDOf(msgs, old) == IF msgs = <<>> THEN old ELSE id[Last(msgs)] + 1

\* lastID after the rows msgs, of which the last decides.
LastIDOf(msgs, old) == IF msgs = <<>> THEN old ELSE id[Last(msgs)]

OldestIDOf(msgs, old) == IF msgs = <<>> THEN old ELSE id[Head(msgs)]

MoreThanPage(msgs) == Len(msgs) > PageSize   \* mutant of MayHaveOlder

\* A full answer may have more behind it; a short one has not.
MayHaveOlder(msgs) == Len(msgs) = PageSize

\* handleChannelPage renders the newest PageSize messages.
LoadPage(v, ch) ==
  LET msgs == RecentMessages(ch, PageSize) IN
  /\ mode[v] = "blank"
  /\ mode' = [mode EXCEPT ![v] = "page"]
  /\ room' = [room EXCEPT ![v] = ch]
  /\ view' = [view EXCEPT ![v] = msgs]
  /\ lastID' = [lastID EXCEPT ![v] = LastIDOf(msgs, 0)]
  /\ oldestID' = [oldestID EXCEPT ![v] = OldestIDOf(msgs, 0)]
  /\ older' = [older EXCEPT ![v] = MayHaveOlder(msgs)]
  /\ loaded' = [loaded EXCEPT ![v] = Rows(ch)]
  /\ UNCHANGED <<seen, polls, history, pipelineVars>>

\* startSSE: handleSSE subscribes the stream the page asked for.
OpenStream(v) ==
  /\ mode[v] = "page"
  /\ mode' = [mode EXCEPT ![v] = "sse"]
  /\ Subscribe(v, room[v])
  /\ UNCHANGED <<room, view, lastID, oldestID, older, seen, polls, history, loaded,
                 pc, mention, tableVars>>

\* startPolling: the browser has no EventSource, or the stream was refused or
\* broke (onerror closes it for good).  What it still carried is not read.
StartPolling(v) ==
  /\ mode[v] \in {"page", "sse"}
  /\ mode' = [mode EXCEPT ![v] = "poll"]
  /\ UNCHANGED <<room, view, lastID, oldestID, older, seen, polls, history, loaded,
                 pipelineVars>>

-----------------------------------------------------------------------------
\* Rows that arrive.

AnyRow(rows, msgs) == DOMAIN msgs   \* mutant of NewRows: added without a look

\* Where msgs has rows that the list has not: getElementById finds nothing.  No
\* answer has a row twice, so this does not change while they are added.
NewRows(rows, msgs) == {k \in DOMAIN msgs : ~Contains(rows, msgs[k])}

Fresh(rows, msgs) == Picked(msgs, NewRows(rows, msgs))

\* appendMessageHTML, for each of msgs.
AppendRows(rows, msgs) == rows \o Fresh(rows, msgs)

\* es.onmessage
ReceiveEvent(v) ==
  LET m == log[written[v][seen[v] + 1]].msg IN
  /\ mode[v] = "sse"
  /\ seen[v] < Len(written[v])
  /\ seen' = [seen EXCEPT ![v] = @ + 1]
  /\ view' = [view EXCEPT ![v] = AppendRows(@, <<m>>)]
  /\ lastID' = [lastID EXCEPT ![v] = id[m]]
  /\ UNCHANGED <<mode, room, oldestID, older, polls, history, loaded, pipelineVars>>

SetPoll(v, k, p) == polls' = [polls EXCEPT ![v][k] = p]

SendPoll(v, k) ==
  /\ mode[v] = "poll"
  /\ polls[v][k].at = "idle"
  /\ SetPoll(v, k, [at |-> "sent", after |-> lastID[v]])
  /\ UNCHANGED <<mode, room, view, lastID, oldestID, older, seen, history, loaded,
                 pipelineVars>>

\* handlePoll
ServePoll(v, k) ==
  /\ polls[v][k].at = "sent"
  /\ SetPoll(v, k, [at |-> "answered",
                    msgs |-> MessagesSinceID(room[v], polls[v][k].after)])
  /\ UNCHANGED <<mode, room, view, lastID, oldestID, older, seen, history, loaded,
                 pipelineVars>>

ReceivePoll(v, k) ==
  LET msgs == polls[v][k].msgs IN
  /\ polls[v][k].at = "answered"
  /\ SetPoll(v, k, Idle)
  /\ view' = [view EXCEPT ![v] = AppendRows(@, msgs)]
  /\ lastID' = [lastID EXCEPT ![v] = LastIDOf(msgs, @)]
  /\ UNCHANGED <<mode, room, oldestID, older, seen, history, loaded, pipelineVars>>

\* The fetch fails, or its answer is not ok.
LosePoll(v, k) ==
  /\ polls[v][k].at # "idle"
  /\ SetPoll(v, k, Idle)
  /\ UNCHANGED <<mode, room, view, lastID, oldestID, older, seen, history, loaded,
                 pipelineVars>>

-----------------------------------------------------------------------------
\* "Load older messages": one request at a time, the button is disabled.

AskOlder(v) ==
  /\ mode[v] # "blank"
  /\ older[v]
  /\ history[v].at = "idle"
  /\ history' = [history EXCEPT ![v] = [at |-> "sent", before |-> oldestID[v]]]
  /\ UNCHANGED <<mode, room, view, lastID, oldestID, older, seen, polls, loaded,
                 pipelineVars>>

\* handleHistory
ServeOlder(v) ==
  /\ history[v].at = "sent"
  /\ history' = [history EXCEPT ![v] =
       [at |-> "answered",
        msgs |-> MessagesBefore(room[v], history[v].before, PageSize)]]
  /\ UNCHANGED <<mode, room, view, lastID, oldestID, older, seen, polls, loaded,
                 pipelineVars>>

\* The new rows go on top, in their order; a short answer removes the button.
ReceiveOlder(v) ==
  LET msgs == history[v].msgs IN
  /\ history[v].at = "answered"
  /\ history' = [history EXCEPT ![v] = Idle]
  /\ view' = [view EXCEPT ![v] = Fresh(@, msgs) \o @]
  /\ oldestID' = [oldestID EXCEPT ![v] = OldestIDOf(msgs, @)]
  /\ older' = [older EXCEPT ![v] = MayHaveOlder(msgs)]
  /\ UNCHANGED <<mode, room, lastID, seen, polls, loaded, pipelineVars>>

LoseOlder(v) ==
  /\ history[v].at # "idle"
  /\ history' = [history EXCEPT ![v] = Idle]
  /\ UNCHANGED <<mode, room, view, lastID, oldestID, older, seen, polls, loaded,
                 pipelineVars>>

-----------------------------------------------------------------------------
\* The server's side of the stream, and everything behind it.
HandleStream(v) ==
  /\ WriteEvent(v) \/ LeaveLoop(v) \/ Unsubscribe(v)
  /\ UNCHANGED <<pageVars, pc, mention, tableVars>>

Behind ==
  /\ \/ \E r \in Requests : RequestArrives(r) \/ HandlerStep(r) \/ CallAbandoned(r)
     \/ \E i \in Messages : DbStep(i)
     \/ ServerCrash
  /\ UNCHANGED pageVars

PageStep(v) ==
  \/ \E ch \in Channels : LoadPage(v, ch)
  \/ OpenStream(v)
  \/ StartPolling(v)
  \/ ReceiveEvent(v)
  \/ \E k \in Slots : SendPoll(v, k) \/ ServePoll(v, k) \/ ReceivePoll(v, k) \/ LosePoll(v, k)
  \/ AskOlder(v)
  \/ ServeOlder(v)
  \/ ReceiveOlder(v)
  \/ LoseOlder(v)

LiveNext ==
  \/ \E v \in Streams : PageStep(v)
  \/ \E v \in Streams : HandleStream(v)
  \/ Behind

LiveSpec == LiveInit /\ [][LiveNext]_liveVars
-----------------------------------------------------------------------------
Shown(v) == ToSet(view[v])

\* Types; a page has not taken more events than its stream has written.
LiveTypeOK ==
  /\ PipelineTypeOK
  /\ mode \in [Streams -> {"blank", "page", "sse", "poll"}]
  /\ room \in [Streams -> Channels \union {NoChannel}]
  /\ view \in [Streams -> Seq(Messages)]
  /\ lastID \in [Streams -> Nat]
  /\ oldestID \in [Streams -> Nat]
  /\ older \in [Streams -> BOOLEAN]
  /\ seen \in [Streams -> Nat]
  /\ \A v \in Streams : seen[v] <= Len(written[v])
  /\ loaded \in [Streams -> SUBSET Messages]
  /\ \A v \in Streams, k \in Slots : polls[v][k].at \in {"idle", "sent", "answered"}
  /\ \A v \in Streams : history[v].at \in {"idle", "sent", "answered"}

\* No message stands twice on a page, whichever of the page query, the stream,
\* overlapping polls and "load older" brought it.
NoDuplicateRows == \A v \in Streams : IsInjective(view[v])

\* The watermark of the next poll is the id of a row that is on the page.
WatermarkIsShown ==
  \A v \in Streams : lastID[v] # 0 => \E m \in Shown(v) : id[m] = lastID[v]

\* The row is older than the page's own first row.
BeforeFirstRow(v, m) ==
  /\ m \in loaded[v]
  /\ PageSize <= Cardinality({i \in loaded[v] : stamp[m] < stamp[i]})

\* Broadcast p never reached the page: sent before it subscribed, dropped by a
\* full buffer, or still on the way.
Missed(v, p) == p <= joined[v] \/ p \in dropped[v]

Coming(v, p) ==
  \/ \E i \in 1..Len(queue[v]) : queue[v][i] = p
  \/ \E i \in seen[v] + 1 .. Len(written[v]) : written[v][i] = p

\* While its stream is served, a page lacks a stored message only if the row is
\* older than the page, its broadcast has not happened (yet), is on its way,
\* overflowed the buffer, or fell between the page's query and subscribe.
StreamLossHasCause ==
  \A v \in Streams : mode[v] = "sse" /\ loop[v] = "serving" =>
     \A m \in Rows(room[v]) \ Shown(v) :
        \/ BeforeFirstRow(v, m)
        \/ m \notin loaded[v] /\ ~Published(m)
        \/ \E p \in 1..Len(log) : /\ log[p].msg = m
                                  /\ m \notin loaded[v]
                                  /\ Missed(v, p) \/ Coming(v, p)

\* Another message of the channel with a larger id became visible, or was
\* broadcast, first.
Overtaken(m) ==
  \E n \in Rows(chan[m]) :
     /\ id[m] < id[n]
     /\ \/ \E i, j \in 1..Len(commits) : i < j /\ commits[i] = n /\ commits[j] = m
        \/ \E p \in 1..Len(log) : /\ log[p].msg = n
                                  /\ \A q \in 1..p : log[q].msg # m

\* The stream lost m and carried on: a message that came after m's broadcast and
\* has a larger id was handled, which is before polling began.
SkippedByStream(v, m) ==
  \E p \in 1..Len(log), i \in 1..seen[v] :
     /\ log[p].msg = m /\ Missed(v, p)
     /\ p < written[v][i] /\ id[m] < id[log[written[v][i]].msg]

\* A polling page that lacks a message below its watermark, which no later poll
\* will fetch, lacks it because the row is older than the page, because it was
\* overtaken, or because the stream had gone past it before polling began: the
\* fallback itself loses nothing, whatever the stream had not yet brought.
PollLossHasCause ==
  \A v \in Streams : mode[v] = "poll" =>
     \A m \in Rows(room[v]) \ Shown(v) : id[m] <= lastID[v] =>
        BeforeFirstRow(v, m) \/ Overtaken(m) \/ SkippedByStream(v, m)

\* Once the "load older" button is gone, every message the page's query could
\* see is on the page, but for one whose id and created_at disagree.
OlderIsExhaustive ==
  \A v \in Streams : mode[v] # "blank" /\ ~older[v] =>
     \A m \in loaded[v] \ Shown(v) :
        \E n \in loaded[v] : stamp[m] < stamp[n] /\ id[n] < id[m]

\* What chat.js:112 says: a served stream that has nothing on the way has put
\* on the page every message broadcast on its channel since it subscribed.
SseDeliversTheMessage ==
  \A v \in Streams :
     mode[v] = "sse" /\ loop[v] = "serving" /\ queue[v] = <<>> /\ seen[v] = Len(written[v]) =>
       \A p \in joined[v] + 1 .. Len(log) :
          log[p].chan = room[v] => log[p].msg \in Shown(v)

\* What chat.js:137 says of the rows "load older" inserts: the rows of a page
\* stand in the order they were created.
RowsAreChronological ==
  \A v \in Streams : \A i, j \in 1..Len(view[v]) :
     i < j => stamp[view[v][i]] < stamp[view[v][j]]

\* A polling page gets every stored message above its watermark, or moves the
\* watermark past it.
PollCatchesUp ==
  \A v \in Streams, m \in Messages :
     mode[v] = "poll" /\ m \in Rows(room[v]) /\ lastID[v] < id[m]
       ~> m \in Shown(v) \/ id[m] <= lastID[v]

\* The page is a feed of its channel.
TheFeed == INSTANCE Feed WITH
  Pages  <- Streams,
  stored <- [ch \in Channels |-> Rows(ch)],
  shown  <- [v \in Streams |-> Shown(v)]

ImplementsFeed == TheFeed!FeedSpec
=============================================================================
