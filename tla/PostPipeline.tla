---------------------------- MODULE PostPipeline ----------------------------
(***************************************************************************)
(* POST /channel/{name}/post: handlePost and dispatchIntegration of        *)
(* internal/handler/handler.go, on top of the messages table and the       *)
(* broker.                                                                 *)
(*                                                                         *)
(* Every request runs in a goroutine of its own, so the insert, the        *)
(* broadcast and the bot's answer of one request interleave freely with    *)
(* those of the others; nothing orders them but the code of one handler.   *)
(* The request's context ends when the client goes away, and a database    *)
(* call whose context has ended returns an error at once, while its        *)
(* statement may still commit.                                             *)
(***************************************************************************)
EXTENDS Broker, MessageTable

CONSTANTS
  Requests,     \* POST requests
  Integrations  \* the registered integrations that have a system user

Own(r)   == <<r, "own">>    \* the user's message
Reply(r) == <<r, "reply">>  \* the integration's answer to it

ASSUME MessagesAssumption == Messages = Requests \X {"own", "reply"}

VARIABLES
  pc,       \* where each handlePost call is
  mention   \* whether the body addresses a registered integration

pipelineVars == <<pc, mention, tableVars, brokerVars>>

Done == {"ok", "rejected", "failed", "dead"}

Going == {"insert", "broadcast", "dispatch", "reply", "announce"}

PipelineInit ==
  /\ TableInit
  /\ BrokerInit
  /\ pc = [r \in Requests |-> "idle"]
  /\ mention = [r \in Requests |-> FALSE]

Goto(r, from, to) ==
  /\ pc[r] = from
  /\ pc' = [pc EXCEPT ![r] = to]

-----------------------------------------------------------------------------
\* handlePost.

\* No session, no such channel, an empty body or one over 4000 bytes.
Reject(r) ==
  /\ Goto(r, "idle", "rejected")
  /\ UNCHANGED <<mention, tableVars, brokerVars>>

\* The request is valid and PostMessage is called.
Accept(r, ch, isMention) ==
  /\ Goto(r, "idle", "insert")
  /\ isMention => Integrations # {}
  /\ mention' = [mention EXCEPT ![r] = isMention]
  /\ Begin(Own(r), ch)
  /\ UNCHANGED brokerVars

\* Mutant of Stored: the row is taken for stored once it has an id.
NumberedIsStored(i) == phase[i] \in {"numbered", "committed"}

Stored(i) == phase[i] = "committed"

InsertReturns(r) ==
  /\ Stored(Own(r))
  /\ Goto(r, "insert", "broadcast")
  /\ UNCHANGED <<mention, tableVars, brokerVars>>

\* Mutant of InsertFails: the error is logged and the request goes on.
InsertErrorIgnored(r) ==
  /\ phase[Own(r)] = "aborted"
  /\ Goto(r, "insert", "dispatch")
  /\ UNCHANGED <<mention, tableVars, brokerVars>>

InsertFails(r) ==
  /\ phase[Own(r)] = "aborted"
  /\ Goto(r, "insert", "failed")
  /\ UNCHANGED <<mention, tableVars, brokerVars>>

BroadcastOwn(r) ==
  /\ Goto(r, "broadcast", "dispatch")
  /\ Broadcast(chan[Own(r)], Own(r))
  /\ UNCHANGED <<mention, tableVars>>

-----------------------------------------------------------------------------
\* dispatchIntegration.

\* Not a mention, or one of a name that answers nothing.
NoDispatch(r) ==
  /\ ~mention[r]
  /\ Goto(r, "dispatch", "ok")
  /\ UNCHANGED <<mention, tableVars, brokerVars>>

\* Mutant of Answer: the integration is dispatched before the broadcast.
AnswerBeforeBroadcast(r) ==
  /\ mention[r]
  /\ Goto(r, "broadcast", "reply")
  /\ Begin(Reply(r), chan[Own(r)])
  /\ UNCHANGED <<mention, brokerVars>>

\* Dispatch returned, with the integration's answer or with the text of its
\* error, and the answer is posted as the system user.
Answer(r) ==
  /\ mention[r]
  /\ Goto(r, "dispatch", "reply")
  /\ Begin(Reply(r), chan[Own(r)])
  /\ UNCHANGED <<mention, brokerVars>>

ReplyReturns(r) ==
  /\ Stored(Reply(r))
  /\ Goto(r, "reply", "announce")
  /\ UNCHANGED <<mention, tableVars, brokerVars>>

\* The error is logged and the request still succeeds.
ReplyFails(r) ==
  /\ phase[Reply(r)] = "aborted"
  /\ Goto(r, "reply", "ok")
  /\ UNCHANGED <<mention, tableVars, brokerVars>>

\* Mutant of BroadcastReply: msg where botMsg is meant.
BroadcastOwnAgain(r) ==
  /\ Goto(r, "announce", "ok")
  /\ Broadcast(chan[Own(r)], Own(r))
  /\ UNCHANGED <<mention, tableVars>>

BroadcastReply(r) ==
  /\ Goto(r, "announce", "ok")
  /\ Broadcast(chan[Own(r)], Reply(r))
  /\ UNCHANGED <<mention, tableVars>>

\* The client goes away or the database connection breaks while a statement
\* runs: PostMessage returns an error, whatever becomes of the statement.
CallAbandoned(r) ==
  /\ Goto(r, "insert", "failed") \/ Goto(r, "reply", "ok")
  /\ UNCHANGED <<mention, tableVars, brokerVars>>

-----------------------------------------------------------------------------
\* The rest of the system.

DbStep(i) ==
  /\ Number(i) \/ Commit(i) \/ Abort(i)
  /\ UNCHANGED <<pc, mention, brokerVars>>

StreamStep(s) ==
  /\ \/ \E ch \in Channels : Subscribe(s, ch)
     \/ WriteEvent(s)
     \/ LeaveLoop(s)
     \/ Unsubscribe(s)
  /\ UNCHANGED <<pc, mention, tableVars>>

\* The server process dies and is started again; the database lives on.
ServerCrash ==
  /\ pc' = [r \in Requests |-> IF pc[r] \in Going THEN "dead" ELSE pc[r]]
  /\ BrokerCrash
  /\ UNCHANGED <<mention, tableVars>>

HandlerStep(r) ==
  \/ InsertReturns(r)
  \/ InsertFails(r)
  \/ BroadcastOwn(r)
  \/ NoDispatch(r)
  \/ Answer(r)
  \/ ReplyReturns(r)
  \/ ReplyFails(r)
  \/ BroadcastReply(r)

RequestArrives(r) ==
  \/ Reject(r)
  \/ \E ch \in Channels, isMention \in BOOLEAN : Accept(r, ch, isMention)

PipelineNext ==
  \/ \E r \in Requests : RequestArrives(r)
  \/ \E r \in Requests : HandlerStep(r)
  \/ \E r \in Requests : CallAbandoned(r)
  \/ \E i \in Messages : DbStep(i)
  \/ \E s \in Streams : StreamStep(s)
  \/ ServerCrash

PipelineSpec == PipelineInit /\ [][PipelineNext]_pipelineVars

\* Go runs every handler that can run and the database ends every statement.
\* Nothing is assumed of the event streams: their clients may never read.
PipelineFairness ==
  /\ \A r \in Requests : WF_pipelineVars(HandlerStep(r))
  /\ \A i \in Messages : WF_pipelineVars(DbStep(i))

FairPipelineSpec == PipelineSpec /\ PipelineFairness
-----------------------------------------------------------------------------
Published(m) == \E p \in 1..Len(log) : log[p].msg = m

\* Types of the handlers, the table and the broker.
PipelineTypeOK ==
  /\ TableTypeOK
  /\ BrokerTypeOK
  /\ pc \in [Requests -> {"idle"} \union Going \union Done]
  /\ mention \in [Requests -> BOOLEAN]

\* Only a stored row is ever broadcast, and on the channel it is stored in: a
\* client never sees a message that a reload would not find.
OnlyCommittedBroadcast ==
  \A p \in 1..Len(log) : /\ phase[log[p].msg] = "committed"
                         /\ chan[log[p].msg] = log[p].chan

\* No message is broadcast twice, by its own handler or by another.
BroadcastOnce ==
  \A p, q \in 1..Len(log) : log[p].msg = log[q].msg => p = q

\* An integration's answer comes after the message it answers in all of the
\* orders a client can see: id, created_at, visibility and broadcast.
ReplyFollowsTrigger ==
  \A r \in Requests :
     /\ phase[Reply(r)] # "new" =>
          /\ Published(Own(r))
          /\ chan[Reply(r)] = chan[Own(r)]
          /\ stamp[Own(r)] < stamp[Reply(r)]
     /\ phase[Reply(r)] = "committed" => id[Own(r)] < id[Reply(r)]
     /\ \A p, q \in 1..Len(log) :
          log[p].msg = Own(r) /\ log[q].msg = Reply(r) => p < q

\* On every open stream the question stands before the answer, unless the
\* stream subscribed between the two or overflowed on the question.
QuestionBeforeAnswer ==
  \A s \in Listed, r \in Requests :
     \A j \in 1..Len(Delivered(s)), p \in joined[s] + 1 .. Len(log) :
        log[Delivered(s)[j]].msg = Reply(r) /\ log[p].msg = Own(r) =>
          p \in dropped[s] \/ \E i \in 1..j - 1 : Delivered(s)[i] = p

\* A request that was answered with success has stored and broadcast its
\* message, and a stored message that was not broadcast belongs to a handler
\* still on its way, cancelled by its client, or killed by a crash.
AcknowledgedIsPublished ==
  \A r \in Requests :
     /\ pc[r] = "ok" => Published(Own(r))
     /\ phase[Own(r)] = "committed" /\ ~Published(Own(r)) =>
          pc[r] \in {"insert", "broadcast", "failed", "dead"}
     /\ pc[r] \in {"idle", "rejected"} => phase[Own(r)] = "new"

\* A request that reached the database is always answered, however slow the
\* readers of the event streams are: broadcast never waits for them.
PostTerminates == \A r \in Requests : pc[r] = "insert" ~> pc[r] \in Done
-----------------------------------------------------------------------------
\* What a handler's place says of the rows it has written and broadcast, and
\* what no later step of anyone undoes.
HandlerAt(r) ==
  /\ pc[r] \in {"idle", "rejected"} => phase[Own(r)] = "new"
  /\ pc[r] \in {"insert", "failed"} => phase[Own(r)] # "new"
  /\ pc[r] \in {"broadcast", "dispatch", "reply", "announce", "ok"} =>
       phase[Own(r)] = "committed"
  /\ pc[r] \in {"idle", "rejected", "insert", "failed", "broadcast"} =>
       ~Published(Own(r)) /\ phase[Reply(r)] = "new"
  /\ pc[r] \in {"dispatch", "reply", "announce", "ok"} => Published(Own(r))
  /\ pc[r] = "dispatch" => phase[Reply(r)] = "new"
  /\ pc[r] = "reply" => phase[Reply(r)] # "new"
  /\ pc[r] = "announce" => phase[Reply(r)] = "committed"
  /\ Published(Reply(r)) => pc[r] = "ok"

HandlerInv == \A r \in Requests : HandlerAt(r)

RepliesLater ==
  \A r \in Requests : phase[Reply(r)] # "new" =>
     /\ phase[Own(r)] = "committed"
     /\ Numbered(Reply(r)) => id[Own(r)] < id[Reply(r)]

\* The inductive invariant of the message path up to the broker.
PipelineInv ==
  /\ PipelineTypeOK
  /\ TableInv
  /\ HandlerInv
  /\ OnlyCommittedBroadcast
  /\ BroadcastOnce
  /\ RepliesLater
  /\ ReplyFollowsTrigger
=============================================================================
