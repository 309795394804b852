---------------------------- MODULE Conversation ----------------------------
(***************************************************************************)
(* Talking to the bot: the server comes up (Startup), posts reach it, and  *)
(* dispatchIntegration of internal/handler/handler.go gives those that     *)
(* mention the bot to its commands (Barsukas); what is stored, question or *)
(* answer, is shown through RenderBody (Markup).  The server may be        *)
(* stopped at any time, and started again without the account of the bot.  *)
(***************************************************************************)
EXTENDS Barsukas, Startup, Markup

CONSTANTS
  MaxVersions,  \* bound: versions of the dictionary
  MaxLines      \* bound: lines of a post

ASSUME MaxLinesAssumption == MaxLines \in Nat

VARIABLE lines  \* the stored post, or the answer, of each mention

conversationVars == <<botVars, startVars, lines>>

ConversationInit ==
  /\ BotInit
  /\ StartInit
  /\ lines = [m \in Mentions |-> <<>>]

Store(m, body) == lines' = [lines EXCEPT ![m] = body]

PostBodies(n) == UNION {[1..k -> Kinds] : k \in 1..n}

\* Not a mention, or of a name that the registry does not have: it is stored,
\* and that is all.
PostPlain(m) ==
  /\ stage = "listening"
  /\ at[m] = "new"
  /\ at' = [at EXCEPT ![m] = "plain"]
  /\ \E body \in PostBodies(MaxLines) : Store(m, body)
  /\ UNCHANGED <<corpora, query, got, found, since, until, reply, startVars>>

\* systemUserIDs does not have the bot: there will be no answer.
Ignore(m) ==
  /\ stage = "listening" /\ ~botUser
  /\ at[m] = "new"
  /\ at' = [at EXCEPT ![m] = "ignored"]
  /\ UNCHANGED <<corpora, query, got, found, since, until, reply, lines, startVars>>

\* The lines of an answer.  Only a link's is not plain text.
AnswerLines(r) == IF r.kind = "report" /\ r.file # None THEN <<"text", "audio">> ELSE <<"text">>

Ask(m, q) ==
  /\ stage = "listening" /\ botUser
  /\ Refuse(m, q) \/ BeginCommand(m, q)
  /\ UNCHANGED <<lines, startVars>>

Answering(m) ==
  /\ BotStep(m)
  /\ IF at'[m] = "answered" THEN Store(m, AnswerLines(reply'[m])) ELSE UNCHANGED lines
  /\ UNCHANGED startVars

RequestEnds(m) ==
  /\ Abandon(m)
  /\ UNCHANGED <<lines, startVars>>

\* The facts that are asked about, or that a search may find, change meanwhile.
Relevant(m, f) ==
  /\ at[m] = "asking"
  /\ \/ query[m].sub = "translate" /\ f[2] = "translations" /\ f[3] = query[m].langs[1]
     \/ \E k \in 1..Len(Calls(m)) : LET c == Calls(m)[k] IN
          f[1] = c.of /\ f[2] = c.what /\ c.lang \in {All, f[3]}

Edit ==
  /\ Len(corpora) < MaxVersions
  /\ \E f \in Facts : (\E m \in Mentions : Relevant(m, f)) /\ Curate(f)
  /\ UNCHANGED <<lines, startVars>>

\* A process that stops takes its requests with it.
StopRequests ==
  /\ at' = [m \in Mentions |-> IF at[m] = "asking" THEN "gone" ELSE at[m]]
  /\ UNCHANGED <<corpora, query, got, found, since, until, reply>>

Server ==
  /\ StartNext
  /\ IF stage = "listening" /\ stage' # "listening" THEN StopRequests ELSE UNCHANGED botVars
  /\ UNCHANGED lines

MentionStep(m) ==
  \/ PostPlain(m)
  \/ Ignore(m)
  \/ \E q \in Queries : Ask(m, q)
  \/ Answering(m)
  \/ RequestEnds(m)

ConversationNext == Server \/ Edit \/ \E m \in Mentions : MentionStep(m)

ConversationSpec == ConversationInit /\ [][ConversationNext]_conversationVars

\* A running handler goes on, and its client gives each call ten seconds.
FairConversationSpec ==
  /\ ConversationSpec
  /\ \A m \in Mentions :
       /\ WF_conversationVars(CallFails(m) /\ Answering(m))
       /\ WF_conversationVars(Compose(m) /\ Answering(m))
-----------------------------------------------------------------------------
\* Types of the bot, of the starts and of what is stored.
ConversationTypeOK == BotTypeOK /\ StartTypeOK /\ lines \in [Mentions -> Seq(Kinds)]

\* Every post and every answer becomes, line by line, the HTML that the package's
\* comment describes: no list is left open for the rows below it or opened twice.
RendersEachLine == \A m \in Mentions : RenderBody(lines[m]) = HTML(lines[m])
=============================================================================
