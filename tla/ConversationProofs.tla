------------------------- MODULE ConversationProofs -------------------------
(***************************************************************************)
(* What the starts of the server and the bot promise while they talk, for  *)
(* any number of mentions, starts, lemmas and versions of the dictionary;  *)
(* and that RenderBody keeps its promise for a body of any length.         *)
(***************************************************************************)
EXTENDS Conversation, OrderingProofs, SequenceTheorems

USE MaxKeysAssumption

\* The stages in which the process has its signing key.
Keyed == {"database", "templates", "integrations", "routes", "listening"}

\* The key file is made once.  A process of the scripts is given what it holds, and
\* signs with that unless it is empty.
KeyOK ==
  /\ keyFile # 0 => fileThere
  /\ scripted /\ stage \in Up => fileThere /\ given = keyFile
  /\ scripted /\ stage \in Keyed /\ given # 0 => secret = given
  /\ ~fileThere => keysUsed = {}
  /\ keyFile # 0 => keysUsed \subseteq {keyFile}

\* The migration makes the bot's row a system user's, whatever it was, and nothing
\* undoes that; so a process that finds no such row started before it.
BotOK ==
  /\ migrated => account = "system"
  /\ botUser => account = "system"
  /\ stage \in {"routes", "listening"} /\ ~botUser => lookup.row = "error" \/ ~lookup.migrated

Numbers ==
  /\ keyFile \in 0..MaxKeys /\ given \in 0..MaxKeys
  /\ drawn \in 0..MaxKeys /\ secret \in 0..MaxKeys

StartTypes ==
  /\ stage \in {"down"} \union Up
  /\ account \in {"none", "human", "system"}
  /\ botUser => botName
  /\ Numbers

StartInv == StartTypes /\ KeyOK /\ BotOK

LEMMA InitialStart == StartInit => StartInv
<1> SUFFICES ASSUME StartInit PROVE StartInv
  OBVIOUS
<1>1. StartTypes
  BY DEF StartInit, StartTypes, Numbers, Up
<1>2. KeyOK
  BY DEF StartInit, KeyOK, Up, Keyed
<1>3. BotOK
  BY DEF StartInit, BotOK, NoLookup
<1> QED
  BY <1>1, <1>2, <1>3 DEF StartInv

-----------------------------------------------------------------------------
\* When the key file is there, launch.sh takes what it holds.
LEMMA LaunchByScriptKeeps == StartInv /\ LaunchByScript => StartInv'
<1> SUFFICES ASSUME StartInv, LaunchByScript PROVE StartInv'
  OBVIOUS
<1> USE DEF LaunchByScript, StartProcess
<1>1. FileKey \in 0..MaxKeys /\ (fileThere => FileKey = keyFile)
  BY DEF StartInv, StartTypes, Numbers, FileKey, Draws
<1>2. drawn' \in 0..MaxKeys
  BY <1>1 DEF StartInv, StartTypes, Numbers
<1>3. StartTypes'
  BY <1>1, <1>2 DEF StartInv, StartTypes, Numbers, Up
<1>4. KeyOK'
  BY <1>1 DEF StartInv, KeyOK, Up, Keyed
<1>5. BotOK'
  BY DEF StartInv, BotOK, NoLookup
<1> QED
  BY <1>3, <1>4, <1>5 DEF StartInv

\* An empty file can only be made before the scripts have started a process.
LEMMA GenerateFailsKeeps == StartInv /\ GenerateFails => StartInv'
<1> SUFFICES ASSUME StartInv, GenerateFails PROVE StartInv'
  OBVIOUS
<1> USE DEF GenerateFails, NoProcess, Draws, environment
<1>1. StartTypes'
  BY DEF StartInv, StartTypes, Numbers
<1>2. KeyOK'
  BY DEF StartInv, KeyOK, Up, Keyed
<1>3. BotOK'
  BY DEF StartInv, BotOK
<1> QED
  BY <1>1, <1>2, <1>3 DEF StartInv

LEMMA LaunchByHandKeeps == StartInv /\ LaunchByHand => StartInv'
<1> SUFFICES ASSUME StartInv, LaunchByHand PROVE StartInv'
  OBVIOUS
<1> USE DEF LaunchByHand, StartProcess
<1>1. StartTypes'
  BY DEF StartInv, StartTypes, Numbers, Up
<1>2. KeyOK'
  BY DEF StartInv, KeyOK
<1>3. BotOK'
  BY DEF StartInv, BotOK, NoLookup
<1> QED
  BY <1>1, <1>2, <1>3 DEF StartInv

LEMMA ExitKeeps == StartInv /\ Exit => StartInv'
<1> SUFFICES ASSUME StartInv, Exit PROVE StartInv'
  OBVIOUS
<1> QED
  BY DEF Exit, NoProcess, environment, StartInv, StartTypes, Numbers, KeyOK, BotOK, Up, Keyed

LEMMA ReadSecretKeeps == StartInv /\ ReadSecret => StartInv'
<1> SUFFICES ASSUME StartInv, ReadSecret PROVE StartInv'
  OBVIOUS
<1> USE DEF ReadSecret, Advance
<1>1. secret' \in 0..MaxKeys /\ drawn' \in 0..MaxKeys /\ (given # 0 => secret' = given)
  BY DEF StartInv, StartTypes, Numbers
<1>2. StartTypes'
  BY <1>1 DEF StartInv, StartTypes, Numbers, Up
<1>3. KeyOK'
  BY <1>1 DEF StartInv, KeyOK, Up, Keyed
<1>4. BotOK'
  BY DEF StartInv, BotOK
<1> QED
  BY <1>2, <1>3, <1>4 DEF StartInv

\* Opening the database and parsing the templates.
LEMMA AdvanceKeeps ==
  ASSUME StartInv, OpenDatabase \/ ParseTemplates
  PROVE  StartInv'
<1> USE DEF OpenDatabase, ParseTemplates, Advance
<1>1. StartTypes'
  BY DEF StartInv, StartTypes, Numbers, Up
<1>2. KeyOK'
  BY DEF StartInv, KeyOK, Up, Keyed
<1>3. BotOK'
  BY DEF StartInv, BotOK
<1> QED
  BY <1>1, <1>2, <1>3 DEF StartInv

\* After the migration the query finds the bot's row, unless it fails.
LEMMA RegisterIntegrationKeeps == StartInv /\ RegisterIntegration => StartInv'
<1> SUFFICES ASSUME StartInv, RegisterIntegration PROVE StartInv'
  OBVIOUS
<1> USE DEF RegisterIntegration, Advance
<1>1. PICK r \in {SystemRow, "error"} : lookup' = [row |-> r, migrated |-> migrated]
                                          /\ botUser' = (r = "found")
  OBVIOUS
<1>2. botUser' \in BOOLEAN
  BY <1>1
<1>3. StartTypes'
  BY <1>2 DEF StartInv, StartTypes, Numbers, Up
<1>4. KeyOK'
  BY DEF StartInv, KeyOK, Up, Keyed
<1>5. BotOK'
  BY <1>1 DEF StartInv, BotOK, SystemRow
<1> QED
  BY <1>3, <1>4, <1>5 DEF StartInv

\* The process listens, with the key of the file when a script started it.
LEMMA RegisterRoutesKeeps == StartInv /\ RegisterRoutes => StartInv'
<1> SUFFICES ASSUME StartInv, RegisterRoutes PROVE StartInv'
  OBVIOUS
<1> USE DEF RegisterRoutes, Advance
<1>1. StartTypes'
  BY DEF StartInv, StartTypes, Numbers, Up
<1>2. KeyOK'
  BY DEF StartInv, KeyOK, Up, Keyed
<1>3. BotOK'
  BY DEF StartInv, BotOK
<1> QED
  BY <1>1, <1>2, <1>3 DEF StartInv

\* The users table changes under the running process.
LEMMA AccountChangeKeeps ==
  ASSUME StartInv, HumanTakesName \/ Migrate
  PROVE  StartInv'
<1> USE DEF HumanTakesName, Migrate
<1>1. StartTypes'
  BY DEF StartInv, StartTypes, Numbers
<1>2. KeyOK'
  BY DEF StartInv, KeyOK
<1>3. BotOK'
  BY DEF StartInv, BotOK
<1> QED
  BY <1>1, <1>2, <1>3 DEF StartInv

LEMMA StartStep == StartInv /\ [StartNext]_startVars => StartInv'
<1> SUFFICES ASSUME StartInv, [StartNext]_startVars PROVE StartInv'
  OBVIOUS
<1>1. CASE UNCHANGED startVars
  BY <1>1 DEF startVars, StartInv, StartTypes, Numbers, KeyOK, BotOK
<1>2. CASE StartNext
  <2>1. CASE BuildFails \/ MainFails
    BY <2>1, ExitKeeps DEF BuildFails, MainFails
  <2> QED
    BY <1>2, <2>1, LaunchByScriptKeeps, GenerateFailsKeeps, LaunchByHandKeeps,
       ReadSecretKeeps, AdvanceKeeps, RegisterIntegrationKeeps, RegisterRoutesKeeps, AccountChangeKeeps
    DEF StartNext, MainStep
<1> QED
  BY <1>1, <1>2

LEMMA StartInvariant == StartSpec => []StartInv
  BY InitialStart, StartStep, PTL DEF StartSpec

\* Posts, mentions and edits of the dictionary leave the server's start alone.
LEMMA ServerStep == [ConversationNext]_conversationVars => [StartNext]_startVars
<1> SUFFICES ASSUME [ConversationNext]_conversationVars PROVE [StartNext]_startVars
  OBVIOUS
<1>1. CASE UNCHANGED conversationVars
  BY <1>1 DEF conversationVars, startVars
<1>2. CASE Server
  BY <1>2 DEF Server
<1>3. CASE Edit
  BY <1>3 DEF Edit
<1>4. ASSUME NEW m \in Mentions, MentionStep(m) PROVE UNCHANGED startVars
  BY <1>4 DEF MentionStep, PostPlain, Ignore, Ask, Answering, RequestEnds
<1> QED
  BY <1>1, <1>2, <1>3, <1>4 DEF ConversationNext

\* Whatever the conversations do, the server is started and stopped as in Startup.
THEOREM ConversationStarts == ConversationSpec => StartSpec
<1>1. ConversationInit => StartInit
  BY DEF ConversationInit
<1> QED
  BY <1>1, ServerStep, PTL DEF ConversationSpec, StartSpec

-----------------------------------------------------------------------------
\* Types; and no process answers for a bot that its registry does not have.
THEOREM StartTypeCorrect == ConversationSpec => []StartTypeOK
<1>1. StartInv => StartTypeOK
  BY DEF StartInv, StartTypes, Numbers, KeyOK, StartTypeOK
<1> QED
  BY <1>1, StartInvariant, ConversationStarts, PTL

\* However often restart.sh is run, and whatever is started by hand in between,
\* the scripts' processes sign with one key, so that a restart ends no session; unless
\* the key file was left empty when it was made.
THEOREM OneKeyForAllRestarts == ConversationSpec => []RestartsKeepKey
<1>1. StartInv => RestartsKeepKey
  BY DEF StartInv, KeyOK, RestartsKeepKey
<1> QED
  BY <1>1, StartInvariant, ConversationStarts, PTL

\* The bot speaks through a system user's row only, and a process that ignores its
\* mentions had a failed lookup or was started before the migration.
THEOREM BotAccountAlwaysRight == ConversationSpec => []BotAccountIsRight
<1>1. StartInv => BotAccountIsRight
  BY DEF StartInv, BotOK, BotAccountIsRight
<1> QED
  BY <1>1, StartInvariant, ConversationStarts, PTL

-----------------------------------------------------------------------------
\* The bot.  A mention that has not been asked yet has no calls and no answer.
Fresh(m) == got[m] = <<>> /\ found[m] = NothingFound /\ reply[m] = NoReply

\* Its query was accepted, and the server's lists are lists.
Asked(m) ==
  /\ query[m] \in Queries /\ ~Refused(query[m])
  /\ found[m].hits \in Seq(SearchHits) /\ found[m].files \in Seq(AudioFiles)

\* A command's calls were answered since it was asked, one after the other, and
\* only translate goes on after one that failed.
AskOK(m) ==
  /\ Asked(m)
  /\ since[m] \in 1..Len(corpora)
  /\ \A k \in 1..Len(got[m]) :
       IF got[m][k] = 0 THEN query[m].sub = "translate"
       ELSE got[m][k] \in since[m]..Len(corpora)
  /\ \A j, k \in 1..Len(got[m]) : j <= k /\ got[m][j] # 0 /\ got[m][k] # 0 =>
       got[m][j] <= got[m][k]
  /\ \A f \in found[m].sample : \E v \in since[m]..Len(corpora) : f \in corpora[v]
  /\ reply[m] = NoReply

SaidOK(m) == \A f \in reply[m].says : \E v \in During(m) : f \in corpora[v]

IsWindow(m, v) ==
  \A k \in 2..Len(Sections) :
     /\ k > 2 => v[k - 1] <= v[k]
     /\ \A l \in Langs : LET f == <<query[m].target, Sections[k], l>> IN
          /\ f \in reply[m].says <=> f \in corpora[v[k]]
          /\ f \in reply[m].denies <=> l \in SupportedLanguages /\ f \notin corpora[v[k]]

WindowOK(m) ==
  query[m] # None /\ query[m].sub = "status" /\ reply[m].kind = "report" =>
    \E v \in [2..Len(Sections) -> During(m)] : IsWindow(m, v)

\* Why an answer may say that a fact is missing.
Cause(m, f) ==
  \/ \E v \in During(m) : f \notin corpora[v]
  \/ query[m].sub = "translate" /\ (LookupFailed(m, f[1]) \/ f[1] \in Filtered)

DeniedOK(m) == \A f \in reply[m].denies : f \in Facts /\ Cause(m, f)

\* The file of an answer can be played, and is of the form asked for when one is.
Fits(list, form, file) ==
  LET files == {f \in {list[k] : k \in 1..Len(list)} : f.url} IN
  /\ file \in files \union {None}
  /\ file = None <=> files = {}
  /\ (\E f \in files : f.form = form) => file.form = form

LinkOK(m) ==
  query[m] # None /\ query[m].sub = "audio" /\ reply[m].kind \in {"nothing", "report"} =>
    Fits(found[m].files, query[m].form, reply[m].file)

AnswerOK(m) ==
  /\ reply[m].kind \in {"none yet", "refused", "failed", "nothing", "report"}
  /\ SaidOK(m)
  /\ DeniedOK(m)
  /\ WindowOK(m)
  /\ LinkOK(m)

MentionOK(m) ==
  /\ at[m] = "new" => Fresh(m)
  /\ at[m] = "asking" => AskOK(m)
  /\ since[m] \in Nat /\ until[m] \in 0..Len(corpora)
  /\ since[m] >= 1 \/ reply[m] = NoReply
  /\ AnswerOK(m)

BotTypes ==
  /\ corpora \in Seq(SUBSET Facts) /\ Len(corpora) >= 1
  /\ at \in [Mentions -> {"new", "plain", "ignored", "asking", "answered", "gone"}]
  /\ query \in [Mentions -> Queries \union {None}]
  /\ got \in [Mentions -> Seq(Nat)]
  /\ since \in [Mentions -> Nat] /\ until \in [Mentions -> Nat]
  /\ found = [m \in Mentions |-> found[m]] /\ reply = [m \in Mentions |-> reply[m]]

BotInv == BotTypes /\ \A m \in Mentions : MentionOK(m)

Silent(r) == r.says = {} /\ r.denies = {} /\ r.kind \in {"none yet", "refused", "failed"}

\* A command that gives up says nothing, and denies nothing.
LEMMA SilentReplies ==
  /\ Silent(NoReply)
  /\ \A kind \in {"refused", "failed"} : Silent([NoReply EXCEPT !.kind = kind])
  BY DEF NoReply, Silent

LEMMA SilentOK ==
  ASSUME NEW m \in Mentions, Silent(reply[m])
  PROVE  AnswerOK(m)
  BY DEF Silent, AnswerOK, SaidOK, DeniedOK, WindowOK, LinkOK

LEMMA InitialBot == BotInit => BotInv
<1> SUFFICES ASSUME BotInit PROVE BotInv
  OBVIOUS
<1>1. corpora \in Seq(SUBSET Facts) /\ Len(corpora) = 1
  <2>1. {} \in SUBSET Facts /\ Facts \in SUBSET Facts
    OBVIOUS
  <2>2. \A c \in SUBSET Facts : <<c>> \in Seq(SUBSET Facts) /\ Len(<<c>>) = 1
    OBVIOUS
  <2> QED
    BY <2>1, <2>2 DEF BotInit
<1>2. BotTypes
  BY <1>1 DEF BotInit, BotTypes
<1>3. ASSUME NEW m \in Mentions PROVE MentionOK(m)
  <2>1. Fresh(m) /\ at[m] = "new" /\ since[m] = 0 /\ until[m] = 0
    BY DEF BotInit, Fresh
  <2>2. AnswerOK(m)
    BY <2>1, SilentReplies, SilentOK DEF Fresh
  <2> QED
    BY <1>1, <2>1, <2>2 DEF MentionOK, Fresh
<1> QED
  BY <1>2, <1>3 DEF BotInv

\* The calls of a command depend on its query and on what was found.
LEMMA SameCalls ==
  ASSUME NEW m \in Mentions, query'[m] = query[m], found'[m] = found[m]
  PROVE  Calls(m)' = Calls(m)
<1>1. \A hit : Unsampled(m, hit)' = Unsampled(m, hit)
  BY DEF Unsampled
<1>2. Lookups(m)' = Lookups(m)
  BY <1>1 DEF Lookups
<1> QED
  BY <1>2 DEF Calls

\* A mention is not disturbed by a step that leaves it and the versions there are.
LEMMA OtherMention ==
  ASSUME BotInv, NEW m \in Mentions,
         at'[m] \in {at[m], "gone", "plain", "ignored"},
         query'[m] = query[m], got'[m] = got[m], found'[m] = found[m],
         since'[m] = since[m], until'[m] = until[m], reply'[m] = reply[m],
         Len(corpora') \in Nat, Len(corpora') >= Len(corpora),
         \A v \in 1..Len(corpora) : corpora'[v] = corpora[v]
  PROVE  MentionOK(m)'
<1>1. MentionOK(m) /\ Len(corpora) \in Nat
  BY DEF BotInv, BotTypes
<1>2. at'[m] = "new" => Fresh(m)'
  BY <1>1 DEF MentionOK, Fresh
<1>3. at'[m] = "asking" => AskOK(m)'
  <2> SUFFICES ASSUME at'[m] = "asking" PROVE AskOK(m)'
    OBVIOUS
  <2>1. AskOK(m)
    BY <1>1 DEF MentionOK
  <2>2. since[m] \in 1..Len(corpora')
    BY <1>1, <2>1 DEF AskOK
  <2>4. Asked(m)'
    BY <2>1 DEF AskOK, Asked
  <2>3. \A v \in since[m]..Len(corpora) :
          v \in since[m]..Len(corpora') /\ corpora'[v] = corpora[v]
    BY <1>1, <2>1 DEF AskOK
  <2> QED
    BY <2>1, <2>2, <2>3, <2>4 DEF AskOK
<1>4. until[m] \in 0..Len(corpora')
  BY <1>1 DEF MentionOK
<1>5. since[m] >= 1 => \A v \in During(m) : corpora'[v] = corpora[v]
  BY <1>1 DEF MentionOK, During
<1>6. CASE reply[m] = NoReply
  <2>1. AnswerOK(m)'
    BY <1>6, SilentReplies DEF Silent, AnswerOK, SaidOK, DeniedOK, WindowOK, LinkOK
  <2> QED
    BY <1>1, <1>2, <1>3, <1>4, <1>6, <2>1 DEF MentionOK
<1>7. CASE since[m] >= 1
  <2>1. AnswerOK(m) /\ \A v \in During(m) : corpora'[v] = corpora[v]
    BY <1>1, <1>5, <1>7 DEF MentionOK
  <2>2. SaidOK(m)'
    BY <2>1 DEF AnswerOK, SaidOK, During
  <2>3. WindowOK(m)'
    <3> SUFFICES ASSUME query[m] # None, query[m].sub = "status", reply[m].kind = "report"
                 PROVE  \E v \in [2..Len(Sections) -> During(m)] : IsWindow(m, v)'
      BY DEF WindowOK, During
    <3>1. PICK v \in [2..Len(Sections) -> During(m)] : IsWindow(m, v)
      BY <2>1 DEF AnswerOK, WindowOK
    <3>2. IsWindow(m, v)'
      BY <2>1, <3>1 DEF IsWindow
    <3> QED
      BY <3>2
  <2>4. DeniedOK(m)'
    <3> SUFFICES ASSUME NEW f \in reply[m].denies PROVE f \in Facts /\ Cause(m, f)'
      BY DEF DeniedOK
    <3>1. f \in Facts /\ Cause(m, f)
      BY <2>1 DEF AnswerOK, DeniedOK
    <3>2. (\E v \in During(m) : f \notin corpora[v]) => Cause(m, f)'
      BY <2>1 DEF Cause, During
    <3>3. LookupFailed(m, f[1]) => LookupFailed(m, f[1])'
      BY SameCalls DEF LookupFailed
    <3> QED
      BY <3>1, <3>2, <3>3 DEF Cause
  <2>5. LinkOK(m)'
    BY <2>1 DEF AnswerOK, LinkOK
  <2>6. AnswerOK(m)'
    BY <2>1, <2>2, <2>3, <2>4, <2>5 DEF AnswerOK
  <2> QED
    BY <1>1, <1>2, <1>3, <1>4, <1>7, <2>6 DEF MentionOK
<1> QED
  BY <1>1, <1>6, <1>7 DEF MentionOK

Others(m) ==
  \A t \in Mentions : t # m =>
    /\ at'[t] = at[t] /\ query'[t] = query[t] /\ got'[t] = got[t] /\ found'[t] = found[t]
    /\ since'[t] = since[t] /\ until'[t] = until[t] /\ reply'[t] = reply[t]

LEMMA OneMention ==
  ASSUME BotInv, NEW m \in Mentions, BotTypes', MentionOK(m)', UNCHANGED corpora, Others(m)
  PROVE  BotInv'
<1>1. Len(corpora) \in Nat
  BY DEF BotInv, BotTypes
<1>2. ASSUME NEW t \in Mentions, t # m PROVE MentionOK(t)'
  BY <1>1, <1>2, OtherMention DEF Others
<1> QED
  BY <1>2 DEF BotInv

\* What answering or giving up changes.
LEMMA FinishStep ==
  ASSUME BotInv, NEW m \in Mentions, NEW to \in {"answered", "gone"}, NEW r, Finish(m, to, r),
         UNCHANGED corpora
  PROVE  /\ at' \in [Mentions -> {"new", "plain", "ignored", "asking", "answered", "gone"}]
         /\ until' \in [Mentions -> Nat]
         /\ reply' = [t \in Mentions |-> reply'[t]]
         /\ at'[m] = to /\ until'[m] = Len(corpora) /\ reply'[m] = r
         /\ \A t \in Mentions : t # m =>
              at'[t] = at[t] /\ until'[t] = until[t] /\ reply'[t] = reply[t]
<1>1. Len(corpora) \in Nat
  BY DEF BotInv, BotTypes
<1> QED
  BY <1>1 DEF Finish, BotInv, BotTypes

\* A mention that is answered, or given up, with nothing said.
LEMMA SilentFinish ==
  ASSUME BotInv, NEW m \in Mentions, NEW to \in {"answered", "gone"}, NEW r, Finish(m, to, r),
         Silent(r), UNCHANGED <<corpora, got, found>>,
         query' \in [Mentions -> Queries \union {None}], since' \in [Mentions -> Nat],
         since'[m] >= 1,
         \A t \in Mentions : t # m => query'[t] = query[t] /\ since'[t] = since[t]
  PROVE  BotInv'
<1>1. /\ at' \in [Mentions -> {"new", "plain", "ignored", "asking", "answered", "gone"}]
      /\ until' \in [Mentions -> Nat]
      /\ reply' = [t \in Mentions |-> reply'[t]]
      /\ at'[m] = to /\ until'[m] = Len(corpora) /\ reply'[m] = r
      /\ \A t \in Mentions : t # m =>
           at'[t] = at[t] /\ until'[t] = until[t] /\ reply'[t] = reply[t]
  BY FinishStep
<1>2. BotTypes'
  BY <1>1 DEF BotInv, BotTypes
<1>3. Others(m)
  BY <1>1 DEF Others
<1>4. AnswerOK(m)'
  BY <1>1 DEF Silent, AnswerOK, SaidOK, DeniedOK, WindowOK, LinkOK
<1>5. MentionOK(m)'
  <2>1. Len(corpora) \in Nat /\ until'[m] \in 0..Len(corpora')
    BY <1>1 DEF BotInv, BotTypes
  <2> QED
    BY <1>1, <1>4, <2>1 DEF MentionOK
<1> QED
  BY <1>2, <1>3, <1>5, OneMention

LEMMA ReceiveStep ==
  ASSUME BotInv, NEW m \in Mentions, NEW q \in Queries, Receive(m, q)
  PROVE  /\ query' \in [Mentions -> Queries \union {None}] /\ since' \in [Mentions -> Nat]
         /\ at[m] = "new" /\ query'[m] = q /\ since'[m] = Len(corpora)
         /\ since'[m] \in 1..Len(corpora)
         /\ \A t \in Mentions : t # m => query'[t] = query[t] /\ since'[t] = since[t]
<1>1. Len(corpora) \in Nat /\ Len(corpora) >= 1
  BY DEF BotInv, BotTypes
<1> QED
  BY <1>1 DEF Receive, BotInv, BotTypes

LEMMA RefuseKeeps ==
  ASSUME BotInv, NEW m \in Mentions, NEW q \in Queries, Refuse(m, q)
  PROVE  BotInv'
<1> DEFINE r == [NoReply EXCEPT !.kind = "refused"]
<1>1. Silent(r)
  BY SilentReplies
<1> HIDE DEF r
<1>2. /\ query' \in [Mentions -> Queries \union {None}] /\ since' \in [Mentions -> Nat]
      /\ since'[m] >= 1
      /\ \A t \in Mentions : t # m => query'[t] = query[t] /\ since'[t] = since[t]
  BY ReceiveStep DEF Refuse
<1>3. Finish(m, "answered", r) /\ UNCHANGED <<corpora, got, found>>
  BY DEF Refuse, r
<1> QED
  BY <1>1, <1>2, <1>3, SilentFinish

LEMMA BeginKeeps ==
  ASSUME BotInv, NEW m \in Mentions, NEW q \in Queries, BeginCommand(m, q)
  PROVE  BotInv'
<1>1. /\ query' \in [Mentions -> Queries \union {None}] /\ since' \in [Mentions -> Nat]
      /\ at[m] = "new" /\ since'[m] \in 1..Len(corpora)
      /\ \A t \in Mentions : t # m => query'[t] = query[t] /\ since'[t] = since[t]
  BY ReceiveStep DEF BeginCommand
<1>2. at' = [at EXCEPT ![m] = "asking"] /\ UNCHANGED <<corpora, got, found, until, reply>>
  BY DEF BeginCommand
<1>3. BotTypes' /\ Others(m) /\ at'[m] = "asking"
  BY <1>1, <1>2 DEF BotInv, BotTypes, Others
<1>4. Fresh(m) /\ until[m] \in 0..Len(corpora)
  BY <1>1 DEF BotInv, MentionOK
<1>5. AskOK(m)'
  <2>1. got'[m] = <<>> /\ Len(<<>>) = 0
    BY <1>2, <1>4 DEF Fresh
  <2>2. found'[m].sample = {}
    BY <1>2, <1>4 DEF Fresh, NothingFound
  <2>3. reply'[m] = NoReply
    BY <1>2, <1>4 DEF Fresh
  <2>4. Asked(m)'
    <3>1. query'[m] \in Queries /\ ~Refused(query'[m])
      BY ReceiveStep DEF BeginCommand
    <3>2. found'[m].hits = <<>> /\ found'[m].files = <<>>
      BY <1>2, <1>4 DEF Fresh, NothingFound
    <3> QED
      BY <3>1, <3>2 DEF Asked
  <2> QED
    BY <1>1, <1>2, <2>1, <2>2, <2>3, <2>4 DEF AskOK
<1>6. AnswerOK(m)'
  BY <1>2, <1>4, SilentReplies DEF Fresh, Silent, AnswerOK, SaidOK, DeniedOK, WindowOK, LinkOK
<1>7. MentionOK(m)'
  BY <1>1, <1>2, <1>3, <1>4, <1>5, <1>6 DEF MentionOK
<1> QED
  BY <1>2, <1>3, <1>7, OneMention

\* A call's result, the version that it was answered from or 0, joins the others.
LEMMA AppendResult ==
  ASSUME BotInv, NEW m \in Mentions, at[m] = "asking", NEW v \in {0, Len(corpora)},
         v = 0 => query[m].sub = "translate",
         got' = [got EXCEPT ![m] = Append(@, v)],
         found' = [t \in Mentions |-> found'[t]],
         \A f \in found'[m].sample : f \in found[m].sample \/ f \in corpora[Len(corpora)],
         found'[m].hits \in Seq(SearchHits), found'[m].files \in Seq(AudioFiles),
         \A t \in Mentions : t # m => found'[t] = found[t],
         UNCHANGED <<corpora, at, query, since, until, reply>>
  PROVE  BotInv'
<1> DEFINE g == got[m]
           n == Len(corpora)
<1>1. n \in Nat /\ n >= 1 /\ v \in Nat /\ g \in Seq(Nat) /\ Len(g) \in Nat
  BY DEF BotInv, BotTypes
<1>2. /\ Append(g, v) \in Seq(Nat) /\ Len(Append(g, v)) = Len(g) + 1
      /\ Append(g, v)[Len(g) + 1] = v
      /\ \A k \in 1..Len(g) : Append(g, v)[k] = g[k]
  BY <1>1
<1>3. /\ got'[m] = Append(g, v) /\ got' \in [Mentions -> Seq(Nat)]
      /\ \A t \in Mentions : t # m => got'[t] = got[t]
  BY <1>2 DEF BotInv, BotTypes
<1>4. MentionOK(m) /\ AskOK(m)
  BY DEF BotInv, MentionOK
<1>5. BotTypes' /\ Others(m)
  BY <1>3 DEF BotInv, BotTypes, Others
<1> HIDE DEF g, n
<1>6. since[m] \in 1..n
  BY <1>4 DEF AskOK, n
<1>7. \A k \in 1..Len(got'[m]) :
        IF got'[m][k] = 0 THEN query[m].sub = "translate" ELSE got'[m][k] \in since[m]..n
  <2> TAKE k \in 1..Len(got'[m])
  <2>1. CASE k \in 1..Len(g)
    BY <2>1, <1>2, <1>3, <1>4 DEF AskOK, g, n
  <2>2. CASE k = Len(g) + 1
    BY <2>2, <1>1, <1>2, <1>3, <1>6 DEF n
  <2> QED
    BY <2>1, <2>2, <1>1, <1>2, <1>3
<1>8. \A j, k \in 1..Len(got'[m]) : j <= k /\ got'[m][j] # 0 /\ got'[m][k] # 0 =>
        got'[m][j] <= got'[m][k]
  <2> SUFFICES ASSUME NEW j \in 1..Len(got'[m]), NEW k \in 1..Len(got'[m]), j <= k,
                      got'[m][j] # 0, got'[m][k] # 0
               PROVE  got'[m][j] <= got'[m][k]
    OBVIOUS
  <2>1. CASE k \in 1..Len(g)
    <3>1. j \in 1..Len(g)
      BY <2>1, <1>1
    <3> QED
      BY <2>1, <3>1, <1>2, <1>3, <1>4 DEF AskOK, g
  <2>2. CASE k = Len(g) + 1
    <3>1. got'[m][k] = n
      BY <2>2, <1>2, <1>3 DEF n
    <3>2. got'[m][j] \in since[m]..n
      BY <1>7
    <3> QED
      BY <3>1, <3>2, <1>1, <1>6
  <2> QED
    BY <2>1, <2>2, <1>1, <1>2, <1>3
<1>9. \A f \in found'[m].sample : \E w \in since[m]..n : f \in corpora[w]
  <2>1. n \in since[m]..n
    BY <1>1, <1>6
  <2>2. \A f \in found[m].sample : \E w \in since[m]..n : f \in corpora[w]
    BY <1>4 DEF AskOK, n
  <2> QED
    BY <2>1, <2>2 DEF n
<1>10. AskOK(m)'
  <2>1. Asked(m)'
    BY <1>4 DEF AskOK, Asked
  <2> QED
    BY <1>4, <1>6, <1>7, <1>8, <1>9, <2>1 DEF AskOK, n
<1>11. MentionOK(m)'
  <2>1. AnswerOK(m)'
    BY <1>4, SilentReplies
    DEF AskOK, Silent, AnswerOK, SaidOK, DeniedOK, WindowOK, LinkOK
  <2> QED
    BY <1>4, <1>10, <2>1 DEF MentionOK
<1> QED
  BY <1>5, <1>11, OneMention

\* A sampled translation comes from the version that the search saw.
LEMMA SampleIsSo ==
  ASSUME NEW m \in Mentions, Asked(m), NEW b \in Responses(m)
  PROVE  /\ \A f \in b.sample : f \in found[m].sample \/ f \in corpora[Len(corpora)]
         /\ b.hits \in Seq(SearchHits) /\ b.files \in Seq(AudioFiles)
<1>1. ASSUME NEW h \in HitLists, NEW s \in SamplesOf(h)
      PROVE  /\ [NothingFound EXCEPT !.hits = h, !.sample = s].sample = s
             /\ \A f \in s : f \in corpora[Len(corpora)]
             /\ [NothingFound EXCEPT !.hits = h, !.sample = s].hits = h
             /\ [NothingFound EXCEPT !.hits = h, !.sample = s].files = <<>>
  BY <1>1 DEF SamplesOf, NothingFound
<1>2. \A fs \in FileLists : /\ [NothingFound EXCEPT !.files = fs].sample = {}
                            /\ [NothingFound EXCEPT !.files = fs].hits = <<>>
                            /\ [NothingFound EXCEPT !.files = fs].files = fs
  BY DEF NothingFound
<1> DEFINE Searched ==
             UNION {{[NothingFound EXCEPT !.hits = h, !.sample = s] : s \in SamplesOf(h)} :
                      h \in HitLists}
           Listed == {[NothingFound EXCEPT !.files = fs] : fs \in FileLists}
<1>3. Responses(m) \in {Searched, Listed, {found[m]}}
  BY DEF Responses
<1>4. CASE b \in Searched
  <2>1. PICK h \in HitLists :
               b \in {[NothingFound EXCEPT !.hits = h, !.sample = s] : s \in SamplesOf(h)}
    BY <1>4
  <2>2. PICK s \in SamplesOf(h) : b = [NothingFound EXCEPT !.hits = h, !.sample = s]
    BY <2>1
  <2>3. b.hits = h /\ b.files = <<>> /\ \A f \in b.sample : f \in corpora[Len(corpora)]
    BY <1>1, <2>2
  <2> QED
    BY <2>3, ListsAssumption
<1>5. CASE b \in Listed
  <2>1. PICK fs \in FileLists : b = [NothingFound EXCEPT !.files = fs]
    BY <1>5
  <2>2. b.sample = {} /\ b.hits = <<>> /\ b.files = fs
    BY <1>2, <2>1
  <2> QED
    BY <2>2, ListsAssumption
<1> QED
  BY <1>3, <1>4, <1>5 DEF Asked

LEMMA CallReturnsKeeps ==
  ASSUME BotInv, NEW m \in Mentions, CallReturns(m)
  PROVE  BotInv'
<1>1. PICK b \in Responses(m) : found' = [found EXCEPT ![m] = b]
  BY DEF CallReturns
<1>2. /\ found' = [t \in Mentions |-> found'[t]] /\ found'[m] = b
      /\ \A t \in Mentions : t # m => found'[t] = found[t]
  BY <1>1 DEF BotInv, BotTypes
<1>3. /\ at[m] = "asking" /\ got' = [got EXCEPT ![m] = Append(@, Len(corpora))]
      /\ UNCHANGED <<corpora, at, query, since, until, reply>>
  BY DEF CallReturns, Waiting
<1>4. Len(corpora) # 0
  BY DEF BotInv, BotTypes
<1>5. Asked(m)
  BY <1>3 DEF BotInv, MentionOK, AskOK
<1> QED
  BY <1>2, <1>3, <1>4, <1>5, SampleIsSo, AppendResult

LEMMA CallFailsKeeps ==
  ASSUME BotInv, NEW m \in Mentions, CallFails(m)
  PROVE  BotInv'
<1> DEFINE r == [NoReply EXCEPT !.kind = "failed"]
<1>1. at[m] = "asking" /\ UNCHANGED <<corpora, query, found, since>>
  BY DEF CallFails, Waiting
<1>2. CASE Skipped(m) /\ got' = [got EXCEPT ![m] = Append(@, 0)] /\ UNCHANGED <<at, until, reply>>
  <2>1. found' = [t \in Mentions |-> found'[t]]
    BY <1>1 DEF BotInv, BotTypes
  <2>2. found'[m].hits \in Seq(SearchHits) /\ found'[m].files \in Seq(AudioFiles)
    BY <1>1 DEF BotInv, MentionOK, AskOK, Asked
  <2> QED
    BY <1>1, <1>2, <2>1, <2>2, AppendResult DEF Skipped
<1>3. CASE Finish(m, "answered", r) /\ UNCHANGED got
  <2>1. Silent(r)
    BY SilentReplies
  <2>2. since'[m] >= 1
    BY <1>1 DEF BotInv, MentionOK, AskOK, BotTypes
  <2>3. query' \in [Mentions -> Queries \union {None}] /\ since' \in [Mentions -> Nat]
    BY <1>1 DEF BotInv, BotTypes
  <2> QED
    BY <1>1, <1>3, <2>1, <2>2, <2>3, SilentFinish
<1> QED
  BY <1>2, <1>3 DEF CallFails

LEMMA AbandonKeeps ==
  ASSUME BotInv, NEW m \in Mentions, Abandon(m)
  PROVE  BotInv'
<1>1. at[m] = "asking" /\ UNCHANGED <<corpora, query, got, found, since>>
  BY DEF Abandon
<1>2. since'[m] >= 1
  BY <1>1 DEF BotInv, MentionOK, AskOK, BotTypes
<1>3. query' \in [Mentions -> Queries \union {None}] /\ since' \in [Mentions -> Nat]
  BY <1>1 DEF BotInv, BotTypes
<1> QED
  BY <1>1, <1>2, <1>3, SilentReplies, SilentFinish DEF Abandon

-----------------------------------------------------------------------------
\* What a command shows of a response was in the version that was asked.
LEMMA ShownIsSo ==
  ASSUME NEW m \in Mentions, NEW k, NEW l \in Shown(m, k)
  PROVE  /\ l \in Langs /\ got[m][k] # 0
         /\ <<Calls(m)[k].of, Calls(m)[k].what, l>> \in corpora[got[m][k]]
<1>1. Data(m, k) \subseteq Response(m, k)
  BY DEF Data
<1>2. Shown(m, k) \subseteq Response(m, k)
  BY <1>1 DEF Shown
<1> QED
  BY <1>2 DEF Response

LEMMA SaidIsSo ==
  ASSUME BotInv, NEW m \in Mentions, at[m] = "asking", ~Waiting(m), NEW f \in Said(m)
  PROVE  \E v \in since[m]..Len(corpora) : f \in corpora[v]
<1> DEFINE shown == [k \in DOMAIN Calls(m) |-> Shown(m, k)]
<1>1. AskOK(m) /\ got[m] \in Seq(Nat)
  BY DEF BotInv, BotTypes, MentionOK
<1>2. DOMAIN Calls(m) \subseteq 1..Len(got[m])
  BY <1>1 DEF Waiting
<1>3. CASE f \in Sampled(m)
  BY <1>1, <1>3 DEF Sampled, AskOK
<1>4. CASE f \in FactsOf(m, shown)
  <2>1. PICK k \in DOMAIN shown :
               f \in {<<Calls(m)[k].of, Calls(m)[k].what, l>> : l \in shown[k]}
    BY <1>4 DEF FactsOf
  <2>2. PICK l \in Shown(m, k) : f = <<Calls(m)[k].of, Calls(m)[k].what, l>>
    BY <2>1
  <2>3. got[m][k] # 0 /\ f \in corpora[got[m][k]]
    BY <2>2, ShownIsSo
  <2>4. got[m][k] \in since[m]..Len(corpora)
    BY <2>1, <2>3, <1>1, <1>2 DEF AskOK
  <2> QED
    BY <2>3, <2>4
<1> QED
  BY <1>3, <1>4 DEF Said

\* The calls of status: the sections of its lemma, in all languages.
LEMMA SectionsOfStatus ==
  /\ Len(Sections) = 7
  /\ \A j, k \in 1..7 : Sections[j] = Sections[k] => j = k
  /\ Sections[1] = "lemma"
  /\ \A k \in 2..7 : Sections[k] \notin {"lemma", "search"}
  BY DEF Sections

LEMMA StatusCalls ==
  ASSUME NEW m \in Mentions, query[m].sub = "status"
  PROVE  /\ DOMAIN Calls(m) = 1..7
         /\ \A k \in 1..7 : /\ Calls(m)[k].of = query[m].target
                            /\ Calls(m)[k].what = Sections[k]
                            /\ Calls(m)[k].lang = All
<1>1. Calls(m) = [k \in 1..Len(Sections) |-> Call(query[m].target, Sections[k], All)]
  BY DEF Calls, InOneLanguage, Progress
<1> QED
  BY <1>1, SectionsOfStatus DEF Call

\* What status shows of a section, and what it misses there.
LEMMA StatusSection ==
  ASSUME NEW m \in Mentions, query[m].sub = "status", NEW k \in 2..7, got[m][k] # 0
  PROVE  /\ \A l \in Langs :
              l \in Shown(m, k) <=> <<query[m].target, Sections[k], l>> \in corpora[got[m][k]]
         /\ Expected(m, k) = SupportedLanguages
<1>1. /\ Calls(m)[k].of = query[m].target /\ Calls(m)[k].what = Sections[k]
      /\ Calls(m)[k].lang = All
  BY StatusCalls
<1>2. Shown(m, k) = Response(m, k)
  <2>1. Data(m, k) \in {{}, Response(m, k)}
    BY DEF Data
  <2> QED
    BY <2>1 DEF Shown
<1>3. \A l \in Langs :
        l \in Response(m, k) <=> <<query[m].target, Sections[k], l>> \in corpora[got[m][k]]
  BY <1>1 DEF Response
<1>4. Expected(m, k) = SupportedLanguages
  BY <1>1, SectionsOfStatus DEF Expected
<1> QED
  BY <1>2, <1>3, <1>4

\* A fact of the k-th section belongs to no other call of status.
LEMMA FactOfSection ==
  ASSUME NEW m \in Mentions, query[m].sub = "status", NEW k \in 2..7, NEW l, NEW langs,
         DOMAIN langs = 1..7
  PROVE  <<query[m].target, Sections[k], l>> \in FactsOf(m, langs) <=> l \in langs[k]
<1> DEFINE f == <<query[m].target, Sections[k], l>>
<1>1. ASSUME f \in FactsOf(m, langs) PROVE l \in langs[k]
  <2>1. PICK j \in 1..7 : f \in {<<Calls(m)[j].of, Calls(m)[j].what, x>> : x \in langs[j]}
    BY <1>1 DEF FactsOf
  <2>2. PICK x \in langs[j] : f = <<Calls(m)[j].of, Calls(m)[j].what, x>>
    BY <2>1
  <2>3. x = l /\ Sections[j] = Sections[k]
    BY <2>2, StatusCalls
  <2> QED
    BY <2>2, <2>3, SectionsOfStatus
<1>2. ASSUME l \in langs[k] PROVE f \in FactsOf(m, langs)
  <2>1. f = <<Calls(m)[k].of, Calls(m)[k].what, l>> /\ k \in DOMAIN langs
    BY StatusCalls
  <2>2. f \in {<<Calls(m)[k].of, Calls(m)[k].what, x>> : x \in langs[k]}
    BY <1>2, <2>1
  <2> QED
    BY <2>1, <2>2 DEF FactsOf
<1> QED
  BY <1>1, <1>2

\* What status says and denies of a section is what its call saw.
LEMMA StatusSaysAndDenies ==
  ASSUME NEW m \in Mentions, query[m].sub = "status", NEW k \in 2..7, got[m][k] # 0,
         NEW l \in Langs
  PROVE  LET f == <<query[m].target, Sections[k], l>> IN
         /\ f \in Said(m) <=> f \in corpora[got[m][k]]
         /\ f \in Missing(m) <=> l \in SupportedLanguages /\ f \notin corpora[got[m][k]]
<1> DEFINE f == <<query[m].target, Sections[k], l>>
           shown == [j \in DOMAIN Calls(m) |-> Shown(m, j)]
           missed == [j \in DOMAIN Calls(m) |-> Expected(m, j) \ Shown(m, j)]
<1>1. OfExactHits(m) = {} /\ Sampled(m) = {}
  BY DEF OfExactHits, Sampled
<1>2. DOMAIN Calls(m) = 1..7
  BY StatusCalls
<1>3. DOMAIN shown = 1..7 /\ shown[k] = Shown(m, k)
  BY <1>2
<1>4. DOMAIN missed = 1..7 /\ missed[k] = Expected(m, k) \ Shown(m, k)
  BY <1>2
<1> HIDE DEF shown, missed
<1>5. f \in FactsOf(m, shown) <=> l \in Shown(m, k)
  BY <1>3, FactOfSection
<1>6. f \in FactsOf(m, missed) <=> l \in Expected(m, k) \ Shown(m, k)
  BY <1>4, FactOfSection
<1>7. f \in Said(m) <=> l \in Shown(m, k)
  BY <1>1, <1>5 DEF Said, shown
<1>8. f \in Missing(m) <=> l \in Expected(m, k) \ Shown(m, k)
  BY <1>1, <1>6 DEF Missing, missed
<1> QED
  BY <1>7, <1>8, StatusSection

\* The versions that status saw are the window of its report.
LEMMA StatusComposed ==
  ASSUME BotInv, NEW m \in Mentions, at[m] = "asking", ~Waiting(m), query[m].sub = "status",
         query'[m] = query[m], since'[m] = since[m], until'[m] = Len(corpora),
         UNCHANGED corpora, reply'[m].says = Said(m), reply'[m].denies = Missing(m)
  PROVE  WindowOK(m)'
<1>0. PICK v : v = [k \in 2..7 |-> got[m][k]]
  OBVIOUS
<1>1. AskOK(m) /\ got[m] \in Seq(Nat) /\ Len(got[m]) \in Nat
  BY DEF BotInv, BotTypes, MentionOK
<1>2. 1..7 \subseteq 1..Len(got[m])
  <2>1. DOMAIN got[m] = 1..Len(got[m])
    BY <1>1
  <2>2. DOMAIN Calls(m) \subseteq DOMAIN got[m]
    BY DEF Waiting
  <2>3. DOMAIN Calls(m) = 1..7
    BY StatusCalls
  <2> QED
    BY <2>1, <2>2, <2>3
<1>3. \A k \in 2..7 : k \in 1..Len(got[m])
  BY <1>2
<1>4. \A k \in 2..7 : got[m][k] # 0 /\ got[m][k] \in since[m]..Len(corpora)
  BY <1>1, <1>3 DEF AskOK
<1>5. \A k \in 2..7 : k > 2 => got[m][k - 1] <= got[m][k]
  <2> SUFFICES ASSUME NEW k \in 2..7, k > 2 PROVE got[m][k - 1] <= got[m][k]
    OBVIOUS
  <2>1. k - 1 \in 2..7 /\ k - 1 <= k
    OBVIOUS
  <2> QED
    BY <2>1, <1>1, <1>3, <1>4 DEF AskOK
<1>6. During(m)' = since[m]..Len(corpora)
  BY DEF During
<1>7. v \in [2..7 -> During(m)']
  BY <1>0, <1>4, <1>6
<1>8. IsWindow(m, v)'
  <2>1. \A k \in 2..7 : v[k] = got[m][k]
    BY <1>0
  <2>2. \A k \in 2..7 : k > 2 => v[k - 1] <= v[k]
    <3> SUFFICES ASSUME NEW k \in 2..7, k > 2 PROVE v[k - 1] <= v[k]
      OBVIOUS
    <3>1. k - 1 \in 2..7
      OBVIOUS
    <3> QED
      BY <3>1, <1>5, <2>1
  <2>3. \A k \in 2..7 : \A l \in Langs : LET f == <<query[m].target, Sections[k], l>> IN
          /\ f \in Said(m) <=> f \in corpora[v[k]]
          /\ f \in Missing(m) <=> l \in SupportedLanguages /\ f \notin corpora[v[k]]
    BY <1>4, <2>1, StatusSaysAndDenies
  <2>4. 2..Len(Sections) = 2..7
    BY SectionsOfStatus
  <2>5. ASSUME NEW k \in 2..7, NEW l \in Langs
        PROVE  LET f == <<query'[m].target, Sections[k], l>> IN
               /\ f \in reply'[m].says <=> f \in corpora'[v[k]]
               /\ f \in reply'[m].denies <=> l \in SupportedLanguages /\ f \notin corpora'[v[k]]
    BY <2>3
  <2> QED
    BY <2>2, <2>4, <2>5 DEF IsWindow
<1>9. v \in [2..Len(Sections) -> During(m)']
  BY <1>7, SectionsOfStatus
<1>10. \E w \in [2..Len(Sections) -> During(m)'] : IsWindow(m, w)'
  BY <1>8, <1>9
<1> QED
  BY <1>10 DEF WindowOK

-----------------------------------------------------------------------------
\* The calls of a command, and what it makes of them.
LookupsOf(m) == [of : Lemmas, what : {"translations"}, lang : {query[m].langs[1]}]

\* translate looks up each exact hit that is not sampled.
LEMMA LookupCalls ==
  ASSUME NEW m \in Mentions, found[m].hits \in Seq(SearchHits)
  PROVE  /\ Lookups(m) \in Seq(LookupsOf(m)) /\ Len(Lookups(m)) \in Nat
         /\ \A j \in 1..Len(Lookups(m)) : Lookups(m)[j] \in LookupsOf(m)
         /\ \A k \in 1..Len(found[m].hits) : Unsampled(m, found[m].hits[k]) =>
              \E j \in 1..Len(Lookups(m)) : Lookups(m)[j].of = found[m].hits[k].of
<1> DEFINE hits == found[m].hits
           P == {k \in 1..Len(hits) : Unsampled(m, hits[k])}
           open == Picked(hits, P)
<1>1. DOMAIN hits = 1..Len(hits)
  OBVIOUS
<1>2. Lookups(m) = [k \in DOMAIN open |-> Call(open[k].of, "translations", query[m].langs[1])]
  BY <1>1 DEF Lookups
<1>3. P \in SUBSET (1..Len(hits))
  OBVIOUS
<1>4. \A k \in 1..Len(hits) : Unsampled(m, hits[k]) <=> k \in P
  OBVIOUS
<1> HIDE DEF P
<1>5. /\ open \in Seq(SearchHits)
      /\ \A k \in P : \E i \in 1..Len(open) : open[i] = hits[k]
  BY <1>3, PickedElements
<1> HIDE DEF open
<1>6. /\ DOMAIN open = 1..Len(open) /\ Len(open) \in Nat
      /\ \A k \in 1..Len(open) : open[k].of \in Lemmas
  <2>1. /\ DOMAIN open = 1..Len(open) /\ Len(open) \in Nat
        /\ \A k \in 1..Len(open) : open[k] \in SearchHits
    BY <1>5
  <2> QED
    BY <2>1 DEF SearchHits
<1>7. \A k \in 1..Len(open) :
        /\ Lookups(m)[k].of = open[k].of
        /\ Lookups(m)[k] \in LookupsOf(m)
  BY <1>2, <1>6 DEF Call, LookupsOf
<1>8. /\ Lookups(m) \in Seq(LookupsOf(m))
      /\ Len(Lookups(m)) = Len(open)
  BY <1>2, <1>6, <1>7
<1>9. \A k \in P : \E j \in 1..Len(Lookups(m)) : Lookups(m)[j].of = hits[k].of
  BY <1>5, <1>7, <1>8
<1> QED
  BY <1>4, <1>6, <1>7, <1>8, <1>9

\* The calls of translate: a search, and the lookups.
LEMMA TranslateCalls ==
  ASSUME NEW m \in Mentions, query[m].sub = "translate", found[m].hits \in Seq(SearchHits)
  PROVE  /\ DOMAIN Calls(m) = 1..Len(Lookups(m)) + 1
         /\ Calls(m)[1] = Call(Whole, "search", All)
         /\ \A j \in 1..Len(Lookups(m)) : Calls(m)[j + 1] = Lookups(m)[j]
<1> DEFINE T == LookupsOf(m)
           c == Call(Whole, "search", All)
<1>1. Calls(m) = <<c>> \o Lookups(m)
  BY DEF Calls, InOneLanguage, Progress
<1>2. Lookups(m) \in Seq(T \union {c}) /\ Len(Lookups(m)) \in Nat
  <2>1. Lookups(m) \in Seq(T)
    BY LookupCalls
  <2> HIDE DEF T, c
  <2> QED
    BY <2>1
<1> HIDE DEF T, c
<1>3. <<c>> \in Seq(T \union {c}) /\ Len(<<c>>) = 1 /\ <<c>>[1] = c
  OBVIOUS
<1>4. PICK s, t : s = <<c>> /\ t = Lookups(m)
  OBVIOUS
<1>5. /\ DOMAIN (s \o t) = 1..Len(t) + 1 /\ (s \o t)[1] = s[1]
      /\ \A j \in 1..Len(t) : (s \o t)[j + 1] = t[j]
  BY <1>2, <1>3, <1>4
<1> QED
  BY <1>1, <1>3, <1>4, <1>5 DEF c

\* What the k-th call of a command is about.
CallOK(m, k) ==
  LET c == Calls(m)[k]
      sub == query[m].sub IN
  /\ \/ c.what \in {"search", "lemma"}
     \/ c.what \in Tables /\ c.of \in Lemmas \union {Whole}
  /\ c.lang \in Langs \union {All}
  /\ c.what # "search" /\ c.lang = All => sub \in {"status", "stats"}
  /\ sub = "status" => c.lang = All
  /\ sub = "sentences" => c.what = "sentences" /\ c.lang = query[m].langs[1]
  /\ c.what = "translations" => sub \in {"status", "translate"}

\* The languages that a command reads were given.
LEMMA LanguagesGiven ==
  ASSUME NEW q \in Queries, ~Refused(q)
  PROVE  /\ q.langs \in Seq(Langs)
         /\ \A k \in 1..LangsTaken(q.sub) : q.langs[k] \in Langs
         /\ q.langs # <<>> => q.langs[1] \in Langs
<1>1. q.langs \in Seq(Langs)
  BY QueriesAssumption
<1>2. LangsTaken(q.sub) \in 0..2
  BY DEF LangsTaken
<1>3. LangsTaken(q.sub) <= Len(q.langs)
  <2>1. ~(Len(q.langs) < LangsTaken(q.sub))
    BY DEF Refused
  <2>2. Len(q.langs) \in Nat
    BY <1>1
  <2> QED
    BY <1>2, <2>1, <2>2
<1> QED
  BY <1>1, <1>2, <1>3

LEMMA CallsAreOK ==
  ASSUME NEW m \in Mentions, query[m] \in Queries, ~Refused(query[m]),
         found[m].hits \in Seq(SearchHits), NEW k \in DOMAIN Calls(m)
  PROVE  CallOK(m, k)
<1>0. PICK q : q = query[m]
  OBVIOUS
<1>1. /\ q.langs \in Seq(Langs)
      /\ \A j \in 1..LangsTaken(q.sub) : q.langs[j] \in Langs
      /\ q.langs # <<>> => q.langs[1] \in Langs
  BY <1>0, LanguagesGiven
<1>2. q.sub \in {"forms", "grammar", "sentences", "audio", "status"} => q.target \in Lemmas
  BY <1>0, QueriesAssumption DEF Refused, TakesTarget, InOneLanguage
<1>3. CASE q.sub \in {"search", "info"}
  <2>1. Calls(m) = <<Call(Whole, "search", All)>>
    BY <1>0, <1>3 DEF Calls, Progress
  <2>2. k = 1 /\ Calls(m)[k] = Call(Whole, "search", All)
    BY <2>1
  <2> QED
    BY <1>0, <1>3, <2>2 DEF CallOK, Call
<1>4. CASE q.sub = "translate"
  <2>0. q.langs[1] \in Langs
    BY <1>1, <1>4 DEF LangsTaken, InOneLanguage
  <2>1. /\ DOMAIN Calls(m) = 1..Len(Lookups(m)) + 1
        /\ Calls(m)[1] = Call(Whole, "search", All)
        /\ \A j \in 1..Len(Lookups(m)) : Calls(m)[j + 1] = Lookups(m)[j]
        /\ Len(Lookups(m)) \in Nat
        /\ \A j \in 1..Len(Lookups(m)) : Lookups(m)[j] \in LookupsOf(m)
    BY <1>0, <1>4, TranslateCalls, LookupCalls
  <2>2. CASE k = 1
    BY <1>0, <1>4, <2>1, <2>2 DEF CallOK, Call
  <2>3. CASE k # 1
    <3>1. PICK j \in 1..Len(Lookups(m)) : k = j + 1
      <4>1. Len(Lookups(m)) \in Nat
        BY <2>1
      <4>2. k - 1 \in 1..Len(Lookups(m)) /\ k = (k - 1) + 1
        BY <2>1, <2>3, <4>1
      <4> QED
        BY <4>2
    <3>2. Calls(m)[k] = Lookups(m)[j]
      BY <2>1, <3>1
    <3>3. Lookups(m)[j] \in LookupsOf(m)
      BY <2>1, <3>1
    <3> QED
      BY <1>0, <1>4, <2>0, <3>2, <3>3, LanguageAssumption
      DEF CallOK, Tables, LookupsOf
  <2> QED
    BY <2>2, <2>3
<1>5. CASE q.sub \in {"forms", "grammar", "sentences", "audio"}
  <2>0. q.langs[1] \in Langs
    <3>1. LangsTaken(q.sub) = 1
      BY <1>5 DEF LangsTaken, InOneLanguage
    <3> QED
      BY <1>1, <3>1
  <2>1. Calls(m) = <<Call(q.target, q.sub, q.langs[1])>>
    BY <1>0, <1>5 DEF Calls, Progress
  <2>2. k = 1 /\ Calls(m)[k] = Call(q.target, q.sub, q.langs[1])
    BY <2>1
  <2> QED
    <3>1. q.target \in Lemmas /\ q.sub \in Tables /\ q.langs[1] # All
      BY <1>2, <1>5, <2>0, LanguageAssumption DEF Tables
    <3> QED
      BY <1>0, <1>5, <2>0, <2>2, <3>1 DEF CallOK, Call
<1>6. CASE q.sub = "status"
  <2>1. Calls(m) = [j \in 1..Len(Sections) |-> Call(q.target, Sections[j], All)]
    BY <1>0, <1>6 DEF Calls, InOneLanguage, Progress
  <2>2. k \in 1..7 /\ Calls(m)[k] = Call(q.target, Sections[k], All)
    BY <2>1 DEF Sections
  <2>3. Sections[k] = "lemma" \/ Sections[k] \in Tables
    <3>1. Len(Sections) = 7 /\ k \in 1..7
      BY <2>2 DEF Sections
    <3>2. k \in {1, 2, 3, 4, 5, 6, 7}
      BY <3>1
    <3>3. /\ Sections[1] = "lemma" /\ Sections[2] = "translations"
          /\ Sections[3] = "pronunciations" /\ Sections[4] = "sentences"
          /\ Sections[5] = "forms" /\ Sections[6] = "audio" /\ Sections[7] = "grammar"
      BY DEF Sections
    <3> QED
      BY <3>2, <3>3 DEF Tables
  <2> QED
    BY <1>0, <1>2, <1>6, <2>2, <2>3 DEF CallOK, Call
<1>7. CASE q.sub = "stats"
  <2> DEFINE l == IF q.langs = <<>> THEN All ELSE q.langs[1]
  <2>1. Calls(m) = <<Call(Whole, "words", l)>>
    BY <1>0, <1>7 DEF Calls, Progress
  <2>2. k = 1 /\ Calls(m)[k] = Call(Whole, "words", l)
    BY <2>1
  <2>3. l \in Langs \union {All}
    BY <1>1
  <2> QED
    BY <1>0, <1>7, <2>2, <2>3 DEF CallOK, Call, Tables
<1>8. CASE q.sub \in Progress
  <2>1. Calls(m) = [j \in 1..LangsTaken(q.sub) |-> Call(Whole, Counts(q.sub), q.langs[j])]
    BY <1>0, <1>8 DEF Calls, Progress
  <2>2. k \in 1..LangsTaken(q.sub) /\ Calls(m)[k] = Call(Whole, Counts(q.sub), q.langs[k])
    BY <2>1
  <2>3. q.langs[k] \in Langs /\ Counts(q.sub) \in {"words", "sentence words"}
    BY <1>1, <2>2 DEF Counts
  <2> QED
    <3>1. PICK c, w, l : c = Calls(m)[k] /\ w = Counts(q.sub) /\ l = q.langs[k]
      OBVIOUS
    <3>2. c.of = Whole /\ c.what = w /\ c.lang = l
      BY <2>2, <3>1 DEF Call
    <3>3. l \in Langs /\ l # All /\ w \in {"words", "sentence words"} /\ w \in Tables
      BY <2>3, <3>1, LanguageAssumption DEF Tables
    <3> QED
      BY <1>0, <1>8, <3>1, <3>2, <3>3 DEF CallOK, Progress
<1>9. CASE q.sub \notin {"search", "info", "translate", "forms", "grammar", "sentences",
                         "audio", "status", "stats"} \union Progress
  <2>1. Calls(m) = <<>>
    BY <1>0, <1>9 DEF Calls
  <2> QED
    BY <2>1
<1> QED
  BY <1>3, <1>4, <1>5, <1>6, <1>7, <1>8, <1>9

\* A language that a command misses, and does not find in the response, is not there;
\* unless translate got a map that the server had emptied.
LEMMA NotShownIsNotThere ==
  ASSUME NEW m \in Mentions, NEW k \in DOMAIN Calls(m), CallOK(m, k), got[m][k] # 0,
         corpora[got[m][k]] \subseteq Facts, NEW l \in Expected(m, k), l \notin Shown(m, k)
  PROVE  \/ <<Calls(m)[k].of, Calls(m)[k].what, l>> \notin corpora[got[m][k]]
         \/ query[m].sub = "translate" /\ Calls(m)[k].of \in Filtered
<1>0. PICK c, sub, C : c = Calls(m)[k] /\ sub = query[m].sub /\ C = corpora[got[m][k]]
  OBVIOUS
<1>1. SUFFICES ASSUME <<c.of, c.what, l>> \in C, ~(sub = "translate" /\ c.of \in Filtered)
               PROVE  FALSE
  BY <1>0
<1>2. l \in Langs /\ l # All
  BY <1>0, <1>1, LanguageAssumption DEF Facts
<1>3. c.what \notin {"search", "lemma"}
  BY <1>0 DEF Expected
<1>4. /\ c.lang = All => sub \in {"status", "stats"}
      /\ sub = "status" => c.lang = All
      /\ sub = "sentences" => c.what = "sentences" /\ c.lang = query[m].langs[1]
      /\ c.what = "translations" => sub \in {"status", "translate"}
  BY <1>0, <1>3 DEF CallOK
<1>5. l \in Response(m, k) <=> c.lang \in {All, l} \/ c.what = "sentences"
  BY <1>0, <1>1, <1>2 DEF Response
<1>6. Data(m, k) = IF c.what = "translations" /\ c.of \in Filtered THEN {} ELSE Response(m, k)
  BY <1>0 DEF Data
<1>7. CASE sub = "status"
  <2>1. Data(m, k) \in {{}, Response(m, k)}
    BY <1>6
  <2>2. Shown(m, k) = Response(m, k)
    BY <1>0, <1>7, <2>1 DEF Shown
  <2> QED
    BY <1>4, <1>5, <1>7, <2>2
<1>8. CASE sub = "sentences"
  <2>1. Shown(m, k) = Response(m, k) \intersect {English, c.lang}
    BY <1>0, <1>4, <1>6, <1>8 DEF Shown
  <2>2. l \in {English, c.lang}
    BY <1>0, <1>3, <1>8 DEF Expected
  <2> QED
    BY <1>4, <1>5, <1>8, <2>1, <2>2
<1>9. CASE sub \notin {"status", "sentences"}
  <2>1. Shown(m, k) = Response(m, k)
    BY <1>0, <1>1, <1>4, <1>6, <1>9 DEF Shown
  <2>2. l = c.lang \/ c.lang = All
    BY <1>0, <1>3, <1>9 DEF Expected
  <2> QED
    BY <1>5, <2>1, <2>2
<1> QED
  BY <1>7, <1>8, <1>9

\* What a command misses are facts of its calls.
LEMMA ExpectedAreFacts ==
  ASSUME NEW m \in Mentions, NEW k \in DOMAIN Calls(m), CallOK(m, k), NEW l \in Expected(m, k)
  PROVE  <<Calls(m)[k].of, Calls(m)[k].what, l>> \in Facts
<1>0. PICK c, sub : c = Calls(m)[k] /\ sub = query[m].sub
  OBVIOUS
<1>1. c.what \notin {"search", "lemma"}
  BY <1>0 DEF Expected
<1>2. /\ c.what \in Tables /\ c.of \in Lemmas \union {Whole}
      /\ c.lang \in Langs \union {All}
      /\ c.lang = All => sub \in {"status", "stats"}
      /\ sub = "sentences" => c.lang = query[m].langs[1]
  BY <1>0, <1>1 DEF CallOK
<1>3. l \in Langs
  BY <1>0, <1>1, <1>2, LanguageAssumption DEF Expected
<1> QED
  BY <1>0, <1>2, <1>3 DEF Facts

\* An exact hit that is not in the sample is looked up.
LEMMA ExactHitIsExpected ==
  ASSUME NEW m \in Mentions, Asked(m), NEW f \in OfExactHits(m), f \notin Sampled(m)
  PROVE  /\ query[m].sub = "translate"
         /\ \E k \in DOMAIN Calls(m) :
              \E l \in Expected(m, k) : f = <<Calls(m)[k].of, Calls(m)[k].what, l>>
<1> DEFINE hits == found[m].hits
           lang == query[m].langs[1]
<1>1. PICK h \in 1..Len(hits) : /\ query[m].sub = "translate" /\ hits[h].exact
                                /\ f = <<hits[h].of, "translations", lang>>
  BY DEF OfExactHits
<1>2. Unsampled(m, hits[h])
  BY <1>1 DEF Unsampled, Sampled
<1>3. PICK j \in 1..Len(Lookups(m)) : Lookups(m)[j].of = hits[h].of
  BY <1>2, LookupCalls DEF Asked
<1>4. Lookups(m)[j] \in LookupsOf(m) /\ Len(Lookups(m)) \in Nat
  BY LookupCalls DEF Asked
<1>5. PICK c : c = Lookups(m)[j]
  OBVIOUS
<1>6. c.of = hits[h].of /\ c.what = "translations" /\ c.lang = lang
  BY <1>3, <1>4, <1>5 DEF LookupsOf
<1>7. j + 1 \in DOMAIN Calls(m) /\ Calls(m)[j + 1] = c
  BY <1>1, <1>4, <1>5, TranslateCalls DEF Asked
<1>8. Expected(m, j + 1) = {lang}
  BY <1>1, <1>6, <1>7 DEF Expected
<1> QED
  BY <1>1, <1>6, <1>7, <1>8

\* What a command misses was missing in the version that its call saw.
LEMMA MissingHasCause ==
  ASSUME NEW m \in Mentions, Asked(m), DOMAIN Calls(m) \subseteq 1..Len(got[m]),
         NEW V, \A k \in 1..Len(got[m]) : IF got[m][k] = 0 THEN query[m].sub = "translate"
                                          ELSE got[m][k] \in V,
         \A v \in V : corpora[v] \subseteq Facts,
         NEW f \in Missing(m)
  PROVE  /\ f \in Facts
         /\ \/ \E v \in V : f \notin corpora[v]
            \/ query[m].sub = "translate" /\ (LookupFailed(m, f[1]) \/ f[1] \in Filtered)
<1> DEFINE missed == [k \in DOMAIN Calls(m) |-> Expected(m, k) \ Shown(m, k)]
           shown == [k \in DOMAIN Calls(m) |-> Shown(m, k)]
<1>1. f \in FactsOf(m, missed) \/ (f \in OfExactHits(m) /\ f \notin Said(m))
  BY DEF Missing
<1>2. PICK k \in DOMAIN Calls(m) :
             \E l \in Expected(m, k) \ Shown(m, k) : f = <<Calls(m)[k].of, Calls(m)[k].what, l>>
  <2>1. CASE f \in FactsOf(m, missed)
    <3>1. PICK k \in DOMAIN Calls(m) :
                 f \in {<<Calls(m)[k].of, Calls(m)[k].what, l>> : l \in Expected(m, k) \ Shown(m, k)}
      BY <2>1 DEF FactsOf
    <3> QED
      BY <3>1
  <2>2. CASE f \in OfExactHits(m) /\ f \notin Said(m)
    <3>1. f \notin Sampled(m) /\ f \notin FactsOf(m, shown)
      BY <2>2 DEF Said
    <3>2. PICK k \in DOMAIN Calls(m) :
                 \E l \in Expected(m, k) : f = <<Calls(m)[k].of, Calls(m)[k].what, l>>
      BY <2>2, <3>1, ExactHitIsExpected
    <3>3. PICK l \in Expected(m, k) : f = <<Calls(m)[k].of, Calls(m)[k].what, l>>
      BY <3>2
    <3>4. DOMAIN shown = DOMAIN Calls(m) /\ shown[k] = Shown(m, k)
      OBVIOUS
    <3> HIDE DEF shown
    <3>5. l \in shown[k] => f \in {<<Calls(m)[k].of, Calls(m)[k].what, x>> : x \in shown[k]}
      BY <3>3
    <3>6. {<<Calls(m)[k].of, Calls(m)[k].what, x>> : x \in shown[k]} \subseteq FactsOf(m, shown)
      BY <3>4 DEF FactsOf
    <3> QED
      BY <3>1, <3>3, <3>4, <3>5, <3>6
  <2> QED
    BY <1>1, <2>1, <2>2
<1>3. PICK l \in Expected(m, k) \ Shown(m, k) : f = <<Calls(m)[k].of, Calls(m)[k].what, l>>
  BY <1>2
<1>4. l \in Expected(m, k) /\ l \notin Shown(m, k)
  BY <1>3
<1>5. CallOK(m, k)
  BY CallsAreOK DEF Asked
<1>6. f \in Facts
  BY <1>3, <1>4, <1>5, ExpectedAreFacts
<1>7. f[1] = Calls(m)[k].of
  BY <1>3
<1>8. CASE got[m][k] = 0
  <2>1. query[m].sub = "translate"
    BY <1>8
  <2> QED
    BY <1>6, <1>7, <1>8, <2>1 DEF LookupFailed
<1>9. CASE got[m][k] # 0
  <2>1. got[m][k] \in V /\ corpora[got[m][k]] \subseteq Facts
    BY <1>9
  <2>2. \/ f \notin corpora[got[m][k]]
        \/ query[m].sub = "translate" /\ Calls(m)[k].of \in Filtered
    BY <1>3, <1>4, <1>5, <1>9, <2>1, NotShownIsNotThere
  <2> QED
    BY <1>6, <1>7, <2>1, <2>2
<1> QED
  BY <1>8, <1>9

\* handleAudio chooses a file that fits.
LEMMA ChosenFits ==
  ASSUME NEW m \in Mentions, Asked(m)
  PROVE  Fits(found[m].files, query[m].form, Chosen(m))
<1> DEFINE s == found[m].files
           P == {k \in 1..Len(s) : s[k].url}
           playable == Picked(s, P)
           Q == {k \in 1..Len(playable) : playable[k].form = query[m].form}
           fitting == Picked(playable, Q)
           files == {f \in {s[k] : k \in 1..Len(s)} : f.url}
<1>1. s \in Seq(AudioFiles) /\ DOMAIN s = 1..Len(s)
  BY DEF Asked
<1>2. files = {s[k] : k \in P}
  OBVIOUS
<1>3. P \in SUBSET (1..Len(s))
  OBVIOUS
<1> HIDE DEF P, files
<1>4. /\ playable \in Seq(AudioFiles)
      /\ \A i \in 1..Len(playable) : \E k \in P : playable[i] = s[k]
      /\ \A k \in P : \E i \in 1..Len(playable) : playable[i] = s[k]
  BY <1>1, <1>3, PickedElements
<1>5. DOMAIN playable = 1..Len(playable) /\ Len(playable) \in Nat
  BY <1>4
<1>6. Chosen(m) = IF playable = <<>> THEN None ELSE Head(fitting \o playable)
  <2>1. P = {k \in DOMAIN s : s[k].url}
    BY <1>1 DEF P
  <2>2. Q = {k \in DOMAIN playable : playable[k].form = query[m].form}
    BY <1>5
  <2> QED
    BY <2>1, <2>2 DEF Chosen
<1> HIDE DEF playable
<1>7. Q \in SUBSET (1..Len(playable))
  OBVIOUS
<1>8. \A k \in 1..Len(playable) : playable[k].form = query[m].form => k \in Q
  OBVIOUS
<1>9. \A k \in Q : k \in 1..Len(playable) /\ playable[k].form = query[m].form
  OBVIOUS
<1> HIDE DEF Q
<1>10. /\ fitting \in Seq(AudioFiles)
       /\ \A i \in 1..Len(fitting) : \E k \in Q : fitting[i] = playable[k]
       /\ \A k \in Q : \E i \in 1..Len(fitting) : fitting[i] = playable[k]
  BY <1>4, <1>7, PickedElements
<1> HIDE DEF fitting
<1>11. CASE playable = <<>>
  <2>1. files = {}
    BY <1>2, <1>4, <1>11
  <2> QED
    BY <1>6, <1>11, <2>1 DEF Fits, files
<1>12. CASE playable # <<>>
  <2>1. Len(playable) >= 1 /\ playable[1] \in files
    BY <1>2, <1>4, <1>5, <1>12
  <2>2. \A i \in 1..Len(fitting) : fitting[i] \in files /\ fitting[i].form = query[m].form
    <3> TAKE i \in 1..Len(fitting)
    <3>1. PICK k \in Q : fitting[i] = playable[k]
      BY <1>10
    <3>2. k \in 1..Len(playable) /\ playable[k].form = query[m].form
      BY <1>9
    <3>3. playable[k] \in files
      BY <1>2, <1>4, <3>2
    <3> QED
      BY <3>1, <3>2, <3>3
  <2>3. files \subseteq AudioFiles
    BY <1>1, <1>2, <1>3
  <2>4. PICK file : file = Head(fitting \o playable)
    OBVIOUS
  <2>5. file = IF Len(fitting) >= 1 THEN fitting[1] ELSE playable[1]
    BY <1>4, <1>10, <1>12, <2>4
  <2>6. file \in files /\ file # None
    BY <1>10, <2>1, <2>2, <2>3, <2>5, ListsAssumption
  <2>7. ASSUME NEW f \in files, f.form = query[m].form
        PROVE  file.form = query[m].form
    <3>1. PICK i \in 1..Len(playable) : playable[i] = f
      BY <1>2, <1>4
    <3>2. i \in Q
      BY <1>8, <2>7, <3>1
    <3>3. Len(fitting) >= 1
      BY <1>10, <3>2
    <3> QED
      BY <1>10, <2>2, <2>5, <3>3
  <2> QED
    BY <1>6, <1>12, <2>1, <2>4, <2>6, <2>7 DEF Fits, files
<1> QED
  BY <1>11, <1>12

-----------------------------------------------------------------------------
\* A command answers: what it says and denies is its calls' results.
LEMMA ComposeKeeps ==
  ASSUME BotInv, NEW m \in Mentions, Compose(m)
  PROVE  BotInv'
<1>1. at[m] = "asking" /\ ~Waiting(m) /\ UNCHANGED <<corpora, query, got, found, since>>
  BY DEF Compose
<1>2. PICK said \in Sayings(m) : Finish(m, "answered", Answer(m, said))
  BY DEF Compose
<1> DEFINE r == Answer(m, said)
<1>3. /\ said \subseteq Said(m)
      /\ query[m].sub = "status" => said = Said(m)
  BY <1>2 DEF Sayings
<1>4. /\ r.says \subseteq said /\ r.denies \subseteq Missing(m)
      /\ query[m].sub = "status" => r.says = said /\ r.denies = Missing(m)
      /\ query[m].sub = "audio" => r.file = Chosen(m)
      /\ r.kind \in {"nothing", "report"}
  BY DEF Answer, HasReport
<1> HIDE DEF r
<1>5. /\ at' \in [Mentions -> {"new", "plain", "ignored", "asking", "answered", "gone"}]
      /\ until' \in [Mentions -> Nat]
      /\ reply' = [t \in Mentions |-> reply'[t]]
      /\ at'[m] = "answered" /\ until'[m] = Len(corpora) /\ reply'[m] = r
      /\ \A t \in Mentions : t # m =>
           at'[t] = at[t] /\ until'[t] = until[t] /\ reply'[t] = reply[t]
  BY <1>1, <1>2, FinishStep DEF r
<1>6. BotTypes' /\ Others(m)
  BY <1>1, <1>5 DEF BotInv, BotTypes, Others
<1>7. MentionOK(m) /\ AskOK(m) /\ Len(corpora) \in Nat
  BY <1>1 DEF BotInv, BotTypes, MentionOK
<1>8. SaidOK(m)'
  <2>1. \A f \in r.says : \E v \in since[m]..Len(corpora) : f \in corpora[v]
    BY <1>1, <1>3, <1>4, SaidIsSo
  <2>2. During(m)' = since[m]..Len(corpora)
    BY <1>1, <1>5 DEF During
  <2> QED
    BY <1>1, <1>5, <2>1, <2>2 DEF SaidOK
<1>9. WindowOK(m)'
  <2>1. CASE query[m].sub = "status"
    BY <2>1, <1>1, <1>3, <1>4, <1>5, StatusComposed
  <2>2. CASE query[m].sub # "status"
    BY <2>2, <1>1 DEF WindowOK
  <2> QED
    BY <2>1, <2>2
<1>10. DeniedOK(m)'
  <2> DEFINE V == since[m]..Len(corpora)
  <2>1. /\ Asked(m) /\ got[m] \in Seq(Nat)
        /\ \A k \in 1..Len(got[m]) : IF got[m][k] = 0 THEN query[m].sub = "translate"
                                     ELSE got[m][k] \in V
    BY <1>7 DEF AskOK, BotInv, BotTypes
  <2>2. DOMAIN Calls(m) \subseteq 1..Len(got[m])
    BY <1>1, <2>1 DEF Waiting
  <2>3. \A v \in V : corpora[v] \subseteq Facts
    <3>1. corpora \in Seq(SUBSET Facts) /\ since[m] \in 1..Len(corpora)
      BY <1>7 DEF AskOK, BotInv, BotTypes
    <3> QED
      BY <3>1
  <2>4. During(m)' = V
    BY <1>1, <1>5 DEF During
  <2> HIDE DEF V
  <2> SUFFICES ASSUME NEW f \in Missing(m) PROVE f \in Facts /\ Cause(m, f)'
    BY <1>4, <1>5 DEF DeniedOK
  <2>5. /\ f \in Facts
        /\ \/ \E v \in V : f \notin corpora[v]
           \/ query[m].sub = "translate" /\ (LookupFailed(m, f[1]) \/ f[1] \in Filtered)
    BY <2>1, <2>2, <2>3, MissingHasCause
  <2>6. LookupFailed(m, f[1]) => LookupFailed(m, f[1])'
    BY <1>1, SameCalls DEF LookupFailed
  <2> QED
    BY <1>1, <2>4, <2>5, <2>6 DEF Cause
<1>11. LinkOK(m)'
  <2>1. Fits(found[m].files, query[m].form, Chosen(m))
    BY <1>7, ChosenFits DEF AskOK
  <2>2. query[m].sub = "audio" => reply'[m].file = Chosen(m)
    BY <1>4, <1>5
  <2> QED
    BY <1>1, <2>1, <2>2 DEF LinkOK
<1>12. MentionOK(m)'
  <2>1. AnswerOK(m)'
    BY <1>4, <1>5, <1>8, <1>9, <1>10, <1>11 DEF AnswerOK
  <2>2. since'[m] \in Nat /\ since'[m] >= 1 /\ until'[m] \in 0..Len(corpora')
    BY <1>1, <1>5, <1>7 DEF AskOK
  <2> QED
    BY <1>5, <2>2, <2>1 DEF MentionOK
<1> QED
  BY <1>1, <1>6, <1>12, OneMention

-----------------------------------------------------------------------------
\* A new version of the dictionary leaves the ones that were answered from.
LEMMA CurateKeeps ==
  ASSUME BotInv, NEW f \in Facts, Curate(f)
  PROVE  BotInv'
<1> DEFINE n == Len(corpora)
           c == IF f \in corpora[n] THEN corpora[n] \ {f} ELSE corpora[n] \union {f}
<1>1. n \in Nat /\ n >= 1 /\ corpora \in Seq(SUBSET Facts)
  BY DEF BotInv, BotTypes
<1>2. corpora[n] \in SUBSET Facts
  BY <1>1
<1>3. c \in SUBSET Facts
  BY <1>2
<1>4. corpora' = Append(corpora, c) /\ UNCHANGED <<at, query, got, found, since, until, reply>>
  BY DEF Curate
<1> HIDE DEF c
<1>5. /\ corpora' \in Seq(SUBSET Facts) /\ Len(corpora') = n + 1
      /\ \A v \in 1..n : corpora'[v] = corpora[v]
  BY <1>1, <1>3, <1>4
<1>6. BotTypes'
  BY <1>1, <1>4, <1>5 DEF BotInv, BotTypes
<1>7. ASSUME NEW m \in Mentions PROVE MentionOK(m)'
  <2>1. Len(corpora') \in Nat /\ Len(corpora') >= Len(corpora)
    BY <1>1, <1>5
  <2> QED
    BY <1>4, <1>5, <2>1, OtherMention
<1> QED
  BY <1>6, <1>7 DEF BotInv

\* A mention that is stored or ignored, or whose process stops, is asked nothing.
LEMMA UnaskedKeeps ==
  ASSUME BotInv, UNCHANGED <<corpora, query, got, found, since, until, reply>>,
         at' = [m \in Mentions |-> at'[m]],
         \A m \in Mentions : at'[m] \in {at[m], "gone", "plain", "ignored"}
  PROVE  BotInv'
<1>1. Len(corpora) \in Nat
  BY DEF BotInv, BotTypes
<1>2. ASSUME NEW m \in Mentions PROVE MentionOK(m)'
  BY <1>1, OtherMention
<1>3. BotTypes'
  <2>1. \A m \in Mentions : at'[m] \in {"new", "plain", "ignored", "asking", "answered", "gone"}
    BY DEF BotInv, BotTypes
  <2>2. at' \in [Mentions -> {"new", "plain", "ignored", "asking", "answered", "gone"}]
    BY <2>1
  <2> QED
    BY <2>2 DEF BotInv, BotTypes
<1> QED
  BY <1>2, <1>3 DEF BotInv

LEMMA MentionStepKeeps ==
  ASSUME BotInv, NEW m \in Mentions, MentionStep(m)
  PROVE  BotInv'
<1>1. CASE PostPlain(m) \/ Ignore(m)
  <2>1. PICK to \in {"plain", "ignored"} : at' = [at EXCEPT ![m] = to]
    BY <1>1 DEF PostPlain, Ignore
  <2>2. UNCHANGED <<corpora, query, got, found, since, until, reply>>
    BY <1>1 DEF PostPlain, Ignore
  <2>3. /\ at' = [t \in Mentions |-> at'[t]]
        /\ \A t \in Mentions : at'[t] \in {at[t], "gone", "plain", "ignored"}
    BY <2>1 DEF BotInv, BotTypes
  <2> QED
    BY <2>2, <2>3, UnaskedKeeps
<1>2. ASSUME NEW q \in Queries, Ask(m, q) PROVE BotInv'
  BY <1>2, RefuseKeeps, BeginKeeps DEF Ask
<1>3. CASE Answering(m)
  BY <1>3, CallReturnsKeeps, CallFailsKeeps, ComposeKeeps DEF Answering, BotStep
<1>4. CASE RequestEnds(m)
  BY <1>4, AbandonKeeps DEF RequestEnds
<1> QED
  BY <1>1, <1>2, <1>3, <1>4 DEF MentionStep

LEMMA BotNextKeeps == BotInv /\ [ConversationNext]_conversationVars => BotInv'
<1> SUFFICES ASSUME BotInv, [ConversationNext]_conversationVars PROVE BotInv'
  OBVIOUS
<1>1. ASSUME UNCHANGED botVars PROVE BotInv'
  <2>1. /\ UNCHANGED <<corpora, query, got, found, since, until, reply>>
        /\ at' = [m \in Mentions |-> at'[m]]
        /\ \A m \in Mentions : at'[m] \in {at[m], "gone", "plain", "ignored"}
    BY <1>1 DEF botVars, BotInv, BotTypes
  <2> QED
    BY <2>1, UnaskedKeeps
<1>2. ASSUME StopRequests PROVE BotInv'
  BY <1>2, UnaskedKeeps DEF StopRequests
<1>3. CASE UNCHANGED conversationVars
  BY <1>1, <1>3 DEF conversationVars
<1>4. CASE Server
  BY <1>1, <1>2, <1>4 DEF Server
<1>5. CASE Edit
  BY <1>5, CurateKeeps DEF Edit
<1>6. ASSUME NEW m \in Mentions, MentionStep(m) PROVE BotInv'
  BY <1>6, MentionStepKeeps
<1> QED
  BY <1>3, <1>4, <1>5, <1>6 DEF ConversationNext

LEMMA BotInvariant == ConversationSpec => []BotInv
<1>1. ConversationInit => BotInv
  BY InitialBot DEF ConversationInit
<1> QED
  BY <1>1, BotNextKeeps, PTL DEF ConversationSpec

-----------------------------------------------------------------------------
\* Whatever an answer says was so in some version of the dictionary between the
\* mention and the answer, and what it denies was not so in one, or could not be
\* looked up; for any editors, failures and number of calls.
THEOREM AnswersAreTrue == ConversationSpec => []AnswersWereTrue
<1>1. BotInv => SaidWasSo
  BY DEF BotInv, MentionOK, AnswerOK, SaidOK, SaidWasSo
<1>2. BotInv => DenialHasCause
  BY DEF BotInv, MentionOK, AnswerOK, DeniedOK, Cause, DenialHasCause
<1> QED
  BY <1>1, <1>2, BotInvariant, PTL DEF AnswersWereTrue

\* Every status report is a window: each section is one version's, and later
\* sections are of later versions.
THEOREM StatusReportsAreWindows == ConversationSpec => []StatusIsWindow
<1>1. BotInv => StatusIsWindow
  BY DEF BotInv, MentionOK, AnswerOK, WindowOK, IsWindow, StatusIsWindow, Asking
<1> QED
  BY <1>1, BotInvariant, PTL

\* A link that handleAudio gives can be played, and is of the form asked for when the
\* lemma has such a file, in whatever order the server lists them.
THEOREM LinksFitForms == ConversationSpec => []LinkFitsForm
<1>1. ASSUME BotInv, NEW m \in Asking("audio"), reply[m].kind \in {"nothing", "report"}
      PROVE  Fits(found[m].files, query[m].form, reply[m].file)
  BY <1>1 DEF BotInv, MentionOK, AnswerOK, LinkOK, Asking
<1>2. BotInv => LinkFitsForm
  BY <1>1 DEF LinkFitsForm, Fits
<1> QED
  BY <1>2, BotInvariant, PTL

-----------------------------------------------------------------------------
\* What is said or denied is of the dictionary.
LEMMA BotTypesOK == BotInv => BotTypeOK
<1> SUFFICES ASSUME BotInv PROVE BotTypeOK
  OBVIOUS
<1>1. ASSUME NEW m \in Mentions PROVE reply[m].says \subseteq Facts
  <2>1. /\ SaidOK(m) /\ since[m] \in Nat /\ until[m] \in 0..Len(corpora)
        /\ since[m] >= 1 \/ reply[m] = NoReply
    BY DEF BotInv, MentionOK, AnswerOK
  <2>2. reply[m] = NoReply => reply[m].says = {}
    BY SilentReplies DEF Silent
  <2>3. corpora \in Seq(SUBSET Facts) /\ Len(corpora) \in Nat
    BY DEF BotInv, BotTypes
  <2>4. since[m] >= 1 => \A v \in During(m) : v \in 1..Len(corpora)
    BY <2>1, <2>3 DEF During
  <2>5. \A v \in 1..Len(corpora) : corpora[v] \subseteq Facts
    BY <2>3
  <2> QED
    BY <2>1, <2>2, <2>4, <2>5 DEF SaidOK
<1>2. \A m \in Mentions :
        /\ reply[m].kind \in {"none yet", "refused", "failed", "nothing", "report"}
        /\ reply[m].denies \subseteq Facts
  BY DEF BotInv, MentionOK, AnswerOK, DeniedOK
<1> QED
  BY <1>1, <1>2 DEF BotInv, BotTypes, BotTypeOK

LinesOK == lines \in [Mentions -> Seq(Kinds)]

LEMMA LinesAreSequences ==
  /\ \A r : AnswerLines(r) \in Seq(Kinds)
  /\ \A body \in PostBodies(MaxLines) : body \in Seq(Kinds)
<1>1. <<"text", "audio">> \in Seq(Kinds) /\ <<"text">> \in Seq(Kinds)
  <2>1. "text" \in Kinds /\ "audio" \in Kinds
    BY DEF Kinds
  <2> HIDE DEF Kinds
  <2> QED
    BY <2>1
<1>2. \A r : AnswerLines(r) \in Seq(Kinds)
  BY <1>1 DEF AnswerLines
<1>3. ASSUME NEW body \in PostBodies(MaxLines) PROVE body \in Seq(Kinds)
  <2>1. PICK k \in 1..MaxLines : body \in [1..k -> Kinds]
    BY <1>3 DEF PostBodies
  <2> QED
    BY <2>1, MaxLinesAssumption
<1> QED
  BY <1>2, <1>3

LEMMA StoredLines ==
  ASSUME LinesOK, NEW m \in Mentions, NEW body \in Seq(Kinds), Store(m, body)
  PROVE  LinesOK'
  BY DEF Store, LinesOK

LEMMA LinesStep == LinesOK /\ [ConversationNext]_conversationVars => LinesOK'
<1> SUFFICES ASSUME LinesOK, [ConversationNext]_conversationVars PROVE LinesOK'
  OBVIOUS
<1>1. CASE UNCHANGED lines
  BY <1>1 DEF LinesOK
<1>2. UNCHANGED conversationVars \/ Server \/ Edit => UNCHANGED lines
  BY DEF conversationVars, Server, Edit
<1>3. ASSUME NEW m \in Mentions, PostPlain(m) PROVE LinesOK'
  BY <1>3, LinesAreSequences, StoredLines DEF PostPlain
<1>4. ASSUME NEW m \in Mentions, Answering(m) PROVE LinesOK'
  <2>1. AnswerLines(reply'[m]) \in Seq(Kinds)
    BY LinesAreSequences
  <2> QED
    BY <1>1, <1>4, <2>1, StoredLines DEF Answering
<1>5. ASSUME NEW m \in Mentions, Ignore(m) \/ (\E q \in Queries : Ask(m, q)) \/ RequestEnds(m)
      PROVE  UNCHANGED lines
  BY <1>5 DEF Ignore, Ask, RequestEnds
<1> QED
  BY <1>1, <1>2, <1>3, <1>4, <1>5 DEF ConversationNext, MentionStep

LEMMA LinesInvariant == ConversationSpec => []LinesOK
<1>1. ConversationInit => LinesOK
  <2>1. <<>> \in Seq(Kinds)
    OBVIOUS
  <2> QED
    BY <2>1 DEF ConversationInit, LinesOK
<1> QED
  BY <1>1, LinesStep, PTL DEF ConversationSpec

\* Every answer is made of facts, the server is where main can be, and what is
\* stored is lines.
THEOREM ConversationTypeCorrect == ConversationSpec => []ConversationTypeOK
<1>1. BotTypeOK /\ StartTypeOK /\ LinesOK => ConversationTypeOK
  BY DEF LinesOK, ConversationTypeOK
<1> QED
  BY <1>1, BotTypesOK, BotInvariant, LinesInvariant, StartTypeCorrect, PTL

-----------------------------------------------------------------------------
\* RenderBody.
Pieces == (Kinds \union {"<ul>", "</ul>", "<br>"}) \X Nat

\* The loop's states exist, each made of the one before, however long the body is.
LEMMA RenderLinesUnfolds ==
  ASSUME NEW body \in Seq(Kinds)
  PROVE  \A i \in 0..Len(body) : RenderLines(body)[i] =
           IF i = 0 THEN NothingWritten ELSE RenderLine(body, RenderLines(body)[i - 1], i)
<1> DEFINE n == Len(body)
           Unfolds(g, m) ==
             g = [i \in 0..m |-> IF i = 0 THEN NothingWritten ELSE RenderLine(body, g[i - 1], i)]
           S == {m \in Nat : \E g : Unfolds(g, m)}
<1>1. n \in Nat
  OBVIOUS
<1>2. 0 \in S
  <2>1. PICK g : g = [i \in 0..0 |-> NothingWritten]
    OBVIOUS
  <2>2. \A i \in 0..0 : i = 0
    OBVIOUS
  <2>3. Unfolds(g, 0)
    BY <2>1, <2>2
  <2> QED
    BY <2>3
<1>3. ASSUME NEW m \in Nat, m \in S PROVE m + 1 \in S
  <2>1. PICK g : Unfolds(g, m)
    BY <1>3
  <2>2. PICK h : h = [i \in 0..m + 1 |-> IF i <= m THEN g[i] ELSE RenderLine(body, g[m], m + 1)]
    OBVIOUS
  <2>3. \A i \in 0..m + 1 : i \in 0..m \/ (i = m + 1 /\ i # 0 /\ i - 1 = m)
    OBVIOUS
  <2>4. \A i \in 0..m : /\ h[i] = g[i] /\ i \in 0..m + 1 /\ i <= m
                        /\ i # 0 => i - 1 \in 0..m
    BY <2>2
  <2>5. h[m + 1] = RenderLine(body, h[m], m + 1)
    <3>1. m + 1 \in 0..m + 1 /\ ~(m + 1 <= m) /\ m \in 0..m
      OBVIOUS
    <3> QED
      BY <2>2, <2>4, <3>1
  <2>6. \A i \in 0..m : h[i] = IF i = 0 THEN NothingWritten ELSE RenderLine(body, h[i - 1], i)
    BY <2>1, <2>4
  <2>7. \A i \in 0..m + 1 :
           h[i] = IF i = 0 THEN NothingWritten ELSE RenderLine(body, h[i - 1], i)
    BY <2>3, <2>5, <2>6
  <2>8. Unfolds(h, m + 1)
    BY <2>2, <2>7
  <2> HIDE DEF Unfolds
  <2> QED
    BY <2>8
<1>4. \E g : Unfolds(g, n)
  <2> HIDE DEF S
  <2>1. n \in S
    BY <1>1, <1>2, <1>3, InductiveSet
  <2> QED
    BY <2>1 DEF S
<1>5. RenderLines(body) = CHOOSE g : Unfolds(g, n)
  BY DEF RenderLines
<1>6. Unfolds(RenderLines(body), n)
  <2> HIDE DEF Unfolds
  <2> QED
    BY <1>4, <1>5
<1> QED
  BY <1>6
\* The same for the promised HTML.
LEMMA HTMLUnfolds ==
  ASSUME NEW body \in Seq(Kinds)
  PROVE  \A i \in 0..Len(body) : HTMLUpTo(body)[i] =
           IF i = 0 THEN <<>> ELSE HTMLUpTo(body)[i - 1] \o HTMLOf(body, i)
<1> DEFINE n == Len(body)
           Unfolds(g, m) ==
             g = [i \in 0..m |-> IF i = 0 THEN <<>> ELSE g[i - 1] \o HTMLOf(body, i)]
           S == {m \in Nat : \E g : Unfolds(g, m)}
<1>1. n \in Nat
  OBVIOUS
<1>2. 0 \in S
  <2>1. PICK g : g = [i \in 0..0 |-> <<>>]
    OBVIOUS
  <2>2. \A i \in 0..0 : i = 0
    OBVIOUS
  <2>3. Unfolds(g, 0)
    BY <2>1, <2>2
  <2> QED
    BY <2>3
<1>3. ASSUME NEW m \in Nat, m \in S PROVE m + 1 \in S
  <2>1. PICK g : Unfolds(g, m)
    BY <1>3
  <2>2. PICK h : h = [i \in 0..m + 1 |-> IF i <= m THEN g[i] ELSE g[m] \o HTMLOf(body, m + 1)]
    OBVIOUS
  <2>3. \A i \in 0..m + 1 : i \in 0..m \/ (i = m + 1 /\ i # 0 /\ i - 1 = m)
    OBVIOUS
  <2>4. \A i \in 0..m : /\ h[i] = g[i] /\ i \in 0..m + 1 /\ i <= m
                        /\ i # 0 => i - 1 \in 0..m
    BY <2>2
  <2>5. h[m + 1] = h[m] \o HTMLOf(body, m + 1)
    <3>1. m + 1 \in 0..m + 1 /\ ~(m + 1 <= m) /\ m \in 0..m
      OBVIOUS
    <3> QED
      BY <2>2, <2>4, <3>1
  <2>6. \A i \in 0..m : h[i] = IF i = 0 THEN <<>> ELSE h[i - 1] \o HTMLOf(body, i)
    BY <2>1, <2>4
  <2>7. \A i \in 0..m + 1 :
           h[i] = IF i = 0 THEN <<>> ELSE h[i - 1] \o HTMLOf(body, i)
    BY <2>3, <2>5, <2>6
  <2>8. Unfolds(h, m + 1)
    BY <2>2, <2>7
  <2> HIDE DEF Unfolds
  <2> QED
    BY <2>8
<1>4. \E g : Unfolds(g, n)
  <2> HIDE DEF S
  <2>1. n \in S
    BY <1>1, <1>2, <1>3, InductiveSet
  <2> QED
    BY <2>1 DEF S
<1>5. HTMLUpTo(body) = CHOOSE g : Unfolds(g, n)
  BY DEF HTMLUpTo
<1>6. Unfolds(HTMLUpTo(body), n)
  <2> HIDE DEF Unfolds
  <2> QED
    BY <1>4, <1>5
<1> QED
  BY <1>6

\* After each line the loop has written the HTML so far, but for the end of a list
\* that the next line does not continue.
Matches(body, i) ==
  LET r == RenderLines(body)[i]
      html == HTMLUpTo(body)[i] IN
  /\ r.out \in Seq(Pieces) /\ html \in Seq(Pieces)
  /\ r.inList <=> IsItem(body, i)
  /\ html = IF IsItem(body, i) /\ ~IsItem(body, i + 1)
            THEN Append(r.out, Tag("</ul>")) ELSE r.out

LEMMA Concatenations ==
  ASSUME NEW S
  PROVE  /\ <<>> \in Seq(S)
         /\ \A x \in S : <<x>> \in Seq(S)
         /\ \A s, t \in Seq(S) : s \o t \in Seq(S)
         /\ \A s, t, u \in Seq(S) : (s \o t) \o u = s \o (t \o u)
         /\ \A s \in Seq(S) : s \o <<>> = s
         /\ \A s \in Seq(S) : \A x \in S : Append(s, x) = s \o <<x>>
  BY ConcatAssociative, ConcatEmptySeq, AppendIsConcat

LEMMA MatchesStep ==
  ASSUME NEW body \in Seq(Kinds), NEW i \in Nat, i + 1 <= Len(body), Matches(body, i)
  PROVE  Matches(body, i + 1)
<1>0. PICK k, n : k = i + 1 /\ n = Len(body)
  OBVIOUS
<1>1. /\ n \in Nat /\ k \in 1..n /\ k \in 0..n /\ k # 0 /\ k - 1 = i /\ i \in Nat
      /\ body[k] \in Kinds
  BY <1>0
<1>2. PICK out, inList, html :
             /\ out = RenderLines(body)[i].out /\ inList = RenderLines(body)[i].inList
             /\ html = HTMLUpTo(body)[i]
  OBVIOUS
<1>3. /\ out \in Seq(Pieces) /\ html \in Seq(Pieces) /\ (inList <=> IsItem(body, i))
      /\ html = IF IsItem(body, i) /\ ~IsItem(body, k)
                THEN Append(out, Tag("</ul>")) ELSE out
  BY <1>0, <1>2 DEF Matches
<1>4. RenderLines(body)[k] = RenderLine(body, RenderLines(body)[i], k)
  BY <1>0, <1>1, RenderLinesUnfolds
<1>5. HTMLUpTo(body)[k] = html \o HTMLOf(body, k)
  BY <1>0, <1>1, <1>2, HTMLUnfolds
<1>6. PICK ul, br, end, p : /\ ul = Tag("<ul>") /\ br = Tag("<br>") /\ end = Tag("</ul>")
                            /\ p = <<body[k], k>>
  OBVIOUS
<1>7. ul \in Pieces /\ br \in Pieces /\ end \in Pieces /\ p \in Pieces
  <2>1. k \in Nat
    BY <1>1
  <2> QED
    BY <1>1, <1>6, <2>1 DEF Tag, Pieces
<1>8. /\ <<>> \in Seq(Pieces)
      /\ \A x \in Pieces : <<x>> \in Seq(Pieces)
      /\ \A s, t \in Seq(Pieces) : s \o t \in Seq(Pieces)
      /\ \A s, t, u \in Seq(Pieces) : (s \o t) \o u = s \o (t \o u)
      /\ \A s \in Seq(Pieces) : s \o <<>> = s
      /\ \A s \in Seq(Pieces) : \A x \in Pieces : Append(s, x) = s \o <<x>>
  BY Concatenations
<1> HIDE DEF Pieces
<1>9. CASE body[k] = "item"
  <2>1. IsItem(body, k)
    BY <1>0, <1>1, <1>9 DEF IsItem
  <2>2. html = out
    BY <1>3, <2>1
  <2>3. PICK A : A = IF IsItem(body, i) THEN <<>> ELSE <<ul>>
    OBVIOUS
  <2>4. PICK Z : Z = IF IsItem(body, k + 1) THEN <<>> ELSE <<end>>
    OBVIOUS
  <2>5. A \in Seq(Pieces) /\ Z \in Seq(Pieces) /\ <<p>> \in Seq(Pieces)
    BY <1>3, <1>7, <1>8, <2>3, <2>4
  <2>6. HTMLOf(body, k) = (A \o <<p>>) \o Z
    BY <1>1, <1>6, <1>9, <2>1, <2>3, <2>4 DEF HTMLOf
  <2>7. /\ RenderLines(body)[k].out = (out \o A) \o <<p>>
        /\ RenderLines(body)[k].inList = TRUE
    <3>1. (IF inList THEN out ELSE Append(out, ul)) = out \o A
      BY <1>3, <1>7, <1>8, <2>3
    <3>2. PICK r : r = RenderLines(body)[i]
      OBVIOUS
    <3>3. r.out = out /\ r.inList = inList
      BY <1>2, <3>2
    <3>4. /\ RenderItem(r, k).out = (IF inList THEN out ELSE Append(out, ul)) \o <<p>>
          /\ RenderItem(r, k).inList = TRUE
      BY <1>6, <1>9, <3>3 DEF RenderItem
    <3>5. RenderLines(body)[k] = RenderItem(r, k)
      BY <1>4, <1>9, <3>2 DEF RenderLine
    <3> QED
      BY <3>1, <3>4, <3>5
  <2>8. HTMLUpTo(body)[k] = ((out \o A) \o <<p>>) \o Z
    <3>1. out \o A \in Seq(Pieces) /\ A \o <<p>> \in Seq(Pieces)
      BY <1>3, <1>8, <2>5
    <3>2. out \o ((A \o <<p>>) \o Z) = (out \o (A \o <<p>>)) \o Z
      BY <1>3, <1>8, <2>5, <3>1
    <3>3. out \o (A \o <<p>>) = (out \o A) \o <<p>>
      BY <1>3, <1>8, <2>5
    <3> QED
      BY <1>5, <2>2, <2>6, <3>2, <3>3
  <2>9. PICK s : s = (out \o A) \o <<p>>
    OBVIOUS
  <2>10. s \in Seq(Pieces)
    BY <1>3, <1>8, <2>5, <2>9
  <2>11. s \o Z = (IF IsItem(body, k + 1) THEN s ELSE Append(s, end)) /\ s \o Z \in Seq(Pieces)
    BY <1>7, <1>8, <2>4, <2>5, <2>10
  <2> QED
    BY <1>0, <1>6, <2>1, <2>7, <2>8, <2>9, <2>10, <2>11 DEF Matches
<1>10. CASE body[k] # "item"
  <2>1. ~IsItem(body, k)
    BY <1>10 DEF IsItem
  <2>2. Flushed(RenderLines(body)[i]) = html
    BY <1>2, <1>3, <1>6, <2>1 DEF Flushed
  <2>3. PICK B : B = IF k > 1 THEN <<br>> ELSE <<>>
    OBVIOUS
  <2>4. B \in Seq(Pieces) /\ <<p>> \in Seq(Pieces)
    BY <1>3, <1>7, <1>8, <2>3
  <2>5. HTMLOf(body, k) = B \o <<p>>
    BY <1>6, <2>1, <2>3 DEF HTMLOf
  <2>6. /\ RenderLines(body)[k].out = (html \o B) \o <<p>>
        /\ RenderLines(body)[k].inList = FALSE
    BY <1>4, <1>6, <1>10, <2>2, <2>3 DEF RenderLine, RenderOther
  <2>7. HTMLUpTo(body)[k] = (html \o B) \o <<p>>
    <3>1. html \o (B \o <<p>>) = (html \o B) \o <<p>>
      BY <1>3, <1>8, <2>4
    <3> QED
      BY <1>5, <2>5, <3>1
  <2>8. (html \o B) \o <<p>> \in Seq(Pieces)
    BY <1>3, <1>8, <2>4
  <2> QED
    BY <1>0, <2>1, <2>6, <2>7, <2>8 DEF Matches
<1> QED
  BY <1>9, <1>10

\* For a body of any length.
LEMMA RenderedIsPromised ==
  ASSUME NEW body \in Seq(Kinds)
  PROVE  RenderBody(body) = HTML(body)
<1> DEFINE n == Len(body)
           S == {i \in Nat : i <= n => Matches(body, i)}
<1>1. n \in Nat
  OBVIOUS
<1>2. 0 \in S
  <2>1. RenderLines(body)[0] = NothingWritten /\ HTMLUpTo(body)[0] = <<>>
    BY <1>1, RenderLinesUnfolds, HTMLUnfolds
  <2>2. ~IsItem(body, 0)
    BY DEF IsItem
  <2>3. <<>> \in Seq(Pieces) /\ NothingWritten.out = <<>> /\ NothingWritten.inList = FALSE
    BY DEF NothingWritten
  <2>4. Matches(body, 0)
    BY <2>1, <2>2, <2>3 DEF Matches
  <2> QED
    BY <2>4
<1>3. ASSUME NEW i \in Nat, i \in S PROVE i + 1 \in S
  BY <1>1, <1>3, MatchesStep
<1>4. Matches(body, n)
  <2> HIDE DEF S
  <2>1. n \in S
    BY <1>1, <1>2, <1>3, InductiveSet
  <2> QED
    BY <1>1, <2>1 DEF S
<1>5. ~IsItem(body, n + 1)
  BY <1>1 DEF IsItem
<1>6. HTMLUpTo(body)[n] = Flushed(RenderLines(body)[n])
  BY <1>4, <1>5 DEF Matches, Flushed
<1> QED
  BY <1>6 DEF RenderBody, HTML, Finished

\* Every question and every answer that is stored is shown as the package's comment
\* says, whatever lines it has and however many.
THEOREM EachLineIsRendered == ConversationSpec => []RendersEachLine
<1>1. LinesOK => RendersEachLine
  BY RenderedIsPromised DEF LinesOK, RendersEachLine
<1> QED
  BY <1>1, LinesInvariant, PTL
=============================================================================
