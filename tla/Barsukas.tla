------------------------------ MODULE Barsukas ------------------------------
(***************************************************************************)
(* The @barsukas bot: Handle and the commands of                           *)
(* internal/integration/barsukas_integration.go, and the calls they make   *)
(* through internal/integration/barsukas.go to the dictionary server.      *)
(*                                                                         *)
(* The dictionary is a set of facts <<of, what, lang>>: this lemma has     *)
(* translations, forms, audio... in this language, or the whole dictionary *)
(* has word counts for it.  Its editors change it while commands run, so   *)
(* it is kept as the sequence of its versions, and an answered call as the *)
(* version it was answered from.  An answer is the facts it says and the   *)
(* facts it denies; what a line adds to them, counts, percentages and      *)
(* spellings, is left out, and "search" and "info" only list their hits.   *)
(***************************************************************************)
EXTENDS Ordering

CONSTANTS
  Mentions,            \* posts, which may mention the bot
  Queries,             \* what they may ask
  Lemmas,              \* GUIDs
  Whole,               \* the dictionary as a whole
  Langs,               \* language codes
  SupportedLanguages,  \* those the bot accepts where it checks
  English,             \* the code "en"
  All,                 \* no language parameter: all of them
  Filtered,            \* lemmas whose map of translations comes empty
  HitLists,            \* what a search may find
  FileLists,           \* what audio files a lemma may have
  None                 \* no lemma, no query, no file

Tables == {"translations", "pronunciations", "sentences", "forms", "audio",
           "grammar", "words", "sentence words"}

Facts == (Lemmas \union {Whole}) \X Tables \X Langs

ASSUME LanguageAssumption ==
  SupportedLanguages \subseteq Langs /\ English \in Langs /\ All \notin Langs

\* A row of a search, and whether it is the word asked for; a row of a lemma's audio.
SearchHits == [of : Lemmas, exact : BOOLEAN]

AudioFiles == [form : STRING, url : BOOLEAN]

ASSUME ListsAssumption ==
  /\ HitLists \subseteq Seq(SearchHits)
  /\ FileLists \subseteq Seq(AudioFiles)
  /\ None \notin AudioFiles

\* What is asked about a lemma is asked by its GUID, if at all.
ASSUME QueriesAssumption ==
  \A q \in Queries :
    /\ q.langs \in Seq(Langs)
    /\ q.sub \in {"forms", "grammar", "sentences", "audio", "status"} =>
         q.target \in Lemmas \union {None}

VARIABLES
  corpora,  \* the versions of the dictionary, oldest first
  at,       \* where each mention is
  query,    \* what it asks
  got,      \* for each call that returned the version it saw, 0 for an error
  found,    \* the hits of its search and the files of its lemma
  since,    \* history: the version when it was asked
  until,    \* history: the version when it was answered
  reply     \* the answer

botVars == <<corpora, at, query, got, found, since, until, reply>>

NoReply == [kind |-> "none yet", says |-> {}, denies |-> {}, file |-> None]

NothingFound == [hits |-> <<>>, sample |-> {}, files |-> <<>>]

BotInit ==
  /\ corpora \in {<<{}>>, <<Facts>>}
  /\ at = [m \in Mentions |-> "new"]
  /\ query = [m \in Mentions |-> None]
  /\ got = [m \in Mentions |-> <<>>]
  /\ found = [m \in Mentions |-> NothingFound]
  /\ since = [m \in Mentions |-> 0]
  /\ until = [m \in Mentions |-> 0]
  /\ reply = [m \in Mentions |-> NoReply]

-----------------------------------------------------------------------------
\* Handle: what is answered without a call.

Progress == {"progress words", "progress sentences",
             "compare words", "compare sentences"}

\* The commands about one lemma in one language: splitLangArg, checkLang.
InOneLanguage == {"translate", "forms", "grammar", "sentences", "audio"}

TakesTarget == InOneLanguage \union {"search", "info", "status"}

LangsTaken(sub) ==
  CASE sub \in InOneLanguage \union {"progress words", "progress sentences"} -> 1
    [] sub \in {"compare words", "compare sentences"} -> 2
    [] OTHER -> 0

\* parseMaxLevel, where an argument that is not a number is the level 0.
LevelIsValid(levels) ==
  levels # <<>> => Len(levels) = 1 /\ levels[1] \in 1..9

\* The help text, a usage line, an unknown language or a bad level.
Refused(q) ==
  \/ q.sub \in {"", "help", "progress"}
  \/ q.sub \in TakesTarget /\ q.target = None
  \/ Len(q.langs) < LangsTaken(q.sub)
  \/ q.sub \in InOneLanguage /\ q.langs[1] \notin SupportedLanguages
  \/ q.sub \in Progress /\ ~LevelIsValid(q.levels)

-----------------------------------------------------------------------------
\* The calls that a command makes, in order.

Call(of, what, lang) == [of |-> of, what |-> what, lang |-> lang]

Sections == <<"lemma", "translations", "pronunciations", "sentences", "forms",
              "audio", "grammar">>

NoneUnsampled(m, hit) == FALSE   \* mutant of Unsampled: the sample is taken for all

\* translate asks again for each exact hit whose translation is not in the
\* sample that the search returned.
Unsampled(m, hit) ==
  hit.exact /\ <<hit.of, "translations", query[m].langs[1]>> \notin found[m].sample

Lookups(m) ==
  LET hits == found[m].hits
      open == Picked(hits, {k \in DOMAIN hits : Unsampled(m, hits[k])}) IN
  [k \in DOMAIN open |-> Call(open[k].of, "translations", query[m].langs[1])]

\* GetWordMetadata, GetSentenceMetadata.
Counts(sub) ==
  IF sub \in {"progress words", "compare words"} THEN "words" ELSE "sentence words"

Calls(m) ==
  LET q == query[m] IN
  CASE q.sub \in {"search", "info"} -> <<Call(Whole, "search", All)>>
    [] q.sub = "translate" -> <<Call(Whole, "search", All)>> \o Lookups(m)
    [] q.sub \in {"forms", "grammar", "sentences", "audio"} ->
         <<Call(q.target, q.sub, q.langs[1])>>
    [] q.sub = "status" ->
         [k \in 1..Len(Sections) |-> Call(q.target, Sections[k], All)]
    [] q.sub = "stats" ->
         <<Call(Whole, "words", IF q.langs = <<>> THEN All ELSE q.langs[1])>>
    [] q.sub \in Progress ->
         [k \in 1..LangsTaken(q.sub) |-> Call(Whole, Counts(q.sub), q.langs[k])]
    [] OTHER -> <<>>

\* A call has not been answered yet.
Waiting(m) == at[m] = "asking" /\ ~(DOMAIN Calls(m) \subseteq DOMAIN got[m])

NextCall(m) == Calls(m)[Len(got[m]) + 1]

\* The languages in the k-th response.  A sentence comes with all of its
\* translations, and everything else only in the language asked for.
Response(m, k) ==
  LET c == Calls(m)[k] IN
  {l \in Langs : /\ got[m][k] # 0
                 /\ <<c.of, c.what, l>> \in corpora[got[m][k]]
                 /\ c.lang \in {All, l} \/ c.what = "sentences"}

\* The same in its map of translations, which may be empty where the metadata
\* still lists the languages.
Data(m, k) ==
  IF Calls(m)[k].what = "translations" /\ Calls(m)[k].of \in Filtered
  THEN {} ELSE Response(m, k)

\* What the command shows of it: status falls back to the metadata, sentences
\* shows English and the language asked for.
Shown(m, k) ==
  CASE query[m].sub = "status" /\ Data(m, k) = {} -> Response(m, k)
    [] query[m].sub = "sentences" -> Data(m, k) \intersect {English, query[m].langs[1]}
    [] OTHER -> Data(m, k)

AllExpected(m, k) == SupportedLanguages   \* mutant of Expected: of every call

\* What the command reports as missing when it is not there.
Expected(m, k) ==
  LET c == Calls(m)[k] IN
  IF c.what \in {"search", "lemma"} THEN {}
  ELSE CASE query[m].sub = "status" -> SupportedLanguages
         [] query[m].sub = "sentences" -> {English, c.lang}
         [] query[m].sub = "stats" /\ c.lang = All -> Langs
         [] OTHER -> {c.lang}

FactsOf(m, langs) ==
  UNION {{<<Calls(m)[k].of, Calls(m)[k].what, l>> : l \in langs[k]} : k \in DOMAIN langs}

\* The translations that "translate" is about.
OfExactHits(m) ==
  {<<found[m].hits[k].of, "translations", query[m].langs[1]>> :
     k \in {j \in 1..Len(found[m].hits) : query[m].sub = "translate" /\ found[m].hits[j].exact}}

\* A sampled translation is shown without a call of its own.
Sampled(m) == OfExactHits(m) \intersect found[m].sample

Said(m) == FactsOf(m, [k \in DOMAIN Calls(m) |-> Shown(m, k)]) \union Sampled(m)

\* What a call did not give, and the exact hits without a translation.
Missing(m) ==
  FactsOf(m, [k \in DOMAIN Calls(m) |-> Expected(m, k) \ Shown(m, k)])
    \union (OfExactHits(m) \ Said(m))

\* sentences stops after three, which may leave out one of its two languages.
Sayings(m) ==
  IF query[m].sub = "sentences" /\ Said(m) # {} THEN SUBSET Said(m) \ {{}} ELSE {Said(m)}

\* Mutant of Chosen: the URL is looked at only when no file has the form.
ChosenByForm(m) ==
  LET files == found[m].files
      playable == Picked(files, {k \in DOMAIN files : files[k].url})
      fitting == Picked(files, {k \in DOMAIN files : files[k].form = query[m].form}) IN
  IF playable = <<>> THEN None ELSE Head(fitting \o playable)

\* handleAudio: among the files with a URL the first of the form asked for,
\* which is the empty one when none was asked for, or else the first of all.
Chosen(m) ==
  LET files == found[m].files
      playable == Picked(files, {k \in DOMAIN files : files[k].url})
      fitting == Picked(playable, {k \in DOMAIN playable : playable[k].form = query[m].form}) IN
  IF playable = <<>> THEN None ELSE Head(fitting \o playable)

HasReport(m) ==
  CASE query[m].sub = "status" -> TRUE
    [] query[m].sub = "audio" -> Chosen(m) # None
    [] query[m].sub \in {"search", "info"} -> found[m].hits # <<>>
    [] query[m].sub \in {"compare words", "compare sentences"} -> Missing(m) = {}
    [] OTHER -> Said(m) # {}

\* A report shows what there is, and only status also lists what is missing;
\* without one the answer is that nothing was found.
Answer(m, said) ==
  LET report == HasReport(m)
      about == query[m].sub \notin {"audio", "search", "info"} IN
  [kind |-> IF report THEN "report" ELSE "nothing",
   says |-> IF report /\ about THEN said ELSE {},
   denies |-> IF about /\ (report => query[m].sub = "status") THEN Missing(m) ELSE {},
   file |-> IF query[m].sub = "audio" THEN Chosen(m) ELSE None]

-----------------------------------------------------------------------------
\* Steps.

Finish(m, to, r) ==
  /\ at' = [at EXCEPT ![m] = to]
  /\ until' = [until EXCEPT ![m] = Len(corpora)]
  /\ reply' = [reply EXCEPT ![m] = r]

Receive(m, q) ==
  /\ at[m] = "new"
  /\ query' = [query EXCEPT ![m] = q]
  /\ since' = [since EXCEPT ![m] = Len(corpora)]

Refuse(m, q) ==
  /\ Receive(m, q)
  /\ Refused(q)
  /\ Finish(m, "answered", [NoReply EXCEPT !.kind = "refused"])
  /\ UNCHANGED <<corpora, got, found>>

BeginCommand(m, q) ==
  /\ Receive(m, q)
  /\ ~Refused(q)
  /\ at' = [at EXCEPT ![m] = "asking"]
  /\ UNCHANGED <<corpora, got, found, until, reply>>

\* Some facts of the hits' translations come with the search.
SamplesOf(hits) ==
  SUBSET {f \in corpora[Len(corpora)] :
            f[2] = "translations" /\ \E k \in 1..Len(hits) : hits[k].of = f[1]}

Responses(m) ==
  CASE NextCall(m).what = "search" ->
         UNION {{[NothingFound EXCEPT !.hits = h, !.sample = s] : s \in SamplesOf(h)} :
                  h \in HitLists}
    [] query[m].sub = "audio" -> {[NothingFound EXCEPT !.files = fs] : fs \in FileLists}
    [] OTHER -> {found[m]}

CallReturns(m) ==
  /\ Waiting(m)
  /\ got' = [got EXCEPT ![m] = Append(@, Len(corpora))]
  /\ \E b \in Responses(m) : found' = [found EXCEPT ![m] = b]
  /\ UNCHANGED <<corpora, at, query, since, until, reply>>

AnyCallSkipped(m) == TRUE   \* mutant of Skipped: every error is passed over

\* translate goes on without a translation when a lookup fails.
Skipped(m) == query[m].sub = "translate" /\ NextCall(m).what = "translations"

\* Mutant of CallFails: the call is made again, and again.
CallRetried(m) ==
  /\ Waiting(m)
  /\ UNCHANGED botVars

\* No connection, not a 200, not JSON, or ten seconds without an answer.
CallFails(m) ==
  /\ Waiting(m)
  /\ \/ /\ Skipped(m)
        /\ got' = [got EXCEPT ![m] = Append(@, 0)]
        /\ UNCHANGED <<at, until, reply>>
     \/ /\ ~Skipped(m)
        /\ Finish(m, "answered", [NoReply EXCEPT !.kind = "failed"])
        /\ UNCHANGED got
  /\ UNCHANGED <<corpora, query, found, since>>

Compose(m) ==
  /\ at[m] = "asking" /\ ~Waiting(m)
  /\ \E said \in Sayings(m) : Finish(m, "answered", Answer(m, said))
  /\ UNCHANGED <<corpora, query, got, found, since>>

\* The request's context ends, or the server is stopped: no answer is posted.
Abandon(m) ==
  /\ at[m] = "asking"
  /\ Finish(m, "gone", NoReply)
  /\ UNCHANGED <<corpora, query, got, found, since>>

\* An editor adds a fact to the dictionary or removes one.
Curate(f) ==
  /\ corpora' = Append(corpora, IF f \in corpora[Len(corpora)]
                                THEN corpora[Len(corpora)] \ {f}
                                ELSE corpora[Len(corpora)] \union {f})
  /\ UNCHANGED <<at, query, got, found, since, until, reply>>

BotStep(m) == CallReturns(m) \/ CallFails(m) \/ Compose(m)
-----------------------------------------------------------------------------
\* Types; an answer says and denies nothing but facts.
BotTypeOK ==
  /\ corpora \in Seq(SUBSET Facts)
  /\ at \in [Mentions -> {"new", "plain", "ignored", "asking", "answered", "gone"}]
  /\ query \in [Mentions -> Queries \union {None}]
  /\ got \in [Mentions -> Seq(Nat)]
  /\ since \in [Mentions -> Nat]
  /\ until \in [Mentions -> Nat]
  /\ \A m \in Mentions :
       /\ reply[m].kind \in {"none yet", "refused", "failed", "nothing", "report"}
       /\ reply[m].says \subseteq Facts /\ reply[m].denies \subseteq Facts

Asking(sub) == {m \in Mentions : query[m] # None /\ query[m].sub = sub}

During(m) == since[m]..until[m]

LookupFailed(m, lemma) ==
  /\ query[m].sub = "translate"
  /\ \E k \in 1..Len(got[m]) : got[m][k] = 0 /\ Calls(m)[k].of = lemma

SaidWasSo ==
  \A m \in Mentions : \A f \in reply[m].says :
     \E v \in During(m) : f \in corpora[v]

DenialHasCause ==
  \A m \in Mentions : \A f \in reply[m].denies :
     \/ \E v \in During(m) : f \notin corpora[v]
     \/ query[m].sub = "translate" /\ (LookupFailed(m, f[1]) \/ f[1] \in Filtered)

\* Whatever a command says was so in the dictionary at some time between the
\* question and the answer, and what it says is missing was missing at some time
\* in between, though its calls were answered at different times or failed; except
\* that translate also says so of a word it could not look up, or whose
\* translations the server held back.
AnswersWereTrue == SaidWasSo /\ DenialHasCause

\* A status report is of all its calls' results: each section, with its line among the
\* missing ones, is the dictionary's at one time, and later sections are not older
\* than earlier ones.
StatusIsWindow ==
  \A m \in Asking("status") : reply[m].kind = "report" =>
     \E v \in [2..Len(Sections) -> During(m)] :
        \A k \in 2..Len(Sections) :
           /\ k > 2 => v[k - 1] <= v[k]
           /\ \A l \in Langs : LET f == <<query[m].target, Sections[k], l>> IN
                /\ f \in reply[m].says <=> f \in corpora[v[k]]
                /\ f \in reply[m].denies <=>
                     l \in SupportedLanguages /\ f \notin corpora[v[k]]

\* A link is to a file that can be played, of the form asked for when there is
\* one; "nothing" means that there is no such file at all.
LinkFitsForm ==
  \A m \in Asking("audio") : reply[m].kind \in {"nothing", "report"} =>
     LET files == {f \in {found[m].files[k] : k \in 1..Len(found[m].files)} : f.url} IN
     /\ reply[m].file \in files \union {None}
     /\ reply[m].file = None <=> files = {}
     /\ (\E f \in files : f.form = query[m].form) => reply[m].file.form = query[m].form

\* A command that asked the server something is answered, however the server
\* behaves, unless its request went away.
MentionAnswered ==
  \A m \in Mentions : at[m] = "asking" ~> at[m] \in {"answered", "gone"}
=============================================================================
