--------------------------- MODULE ConversationMC ---------------------------
(***************************************************************************)
(* Conversation on a small instance: one mention, two lemmas, two          *)
(* supported languages and one that is not.  What the server does is       *)
(* explored in full until a command begins, and the command in one         *)
(* process, which may stop at any time.                                    *)
(***************************************************************************)
EXTENDS Conversation, TLC

CONSTANTS g1, g2, en, lt, la, whole

Languages == {en, lt, la}
Supported == {en, lt}

Ask0(sub) == [sub |-> sub, target |-> None, langs |-> <<>>, levels |-> <<>>, form |-> ""]
AskFor(sub, target) == [Ask0(sub) EXCEPT !.target = target]
AskIn(sub, target, lang) == [AskFor(sub, target) EXCEPT !.langs = <<lang>>]
AskAbout(sub, langs, levels) == [Ask0(sub) EXCEPT !.langs = langs, !.levels = levels]

SomeQueries == {
  Ask0("help"), Ask0("search"), AskFor("search", "a word"), AskFor("info", "a word"),
  AskIn("translate", "a word", lt), AskIn("translate", "a word", la),
  AskIn("forms", g1, lt), AskIn("grammar", g1, la), AskIn("sentences", g1, lt),
  AskIn("audio", g1, lt), AskIn("audio", g1, la),
  [AskIn("audio", g1, lt) EXCEPT !.form = "plural"],
  AskFor("status", g1), Ask0("stats"), AskAbout("stats", <<la>>, <<>>),
  AskAbout("progress words", <<lt>>, <<9>>), AskAbout("progress words", <<lt>>, <<10>>),
  AskAbout("progress sentences", <<la>>, <<>>),
  AskAbout("compare words", <<lt, en>>, <<1>>), AskAbout("compare words", <<lt, lt>>, <<>>),
  AskAbout("compare sentences", <<lt, la>>, <<>>),
  AskAbout("compare sentences", <<lt>>, <<>>)}

Hit(of, exact) == [of |-> of, exact |-> exact]
SomeHits == {<<>>, <<Hit(g1, TRUE)>>, <<Hit(g2, FALSE), Hit(g1, TRUE)>>,
             <<Hit(g1, TRUE), Hit(g2, TRUE)>>}

File(form, url) == [form |-> form, url |-> url]
SomeFiles == {<<>>, <<File("", FALSE)>>, <<File("plural", TRUE), File("", TRUE)>>,
              <<File("", FALSE), File("singular", TRUE), File("plural", TRUE)>>}

FilteredLemmas == {g1}

Settled == \E m \in Mentions : query[m] # None

\* Bound: commands begin in one kind of process, and afterwards the server only
\* stops.
OneProcess ==
  /\ ~Settled /\ Settled' => scripted /\ drawn = 1 /\ given = 1 /\ lookup.migrated
  /\ Settled => UNCHANGED startVars \/ stage' = "down"
=============================================================================
