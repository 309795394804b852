SPECIFICATION FairConversationSpec
CONSTANTS
  Mentions = {m1}
  g1 = g1
  g2 = g2
  en = en
  lt = lt
  la = la
  whole = whole
  None = None
  All = All
  Whole = whole
  English = en
  Lemmas = {g1, g2}
  Langs <- Languages
  SupportedLanguages <- Supported
  Queries <- SomeQueries
  HitLists <- SomeHits
  FileLists <- SomeFiles
  Filtered <- FilteredLemmas
  MaxVersions = 2
  MaxLines = 4
  MaxKeys = 2
ACTION_CONSTRAINT OneProcess
CHECK_DEADLOCK FALSE
INVARIANTS
  ConversationTypeOK
  AnswersWereTrue
  StatusIsWindow
  LinkFitsForm
  RendersEachLine
  RestartsKeepKey
  BotAccountIsRight
PROPERTY MentionAnswered
