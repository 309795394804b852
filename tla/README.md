# Knoblauch: a verification development

Knoblauch is a small chat server: one Go process with a Postgres database, HTML
pages, and one piece of JavaScript on each channel page. This directory holds
TLA+ specifications of it, the TLC configurations that check them on small
instances, and proofs, checked by TLAPS, that the core of it is right for every
size of its parameters. Everything here is translated from the source; paths
below are relative to the repository.

    tlc -workers 2 -config Broker.cfg BrokerMC.tla        # one run
    tlapm PostPipelineProofs.tla                          # the proofs of a module

`PROJECT.json` lists the runs with their modules, and which lines of the source
each definition stands for.

## 1. The system

| component | state it keeps | operations | talks to |
|---|---|---|---|
| SSE broker (`internal/handler/handler.go:89-120`) | `subscribers`: channel to Go channels of 16 slots, under one mutex | `subscribe`, `unsubscribe`, `broadcast`, the loop of `handleSSE` | called by posts and by event-stream requests |
| messages table (`internal/db/queries.go:161-275`, `migrations/001`) | rows with id, created_at, channel | `PostMessage`, `RecentMessages`, `MessagesBefore`, `MessagesSinceID` | every handler, through a pool of connections |
| post pipeline (`handler.go:256-319`) | where each request is | `handlePost`, `dispatchIntegration` | table, then broker, then integration, table and broker again |
| channel page (`static/js/chat.js`, `handler.go:211-254, 321-425`) | rows on the page, `lastID`, `oldestID`, stream or polling | page load, event stream, poll, load older | the four GET handlers |
| accounts (`handler.go:153-209`, `queries.go:14-81`) | `users` table | register, login, logout | table, session cookies |
| sessions (`internal/handler/session.go`, `cmd/knoblauch/main.go:35-52`) | nothing on the server but the secret; a signed cookie in each browser | sign, verify, set, clear | every handler |
| Google sign-in (`internal/handler/google_auth.go`) | `oauth_state` cookie in each browser | login, callback | Google, `UpsertGoogleUser` |
| settings (`internal/handler/settings.go`) | three columns of `users` | save, read back | table |
| audio proxy (`internal/handler/audio.go`, `internal/integration/audio_token.go`) | nothing; signed links live in stored messages | sign a link, verify it, fetch and copy | upstream server, client |
| markup (`internal/markup/markup.go`) | none | `RenderBody` | `PostMessage` and the message queries |
| integration registry (`internal/integration/registry.go`, `handler.go:40-87`) | name to integration; name to system user | register at start, parse a mention, dispatch | the post pipeline, the `users` table |
| Barsukas commands (`internal/integration/barsukas_integration.go`) | none; the dictionary is elsewhere and changes | help, search, info, translate, forms, grammar, sentences, audio, status, stats, progress, compare | the client, the audio links |
| Barsukas client (`internal/integration/barsukas.go`) | none | one HTTP GET for each call, ten seconds at most | the dictionary server |
| channels (`handler.go:427-487`) | `channels` table, unique names | list, create | table |
| start (`main.go`, `internal/db/db.go`, `launch.sh`, `restart.sh`, migration 003) | stage of the process, secret, `keys/session.key`, the bot's row | build, start, restart, fail, migrate | all |

A post goes like this. `handlePost` checks the request, inserts the row, hands
it to `broadcast`, and calls `dispatchIntegration`; if the body mentions a
registered integration, its answer is inserted and broadcast by the same
handler. `broadcast` walks the Go channels registered for the chat channel and
sends without blocking. Each open page has a `handleSSE` loop that takes
messages from its Go channel and writes them as events. A page starts from the
newest 50 rows, listens to events, falls back for good to a poll every three
seconds when its stream breaks, and fetches older rows with a button. The bot
answers inside the request of its mention: its command calls the dictionary
server up to seven times, and what the editors change in between is in the
later calls only.

What is hard about it:

- every request is a goroutine of its own, and only the broker has a lock; the
  insert and the broadcast of a message are separate steps;
- three orders of messages exist (id, created_at, order of becoming visible)
  and a fourth, of broadcasts; nothing ties them together, and the queries of a
  page use different ones;
- a slow client loses messages, a broken stream is not resumed, polls overlap;
- clients go away in the middle of a statement, and the process is restarted by
  killing it;
- sessions and audio links are signed values that outlive the process which
  signed them, and the tabs of a browser share one cookie jar;
- `users` has three ways to a conflict: username, Google id, and both; and
  `channels` has one, which two makers at the same time may run into;
- a command's calls are answered at different times by a server that others
  edit, any of them may fail, and the commands differ in what they then do;
- the bot's account is looked up once, at start, and may be another's row, be
  missing, or come later by a migration.

What makes each part correct is stated by its properties in section 3; section
7 says what is left.

## 2. Modules

`EXTENDS` goes from left to right; what is in parentheses is extended too:

    Chat ── Broker ────────┐
      │                    ├── PostPipeline ── LiveChannel ── LiveChannelMC
      └──── MessageTable ──┘        │              ┆ implements
                                    │             Feed
                              PostPipelineMC
    Startup ──┐
    Barsukas ─┼── Conversation ── ConversationMC
    Markup ───┘
    Profile ──────┬── PagesMC
    ChannelList ──┘
    Accounts ── AccountsMC        AudioProxy ── AudioProxyMC

    Ordering is extended by MessageTable and Barsukas.

    proofs:  BrokerProofs ── PostPipelineProofs ── LiveChannelProofs
             OrderingProofs ──┬── LiveChannelProofs
                              └── ConversationProofs
             AccountsProofs  AudioProxyProofs  FormsProofs

| module | models | how state and actions correspond |
|---|---|---|
| `Chat` | `internal/model` | channels and messages; a message is named by the `PostMessage` call that inserts it |
| `Ordering` | ORDER BY, and loops that keep part of a list | `SortedBy` is the list of a set's elements by increasing key, `Picked` what stands at some places of a list, in its order |
| `Broker` | the broker and `handleSSE` | `subscribers` is the map; `queue` the contents of each Go channel; `loop` the place of each `handleSSE` call; `Subscribe`, `Broadcast`, `WriteEvent`, `LeaveLoop`, `Unsubscribe` are one critical section or one loop iteration each; `BrokerCrash` is the process dying |
| `MessageTable` | the messages table | an INSERT is `Begin` (created_at fixed), `Number` (id drawn), `Commit` or `Abort`; the three queries are operators on the committed rows |
| `PostPipeline` | `handlePost`, `dispatchIntegration` | `pc` is the place in the handler; `CallAbandoned` is `PostMessage` returning an error while its statement lives on; `ServerCrash` kills all handlers and the broker but not the statements; what the bot does is one step |
| `Feed` | the abstract promise to a reader | messages are only added; a page belongs to one channel and shows stored messages of it, which stay |
| `LiveChannel` | `chat.js` and the GET handlers | `view`, `lastID`, `oldestID`, `older` are the page's list, variables and button; each fetch is a send, a query and an arrival, or is lost |
| `Accounts` | accounts, sessions, Google sign-in | `cookie` and `oauthState` are the cookie jar of a browser; a login is a request whose cookies take effect when its response arrives, which may be after the process that wrote it was killed (`late`); one through Google spans two requests, and a callback that got nothing may be tried again (`Retry`) |
| `Profile` | `handleSettingsUpdate` | UPDATE and read-back are separate steps |
| `ChannelList` | `handleNewChannel`, `CreateChannel` | an INSERT holds the name until it commits or fails; a second one of the name waits; then comes the list of the form's page, or the redirect and the new channel's page |
| `AudioProxy` | links and `handleAudioProxy` | `secret` is the running server's, the configured one or one of its own; `mac` is the key that a link's MAC was made with, derived by `audioMACKey` and compared by `Verifies`; the copy alternates reads and writes |
| `Markup` | `RenderBody` | its loop is a recursive function of the lines read so far; the reference definition `HTML` says of each line by itself what it becomes |
| `Startup` | `restart.sh`, `launch.sh`, `main`, `db.Open`, `RegisterIntegration`, migration 003 | `stage` is how far the process is; `botName` and `botUser` are the registry and `systemUserIDs`; `fileThere`, `keyFile` and `account` outlive it; `launch.sh` makes the key file and fills it, or makes it and fails (`GenerateFails`) |
| `Barsukas` | the bot's `Handle` and commands, the client | `Calls` is the list of calls that a command makes; `got` the version of the dictionary that each was answered from; `Answer` what the command makes of them |
| `Conversation` | mentions of a running server | a mention is stored, ignored, refused or asked; editors change the dictionary; a server that stops takes its requests with it; posts and answers are rendered |

Abstractions, and why they lose nothing:

- **The broker's slice is a set.** Every stream has a fresh Go channel, and the
  walk in `broadcast` sends to all of them under the mutex, so positions in the
  slice cannot be told apart. The walk is one step: a receive that runs beside
  it commutes with the sends to the other streams.
- **The keep-alive tick** writes a comment and changes no modelled state.
- **created_at is distinct and the clock monotonic.** With equal times Postgres
  may return either row first; the model does not go into that.
- **A row's place in time**: in Postgres NOW() is the start of the transaction,
  nextval runs when the row is formed, and visibility comes with the commit.
  That the three may interleave between statements is the point of the module.
- **Bodies, names, tokens** are model values; a password stands for its hash.
  An email is only what `deriveUsername` makes of it, as nothing reads the
  stored one. In `Accounts` the row that the migration makes for the bot is left
  out of `users`: its name is taken and nobody can sign in as it. Someone who had
  registered the name before is a row like any other there, as the migration only
  sets `is_system` on it and no handler of sign-ins reads that. Who gets the name
  first is in `Startup`.
- **An oauth_state cookie** names the login that set it.
- **A page is named by its stream** because it opens at most one; a reload is a
  new page. A page that is closed just takes no more steps.
- **The audio deadline** is enabled while the request can notice it: during
  `Do` and reads of the body. A `Write` to the client is not interrupted by it.
- **The dictionary is a set of facts**, "this lemma has forms in this language",
  and its versions. An answered call is kept as the version that it was answered
  from: what it returned is then a function of the call. An answer is the facts
  it says and the facts it denies. How many forms there are, how they are spelt
  and what share of the words they make is left out: no command decides anything
  by it except whether it is nothing.
- **The client's errors are one**: no connection, a status that is not 200, JSON
  that does not parse and the timeout all come back as an error from the call.
- **A line of a body is its kind**: an item, an audio link or text.
- **Names of channels and the unique index**: an INSERT of a name whose other
  INSERT is open waits, as in Postgres; the characters of a name are left out.

## 3. Runs

Every property has, in `PROJECT.json`, a mutant of the code under which its run
fails; mutants are defined in the modules next to what they change and are used
nowhere else.

| run | instance | shows |
|---|---|---|
| `broker` | 2 channels, 2 streams, buffers of 2, 5 broadcasts | `Registered`: the map lists exactly the live streams. `StreamOrder`: own channel, once, in broadcast order. `Accounted`: while registered, each broadcast was sent or overflowed. `FirstCapNeverDropped`: no loss among the first Cap |
| `post_pipeline` | 2 requests, each with or without an answer, 1 stream, buffer of 1, crashes | `OnlyCommittedBroadcast`, `BroadcastOnce`, `ReplyFollowsTrigger` (in all four orders), `QuestionBeforeAnswer` on a stream, `AcknowledgedIsPublished`; and with fairness `PostTerminates`: a request that reached the database ends although no stream is ever read |
| `live_channel` | 2 channels, 2 requests, 1 page, buffer 1, page size 1, 1 poll | `NoDuplicateRows`; `WatermarkIsShown`; `StreamLossHasCause` and `PollLossHasCause`: the complete list of ways a page can lack a stored message; `OlderIsExhaustive`: when the button goes, only a row whose id and created_at disagree can be missing; `ImplementsFeed`: refinement of `Feed`; types (`LiveTypeOK`, with those of the pipeline and the broker) |
| `polling` | 2 inserts, 2 overlapping polls, any of them lost, fairness | `NoDuplicateRows` and `PollLossHasCause` with answers out of order; `PollCatchesUp`: a row above the watermark is shown or passed |
| `accounts` | 2 browsers, 3 logins, 2 names, 1 password, 2 Google users, 2 addresses, at most 2 of the logins through Google, with any number of retries, 1 change of secret | `SessionNamesAccount`, `SessionIsEarned`, `AccountPerGoogleUser`, `StateRefusalHasCause`, and the action property `SignedInUntilCause` |
| `pages` | 2 users, 3 saves; 3 makers, 2 names | `VersionsAreSaves`: saves never mix. `SavedPageIsCurrent`. `MakersAreToldTruth`: one maker at most of a name is sent to its page and finds it, and "already exists" is so unless the database failed in that very request |
| `audio_proxy` | 2 links, 2 fetches, limit 2, sizes 0 to 3, 3 starts, each with the configured secret or a generated one | responses never exceed the limit (in `AudioTypeOK`); `DeadLinkHasCause`: a young link is refused only between two starts one of which generated its secret; with fairness of time `OnlyClientHoldsFetch`: an upstream that stalls holds nothing for ever |
| `conversation` | 1 mention, 22 queries, 2 lemmas, 2 supported languages and one more, 2 versions of the dictionary, 2 keys, posts of up to 4 lines | `AnswersWereTrue`: what an answer says was so, and what it denies was missing, between the question and the answer, but for two named cases of translate. `StatusIsWindow`: a report is of all calls, and its sections belong to versions in order. `LinkFitsForm`. `RendersEachLine`: the loop computes what the package's comment says. `RestartsKeepKey`: one key for all scripted starts unless the key file was left empty; `BotAccountIsRight` over starts, failures and the migration; with fairness `MentionAnswered`; types |

Four runs are expected to fail; each is a place where a comment says one thing
and the code does another (`findings` in `PROJECT.json`):

| run | comment | what happens |
|---|---|---|
| `sse_delivery` | `chat.js:112` "SSE delivers the message" | overflow drops it, and a page with an open stream never polls |
| `paging_order` | `chat.js:137` "final DOM order matches server-side chronological order" | older rows come in id order, and ids of concurrent inserts need not follow created_at |
| `upsert_collision` | `queries.go:66` "creates a new user ... or returns the existing one" | neither, when the name made from the address is another account's |
| `audio_deadline` | `audio.go:18` "the body copy itself is unbounded" | the context's deadline also ends reads of the body |

The types of `Accounts`, `Profile`, `ChannelList` and `PostPipeline` are proved
(section 4) and stated in no run of their own.

### Bounds

The bounds are chosen so that the interesting case happens and one more step
after it.

- Two streams are enough for one to be slow, leave or live on another channel
  while the other must not notice; buffers of 1 or 2 overflow within five
  broadcasts. In `post_pipeline` two requests with answers give four rows, and
  with them any disagreement of the four orders between two messages. The pages'
  runs have no answers: `live_channel` and `polling` have two rows, the least for
  which one overtakes, overflows or precedes another, and with a page size of one
  a first row and an older one; `paging_order` has three, as two rows must come
  by load-older in a wrong order. Two rows are few for a property of lists, and the
  runs do not stand alone in it: every property of `live_channel` is also proved
  for any number of messages and pages (section 4). One page is enough: pages
  share nothing but the database and the broker, and `broker` has two streams.
- Three logins are needed for two tabs of one browser and a competing browser,
  or for a session that a late answer of another tab replaces; two of them
  through Google (`MaxGoogle`) for one that overtakes another or races with it;
  three makers for one that waits behind another and one that comes after both.
- One mention is enough because a command reads nothing that another one writes:
  what it meets from outside is the editors, the dictionary server and the end of
  its process. Two versions (`MaxVersions`) are a before and an after, which may
  fall between any two calls, and an edit is of a fact that the command asks
  about (`Relevant`). The queries are each command with its branches: a language
  that is not supported, a level that is out of range, a missing argument.
- `MaxKeys = 2` lets a process without a secret draw a key between two starts by
  the script, and two scripted starts draw one each from an empty key file.
- `MaxStart = 3` has a start with a generated secret between two with the
  configured one, whose links must not suffer from it.
- `OneProcess` lets a command begin in one kind of process only, and then the server only stops: before that, starts are explored in full.
- `OneForm` takes the two forms of `pages` one at a time: they share no state.
- `MaxLines = 4` has every neighbourhood of a line: first, last, inside and
  between lists. The answers are rendered too.
- `MaxGoogle`, `MaxLog`, `MaxSecret`, `MaxStart`, `MaxVersions`, `MaxKeys` and
  `MaxLines` are all the counters bounded in guards, constraints or initial
  states; `MaxPolls` limits a page's polls on the way at once.

Where deadlock is switched off the system may really stop: every request has
been answered, no page is open, or, in `conversation`, the mention is answered,
the process is down and no key is left to draw.

### Fairness

- `post_pipeline`: weak fairness of each handler's own step (the Go scheduler)
  and of each statement (Postgres ends it). None of the streams, their loops or
  their clients: the property is that they are not needed.
- `polling`: weak fairness of sending (setInterval goes on) and strong
  fairness of serving and receiving (polls are sent again and again and the
  network is not down for ever; each may fail any finite number of times).
- `audio_proxy`: weak fairness of the deadline, that is, time passes. Nothing is
  assumed of the upstream or of the client; the property therefore excludes a
  fetch whose client does not read, which the code has no timeout for.
- `conversation`: weak fairness of a failing call, which is the client's timeout
  of ten seconds (`barsukas.go:38`), and of composing the answer, which is the
  running handler. That a call ever returns is not assumed. A restart ends the
  request instead, which `MentionAnswered` counts as its end.

## 4. Proofs

The eight proof modules hold for all values of the constants: any sets of
channels, streams, requests, browsers, logins, users, makers, mentions and
lemmas, any buffer size, page size and limit. They assume what the modules
assume, each assumption named where the constant is declared: `Cap`, the page
size and the limit are naturals, `NoChannel` is not a channel and the like, the
default profile is a profile, and in `Barsukas` that the lists of an answer
(`ListsAssumption`) and the words of a query (`QueriesAssumption`) are finite
sequences of what they should be. Each has an inductive invariant, a lemma for
each action (or for each conjunct that it disturbs), and theorems that read off
what matters. Every invariant that a passing run checks is stated by a theorem,
and so are its action properties and the refinement of `Feed`.

**Ordering.** A sorted list is chosen by what it is, so that it exists has to be
proved: an element's place is one more than the number of smaller ones
(`PlaceOrder`, `PlaceRange`, `PlacesAreTaken`), and these places are the list
(`SortedByKey`, `PickedInOrder`, `PickedElements`). The numbers of a set S of
naturals, sorted, also give a least one (`LeastNumber`), and with it induction in
the form that the provers can use, over a set instead of over a predicate
(`InductiveSet`: a set that has 0 and, with each natural number, the next one, has
them all).

**Broker.** `BrokerInvariant` proves that `BrokerInv` is inductive: the type
invariant, `Registered`, `Lifecycle`, `StreamOrder`, `Accounted` and
`FirstCapNeverDropped`. `Lifecycle` is the strengthening: a stream that has not
subscribed has nothing queued, written or dropped, and one that has knows a real
channel and a past position of the log. Without it `Subscribe` could start a
stream with leftovers.

**Post pipeline.** The core of `PipelineInv` is `HandlerInv`: what a handler's
place says of the rows it wrote and broadcast, and what nobody else's step
undoes. `TableInv` adds that ids are distinct and below the sequence, times below
the clock; `RepliesLater` that an answer is begun only when its question is
committed, so its id is drawn later. From them `OnlyCommittedBroadcast`,
`BroadcastOnce`, `ReplyFollowsTrigger` and `AcknowledgedIsPublished` follow step
by step. `PipelineUsesTheBroker` proves `PipelineSpec => BrokerSpec`: every step
of the pipeline is a step of the broker or leaves it alone, so everything proved
of the broker holds here; from that and `PipelineInv`, `QuestionsComeFirst`
proves that a stream which carries an answer carries the question first or has a
recorded reason not to.

**Pages behind the pipeline.** `PagesUsePipeline` proves `LiveSpec =>
PipelineSpec`: a page's polls, loads and older rows write nothing, and the stream
it opens is one that the broker allows, because a page that is not blank has a
real channel (`RoomOK`). So the safety theorems of the pipeline and the broker
hold with any number of pages (`PipelineHoldsBehindPages`).

**Rows of a page.** `Behavior` is what holds behind the pages: `PipelineInv`,
`BrokerInv`, and that the visible rows are the committed ones and of distinct
times. `RecentRows`, `BeforeRows` and `SinceRows` say what each query returns of
them: which rows, in which order, and what its LIMIT leaves out. `PageInv` then
has, for each page: `Blank`, one not loaded has nothing; `StreamOf`, its stream is
of its channel; `PageRows`, all that it shows and all answers on their way are
rows of the channel, none twice; `Watermarks`, the last id and that of a poll on
its way are ids of rows shown. Types, `NoDuplicateRows` and `WatermarkIsShown` are
read off it. The causes of losses need an account of the past each:

- `Received`: what the first query saw and the page lacks is older than its first
  row, and what the stream brought is shown. With the broker's `Accounted` this
  gives `StreamLossHasCause`.
- `Losses`: every row at or below the watermark, that of a poll on its way, or the
  last id of an answer on its way, is shown, in the answer, or has a cause
  (`LossCause`). A watermark rises by an event or by an answer. Below an event's
  row all that the stream was sent was written before it or dropped (`Gapless`,
  an invariant of the streams of its own, as `handleSSE` writes in the order of
  the broadcasts), so what the page lacks there was missed by the stream
  (`SkippedByStream`) or overtaken; below an answer's last row all that was
  visible is in the answer, and what becomes visible later was overtaken
  (`LateRowIsOvertaken`). That the page falls back to polling adds no cause: what
  was still queued, or written and not handled, is above the watermark, or below
  it for one of these reasons. This gives `PollLossHasCause`.
- `Backlog`: what the first query saw and the page lacks is still to be asked for,
  below the id that the button sends, or has a later row with a smaller id; a
  short answer leaves nothing. This gives `OlderIsExhaustive`.

`PagesImplementFeed` maps a page load to `Open`, a commit to `Store`, each arrival
that adds rows to `Show`, and proves all other steps to stutter.

**Accounts.** `AccountsInv` is the type invariant; `UsersOK`, ids are unique and
below the sequence, one row per Google user, and no row with both a password and
a Google user; `LoginOK`, what the place of a sign-in says of what was asked,
with `Earned`: its session is that of a row with the very password or Google user
that it gave; `CookieOK`, a cookie came with an answered login of its browser;
and `StateOK`, a login through Google (`ByGoogle`) still has the browser's state,
or was overtaken or spent, also while its callback is at the server or its answer
late, so that a retry may be refused for no other reason.
The four invariants of the run follow, and `SignedInUntilCause`, an action
property, from the invariant and a case for each action.

**Settings.** `ProfileInv` keeps, for each save, the position in the row's
history that its UPDATE wrote (`SaveOK`), and that the row is the last version
(`RowIsLast`); then a read-back after it can only find that version or a later
one.

**Channels.** `Unique` is the index: two INSERTs that hold or have made a name
are of two names; `MakerOK` says what each place tells of the name being free or
taken. The unique wait is used exactly where `Insert` finds no holder.

**Audio.** `AudioInv` strengthens the types with: a fetch at the write has sent
less than the limit; `KeysOK`, the server's secret and the key in each link's MAC
are those of the starts that made them; and a refused fetch has its cause, which
later starts do not take away as both starts are remembered. That equal secrets
give equal keys is `audioMACKey` itself; a key that also depended on the process
breaks the property (its mutant).

**Start.** `StartInv` has `KeyOK`: the key file is made once, a process of the
scripts is given what it holds and signs with that unless it is empty, and no
such process listened before the file was there; so while there is a key in the
file it is the only one that they used. And it has `BotOK`, once migrated the bot's
row is a system user's, so a silent process found an error or started before the
migration. It is proved of `StartSpec` and carried to the conversations by
`ConversationStarts: ConversationSpec => StartSpec`.

**Bot.** `BotInv` has, for a command that is asking, `AskOK`: its answered calls
saw versions not older than the question and in order, only translate goes on
past a failure, and a sample comes from such a version. For an answered one it
keeps `AnswerOK`, which other mentions and later edits do not disturb, as versions
are only added (`OtherMention`): each fact said was so in between (`SaidOK`), each
fact denied has its cause (`DeniedOK`), a report is a window (`WindowOK`), and a
link is of the chosen form (`LinkOK`). Composing the answer is where they come
from. `CallsAreOK` says what a call of each command asks; `ShownIsSo` and
`NotShownIsNotThere` that a list shown holds facts, and lacks one only if it was
missing then or filtered by the server; `MissingHasCause` that a word which
translate reports as missing was looked up and not there, or is one of the two
named cases; `ChosenFits` that the loops over files choose as `LinkFitsForm` says;
`StatusSection` and `FactOfSection` that what a report tells of a section is what
that section's call saw. The results are `AnswersAreTrue`,
`StatusReportsAreWindows`, `LinksFitForms` and `ConversationTypeCorrect`.

**Rendering.** `RenderLinesUnfolds` and `HTMLUnfolds` prove that the two recursive
functions are functions, with their equations. `Matches` relates them after each
number of lines: what the loop wrote, with a list closed if one is open and the
next line is no item, is what the lines so far become. `MatchesStep` carries it over a line and
`InductiveSet` over a body of any length, so `EachLineIsRendered` has no bound on
the lines of a post or of an answer.

**Model-checked only.** Liveness: `PostTerminates`, `PollCatchesUp`,
`OnlyClientHoldsFetch` and `MentionAnswered`. They follow from fairness, and what
is fair is said with ENABLED, which the provers do not treat.

## 5. What the checks say of the code

- The broker is right as it stands: bookkeeping is exact, order is kept, the
  drop is the only loss, and no client can hold up a post.
- A page can lack a stored message, besides older ones that its button still
  fetches, in exactly these ways: it was posted between the page's query and its
  subscription; it overflowed the buffer; its handler died or its client went
  away between the commit and the broadcast; or a row with a larger id became
  visible, or was broadcast, first. The fallback to polling heals what the stream
  had not brought when it broke, except what a row above it had already passed,
  and loses nothing itself. What is lost comes only with a reload.
- Sessions are sound over restarts, concurrent tabs and lost responses. Without
  SESSION_SECRET an answer that was written before a restart may arrive after it
  and replace the session of a later login by one that is no longer valid.
- A failed Google callback cannot be reloaded: its state was cleared by the first
  answer, and the user has to start again from the login page.
- A Google user never gets another's account; one whose derived username is taken
  gets none at all.
- The sections of a status report may be of different versions of the
  dictionary, in the order of the calls; each is whole. A failing call loses the
  whole report, and never leaves a part of one.
- translate may say that a word has no translation which it only failed to look
  up, or whose map the server filtered. No other command denies anything that was
  not missing at some time while it ran.
- A process whose lookup of the bot's account failed, or that was started before
  the migration, offers the bot and ignores it until it is started again. The
  migration turns a person's row of the bot's name into the system user's.
- "Already exists" is shown for any error of `CreateChannel`, also for one after
  which there is no such channel (`handler.go:477`).
- Restarts by the script keep every session, but kill the old process before the
  new one is built: a failing build leaves no server. If openssl fails when the key
  file is made, the file stays, empty, and no later start fills it: the script
  passes an empty SESSION_SECRET, and each process draws a key of its own, with
  which every restart ends all sessions and links until someone removes the file.

Small things read on the way, which no run is about: the list of names that
`registry.go:27` calls sorted is in map order; `barsukas_integration.go:31` lists
other languages than `barsukas.go:16` accepts; with a form that no file has,
`handleAudio` takes the first file that can be played and not the lemma's own
(compare its comment at 806); `dispatchIntegration` says that its callers need
not wait, but they do; and the bot's check for a missing secret cannot fire, as
`main` always has one.

## 6. Not modelled

- Layout: templates, HTML escaping, CSS, the wording of answers, their counts
  and percentages.
- Flags, and the pool's limit of ten connections: no handler holds one while it
  waits for another.
- Cryptography: a signature is valid exactly under the key that made it.
- Parsing of a body into a mention and its arguments: a post is a mention with
  a query, or it is not. The commands' own parsing of arguments is modelled by
  what it refuses.
- Rows of equal created_at, which Postgres may return in either order.
- A user who posts again after a network error: the code does not recognise a
  retry, so it is another post.

## 7. Plan

What is left is small, or out of the tools' reach:

1. The composition of `Conversation` with `PostPipeline`, the bot's calls inside
   the handler: now the pipeline takes the answer as one step that may fail, and
   `MentionAnswered` shows that the step ends.
2. Equal times in `MessageTable`. The queries then return one of several lists,
   and what a page may lack gets one more cause.
3. The safety half of the liveness properties, as invariants that say which step
   is possible where, so that only fairness itself is left to the runs.
