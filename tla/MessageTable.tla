---------------------------- MODULE MessageTable ----------------------------
(***************************************************************************)
(* The messages table: migrations/001 and the message functions of         *)
(* internal/db/queries.go.                                                 *)
(*                                                                         *)
(* PostMessage is one INSERT statement, a transaction of its own, and many *)
(* run at once on the pool's connections.  Three orders come out of it,    *)
(* and nothing ties them together: created_at is NOW(), the time the       *)
(* transaction began; id is drawn from the sequence later, when the row is *)
(* formed; and the row is visible to others when the transaction commits.  *)
(* Each is a step of its own here.  created_at is taken to be distinct for *)
(* distinct statements, and the server's clock never to run backwards.     *)
(***************************************************************************)
EXTENDS Chat, Ordering, SequencesExt

VARIABLES
  phase,    \* where each INSERT is
  chan,     \* channel_id of its row
  stamp,    \* created_at of its row
  id,       \* id of its row, 0 before the sequence is drawn from
  clock,    \* the database's clock
  nextId,   \* the sequence behind BIGSERIAL
  commits   \* history: the rows in the order they became visible

tableVars == <<phase, chan, stamp, id, clock, nextId, commits>>

Phases == {"new", "begun", "numbered", "committed", "aborted"}

TableInit ==
  /\ phase = [i \in Messages |-> "new"]
  /\ chan = [i \in Messages |-> NoChannel]
  /\ stamp = [i \in Messages |-> 0]
  /\ id = [i \in Messages |-> 0]
  /\ clock = 1
  /\ nextId = 1
  /\ commits = <<>>

\* The statement reaches the database: DEFAULT NOW() is fixed.
Begin(i, ch) ==
  /\ phase[i] = "new"
  /\ phase' = [phase EXCEPT ![i] = "begun"]
  /\ chan' = [chan EXCEPT ![i] = ch]
  /\ stamp' = [stamp EXCEPT ![i] = clock]
  /\ clock' = clock + 1
  /\ UNCHANGED <<id, nextId, commits>>

\* The row is formed: nextval of the sequence, which no rollback gives back.
Number(i) ==
  /\ phase[i] = "begun"
  /\ phase' = [phase EXCEPT ![i] = "numbered"]
  /\ id' = [id EXCEPT ![i] = nextId]
  /\ nextId' = nextId + 1
  /\ UNCHANGED <<chan, stamp, clock, commits>>

Commit(i) ==
  /\ phase[i] = "numbered"
  /\ phase' = [phase EXCEPT ![i] = "committed"]
  /\ commits' = Append(commits, i)
  /\ UNCHANGED <<chan, stamp, id, clock, nextId>>

\* A statement that fails or is cancelled leaves no row.
Abort(i) ==
  /\ phase[i] \in {"begun", "numbered"}
  /\ phase' = [phase EXCEPT ![i] = "aborted"]
  /\ UNCHANGED <<chan, stamp, id, clock, nextId, commits>>

-----------------------------------------------------------------------------
\* The queries, over the rows visible when they run.
Rows(ch) == {i \in Messages : phase[i] = "committed" /\ chan[i] = ch}

ByTime(S) == SortedBy(stamp, S)
ById(S)   == SortedBy(id, S)

Oldest(n, q) == IF Len(q) <= n THEN q ELSE SubSeq(q, 1, n)   \* mutant of Newest

\* The last n elements: ORDER BY ... DESC LIMIT n, then reversed.
Newest(n, q) == IF Len(q) <= n THEN q ELSE SubSeq(q, Len(q) - n + 1, Len(q))

\* ORDER BY created_at DESC LIMIT limit, oldest first.
RecentMessages(ch, limit) == Newest(limit, ByTime(Rows(ch)))

\* id < before ORDER BY id DESC LIMIT limit, oldest first.
MessagesBefore(ch, before, limit) ==
  Newest(limit, ById({i \in Rows(ch) : id[i] < before}))

\* Mutants of MessagesSinceID: a limit of one row; after + 1 is left out; the
\* channel is not asked for.
LatestSinceID(ch, after) == Newest(1, ByTime({i \in Rows(ch) : id[i] > after}))
MessagesPastID(ch, after) == ByTime({i \in Rows(ch) : id[i] > after + 1})
AnyChannelSinceID(ch, after) == ByTime({i \in UNION {Rows(c) : c \in Channels} : id[i] > after})

\* id > after ORDER BY created_at.
MessagesSinceID(ch, after) == ByTime({i \in Rows(ch) : id[i] > after})
-----------------------------------------------------------------------------
TableTypeOK ==
  /\ phase \in [Messages -> Phases]
  /\ chan \in [Messages -> Channels \union {NoChannel}]
  /\ stamp \in [Messages -> Nat]
  /\ id \in [Messages -> Nat]
  /\ clock \in Nat \ {0}
  /\ nextId \in Nat \ {0}
  /\ commits \in Seq(Messages)

\* A row that has been begun has a channel and a time in the past; one that has
\* drawn an id has an id of its own, and the sequence is past it.
Numbered(i) == phase[i] \in {"numbered", "committed"}

TableInv ==
  /\ \A i \in Messages : phase[i] # "new" => chan[i] \in Channels /\ stamp[i] < clock
  /\ \A i \in Messages : Numbered(i) => 0 < id[i] /\ id[i] < nextId
  /\ \A i, j \in Messages : Numbered(i) /\ Numbered(j) /\ id[i] = id[j] => i = j
=============================================================================
