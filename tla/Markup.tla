------------------------------- MODULE Markup -------------------------------
(***************************************************************************)
(* RenderBody of internal/markup/markup.go: the HTML of a message body.    *)
(*                                                                         *)
(* A body is a sequence of lines, of which only the kind matters: a bullet *)
(* item, an audio line, or any other text.  The HTML is a sequence of      *)
(* pieces, each with the line whose escaped text or player it holds, or 0. *)
(***************************************************************************)
EXTENDS Naturals, Sequences

Kinds == {"item", "audio", "text"}

Tag(t) == <<t, 0>>

\* The loop's state: what was written, and whether a list is open.
NothingWritten == [out |-> <<>>, inList |-> FALSE]

Flushed(r) == IF r.inList THEN Append(r.out, Tag("</ul>")) ELSE r.out

RenderItem(r, i) ==
  [out |-> (IF r.inList THEN r.out ELSE Append(r.out, Tag("<ul>"))) \o <<<<"item", i>>>>,
   inList |-> TRUE]

RenderOther(r, i, kind) ==
  [out |-> Flushed(r) \o (IF i > 1 THEN <<Tag("<br>")>> ELSE <<>>) \o <<<<kind, i>>>>,
   inList |-> FALSE]

RenderLine(body, r, i) ==
  IF body[i] = "item" THEN RenderItem(r, i) ELSE RenderOther(r, i, body[i])

\* The state after each number of lines.
RenderLines(body) ==
  LET after[i \in 0..Len(body)] ==
        IF i = 0 THEN NothingWritten ELSE RenderLine(body, after[i - 1], i)
  IN  after

Unflushed(r) == r.out   \* mutant of Finished: the last flushList is missing

Finished(r) == Flushed(r)

RenderBody(body) == Finished(RenderLines(body)[Len(body)])
-----------------------------------------------------------------------------
\* The package's promise, line by line and without the loop's state: each
\* maximal run of items is one list, and any other line that is not the first
\* stands after a break.
IsItem(body, k) == k \in 1..Len(body) /\ body[k] = "item"

HTMLOf(body, k) ==
  IF IsItem(body, k)
  THEN (IF IsItem(body, k - 1) THEN <<>> ELSE <<Tag("<ul>")>>) \o <<<<"item", k>>>>
         \o (IF IsItem(body, k + 1) THEN <<>> ELSE <<Tag("</ul>")>>)
  ELSE (IF k > 1 THEN <<Tag("<br>")>> ELSE <<>>) \o <<<<body[k], k>>>>

HTMLUpTo(body) ==
  LET upTo[k \in 0..Len(body)] == IF k = 0 THEN <<>> ELSE upTo[k - 1] \o HTMLOf(body, k)
  IN  upTo

HTML(body) == HTMLUpTo(body)[Len(body)]
=============================================================================
