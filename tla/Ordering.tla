------------------------------ MODULE Ordering ------------------------------
(***************************************************************************)
(* Finite sets laid out as sequences: what ORDER BY makes of a query's     *)
(* rows, and what a loop over a list keeps of it.                          *)
(***************************************************************************)
EXTENDS Naturals, Sequences, FiniteSets

Increasing(key, s) ==
  \A i, j \in DOMAIN s : i < j => key[s[i]] < key[s[j]]

\* The elements of S, which differ in key, by increasing key.
SortedBy(key, S) == CHOOSE s \in [1..Cardinality(S) -> S] : Increasing(key, s)

\* What stands in s at the positions P, in the order of s.
Picked(s, P) ==
  LET order == SortedBy([k \in P |-> k], P) IN [k \in 1..Cardinality(P) |-> s[order[k]]]
=============================================================================
