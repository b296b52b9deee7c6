------------------------------ MODULE Sorting ------------------------------
(***************************************************************************)
(* ORDER BY and LIMIT, with which Discovery and Chat read their pages: what*)
(* a query answers, without the way Postgres gets there.                   *)
(***************************************************************************)
EXTENDS Integers, Sequences, FiniteSets

\* The rows of S in the strict order R, a set of pairs: each stands behind as many
\* rows as precede it.
InOrder(S, R) ==
  [i \in 1 .. Cardinality(S) |->
     CHOOSE x \in S : Cardinality({y \in S : <<y, x>> \in R}) = i - 1]

\* The first n of the rows q.
Limit(q, n) == SubSeq(q, 1, IF n < Len(q) THEN n ELSE Len(q))
=============================================================================
