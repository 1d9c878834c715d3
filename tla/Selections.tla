----------------------------- MODULE Selections -----------------------------
(***************************************************************************)
(* Some members of a sequence, in their order: what a list comprehension   *)
(* with a condition makes of a list.  SelectSeq by its result, without the *)
(* recursion, so that it can be reasoned about.                            *)
(***************************************************************************)
EXTENDS Integers, Sequences, FiniteSets

\* How many of a set of positions come up to i, and the k-th of them.
Rank(positions, i) == Cardinality({j \in positions : j <= i})
Nth(positions, k) == CHOOSE i \in positions : Rank(positions, i) = k

Picked(s, positions) == [k \in 1..Cardinality(positions) |-> s[Nth(positions, k)]]
=============================================================================
