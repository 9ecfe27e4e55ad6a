---------------------------- MODULE Subsequences ----------------------------
(***************************************************************************)
(* What a filter keeps of a sequence, by the positions it keeps.  It is    *)
(* written without recursion, so that proofs can tell where a kept element *)
(* stood.                                                                  *)
(***************************************************************************)
EXTENDS Naturals, Sequences, FiniteSets

\* The n-th smallest of a set of positions.
Nth(K, n) == CHOOSE i \in K : Cardinality({k \in K : k <= i}) = n

\* The elements of s at the positions K, in their order.
Picked(s, K) == [n \in 1..Cardinality(K) |-> s[Nth(K, n)]]
=============================================================================
