------------------------------- MODULE MCSpool -------------------------------
(***************************************************************************)
(* Spool on small instances.                                               *)
(***************************************************************************)
EXTENDS Spool, TLC

Symmetry == Permutations(Jobs)
=============================================================================
