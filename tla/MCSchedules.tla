---------------------------- MODULE MCSchedules -----------------------------
(***************************************************************************)
(* Schedules on small instances: one row of each kind.                     *)
(***************************************************************************)
EXTENDS Schedules, TLC

CONSTANTS nightly, backlog, weekly, github

Saved == {[s \in {nightly, backlog} |-> IF s = backlog THEN "catch_up" ELSE misfire] :
            misfire \in {"skip", "run_once"}}

\* The nightly schedule is made between two of its occurrences.
Periods == nightly :> 2 @@ backlog :> 1 @@ weekly :> 2 @@ github :> 2
Starts == nightly :> 1 @@ backlog :> 0 @@ weekly :> 2 @@ github :> 1
=============================================================================
