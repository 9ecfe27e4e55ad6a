----------------------------- MODULE MCJobLease -----------------------------
(***************************************************************************)
(* JobLease on small instances.                                            *)
(***************************************************************************)
EXTENDS JobLease, TLC

\* What the shipped runner reports (terminal() in runner-service.ts).
Reported(status, phase) ==
  [status |-> status, phase |-> phase, outcome |-> status, empty |-> FALSE]

ShippedVerdicts == {Reported("passed", "complete"), Reported("failed", "complete")}
OneVerdict == {Reported("passed", "complete")}

\* The batches that matter to the run row: its phase events, and its last one.
Asks(type, phase, outcome) ==
  LET e == [type |-> type, phase |-> phase, outcome |-> outcome, terminal |-> FALSE]
  IN  [state |-> EventRunState(e), ends |-> EndsTheRun(e)]

ShippedBatches == {Asks("run.started", "running", None),
                   Asks("run.completed", "complete", "passed")}
NoBatches == {}

NoFaults == {}
FirstOnly == {1}
Retried == {1, 3}

Symmetry == Permutations(Runners) \cup Permutations(Jobs)
=============================================================================
