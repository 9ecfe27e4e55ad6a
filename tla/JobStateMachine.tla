-------------------------- MODULE JobStateMachine --------------------------
(***************************************************************************)
(* The contract's job state machine (packages/orchestration/src/           *)
(* state-machine.ts) seen through the stored vocabulary of job-state.ts.   *)
(*                                                                         *)
(* The store keeps six words where the contract has nine, so a stored step *)
(* is legal when some contract edge has it as its image.  The execution    *)
(* store never calls decideTransition; JobLease is checked against it.     *)
(***************************************************************************)
CONSTANTS Jobs

VARIABLES state  \* by job: the stored state, or "absent" before the job exists

ContractStates ==
  {"queued", "leased", "running", "waiting_approval", "cancelling", "succeeded",
   "failed", "cancelled", "expired"}

\* transitions: the legal edges out of each contract state.
Transitions ==
  [s \in ContractStates |->
     CASE s = "queued"           -> {"leased", "cancelled", "expired"}
       [] s = "leased"           -> {"running", "queued", "expired", "cancelled"}
       [] s = "running"          -> {"waiting_approval", "cancelling", "succeeded",
                                     "failed", "cancelled", "expired"}
       [] s = "waiting_approval" -> {"running", "cancelling", "failed", "cancelled"}
       [] s = "cancelling"       -> {"cancelled", "failed"}
       [] s \in {"succeeded", "failed", "cancelled", "expired"} -> {}]

\* TO_STORED: the word the execution_jobs.state column keeps for a contract state.
ToStored ==
  [s \in ContractStates |->
     CASE s = "queued"    -> "queued"
       [] s \in {"leased", "running", "waiting_approval", "cancelling"} -> "leased"
       [] s = "succeeded" -> "completed"
       [] s \in {"failed", "expired"} -> "failed"
       [] s = "cancelled" -> "cancelled"]

Init == state = [j \in Jobs |-> "absent"]

Create(j) ==
  /\ state[j] = "absent"
  /\ state' = [state EXCEPT ![j] = "queued"]

Move(j) ==
  \E from \in ContractStates : \E to \in Transitions[from] :
    /\ state[j] = ToStored[from]
    /\ state' = [state EXCEPT ![j] = ToStored[to]]

Next == \E j \in Jobs : Create(j) \/ Move(j)

Spec == Init /\ [][Next]_state
=============================================================================
