---------------------------- MODULE FencedLease ----------------------------
(***************************************************************************)
(* What the execution queue promises about leases, and nothing else: a job *)
(* is free or held by one runner under one token, every grant issues the   *)
(* next token, and a held job is granted to nobody else before it is free. *)
(* JobLease implements it, however its handlers overlap.                   *)
(***************************************************************************)
EXTENDS Integers

CONSTANTS Jobs, Runners

VARIABLES
  holder,  \* by job: {} when free, else the one <<runner, token>> that holds it
  issued   \* by job: the newest token

leaseVars == <<holder, issued>>

Init == /\ holder = [j \in Jobs |-> {}]
        /\ issued = [j \in Jobs |-> 0]

Grant(j, r) ==
  /\ holder[j] = {}
  /\ issued' = [issued EXCEPT ![j] = @ + 1]
  /\ holder' = [holder EXCEPT ![j] = {<<r, issued[j] + 1>>}]

Release(j) ==
  /\ holder[j] # {}
  /\ holder' = [holder EXCEPT ![j] = {}]
  /\ UNCHANGED issued

Next == \E j \in Jobs : Release(j) \/ \E r \in Runners : Grant(j, r)

Spec == Init /\ [][Next]_leaseVars
=============================================================================
