--------------------------- MODULE MCDeliverySync ---------------------------
(***************************************************************************)
(* DeliverySync on small instances.                                        *)
(***************************************************************************)
EXTENDS DeliverySync, TLC

\* One pull request after the other, and one of the deployments still to be created.
SomeItems ==
  LET older == CHOOSE i \in Pulls : TRUE
      first == CHOOSE i \in Deploys : TRUE
  IN  [i \in Pulls \cup Deploys |->
         IF i \in {older, first} THEN 1 ELSE IF i \in Pulls THEN 2 ELSE 0]

Symmetry == Permutations(Procs)
=============================================================================
