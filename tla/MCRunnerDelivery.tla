-------------------------- MODULE MCRunnerDelivery --------------------------
(***************************************************************************)
(* RunnerDelivery on small instances.                                      *)
(***************************************************************************)
EXTENDS RunnerDelivery, TLC

\* One of the runs holds an event that another runner sent.
OneHasPrior ==
  LET first == CHOOSE j \in Jobs : TRUE
  IN  [j \in Jobs |-> IF j = first THEN 1 ELSE 0]
NonePrior == [j \in Jobs |-> 0]
=============================================================================
