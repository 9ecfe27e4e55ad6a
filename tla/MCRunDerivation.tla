-------------------------- MODULE MCRunDerivation --------------------------
(***************************************************************************)
(* Every word of the vocabularies, and one that none of them has.          *)
(***************************************************************************)
EXTENDS RunDerivation

AllWords ==
  {None, "passed", "succeeded", "success", "failed", "failure", "timed-out",
   "anything"} \cup TerminalPhases
AllPhases == RunPhases \cup {None, "completed"}
AllOutcomes == CompleteOutcomes \cup {None}
AllClaims == RunPhases \cup CompleteOutcomes \cup {None, "anything"}
=============================================================================
