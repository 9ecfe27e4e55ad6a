CONSTANTS
  Words <- AllWords
  Phases <- AllPhases
  Outcomes <- AllOutcomes
  Claims <- AllClaims
SPECIFICATION Spec
\* One request per behaviour: the system stops after it.
CHECK_DEADLOCK FALSE
INVARIANTS ColumnsLegal GreenNeedsEvidence NoReclassifying
