\* One operation at a time, dying anywhere and short of disk.
CONSTANTS
  Jobs = {j1, j2}
  Header = Header
  Torn = Torn
  MaxEntries = 3
  MaxFrames = 5
  CompactAbove = 3
  TornTails = {"fail", "drop"}
  Overlap = FALSE
  ShortWrites = TRUE
  MaxBorn = 3
  MaxCrashes = 3
SYMMETRY Symmetry
SPECIFICATION Spec
INVARIANTS NoneLost NotRedelivered GuardIsSafe 
PROPERTY ImplementsQueue
CHECK_DEADLOCK FALSE
