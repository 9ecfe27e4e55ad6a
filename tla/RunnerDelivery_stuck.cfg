\* Two jobs and no fault: one of them loses its lease.
CONSTANTS
  Jobs = {a, b}
  MaxAttempts = 2
  MaxBatch = 4
  MaxEntries = 4
  Rejoin = FALSE
  MaxLeases = 1
  MaxGrants = 2
  MaxEvents = 0
  Prior <- NonePrior
  MaxFaults = 0
  MaxRestarts = 0
SPECIFICATION FairSpec
PROPERTY Drains
CHECK_DEADLOCK FALSE
