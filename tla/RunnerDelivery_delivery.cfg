\* Two leases, of one job or of two; a fault and a restart anywhere.
CONSTANTS
  Jobs = {a, b}
  MaxAttempts = 2
  MaxBatch = 4
  MaxEntries = 4
  Rejoin = FALSE
  MaxLeases = 2
  MaxGrants = 2
  MaxEvents = 1
  Prior <- OneHasPrior
  MaxFaults = 1
  MaxRestarts = 1
SPECIFICATION FairSpec
INVARIANTS AckedWereTaken CompletionAfterEvents NoHoles StoredUnderOwnLease
PROPERTY DrainsAlone
CHECK_DEADLOCK FALSE
