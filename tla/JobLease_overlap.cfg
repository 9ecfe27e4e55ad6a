\* Overlapping handlers on one job: two handlers in flight, every fault.
CONSTANTS
  Jobs = {j1}
  Runners = {r1, r2}
  NoRunner = NoRunner
  Requests = {q1, q2}
  Slots = 1
  MaxAttempts = 3
  FirstAttempts <- FirstOnly
  Verdicts <- OneVerdict
  Batches <- ShippedBatches
  HealthReports = {"healthy"}
  Faults = {"pause", "lost_claim", "dead_letter", "restart"}
  Overlap = TRUE
  MaxCrashes = 1
  MaxFence = 2
  MaxEvents = 1
SYMMETRY Symmetry
SPECIFICATION Spec
INVARIANTS TypeOK RunRowLegal AttemptInStep
PROPERTIES LostLeaseStaysLost ImplementsFencedLease
