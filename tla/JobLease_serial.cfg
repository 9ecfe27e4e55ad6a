\* One handler at a time, one job of any first attempt, every fault, both verdicts.
CONSTANTS
  Jobs = {j1}
  Runners = {r1, r2}
  NoRunner = NoRunner
  Requests = {q1}
  Slots = 1
  MaxAttempts = 3
  FirstAttempts <- Retried
  Verdicts <- ShippedVerdicts
  Batches <- ShippedBatches
  HealthReports = {"healthy"}
  Faults = {"pause", "lost_claim", "dead_letter", "restart"}
  Overlap = FALSE
  MaxCrashes = 1
  MaxFence = 3
  MaxEvents = 2
SYMMETRY Symmetry
SPECIFICATION Spec
INVARIANTS RunShowsVerdict CancelStands QueuedIsClaimable
PROPERTIES CompletionFenced FollowsStateMachine
