\* Two jobs, two runners of one slot each, one of which may die for good.
CONSTANTS
  Jobs = {j1, j2}
  Runners = {r1, r2}
  NoRunner = NoRunner
  Requests = {q1}
  Slots = 1
  MaxAttempts = 2
  FirstAttempts <- FirstOnly
  Verdicts <- OneVerdict
  Batches <- ShippedBatches
  HealthReports = {"healthy"}
  Faults = {}
  Overlap = FALSE
  MaxCrashes = 1
  MaxFence = 2
  MaxEvents = 1
SPECIFICATION FairSpec
PROPERTY RunEnds
