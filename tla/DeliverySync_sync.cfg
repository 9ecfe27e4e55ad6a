CONSTANTS
  Pulls = {p1, p2}
  Deploys = {d1, d2}
  Procs = {x, y}
  Syncs = {s1, s2}
  MaxAttempts = 2
  BatchSize = 2
  Lookback = 0
  Backlog <- SomeItems
  MaxClock = 3
  MaxMishaps = 2
SPECIFICATION FairSpec
INVARIANTS SyncTypeOK NothingSkipped 
PROPERTIES SyncEnds DeploysArrive
CHECK_DEADLOCK FALSE
