CONSTANTS
  nightly = nightly
  backlog = backlog
  weekly = weekly
  github = github
  RunSchedules = {nightly, backlog}
  Reports = {weekly}
  Sources = {github}
  Policies <- Saved
  Every <- Periods
  Created <- Starts
  Workers = {x, y}
  CatchUpMax = 1
  MaxTime = 3
  MaxCrashes = 1
SPECIFICATION FairSpec
INVARIANTS  NothingAhead
PROPERTY Answered
CHECK_DEADLOCK FALSE
