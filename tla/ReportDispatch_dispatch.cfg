CONSTANTS
  Deliveries = {d1, d2, d3}
  Dispatchers = {x, y}
  Batch = 2
  MaxAttempts = 2
  Outlive = FALSE
  MaxFaults = 1
SPECIFICATION FairSpec
INVARIANTS DispatchTypeOK OneHand 
PROPERTIES EndStands AllEnd
CHECK_DEADLOCK FALSE
