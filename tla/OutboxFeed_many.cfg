\* Two browsers, two writers, failing listeners and expiring rows.
CONSTANTS
  Writers = {w1, w2}
  Clients = {c1, c2}
  PageSize = 2
  Faults <- AllFaults
  MaxSeq = 3
  MaxDrops = 1
SYMMETRY FeedSymmetry
SPECIFICATION FeedSpec
PROPERTY InOrder
CHECK_DEADLOCK FALSE
