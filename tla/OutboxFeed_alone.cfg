\* One browser that loses its connection, one writer at a time.
CONSTANTS
  Writers = {w1}
  Clients = {c1}
  PageSize = 2
  Faults <- NoFaults
  MaxSeq = 4
  MaxDrops = 2
SPECIFICATION FairFeedSpec
INVARIANT Lossless
PROPERTY Reaches
