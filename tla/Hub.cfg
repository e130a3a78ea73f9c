SPECIFICATION FairSpec
CONSTANTS
  c1 = c1
  c2 = c2
  Clients = {c1, c2}
  Capacity = 1
  MaxMessages = 2
  Cancellable = TRUE
INVARIANTS
  TypeOK
  InOrderNoGaps
  ClosedOnce
  BatchNeverBlocks
PROPERTIES
  DroppedClientLeaves
  ShutdownEndsWriters
  ImplementsFeed
\* Every connection may have ended.
CHECK_DEADLOCK FALSE
