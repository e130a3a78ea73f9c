SPECIFICATION ScanSpec
CONSTANTS
  e1 = e1
  e2 = e2
  w1 = w1
  w2 = w2
  NULL = NULL
  EventIds = {e1, e2}
  Workers = {w1, w2}
  UUIDWorkers = {}
  Schedulers = {}
  Request <- HighAndLow
  MaxAttempts = 2
  MaxMessages = 2
  MayFault = TRUE
  MayLapse = FALSE
  CrashProne = {}
  Stoppable = {}
SYMMETRY Symmetry
INVARIANTS
  ScanTypeOK
PROPERTIES
  PriorityRespected
  ImplementsPipeline
