SPECIFICATION TimedSpec
CONSTANTS
  e1 = e1
  w1 = w1
  w2 = w2
  s1 = s1
  NULL = NULL
  EventIds = {e1}
  Workers = {w1, w2}
  UUIDWorkers = {w1, w2}
  Schedulers = {s1}
  Request <- Requested
  MaxAttempts = 2
  MaxMessages = 3
  MayFault = FALSE
  MayLapse = TRUE
  CrashProne = {w1}
  Stoppable = {}
  TickMs = 5000
  Interval = 1
  TTL = 3
  MaxMissed = 1
  SweepEvery = 4
  StaleProcessing = 4
  StaleRetrying = 5
  BaseDelay = 1000
INVARIANTS
  ClockTypeOK
  ExclusiveProcessing
  OwnerVisible
  RecoveredInTime
  SweepSparesRetries
PROPERTIES
  ImplementsPipeline
