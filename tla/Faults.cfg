SPECIFICATION Spec
CONSTANTS
  e1 = e1
  e2 = e2
  w1 = w1
  w2 = w2
  s1 = s1
  s2 = s2
  NULL = NULL
  EventIds = {e1, e2}
  Workers = {w1, w2}
  UUIDWorkers = {}
  Schedulers = {s1}
  Request <- OneRefused
  MaxAttempts = 2
  MaxMessages = 3
  MayFault = TRUE
  MayLapse = FALSE
  CrashProne = {e1, w1, w2, s1}
  Stoppable = {w1, w2}
SYMMETRY Symmetry
INVARIANTS
  TypeOK
  FinalizedOnce
  AttemptBound
  ExclusiveProcessing
  ReceiptExclusive
  NoDangling
  PayloadNeverAhead
  ResponseHonest
PROPERTIES
  ImplementsLifecycle
