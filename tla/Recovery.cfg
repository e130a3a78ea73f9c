SPECIFICATION FairSpec
CONSTANTS
  e1 = e1
  e2 = e2
  w1 = w1
  w2 = w2
  s1 = s1
  s2 = s2
  NULL = NULL
  EventIds = {e1}
  Workers = {w1, w2}
  UUIDWorkers = {}
  Schedulers = {s1}
  Request <- OneStream
  MaxAttempts = 2
  MaxMessages = 4
  MayFault = FALSE
  MayLapse = FALSE
  CrashProne = {w1, w2}
  Stoppable = {w1, w2}
INVARIANTS
  DuplicatesBounded
PROPERTIES
  RetryRequeued
