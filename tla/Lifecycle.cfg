SPECIFICATION FairSpec
CONSTANTS
  a = a
  b = b
  s = s
  t = t
  NULL = NULL
  Starters = {a, b}
  Stoppers = {s}
  MaxStarts = 3
  MaxRetries = 1
INVARIANTS
  TypeOK
  OneGeneration
  StoppedMeansDone
  WaitGroupNotReused
PROPERTIES
  StopReturns
\* The last launch may be stopped for good.
CHECK_DEADLOCK FALSE
