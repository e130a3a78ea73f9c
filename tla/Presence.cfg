SPECIFICATION FairPresence
CONSTANTS
  a = a
  b = b
  s = s
  t = t
  k1 = k1
  k2 = k2
  q = q
  this = this
  NULL = NULL
  Starters = {a, b}
  Stoppers = {s}
  Count = 2
  Sockets = {k1, k2}
  This = this
  Peers = {q}
  PeerCount = 1
INVARIANTS
  StaysStopped
  PresenceTypeOK
  OneConnection
  NeverStranded
PROPERTIES
  StopReturns
  ShownUntilStopped
\* Every caller returns and the page is closed.
CHECK_DEADLOCK FALSE
