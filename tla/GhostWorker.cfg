SPECIFICATION FairPage
CONSTANTS
  a = a
  b = b
  s = s
  t = t
  k1 = k1
  k2 = k2
  q = q
  this = this
  NULL = NULL
  Starters = {a}
  Stoppers = {s}
  Count = 2
  Sockets = {k1, k2}
  This = this
  Peers = {}
  PeerCount = 0
PROPERTIES
  DeadShownOffline
\* Every caller returns and the page is closed.
CHECK_DEADLOCK FALSE
