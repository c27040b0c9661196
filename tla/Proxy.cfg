SPECIFICATION FairProxySpec
CONSTANTS
  s1 = s1
  s2 = s2
  Sessions = {s1, s2}
  Secure = {s2}
  Requests <- MCRequests
  Addrs <- MCAddrs
  Paths = {1, 2}
  Size <- MCSize
  Room = 2
  Kinds <- MCKinds
INVARIANTS CacheIsTrue OwnAnswer
PROPERTY Finishes
CHECK_DEADLOCK FALSE
