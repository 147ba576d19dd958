SPECIFICATION Spec
CONSTANTS
  r1 = r1
  r2 = r2
  r3 = r3
  ip = ip
  owner = owner
  Requests <- MCRequests
  Keys <- MCKeys
  CheckLists <- MCCheckLists
  Limit <- MCLimit
  Window <- MCWindow
  Slow = 0
  Fast = 1
  Timeout = 1
  Second = 2
  Horizon = 5
SYMMETRY MCSymmetry
INVARIANTS
  AtMostLimit
  DecidesAsRedis
PROPERTIES
  RetryIsHonest
  ImplementsSlidingWindow
CHECK_DEADLOCK FALSE
