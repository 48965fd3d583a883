\* One worker and one update object; two servers that release the thread at once.
CONSTANTS
  Workers = {w1}
  Updates = {u1}
  None = None
  Limit = 1
  GateBound = 1
  Servers = {s1, s2}
  CLOCK = 8
  MaxTick = 1
  MaxLate = 0
  Rounds = 2
\* The program may stop: no more posts after the terminate event.
CHECK_DEADLOCK FALSE
SPECIFICATION LSpec
PROPERTIES ReleaseReturns
