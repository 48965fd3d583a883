\* Two updates of one scheduler, two servers that release it; a clock of four bits.
CONSTANTS
  Workers = {w1, w2}
  Updates = {u1, u2}
  None = None
  Limit = 2
  GateBound = 2
  Servers = {s1, s2}
  CLOCK = 16
  MaxTick = 3
  MaxLate = 1
  Rounds = 6
\* The program may stop: no more posts after the terminate event.
CHECK_DEADLOCK FALSE
SPECIFICATION LSpec
INVARIANTS Serialized NoLostUpdate UnprocessedExact WithinLimit FramesKept StoppedAfterRelease
PROPERTIES OwedRuns ReleaseEnds
