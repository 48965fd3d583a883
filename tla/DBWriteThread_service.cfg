\* More producers than packets, so that late wakes meet new requests; a buffer that
\* has to be doubled several times, and twice for one part.
CONSTANTS
  Producers = {p1, p2, p3}
  Packets = {k1, k2}
  NoPacket = NoPacket
  INITIAL_SIZE = 2
  Lengths = {3}
\* The writer is gone after shutdown, and packets may run out then.
CHECK_DEADLOCK FALSE
SPECIFICATION QSpec
INVARIANTS PacketsAccounted NoSleepOverWork CountExact AllWrittenAtExit QueryExact
PROPERTIES RequestsServed
