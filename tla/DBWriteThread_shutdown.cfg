CONSTANTS
  Producers = {p1, p2}
  Packets = {k1, k2, k3}
  NoPacket = NoPacket
\* The writer is gone after shutdown, and packets may run out then.
CHECK_DEADLOCK FALSE
SPECIFICATION LiveSpec
PROPERTIES ShutDownCompletes
