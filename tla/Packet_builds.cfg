\* Packets of both servers from one pool, with a small header and two sizes below the cap;
\* scalars that one Resize makes room for, and pieces of data larger than that; bytes of
\* two bits, whose index wraps.  With DEBUG_LEAK three packets and three logs: one can be
\* removed between two others.
CONSTANTS
  NET_HEADER = 2
  LAN_HEADER = 1
  PAYLOAD = 2
  RINGBUFFER_SIZE = 9
  BufferSizes = {4, 6, 9}
  Widths = {1, 2}
  MaxData = 3
  ServerTypes = {"Net", "Lan"}
  MaxSends = 2
  Width = 2
  MaxLen = 4
  Threads = {t1, t2, t3}
  Packets = {k1, k2, k3}
  Logs = {l1, l2, l3}
  debugList = debugList
  NULL = NULL
SPECIFICATION BuildSpec
SYMMETRY Symmetry
INVARIANTS InBlock UnreadIntact HeaderExact FreedOnce WireExact ListsExact LogsAccounted
PROPERTIES CopyInBounds
