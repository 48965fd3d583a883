\* Buckets of two nodes, two threads: the nodes of a bucket are freed by either.
CONSTANTS
  Threads = {t1, t2}
  Buckets = {b1, b2, b3, b4}
  Size = 2
  MaxLive = 3
  COUNTER_MAX = 2
  NULL = NULL
SPECIFICATION Spec
SYMMETRY Symmetry
INVARIANTS StackIntact CountersExact
PROPERTIES PoolSpec
