CONSTANTS
  Threads = {t1, t2}
  Queues = {q1}
  Nodes = {n1, n2, n3}
  Values = {v1, v2}
  COUNTER_MAX = 3
  NULL = NULL
  NoValue = NoValue
\* The queue may be cleared in the end.
CHECK_DEADLOCK FALSE
SPECIFICATION Spec
SYMMETRY Symmetry
INVARIANTS NodesAccounted TailReachable NumExact
PROPERTIES FifoSpec
