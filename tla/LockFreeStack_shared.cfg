\* Two threads, two objects and two stack nodes; tags of two values.
CONSTANTS
  Threads = {t1, t2}
  Nodes = {n1, n2}
  Values = {v1, v2}
  COUNTER_MAX = 2
  NULL = NULL
  NoValue = NoValue
  Holdable = 1
\* ClearAll may end it.
CHECK_DEADLOCK FALSE
SPECIFICATION MCSpec
SYMMETRY Symmetry
INVARIANTS ListsIntact HandedOn
PROPERTIES StackSpec
