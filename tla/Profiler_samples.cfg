\* Two threads with two nested statements each, two threads that reset and print.
CONSTANTS
  Threads = {t1, t2}
  Keepers = {k1, k2}
  Sites = {s1, s2}
  MaxDepth = 2
  ThreadNum = 3
  RELEASE_FLAG = 8
  UINT_MAX = 9
  Elapsed = {1, 2}
  MaxCalls = 3
  NoSite = NoSite
  NoJob = NoJob
SPECIFICATION Spec
SYMMETRY Symmetry
INVARIANTS Exclusion SamplesExact NothingHidden
