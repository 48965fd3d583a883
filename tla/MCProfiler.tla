------------------------------- MODULE MCProfiler -------------------------------
(***************************************************************************)
(* Instances of Profiler for TLC.                                          *)
(***************************************************************************)
EXTENDS Profiler, TLC

Symmetry == Permutations(Threads) \cup Permutations(Keepers) \cup Permutations(Sites)

================================================================================
