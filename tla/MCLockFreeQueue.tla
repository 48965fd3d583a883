---------------------------- MODULE MCLockFreeQueue ----------------------------
(***************************************************************************)
(* Instances of LockFreeQueue for TLC.                                     *)
(***************************************************************************)
EXTENDS LockFreeQueue, TLC

Symmetry == Permutations(Threads) \cup Permutations(Nodes)
              \cup Permutations(Queues) \cup Permutations(Values)

===============================================================================
