---------------------------- MODULE MCTlsObjectPool ----------------------------
(***************************************************************************)
(* Instances of TlsObjectPool for TLC, and mutations of its actions that   *)
(* TLC must be able to tell from the code.                                 *)
(***************************************************************************)
EXTENDS TlsObjectPool, TLC

Symmetry == Permutations(Threads) \cup Permutations(Buckets)

===============================================================================
