---------------------------- MODULE MCObjectPool ----------------------------
(***************************************************************************)
(* A pool of objects on small instances.                                   *)
(***************************************************************************)
EXTENDS ObjectPool, TLC

\* Threads are alike, and so are the keys.
Symmetry == Permutations(Threads) \cup Permutations(Keys)
=============================================================================
