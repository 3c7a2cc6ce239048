---------------------------- MODULE MCPoolLocks ----------------------------
(***************************************************************************)
(* Small instances of PoolLocks for TLC: two contexts, three goroutines.   *)
(***************************************************************************)
EXTENDS PoolLocks

CONSTANTS x1, x2, x3, def, prv

Everything == DOMAIN Code
WithoutReserve == DOMAIN Code \ {"reserve"}
ThreadSymmetry == Permutations(Threads)
=============================================================================
