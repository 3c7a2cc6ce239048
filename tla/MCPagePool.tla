----------------------------- MODULE MCPagePool -----------------------------
(***************************************************************************)
(* Small instances of PagePool for TLC.                                    *)
(***************************************************************************)
EXTENDS PagePool, TLC

CONSTANTS g1, g2, g3, c1, o1, t1, a, b

OneSession == [x \in Getters \cup Closers |-> {a}]
GetterSymmetry == Permutations(Getters)
TwoSessions == [x \in Getters \cup Closers |-> {a, b}]
=============================================================================
