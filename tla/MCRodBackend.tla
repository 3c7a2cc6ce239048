---------------------------- MODULE MCRodBackend ----------------------------
(***************************************************************************)
(* Small instances of RodBackend for TLC.                                  *)
(***************************************************************************)
EXTENDS RodBackend, TLC

CONSTANTS x1, x2, x3, c1, c2

RenderSymmetry == Permutations(Renders)
=============================================================================
