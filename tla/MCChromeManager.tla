-------------------------- MODULE MCChromeManager --------------------------
(***************************************************************************)
(* Small instances of ChromeManager for TLC.                               *)
(***************************************************************************)
EXTENDS ChromeManager, TLC

CONSTANTS u1, u2, c1, c2

UserSymmetry == Permutations(Users)
=============================================================================
