--------------------------- MODULE MCInteraction ---------------------------
(***************************************************************************)
(* Small instances of Interaction for TLC.                                 *)
(***************************************************************************)
EXTENDS Interaction, TLC

CONSTANTS r1, r2, pageLoop
=============================================================================
