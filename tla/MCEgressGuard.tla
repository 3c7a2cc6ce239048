--------------------------- MODULE MCEgressGuard ---------------------------
(***************************************************************************)
(* Small instances of EgressGuard for TLC.                                 *)
(***************************************************************************)
EXTENDS EgressGuard, TLC

CONSTANTS c1, c2, s1, s2, q1, q2, x1, x2, h1

TwoServers == c1 :> s1 @@ c2 :> s2
=============================================================================
