----------------------------- MODULE MCGoldCache -----------------------------
(* Instances of GoldCache for TLC.                                          *)
EXTENDS GoldCache, TLC

CONSTANTS p1, p2, v1, v2, standard, other

=============================================================================
