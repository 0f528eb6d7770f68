------------------------- MODULE MCUpstreamManager -------------------------
(* Instances of UpstreamManager for TLC.  The dialers are model values that *)
(* are not exchanged for one another: the run checks liveness, for which no *)
(* symmetry is sound.                                                       *)
EXTENDS UpstreamManager

CONSTANTS d1, d2
=============================================================================
