------------------------ MODULE MCProbeCoordinator -------------------------
(* The instance of ProbeCoordinator for TLC: more hosts than the map holds. *)
EXTENDS ProbeCoordinator

CONSTANTS h1, h2, h3, h4, p1, p2, p3
=============================================================================
