--------------------------- MODULE MCLearnedStore ---------------------------
(* The instance of LearnedStore for TLC. *)
EXTENDS LearnedStore, TLC

CONSTANTS u1, u2

(* Upstreams are only ever compared with each other; hosts are ordered. *)
UpstreamSymmetry == Permutations(Upstreams)
=============================================================================
