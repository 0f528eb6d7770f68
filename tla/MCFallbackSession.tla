------------------------- MODULE MCFallbackSession -------------------------
(* Instances of FallbackSession for TLC.  Sessions run the same code on the *)
(* same tables, so the safety runs identify states that differ only in which *)
(* session is which.                                                         *)
EXTENDS FallbackSession, TLC

CONSTANTS s1, s2, name, other, address, u1, u2

SessionSymmetry == Permutations(Sessions)
=============================================================================
