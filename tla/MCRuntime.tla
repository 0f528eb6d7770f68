------------------------------ MODULE MCRuntime ------------------------------
(* Instances of Runtime for TLC. *)
EXTENDS Runtime

(* Every way to switch health checking on, off or neither, and to raise and *)
(* lower the limit, with as few configurations as possible.                 *)
Choices == {[limit |-> 0, health |-> FALSE], [limit |-> 1, health |-> TRUE]}

CONSTANTS r1, r2, s1, h1, h2
=============================================================================
