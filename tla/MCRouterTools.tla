--------------------------- MODULE MCRouterTools ---------------------------
(* The programs that go with a router, for TLC. *)
EXTENDS RouterTools

CONSTANTS r1, r2, r3, p1, p2, t1, a, b, c, x, y, d1, d2

BirdRoutes == {a, b, c}
UpdateLists == {<<>>, <<a, CommentLine>>, <<b>>}
BatchLists ==
    {<<[action |-> "add", routes |-> <<c>>], [action |-> "remove", routes |-> <<a>>]>>,
     <<[action |-> "replace", routes |-> <<b, c>>]>>}

Hosts == {x, y}
Resolved == [d \in {d1, d2} |-> IF d = d1 THEN <<x, y>> ELSE <<y>>]
=============================================================================
