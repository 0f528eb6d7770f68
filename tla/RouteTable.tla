----------------------------- MODULE RouteTable -----------------------------
(***************************************************************************)
(* What the learned routing table (internal/routing/learned.go) promises:  *)
(* a durable map from hosts to routes.  A route is learned at an instant    *)
(* and keeps its upstream and that instant until it is replaced by a route  *)
(* to another upstream, forgotten by the operator, expired by age or evicted *)
(* to make room.  Crashes, restarts, failed writes and usage bookkeeping do  *)
(* not show at this level.                                                   *)
(***************************************************************************)
EXTENDS Integers, FiniteSets

CONSTANTS
    Hosts,       \* host names
    Upstreams,   \* names of upstreams
    NoRoute,     \* stands for "no entry for this host"
    TTL,         \* learned-domain-ttl; 0 switches expiry off
    Limits       \* values of learned-max-entries the callers pass; 0: unlimited

(* Its assumptions on these constants are those of LearnedStore. *)

VARIABLES table, now

Route == [upstream : Upstreams, learnedAt : Nat]

Known(t) == {h \in Hosts : t[h] # NoRoute}
Without(t, gone) == [h \in Hosts |-> IF h \in gone THEN NoRoute ELSE t[h]]

TableInit ==
    /\ table = [h \in Hosts |-> NoRoute]
    /\ now \in Nat

(* A new route, or a route through another upstream.  A new host may push *)
(* out one other host when the table is full.                             *)
Learn(h, u) ==
    /\ table[h] # NoRoute => table[h].upstream # u
    /\ \E victims \in {{}} \cup {{k} : k \in Known(table)} :
         /\ victims # {} => /\ table[h] = NoRoute
                            /\ \E n \in Limits \ {0} : Cardinality(Known(table)) >= n
         /\ table' = [Without(table, victims) EXCEPT
                         ![h] = [upstream |-> u, learnedAt |-> now]]
    /\ now' = now

Forget(h) ==
    /\ h \in Known(table)
    /\ table' = Without(table, {h})
    /\ now' = now

(* Everything learned up to some instant, at least TTL ago, goes together. *)
Expire ==
    /\ TTL > 0
    /\ \E upTo \in 0..now :
         /\ upTo + TTL <= now
         /\ LET old == {h \in Known(table) : table[h].learnedAt <= upTo}
            IN  old # {} /\ table' = Without(table, old)
    /\ now' = now

(* A table over the limit is cut down to exactly the limit. *)
Shrink(n) ==
    /\ n > 0
    /\ Cardinality(Known(table)) > n
    /\ \E victims \in SUBSET Known(table) :
         /\ Cardinality(Known(table) \ victims) = n
         /\ table' = Without(table, victims)
    /\ now' = now

Advance == now' = now + 1 /\ table' = table

TableNext ==
    \/ Advance
    \/ \E h \in Hosts, u \in Upstreams : Learn(h, u)
    \/ \E h \in Hosts : Forget(h)
    \/ Expire
    \/ \E n \in Limits : Shrink(n)

TableSpec == TableInit /\ [][TableNext]_<<table, now>>
=============================================================================
