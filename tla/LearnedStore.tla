---------------------------- MODULE LearnedStore ----------------------------
(***************************************************************************)
(* The learned routing store (internal/routing/learned.go): an in-memory   *)
(* map behind one mutex, and the YAML file it is saved to.  Every method    *)
(* holds the mutex to its end, file write included, so each is one action;  *)
(* what can go wrong inside one is the save, which may fail, or be cut off  *)
(* by a crash of the process before or after the rename that replaces the   *)
(* file.                                                                    *)
(*                                                                          *)
(* Hosts are normalized names, numbered in lexicographic order.  A route    *)
(* keeps what decides its fate: its upstream and its two timestamps (not    *)
(* the hit counter and the reason, which nothing reads back).               *)
(***************************************************************************)
EXTENDS Integers, FiniteSets

CONSTANTS
    Hosts, Upstreams, NoRoute, TTL, Limits,  \* as in RouteTable
    Lag,      \* how old an instant read before the lock can be once it is held
    MaxTime   \* bound: the clock stops there

ASSUME NoRouteAssumption ==
    /\ NoRoute \notin [upstream : Upstreams, learnedAt : Nat, lastUsedAt : Nat]
    /\ NoRoute \notin [upstream : Upstreams, learnedAt : Nat]
ASSUME TTLAssumption == TTL \in Nat
ASSUME LimitsAssumption == Limits \subseteq Nat
ASSUME HostsAssumption == Hosts \subseteq Nat /\ IsFiniteSet(Hosts)
ASSUME ClockAssumption == Lag \in Nat /\ MaxTime \in Nat \ {0}

VARIABLES
    domains,  \* Store.domains: the entries in memory
    dirty,    \* Store.dirty: memory holds usage the file does not
    disk,     \* the entries in the file at Store.path
    up,       \* the process is running
    now       \* time.Now(), from 1 on: 0 is the zero time.Time

vars == <<domains, dirty, disk, up, now>>

LearnedDomain == [upstream : Upstreams, learnedAt : Nat, lastUsedAt : Nat]
Entries == [Hosts -> LearnedDomain \cup {NoRoute}]
Empty == [h \in Hosts |-> NoRoute]
NeverUsed == 0

Known(f) == {h \in Hosts : f[h] # NoRoute}
WithoutDropping(f, gone) == [h \in Hosts \ gone |-> f[h]]
Without(f, gone) == [h \in Hosts |-> IF h \in gone THEN NoRoute ELSE f[h]]

-----------------------------------------------------------------------------
(* The order of eviction (lessRecentlyUsed).  As in UpstreamManager, the    *)
(* forms a regression could give a definition stand before it, and no       *)
(* action uses them.                                                        *)

LastTouchIgnoringLearning(entry) == entry.lastUsedAt

LastTouch(entry) ==
    IF entry.lastUsedAt = NeverUsed THEN entry.learnedAt ELSE entry.lastUsedAt

LessRecentlyUsedWithoutTieBreak(f, h, k) ==
    LastTouch(f[h]) < LastTouch(f[k])

LessRecentlyUsed(f, h, k) ==
    \/ LastTouch(f[h]) < LastTouch(f[k])
    \/ /\ LastTouch(f[h]) = LastTouch(f[k])
       /\ \/ f[h].learnedAt < f[k].learnedAt
          \/ f[h].learnedAt = f[k].learnedAt /\ h < k

(* evictionCandidateLocked: the least recently used route of f. *)
Candidate(f) ==
    {h \in Known(f) : \A k \in Known(f) \ {h} : LessRecentlyUsed(f, h, k)}

(* The loop of PruneToLimit: what it leaves after each of its rounds, of     *)
(* which there can be no more than there are routes.                         *)
Round(f, limit) ==
    IF Cardinality(Known(f)) > limit THEN Without(f, Candidate(f)) ELSE f

PruneLoop(f, limit) ==
    LET left[n \in 0..Cardinality(Known(f))] ==
          IF n = 0 THEN f ELSE Round(left[n - 1], limit)
    IN  left[Cardinality(Known(f))]

(* What AddWithLimit drops to make room for host h. *)
VictimsOnlyWhenOver(f, h, limit) ==
    IF f[h] = NoRoute /\ limit > 0 /\ Cardinality(Known(f)) > limit
    THEN Candidate(f)
    ELSE {}

Victims(f, h, limit) ==
    IF f[h] = NoRoute /\ limit > 0 /\ Cardinality(Known(f)) >= limit
    THEN Candidate(f)
    ELSE {}

-----------------------------------------------------------------------------
(* saveLocked, and what its callers do with the outcome. *)

(* A failed save puts the touched hosts back as they were. *)
RestoredHalf(f, next, touched) == next

Restored(f, next, touched) ==
    [h \in Hosts |-> IF h \in touched THEN f[h] ELSE next[h]]

Saved(next) ==
    /\ domains' = next
    /\ disk' = next
    /\ dirty' = FALSE
    /\ up' = TRUE

SaveFails(next, touched) ==
    /\ domains' = Restored(domains, next, touched)
    /\ UNCHANGED <<disk, dirty, up>>

(* The process dies while saving: the rename has happened or it has not. *)
CrashInSaveTruncates(next) ==
    /\ disk' \in {disk, next, Empty}
    /\ domains' = Empty
    /\ dirty' = FALSE
    /\ up' = FALSE

CrashInSave(next) ==
    /\ disk' \in {disk, next}
    /\ domains' = Empty
    /\ dirty' = FALSE
    /\ up' = FALSE

Save(next, touched) == Saved(next) \/ SaveFails(next, touched) \/ CrashInSave(next)

-----------------------------------------------------------------------------
Init ==
    /\ domains = Empty
    /\ dirty = FALSE
    /\ disk = Empty
    /\ up = TRUE
    /\ now = 1

(* An instant the caller read from the clock before it got the lock. *)
RecentInstants == {t \in 1..now : now <= t + Lag}

(* Adding the route a host already has is an early return and changes nothing, *)
(* the learning instant included.                                              *)
AddWithLimit(h, u, limit) ==
    /\ up
    /\ domains[h] # NoRoute => domains[h].upstream # u
    /\ LET victims == Victims(domains, h, limit)
           next == [Without(domains, victims) EXCEPT
                       ![h] = [upstream |-> u, learnedAt |-> now, lastUsedAt |-> NeverUsed]]
       IN  Save(next, victims \cup {h})
    /\ now' = now

MarkUsedWithoutDirty(h, at) ==
    /\ up
    /\ h \in Known(domains)
    /\ domains' = [domains EXCEPT ![h].lastUsedAt = at]
    /\ UNCHANGED <<dirty, disk, up, now>>

MarkUsed(h, at) ==
    /\ up
    /\ h \in Known(domains)
    /\ domains' = [domains EXCEPT ![h].lastUsedAt = at]
    /\ dirty' = TRUE
    /\ UNCHANGED <<disk, up, now>>

Delete(h) ==
    /\ up
    /\ h \in Known(domains)
    /\ Save(Without(domains, {h}), {h})
    /\ now' = now

Expired(f, at) == {h \in Known(f) : at - f[h].learnedAt >= TTL}

PruneExpired(at) ==
    /\ up
    /\ TTL > 0
    /\ Expired(domains, at) # {}
    /\ Save(Without(domains, Expired(domains, at)), Expired(domains, at))
    /\ now' = now

PruneToLimit(limit) ==
    /\ up
    /\ limit > 0
    /\ Cardinality(Known(domains)) > limit
    /\ LET left == PruneLoop(domains, limit)
       IN  Save(left, Known(domains) \ Known(left))
    /\ now' = now

Flush ==
    /\ up
    /\ dirty
    /\ Save(domains, {})
    /\ now' = now

(* The process dies between two operations. *)
Crash ==
    /\ up
    /\ domains' = Empty
    /\ dirty' = FALSE
    /\ up' = FALSE
    /\ UNCHANGED <<disk, now>>

(* A new process calls Load. *)
Load ==
    /\ ~up
    /\ domains' = disk
    /\ dirty' = FALSE
    /\ up' = TRUE
    /\ UNCHANGED <<disk, now>>

Advance ==
    /\ now < MaxTime
    /\ now' = now + 1
    /\ UNCHANGED <<domains, dirty, disk, up>>

Next ==
    \/ \E h \in Hosts, u \in Upstreams, limit \in Limits : AddWithLimit(h, u, limit)
    \/ \E h \in Hosts, at \in RecentInstants : MarkUsed(h, at)
    \/ \E h \in Hosts : Delete(h)
    \/ \E at \in RecentInstants : PruneExpired(at)
    \/ \E limit \in Limits : PruneToLimit(limit)
    \/ Flush
    \/ Crash
    \/ Load
    \/ Advance

Spec == Init /\ [][Next]_vars

-----------------------------------------------------------------------------
(***************************************************************************)
(* Properties                                                              *)
(***************************************************************************)

(* The type invariant; learning and use never lie in the future. *)
TypeOK ==
    /\ domains \in Entries /\ disk \in Entries
    /\ dirty \in BOOLEAN /\ up \in BOOLEAN
    /\ now \in 1..MaxTime
    /\ \A h \in Hosts : /\ domains[h] # NoRoute => domains[h].learnedAt <= now
                        /\ disk[h] # NoRoute => disk[h].learnedAt <= now

(* What an entry says about routing: without its usage. *)
RouteOf(entry) ==
    IF entry = NoRoute
    THEN NoRoute
    ELSE [upstream |-> entry.upstream, learnedAt |-> entry.learnedAt]
Routes(f) == [h \in Hosts |-> RouteOf(f[h])]

(* Memory and file always hold the same routes: neither a failed save (whose *)
(* rollback has to put back the replaced route and the evicted one) nor the  *)
(* batching of usage updates lets them part, so that a crash at any point    *)
(* loses at most usage data.                                                 *)
RoutesDurable == up => Routes(domains) = Routes(disk)

(* Only a store that knows it (dirty) has anything that Flush must write:  *)
(* the flag is never reset while memory and file differ.                   *)
CleanIsSaved == up /\ ~dirty => domains = disk

(* The routes with at least n more recently used ones. *)
Surplus(f, n) ==
    {h \in Known(f) :
        Cardinality({k \in Known(f) : LessRecentlyUsed(f, h, k)}) >= n}

(* Evicting one at a time leaves exactly what Surplus says in one go, and    *)
(* takes out one route per round: the order has no ties between hosts.       *)
PruneLoopAgrees ==
    \A limit \in Limits \ {0} :
        /\ PruneLoop(domains, limit) = Without(domains, Surplus(domains, limit))
        /\ Known(domains) # {} => Cardinality(Candidate(domains)) = 1

(* Evictions, by AddWithLimit or PruneToLimit, take the least recently used *)
(* routes: a route that goes was not touched after a route that stays.      *)
EvictionStep ==
    \/ \E limit \in Limits : PruneToLimit(limit)
    \/ \E h \in Hosts, u \in Upstreams, limit \in Limits : AddWithLimit(h, u, limit)

Touched(entry) ==
    IF entry.lastUsedAt > 0 THEN entry.lastUsedAt ELSE entry.learnedAt

EvictsLeastRecentlyUsed ==
    [][\A h, k \in Known(domains) :
         (/\ up'
          /\ domains'[h] = NoRoute /\ domains'[k] # NoRoute
          /\ Touched(domains[h]) > Touched(domains[k]))
            => ~EvictionStep]_vars

(* The table grows only while it is below the limit of the caller that adds, *)
(* and PruneToLimit leaves exactly the limit (or fails, leaving everything). *)
LimitHeld ==
    [][\A limit \in Limits \ {0} :
         LET size == Cardinality(Known(domains))
             newSize == Cardinality(Known(domains'))
         IN  /\ size >= limit /\ newSize > size
                  => ~ \E h \in Hosts, u \in Upstreams : AddWithLimit(h, u, limit)
             /\ up' /\ newSize \notin {size, limit} => ~PruneToLimit(limit)]_vars

(* The store implements the durable table: its routes are those in memory, *)
(* or those in the file while there is no process.                         *)
Table == INSTANCE RouteTable WITH
            table <- IF up THEN Routes(domains) ELSE Routes(disk)

ImplementsRouteTable == Table!TableSpec
=============================================================================
