-------------------------- MODULE ProbeCoordinator --------------------------
(***************************************************************************)
(* The coordinator of fallback probes (probeCoordinator in cmd/socks5.go): *)
(* at most one probe per host at a time, a pause after a failed one, and a *)
(* bounded number of hosts remembered.  Start and Done each run under one   *)
(* mutex; between the two a prober is busy with the network.                *)
(*                                                                          *)
(* Time is discrete.  In place of the instant retryAfter the model keeps    *)
(* how far ahead it lies, 0 once it has passed.  A prober fixes retryAfter  *)
(* when its probe STARTS and carries it until the deferred Done.            *)
(***************************************************************************)
EXTENDS Integers, FiniteSets

CONSTANTS
    Hosts,      \* normalized host names
    Probers,    \* the goroutines of monitorBlockCandidate
    NoState,    \* stands for "no entry in probeCoordinator.states"
    Backoff,    \* probe-failure-backoff, in ticks
    MaxStates   \* maxProbeStates

ASSUME BackoffAssumption == Backoff \in Nat \ {0}
ASSUME MaxStatesAssumption == MaxStates \in Nat \ {0}
ASSUME HostsAssumption == IsFiniteSet(Hosts)

VARIABLES
    states,  \* probeCoordinator.states
    prober   \* what each prober holds between Start and Done

vars == <<states, prober>>

Active == [active |-> TRUE, retryIn |-> 0]
Waiting(retryIn) == [active |-> FALSE, retryIn |-> retryIn]
ProbeState == {Active} \cup {Waiting(n) : n \in 0..Backoff}
ASSUME NoStateAssumption == NoState \notin ProbeState

Idle == [probing |-> FALSE, host |-> NoState, retryIn |-> 0]
Probing(h, retryIn) == [probing |-> TRUE, host |-> h, retryIn |-> retryIn]
Prober == {Idle} \cup {Probing(h, n) : h \in Hosts, n \in 0..Backoff}

Remembered(f) == {h \in Hosts : f[h] # NoState}
ActiveHosts(f) == {h \in Remembered(f) : f[h].active}
SuppressedHosts(f) == {h \in Remembered(f) : f[h].retryIn > 0}

-----------------------------------------------------------------------------
(* Start.  The forms a regression could give a definition stand before it, *)
(* and no action uses them.                                                *)

IsFull(f) == Cardinality(Remembered(f)) >= MaxStates

StaleIgnoringActive(f) == {h \in Remembered(f) : f[h].retryIn = 0}
StaleIgnoringTime(f) == {h \in Remembered(f) : ~f[h].active}

(* pruneExpiredLocked drops these. *)
Stale(f) == {h \in Remembered(f) : ~f[h].active /\ f[h].retryIn = 0}

PrunedNever(f, h) == f

(* What is left after the pruning that a new host causes when there is no room. *)
Pruned(f, h) ==
    IF f[h] = NoState /\ IsFull(f)
    THEN [k \in Hosts |-> IF k \in Stale(f) THEN NoState ELSE f[k]]
    ELSE f

RefusedWithoutRoomCheck(f, h) == h \in ActiveHosts(f) \cup SuppressedHosts(f)

(* already_in_progress, failure_backoff or coordinator_full. *)
Refused(f, h) ==
    \/ h \in ActiveHosts(f) \cup SuppressedHosts(f)
    \/ f[h] = NoState /\ IsFull(Pruned(f, h))

Started(f, h) == [Pruned(f, h) EXCEPT ![h] = Active]

(* Done: a zero retryAfter forgets the host, another one is remembered. *)
DoneStillActive(f, h, forget, retryIn) ==
    [f EXCEPT ![h] = IF forget THEN NoState ELSE [active |-> TRUE, retryIn |-> retryIn]]

Done(f, h, forget, retryIn) ==
    [f EXCEPT ![h] = IF forget THEN NoState ELSE Waiting(retryIn)]

(* Time passes for a deadline that lies n ahead, an entry and a prober. *)
Later(n) == IF n > 0 THEN n - 1 ELSE 0
LaterEntry(s) == [active |-> s.active, retryIn |-> Later(s.retryIn)]
LaterProber(r) == [probing |-> r.probing, host |-> r.host, retryIn |-> Later(r.retryIn)]

-----------------------------------------------------------------------------
Init ==
    /\ states = [h \in Hosts |-> NoState]
    /\ prober = [p \in Probers |-> Idle]

(* A probe is admitted, and retryAfter := now + backoff. *)
Start(p, h) ==
    /\ ~prober[p].probing
    /\ ~Refused(states, h)
    /\ states' = Started(states, h)
    /\ prober' = [prober EXCEPT ![p] = Probing(h, Backoff)]

(* Turned away; the map may have been pruned on the way. *)
Refuse(p, h) ==
    /\ ~prober[p].probing
    /\ Refused(states, h)
    /\ states' = Pruned(states, h)
    /\ UNCHANGED prober

(* The deferred Done: the host is forgotten when the probe taught something  *)
(* (the direct answer won, or a route was learned), else suppressed for what *)
(* is left of the backoff that began with the probe.                         *)
Finish(p) ==
    /\ prober[p].probing
    /\ \E forget \in BOOLEAN :
         states' = Done(states, prober[p].host, forget, prober[p].retryIn)
    /\ prober' = [prober EXCEPT ![p] = Idle]

Tick ==
    /\ \/ SuppressedHosts(states) # {}
       \/ \E p \in Probers : prober[p].retryIn > 0
    /\ states' = [h \in Hosts |->
                     IF states[h] = NoState THEN NoState ELSE LaterEntry(states[h])]
    /\ prober' = [p \in Probers |-> LaterProber(prober[p])]

Next ==
    \/ \E p \in Probers, h \in Hosts : Start(p, h) \/ Refuse(p, h)
    \/ \E p \in Probers : Finish(p)
    \/ Tick

Spec == Init /\ [][Next]_vars

(* Every network operation of a probe has a deadline, so that each probe   *)
(* ends, and the clock does not stop.  Nobody has to start a probe.        *)
FairSpec == Spec /\ WF_vars(Tick) /\ \A p \in Probers : WF_vars(Finish(p))

-----------------------------------------------------------------------------
(***************************************************************************)
(* Properties                                                              *)
(***************************************************************************)

(* The type invariant. *)
TypeOK ==
    /\ states \in [Hosts -> ProbeState \cup {NoState}]
    /\ prober \in [Probers -> Prober]

(* "One probe per hostname is allowed at a time" (docs/proxy-routing.md:75): *)
(* a host marked active has exactly one prober, which will unmark it, and    *)
(* nothing else, the pruning of a full map included, takes the mark away.    *)
ActiveIsOwned ==
    \A h \in Hosts :
        LET owners == {p \in Probers : prober[p].probing /\ prober[p].host = h}
        IN  /\ h \in ActiveHosts(states) <=> owners # {}
            /\ \A p, q \in owners : p = q

(* The map never outgrows maxProbeStates (socks5.go:42), although Done adds  *)
(* an entry without asking for room: the entry it writes is its own.         *)
Bounded == Cardinality(Remembered(states)) <= MaxStates

(* "Failed probes are suppressed per hostname for probe-failure-backoff"     *)
(* (docs/proxy-routing.md:81): a suppressed host stays suppressed until its  *)
(* time is up, whatever happens to other hosts and however full the map is.  *)
SuppressionHolds ==
    [][\A h \in SuppressedHosts(states) :
         \/ states'[h] = states[h]
         \/ /\ states'[h] = Waiting(Later(states[h].retryIn))
            /\ prober' = [p \in Probers |-> LaterProber(prober[p])]]_vars

(* No host is locked out for ever, neither by its own failed probes nor by a *)
(* map full of the remains of others: again and again Start would admit it.  *)
NeverLockedOut == \A h \in Hosts : []<>(~Refused(states, h))
=============================================================================
