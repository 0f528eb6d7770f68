-------------------------- MODULE UpstreamManager --------------------------
(***************************************************************************)
(* The circuit breaker in front of the SOCKS5 upstreams, with the three    *)
(* kinds of process that use it:                                           *)
(*   - Manager (internal/upstream/manager.go): one breaker per upstream,   *)
(*     every method under one mutex, hence one atomic action each;         *)
(*   - sessions and probes that dial through it (dialUpstreamContext in    *)
(*     cmd/socks5.go): Allow, the network dial, Record and the two gauges  *)
(*     of SetUpstreamState are separate steps, with the lock released in   *)
(*     between;                                                            *)
(*   - the health loop (monitorUpstreamHealth in cmd/micro-socks.go), which *)
(*     checks the upstreams one after the other, ignoring the breaker, and *)
(*     publishes what it saw once all of them are done.                    *)
(*                                                                         *)
(* Time is discrete.  Instead of absolute instants a state keeps what is   *)
(* left of them: "cooldown" is OpenUntil - now and a dial's "left" is its  *)
(* context deadline - now.  Time does not pass a dial's deadline while the *)
(* dial is still running, since socksclient.Dial gives up there.           *)
(***************************************************************************)
EXTENDS Integers, FiniteSets

CONSTANTS
    NumUpstreams,  \* upstreams are 1..NumUpstreams, numbered in name order
    Chosen,        \* those a rule, a fallback or a learned route may choose; the
                   \* health loop checks the others too
    Dialers,       \* the goroutines that dial: sessions and fallback probes
    Enabled,       \* upstream-health.enabled
    Threshold,     \* upstream-health.failure-threshold
    Cooldown,      \* upstream-health.cooldown, in ticks
    DialTimeout    \* connect-timeout of an upstream, in ticks

ASSUME NumUpstreamsAssumption == NumUpstreams \in Nat \ {0}
ASSUME ChosenAssumption == Chosen \subseteq 1..NumUpstreams
ASSUME EnabledAssumption == Enabled \in BOOLEAN
ASSUME ThresholdAssumption == Threshold \in Nat \ {0}
ASSUME DurationsAssumption == Cooldown \in Nat \ {0} /\ DialTimeout \in Nat \ {0}

VARIABLES
    states,     \* Manager.states
    dial,       \* where each dialer is inside dialUpstreamContext
    checker,    \* where the health loop is
    gauge,      \* the exported socks_upstream_healthy and _open gauges
    reachable   \* environment: the upstreams that would answer a check now

vars == <<states, dial, checker, gauge, reachable>>

Upstreams == 1..NumUpstreams

Healths == {"unknown", "healthy", "unhealthy"}
Circuits == {"closed", "open", "half-open"}

(* What Record and State hand out and SetUpstreamState publishes. *)
Snapshots == [health : Healths, circuit : Circuits]
Snapshot(s) == [health |-> s.health, circuit |-> s.circuit]

(* managedState.  Only "failures >= Threshold" is ever asked of the failure *)
(* counter, so it saturates there.                                          *)
ManagedState == [health : Healths,
                 circuit : Circuits,
                 failures : 0..Threshold,
                 cooldown : 0..Cooldown,
                 halfOpenInFlight : BOOLEAN]

NewState == [health |-> "unknown", circuit |-> "closed", failures |-> 0,
             cooldown |-> 0, halfOpenInFlight |-> FALSE]

(* A dialer.  "trial" remembers that Allow admitted it as the half-open     *)
(* request; the code keeps no such mark, and no guard below reads it.       *)
DialPcs == {"idle", "dialing", "rejected", "publishHealth", "publishOpen"}
Dial == [pc : DialPcs, upstream : Upstreams, trial : BOOLEAN,
         left : 0..DialTimeout, seen : Snapshots]
IdleDial == [pc |-> "idle", upstream |-> 1, trial |-> FALSE, left |-> 0,
             seen |-> Snapshot(NewState)]

(* The health loop: CheckAll runs over the upstreams in name order, collecting *)
(* results, and only then does monitorUpstreamHealth publish them in order.    *)
CheckerPcs == {"waiting", "checking", "recording", "publishHealth", "publishOpen"}
Checker == [pc : CheckerPcs, at : Upstreams, answered : BOOLEAN,
            results : [Upstreams -> Snapshots]]
NoResults == [u \in Upstreams |-> Snapshot(NewState)]

-----------------------------------------------------------------------------
(* Manager.Allow *)

(* Next to some definitions stands the form a regression could give them,   *)
(* with a name of its own.  No action uses these: they are swapped in, one  *)
(* at a time, to see that the properties notice.                            *)
RejectsOnlyOpen(s) == s.circuit = "open" /\ s.cooldown > 0

Rejects(s) ==
    \/ s.circuit = "open" /\ s.cooldown > 0
    \/ s.circuit # "closed" /\ s.halfOpenInFlight

Allows(s) == ~Enabled \/ ~Rejects(s)

Admitted(s) ==
    IF Enabled /\ s.circuit # "closed"
    THEN [s EXCEPT !.circuit = "half-open", !.halfOpenInFlight = TRUE]
    ELSE s

(* Manager.Record: a success resets the breaker; a failure trips it at the  *)
(* threshold, and again on every further failure while it is tripped.       *)

TripsOnlyAbove(s, failures) ==
    Enabled /\ (s.circuit = "half-open" \/ failures > Threshold)

Trips(s, failures) ==
    Enabled /\ (s.circuit = "half-open" \/ failures >= Threshold)

SaturatedNever(n) == n
Saturated(n) == IF n > Threshold THEN Threshold ELSE n

RecordedSuccess(s) == [NewState EXCEPT !.health = "healthy"]

RecordedFailureKeepsFlag(s) ==
    LET failures == Saturated(s.failures + 1)
        failed == [s EXCEPT !.health = "unhealthy", !.failures = failures]
    IN  IF Trips(s, failures)
        THEN [failed EXCEPT !.circuit = "open", !.cooldown = Cooldown]
        ELSE failed

RecordedFailure(s) ==
    LET failures == Saturated(s.failures + 1)
        failed == [s EXCEPT !.health = "unhealthy", !.failures = failures,
                            !.halfOpenInFlight = FALSE]
    IN  IF Trips(s, failures)
        THEN [failed EXCEPT !.circuit = "open", !.cooldown = Cooldown]
        ELSE failed

Recorded(s, ok) == IF ok THEN RecordedSuccess(s) ELSE RecordedFailure(s)

-----------------------------------------------------------------------------
Init ==
    /\ states = [u \in Upstreams |-> NewState]
    /\ dial = [d \in Dialers |-> IdleDial]
    /\ checker = [pc |-> IF Enabled THEN "checking" ELSE "waiting", at |-> 1,
                  answered |-> FALSE, results |-> NoResults]
    /\ gauge = [u \in Upstreams |-> [healthy |-> FALSE, open |-> FALSE]]
    /\ reachable \in SUBSET Upstreams

(***************************************************************************)
(* dialUpstreamContext                                                     *)
(***************************************************************************)

(* Allow admits the request, and the network dial starts. *)
Admit(d, u) ==
    /\ dial[d].pc = "idle"
    /\ Allows(states[u])
    /\ states' = [states EXCEPT ![u] = Admitted(@)]
    /\ dial' = [dial EXCEPT ![d] =
                   [pc |-> "dialing", upstream |-> u, left |-> DialTimeout,
                    trial |-> Enabled /\ states[u].circuit # "closed",
                    seen |-> Snapshot(NewState)]]
    /\ UNCHANGED <<checker, gauge, reachable>>

(* Allow turns the request away: ErrCircuitOpen. *)
Reject(d, u) ==
    /\ dial[d].pc = "idle"
    /\ ~Allows(states[u])
    /\ dial' = [dial EXCEPT ![d] = [IdleDial EXCEPT !.pc = "rejected", !.upstream = u]]
    /\ UNCHANGED <<states, checker, gauge, reachable>>

(* The rejected request takes the lock once more to read what to publish. *)
ReadState(d) ==
    /\ dial[d].pc = "rejected"
    /\ dial' = [dial EXCEPT ![d].pc = "publishHealth",
                            ![d].seen = Snapshot(states[dial[d].upstream])]
    /\ UNCHANGED <<states, checker, gauge, reachable>>

(* socksclient.Dial has returned, in time or at its deadline, and Record runs. *)
(* The outcome is free: a CONNECT refused because of the target is an error of *)
(* the dial too, whatever the upstream's own health.                           *)
DialReturns(d) ==
    /\ dial[d].pc = "dialing"
    /\ \E ok \in BOOLEAN :
         LET u == dial[d].upstream
             recorded == Recorded(states[u], ok)
         IN  /\ states' = [states EXCEPT ![u] = recorded]
             /\ dial' = [dial EXCEPT ![d] = [IdleDial EXCEPT
                             !.pc = "publishHealth", !.upstream = u,
                             !.seen = Snapshot(recorded)]]
    /\ UNCHANGED <<checker, gauge, reachable>>

(* SetUpstreamState, with the snapshot taken earlier: two gauges, two steps. *)
SetHealthGauge(u, snapshot) ==
    gauge' = [gauge EXCEPT ![u].healthy = (snapshot.health = "healthy")]
SetOpenGauge(u, snapshot) ==
    gauge' = [gauge EXCEPT ![u].open = (snapshot.circuit # "closed")]

PublishDial(d) ==
    /\ \/ /\ dial[d].pc = "publishHealth"
          /\ SetHealthGauge(dial[d].upstream, dial[d].seen)
          /\ dial' = [dial EXCEPT ![d].pc = "publishOpen"]
       \/ /\ dial[d].pc = "publishOpen"
          /\ SetOpenGauge(dial[d].upstream, dial[d].seen)
          /\ dial' = [dial EXCEPT ![d] = IdleDial]
    /\ UNCHANGED <<states, checker, reachable>>

(***************************************************************************)
(* monitorUpstreamHealth and CheckAll                                      *)
(***************************************************************************)

IsLastOrNextToLast(u) == u + 1 >= NumUpstreams
IsLast(u) == u = NumUpstreams

(* The ticker fires; never when health checking is disabled. *)
HealthTick ==
    /\ Enabled
    /\ checker.pc = "waiting"
    /\ checker' = [checker EXCEPT !.pc = "checking", !.at = 1, !.results = NoResults]
    /\ UNCHANGED <<states, dial, gauge, reachable>>

(* socksclient.Check comes back, bounded by its own timeout. *)
CheckAnswers ==
    /\ checker.pc = "checking"
    /\ checker' = [checker EXCEPT !.pc = "recording",
                                  !.answered = checker.at \in reachable]
    /\ UNCHANGED <<states, dial, gauge, reachable>>

RecordCheck ==
    /\ checker.pc = "recording"
    /\ LET u == checker.at
           recorded == Recorded(states[u], checker.answered)
           last == IsLast(u)
       IN  /\ states' = [states EXCEPT ![u] = recorded]
           /\ checker' = [pc |-> IF last THEN "publishHealth" ELSE "checking",
                          at |-> IF last THEN 1 ELSE u + 1,
                          answered |-> FALSE,
                          results |-> [checker.results EXCEPT ![u] = Snapshot(recorded)]]
    /\ UNCHANGED <<dial, gauge, reachable>>

PublishCheck ==
    LET u == checker.at
        last == IsLast(u)
    IN  /\ \/ /\ checker.pc = "publishHealth"
              /\ SetHealthGauge(u, checker.results[u])
              /\ checker' = [checker EXCEPT !.pc = "publishOpen"]
           \/ /\ checker.pc = "publishOpen"
              /\ SetOpenGauge(u, checker.results[u])
              /\ checker' = [checker EXCEPT
                                !.pc = IF last THEN "waiting" ELSE "publishHealth",
                                !.at = IF last THEN 1 ELSE u + 1,
                                !.results = [@ EXCEPT ![u] = Snapshot(NewState)]]
        /\ UNCHANGED <<states, dial, reachable>>

HealthLoop == HealthTick \/ CheckAnswers \/ RecordCheck \/ PublishCheck

(***************************************************************************)
(* Environment: time, and upstreams that come and go.                      *)
(***************************************************************************)

Less(n) == IF n > 0 THEN n - 1 ELSE 0

Running == {d \in Dialers : dial[d].pc = "dialing"}

Tick ==
    /\ \A d \in Running : dial[d].left > 0
    /\ \/ \E u \in Upstreams : states[u].cooldown > 0
       \/ Running # {}
    /\ states' = [u \in Upstreams |-> [states[u] EXCEPT !.cooldown = Less(@)]]
    /\ dial' = [d \in Dialers |-> [dial[d] EXCEPT !.left = Less(@)]]
    /\ UNCHANGED <<checker, gauge, reachable>>

Outage(u) ==
    /\ u \in reachable
    /\ reachable' = reachable \ {u}
    /\ UNCHANGED <<states, dial, checker, gauge>>

Recovery(u) ==
    /\ u \notin reachable
    /\ reachable' = reachable \cup {u}
    /\ UNCHANGED <<states, dial, checker, gauge>>

-----------------------------------------------------------------------------
DialStep(d) ==
    \/ \E u \in Chosen : Admit(d, u) \/ Reject(d, u)
    \/ ReadState(d)
    \/ DialReturns(d)
    \/ PublishDial(d)

Next ==
    \/ \E d \in Dialers : DialStep(d)
    \/ HealthLoop
    \/ Tick
    \/ \E u \in Upstreams : Outage(u) \/ Recovery(u)

Spec == Init /\ [][Next]_vars

(* The health loop is a goroutine whose checks end at a timeout: it always *)
(* gets on.  Nothing is assumed of the clients: they need not dial at all. *)
FairSpec == Spec /\ WF_vars(HealthLoop)

-----------------------------------------------------------------------------
(***************************************************************************)
(* Properties                                                              *)
(***************************************************************************)

(* The type invariant. *)
TypeOK ==
    /\ states \in [Upstreams -> ManagedState]
    /\ dial \in [Dialers -> Dial]
    /\ checker \in Checker
    /\ gauge \in [Upstreams -> [healthy : BOOLEAN, open : BOOLEAN]]
    /\ reachable \in SUBSET Upstreams

OnTrial(d, u) == dial[d].pc = "dialing" /\ dial[d].trial /\ dial[d].upstream = u

(* A half-open breaker always has the request it is waiting for: no mix of  *)
(* late answers and health checks orphans it, which would reject every later *)
(* request for ever, since only Record leaves "half-open" (manager.go:80-86). *)
HalfOpenIsOwned ==
    \A u \in Upstreams :
        /\ states[u].circuit = "half-open" <=> states[u].halfOpenInFlight
        /\ states[u].halfOpenInFlight => \E d \in Dialers : OnTrial(d, u)

(* The breaker is closed exactly while fewer than Threshold consecutive      *)
(* failures are on record (docs/proxy-routing.md:105), whoever recorded them *)
(* and however late.                                                         *)
ClosedBelowThreshold ==
    Enabled => \A u \in Upstreams :
        states[u].circuit = "closed" <=> states[u].failures < Threshold

(* After the cooldown exactly one request is admitted as a half-open probe  *)
(* (manager.go:63-64): no second one while the first is still dialing.      *)
(* Record clears halfOpenInFlight for ANY dial or check that ends, so this  *)
(* rests on a dial being shorter than the cooldown.                         *)
SingleTrial ==
    \A u \in Upstreams : \A d, e \in Dialers :
        OnTrial(d, u) /\ OnTrial(e, u) => d = e

(* Active checks bypass the breaker so that a recovered upstream is used again *)
(* (manager.go:150-151): when it stays reachable, its breaker is closed over   *)
(* and over, with no help from clients.                                        *)
RecoveredCloses ==
    \A u \in Upstreams :
        <>[](u \in reachable) => []<>(Enabled => states[u].circuit = "closed")

(* ... and the exported gauge does not stay stale for ever: it comes back to  *)
(* healthy after every late or out-of-order publication by a dialer.          *)
GaugeRecovers ==
    \A u \in Upstreams :
        <>[](u \in reachable) => []<>(Enabled => gauge[u].healthy)
=============================================================================
