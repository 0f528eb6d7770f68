----------------------- MODULE UpstreamManager_proofs -----------------------
(***************************************************************************)
(* Safety of the circuit breaker for any number of upstreams and dialers   *)
(* and any threshold, cooldown and dial timeout.                           *)
(*                                                                         *)
(* The argument: what one breaker looks like (BreakerOK) is kept by the    *)
(* two operations on it, Admitted and Recorded, and by the passing of      *)
(* time; what relates a breaker to the dials in flight (Owned, Fenced) is  *)
(* added on top.  Fenced is what makes SingleTrial inductive: while a      *)
(* trial dials, an open breaker stays open longer than the dial can last.  *)
(***************************************************************************)
EXTENDS UpstreamManager, TLAPS

(* One breaker, between two operations. *)
BreakerOK(s) ==
    /\ s \in ManagedState
    /\ s.circuit # "closed" => Enabled
    /\ Enabled => (s.circuit = "closed" <=> s.failures < Threshold)
    /\ s.circuit = "half-open" <=> s.halfOpenInFlight

BreakersOK == \A u \in Upstreams : BreakerOK(states[u])

(* A breaker waiting for its half-open request has one that is dialing. *)
Owned == \A u \in Upstreams :
            states[u].halfOpenInFlight => \E d \in Dialers : OnTrial(d, u)

(* An open breaker stays open longer than any trial still dialing. *)
Fenced == \A u \in Upstreams : \A d \in Dialers :
            OnTrial(d, u) /\ states[u].circuit = "open"
                => states[u].cooldown > dial[d].left

TrialInv == SingleTrial /\ Fenced

-----------------------------------------------------------------------------
(* Facts about the operations on one breaker. *)

(* The numbers of the model are integers. *)
LEMMA Numbers ==
    /\ NumUpstreams \in Nat \ {0} /\ Threshold \in Nat \ {0}
    /\ Cooldown \in Nat \ {0} /\ DialTimeout \in Nat \ {0}
    /\ Enabled \in BOOLEAN /\ 1 \in Upstreams
BY NumUpstreamsAssumption, EnabledAssumption, ThresholdAssumption, DurationsAssumption
   DEF Upstreams

(* A new breaker (manager.go:54-56) is a sound one. *)
LEMMA NewStateOK == BreakerOK(NewState)
BY Numbers DEF BreakerOK, NewState, ManagedState, Healths, Circuits

(* Record (manager.go:91-121) leaves a sound breaker, never half-open, and when *)
(* it is open the whole cooldown is ahead.                                      *)
LEMMA RecordedOK ==
    ASSUME NEW s, BreakerOK(s), NEW ok \in BOOLEAN
    PROVE  LET r == Recorded(s, ok) IN
           /\ BreakerOK(r)
           /\ ~r.halfOpenInFlight
           /\ r.circuit = "open" => r.cooldown = Cooldown
<1> DEFINE r == Recorded(s, ok)
<1>1. CASE ok
  <2>1. r = [health |-> "healthy", circuit |-> "closed", failures |-> 0,
             cooldown |-> 0, halfOpenInFlight |-> FALSE]
    BY <1>1 DEF Recorded, RecordedSuccess, NewState
  <2>2. r \in ManagedState
    BY <2>1, Numbers DEF ManagedState, Healths, Circuits
  <2> QED BY <2>1, <2>2, Numbers DEF BreakerOK
<1>2. CASE ~ok
  <2> DEFINE f == Saturated(s.failures + 1)
  <2>1. s \in ManagedState /\ f \in 0..Threshold
    BY Numbers DEF Saturated, BreakerOK, ManagedState
  <2>2. s.circuit # "closed" => Enabled /\ f >= Threshold
    BY <2>1, Numbers DEF Saturated, BreakerOK, ManagedState, Circuits
  <2>3. CASE Trips(s, f)
    <3>1. r = [health |-> "unhealthy", circuit |-> "open", failures |-> f,
               cooldown |-> Cooldown, halfOpenInFlight |-> FALSE]
      BY <1>2, <2>1, <2>3 DEF Recorded, RecordedFailure, ManagedState
    <3>2. r \in ManagedState
      BY <2>1, <3>1, Numbers DEF ManagedState, Healths, Circuits
    <3>3. /\ r.circuit = "open" /\ r.cooldown = Cooldown /\ r.failures = f
          /\ r.halfOpenInFlight = FALSE
      BY <2>1, <3>1 DEF ManagedState
    <3>4. Enabled /\ f >= Threshold
      BY <2>2, <2>3 DEF Trips
    <3> QED BY <2>1, <3>2, <3>3, <3>4, Numbers DEF BreakerOK
  <2>4. CASE ~Trips(s, f)
    <3>1. r = [s EXCEPT !.health = "unhealthy", !.failures = f, !.halfOpenInFlight = FALSE]
      BY <1>2, <2>4 DEF Recorded, RecordedFailure
    <3>2. r \in ManagedState
      BY <2>1, <3>1, Numbers DEF ManagedState, Healths
    <3>3. r.circuit = s.circuit /\ r.failures = f /\ r.halfOpenInFlight = FALSE
      BY <2>1, <3>1 DEF ManagedState
    <3>4. s.circuit = "closed" /\ (Enabled => f < Threshold)
      BY <2>1, <2>2, <2>4, Numbers DEF Trips
    <3> QED BY <3>2, <3>3, <3>4 DEF BreakerOK
  <2> QED BY <2>3, <2>4
<1> QED BY <1>1, <1>2

(* Allow (manager.go:65-88) leaves a sound breaker: unchanged when it is closed, *)
(* half-open otherwise.                                                          *)
LEMMA AdmittedOK ==
    ASSUME NEW s, BreakerOK(s)
    PROVE  /\ BreakerOK(Admitted(s))
           /\ s.circuit = "closed" => Admitted(s) = s
           /\ s.circuit # "closed" => Admitted(s).circuit = "half-open"
BY Numbers DEF BreakerOK, Admitted, ManagedState, Circuits

(* The passing of time is no business of the breaker's soundness. *)
LEMMA CooledOK ==
    ASSUME NEW s, BreakerOK(s)
    PROVE  BreakerOK([s EXCEPT !.cooldown = Less(@)])
<1>1. Less(s.cooldown) \in 0..Cooldown
  BY Numbers DEF Less, BreakerOK, ManagedState
<1> QED BY <1>1 DEF BreakerOK, ManagedState

-----------------------------------------------------------------------------
(* The type invariant, and every breaker sound. *)

Typed == TypeOK /\ BreakersOK

LEMMA SnapshotType ==
    ASSUME NEW s \in ManagedState
    PROVE  Snapshot(s) \in Snapshots
BY DEF Snapshot, Snapshots, ManagedState

LEMMA IdleDialType == IdleDial \in Dial
<1>1. Snapshot(NewState) \in Snapshots
  BY NewStateOK, SnapshotType DEF BreakerOK
<1> QED BY <1>1, Numbers DEF IdleDial, Dial, DialPcs

LEMMA NoResultsType == NoResults \in [Upstreams -> Snapshots]
BY NewStateOK, SnapshotType DEF BreakerOK, NoResults

(* Typed holds initially and every step keeps it. *)
THEOREM TypedInit == Init => Typed
<1> SUFFICES ASSUME Init PROVE Typed
  OBVIOUS
<1>1. BreakersOK /\ states \in [Upstreams -> ManagedState]
  BY NewStateOK DEF Init, BreakersOK, BreakerOK
<1>2. dial \in [Dialers -> Dial]
  BY IdleDialType DEF Init
<1>3. checker \in Checker
  BY NoResultsType, Numbers DEF Init, Checker, CheckerPcs
<1>4. /\ gauge \in [Upstreams -> [healthy : BOOLEAN, open : BOOLEAN]]
      /\ reachable \in SUBSET Upstreams
  BY DEF Init
<1> QED BY <1>1, <1>2, <1>3, <1>4 DEF Typed, TypeOK

(* What a change of one breaker, or of one dialer, keeps. *)
LEMMA OneBreaker ==
    ASSUME Typed, NEW u \in Upstreams, NEW s, BreakerOK(s),
           states' = [states EXCEPT ![u] = s]
    PROVE  BreakersOK' /\ states' \in [Upstreams -> ManagedState]
BY DEF Typed, TypeOK, BreakersOK, BreakerOK

LEMMA OneGauge ==
    ASSUME TypeOK, NEW u \in Upstreams, NEW snapshot,
           SetHealthGauge(u, snapshot) \/ SetOpenGauge(u, snapshot)
    PROVE  gauge' \in [Upstreams -> [healthy : BOOLEAN, open : BOOLEAN]]
<1> DEFINE h == snapshot.health = "healthy"
           o == snapshot.circuit # "closed"
<1>1. h \in BOOLEAN /\ o \in BOOLEAN
  OBVIOUS
<1>2. \/ gauge' = [gauge EXCEPT ![u].healthy = h]
      \/ gauge' = [gauge EXCEPT ![u].open = o]
  BY DEF SetHealthGauge, SetOpenGauge
<1> HIDE DEF h, o
<1> QED BY <1>1, <1>2 DEF TypeOK

LEMMA TypedNext == Typed /\ [Next]_vars => Typed'
<1> SUFFICES ASSUME Typed, [Next]_vars PROVE Typed'
  OBVIOUS
<1> USE DEF Typed
<1>1. ASSUME NEW d \in Dialers, NEW u \in Upstreams, Admit(d, u) PROVE Typed'
  <2>1. BreakerOK(Admitted(states[u]))
    BY AdmittedOK DEF BreakersOK
  <2>2. states' = [states EXCEPT ![u] = Admitted(states[u])]
    BY <1>1 DEF Admit, TypeOK
  <2>3. BreakersOK' /\ states' \in [Upstreams -> ManagedState]
    BY <2>1, <2>2, OneBreaker
  <2> DEFINE trial == Enabled /\ states[u].circuit # "closed"
  <2>4. dial' \in [Dialers -> Dial]
    <3>1. trial \in BOOLEAN
      OBVIOUS
    <3>2. dial' = [dial EXCEPT ![d] =
                     [pc |-> "dialing", upstream |-> u, left |-> DialTimeout,
                      trial |-> trial, seen |-> Snapshot(NewState)]]
      BY <1>1 DEF Admit
    <3> HIDE DEF trial
    <3>3. Snapshot(NewState) \in Snapshots
      BY NewStateOK, SnapshotType DEF BreakerOK
    <3>4. [pc |-> "dialing", upstream |-> u, left |-> DialTimeout,
           trial |-> trial, seen |-> Snapshot(NewState)] \in Dial
      BY <3>1, <3>3, Numbers DEF Dial, DialPcs
    <3> QED BY <3>2, <3>4 DEF TypeOK
  <2> QED BY <1>1, <2>3, <2>4 DEF Admit, TypeOK
<1>2. ASSUME NEW d \in Dialers, NEW u \in Upstreams, Reject(d, u) PROVE Typed'
  <2>1. dial' \in [Dialers -> Dial]
    BY <1>2, IdleDialType DEF Reject, TypeOK, Dial, DialPcs
  <2> QED BY <1>2, <2>1 DEF Reject, TypeOK, BreakersOK
<1>3. ASSUME NEW d \in Dialers, ReadState(d) PROVE Typed'
  <2>1. Snapshot(states[dial[d].upstream]) \in Snapshots
    BY SnapshotType DEF TypeOK, Dial
  <2>2. dial' \in [Dialers -> Dial]
    BY <1>3, <2>1 DEF ReadState, TypeOK, Dial, DialPcs
  <2> QED BY <1>3, <2>2 DEF ReadState, TypeOK, BreakersOK
<1>4. ASSUME NEW d \in Dialers, DialReturns(d) PROVE Typed'
  <2> DEFINE u == dial[d].upstream
  <2>1. u \in Upstreams
    BY DEF TypeOK, Dial
  <2>2. PICK ok \in BOOLEAN :
          /\ states' = [states EXCEPT ![u] = Recorded(states[u], ok)]
          /\ dial' = [dial EXCEPT ![d] = [IdleDial EXCEPT
                          !.pc = "publishHealth", !.upstream = u,
                          !.seen = Snapshot(Recorded(states[u], ok))]]
    BY <1>4 DEF DialReturns
  <2>3. BreakerOK(Recorded(states[u], ok))
    BY <2>1, RecordedOK DEF BreakersOK
  <2>4. BreakersOK' /\ states' \in [Upstreams -> ManagedState]
    BY <2>1, <2>2, <2>3, OneBreaker
  <2>5. Snapshot(Recorded(states[u], ok)) \in Snapshots
    BY <2>3, SnapshotType DEF BreakerOK
  <2>6. dial' \in [Dialers -> Dial]
    BY <2>1, <2>2, <2>5, IdleDialType DEF TypeOK, Dial, DialPcs
  <2> QED BY <1>4, <2>4, <2>6 DEF DialReturns, TypeOK
<1>5. ASSUME NEW d \in Dialers, PublishDial(d) PROVE Typed'
  <2>1. gauge' \in [Upstreams -> [healthy : BOOLEAN, open : BOOLEAN]]
    BY <1>5, OneGauge DEF PublishDial, TypeOK, Dial
  <2>2. dial' \in [Dialers -> Dial]
    <3>1. CASE dial' = [dial EXCEPT ![d].pc = "publishOpen"]
      BY <3>1 DEF TypeOK, Dial, DialPcs
    <3>2. CASE dial' = [dial EXCEPT ![d] = IdleDial]
      BY <3>2, IdleDialType DEF TypeOK
    <3> QED BY <1>5, <3>1, <3>2 DEF PublishDial
  <2> QED BY <1>5, <2>1, <2>2 DEF PublishDial, TypeOK, BreakersOK
<1>6. CASE HealthTick
  <2>1. checker' \in Checker
    <3>1. checker' = [checker EXCEPT !.pc = "checking", !.at = 1, !.results = NoResults]
      BY <1>6 DEF HealthTick
    <3> QED BY <3>1, NoResultsType, Numbers DEF TypeOK, Checker, CheckerPcs
  <2> QED BY <1>6, <2>1 DEF HealthTick, TypeOK, BreakersOK
<1>7. CASE CheckAnswers
  <2>1. checker' \in Checker
    <3> DEFINE answered == checker.at \in reachable
    <3>1. answered \in BOOLEAN
      OBVIOUS
    <3>2. checker' = [checker EXCEPT !.pc = "recording", !.answered = answered]
      BY <1>7 DEF CheckAnswers
    <3> HIDE DEF answered
    <3> QED BY <3>1, <3>2 DEF TypeOK, Checker, CheckerPcs
  <2> QED BY <1>7, <2>1 DEF CheckAnswers, TypeOK, BreakersOK
<1>8. CASE RecordCheck
  <2> DEFINE u == checker.at
             r == Recorded(states[u], checker.answered)
  <2>1. u \in Upstreams /\ checker.answered \in BOOLEAN
    BY DEF TypeOK, Checker
  <2>2. BreakerOK(r)
    BY <2>1, RecordedOK DEF BreakersOK
  <2>3. BreakersOK' /\ states' \in [Upstreams -> ManagedState]
    BY <1>8, <2>1, <2>2, OneBreaker DEF RecordCheck
  <2>4. Snapshot(r) \in Snapshots
    BY <2>2, SnapshotType DEF BreakerOK
  <2>5. u # NumUpstreams => u + 1 \in Upstreams
    BY <2>1, Numbers DEF Upstreams
  <2>6. checker' \in Checker
    BY <1>8, <2>1, <2>4, <2>5, Numbers DEF IsLast, RecordCheck, TypeOK, Checker, CheckerPcs
  <2> QED BY <1>8, <2>3, <2>6 DEF RecordCheck, TypeOK
<1>9. CASE PublishCheck
  <2> DEFINE u == checker.at
  <2>1. u \in Upstreams
    BY DEF TypeOK, Checker
  <2>2. gauge' \in [Upstreams -> [healthy : BOOLEAN, open : BOOLEAN]]
    BY <1>9, <2>1, OneGauge DEF PublishCheck
  <2>3. u # NumUpstreams => u + 1 \in Upstreams
    BY <2>1, Numbers DEF Upstreams
  <2>4. Snapshot(NewState) \in Snapshots
    BY NewStateOK, SnapshotType DEF BreakerOK
  <2>5. checker' \in Checker
    <3>1. CASE checker' = [checker EXCEPT !.pc = "publishOpen"]
      BY <3>1 DEF TypeOK, Checker, CheckerPcs
    <3>2. CASE checker' = [checker EXCEPT
                   !.pc = IF u = NumUpstreams THEN "waiting" ELSE "publishHealth",
                   !.at = IF u = NumUpstreams THEN 1 ELSE u + 1,
                   !.results = [@ EXCEPT ![u] = Snapshot(NewState)]]
      <4>1. [checker.results EXCEPT ![u] = Snapshot(NewState)] \in [Upstreams -> Snapshots]
        BY <2>4 DEF TypeOK, Checker
      <4> HIDE DEF u
      <4> QED BY <2>1, <2>3, <3>2, <4>1, Numbers DEF TypeOK, Checker, CheckerPcs
    <3> QED BY <1>9, <3>1, <3>2 DEF IsLast, PublishCheck
  <2> QED BY <1>9, <2>2, <2>5 DEF PublishCheck, TypeOK, BreakersOK
<1>10. CASE Tick
  <2>1. \A u \in Upstreams : states'[u] = [states[u] EXCEPT !.cooldown = Less(@)]
    BY <1>10 DEF Tick
  <2>2. BreakersOK'
    BY <2>1, CooledOK DEF BreakersOK
  <2>3. states' \in [Upstreams -> ManagedState]
    BY <1>10, <2>2 DEF Tick, BreakersOK, BreakerOK
  <2>4. dial' \in [Dialers -> Dial]
    <3>1. \A n \in 0..DialTimeout : Less(n) \in 0..DialTimeout
      BY Numbers DEF Less
    <3> QED BY <1>10, <3>1 DEF Tick, TypeOK, Dial
  <2> QED BY <1>10, <2>2, <2>3, <2>4 DEF Tick, TypeOK
<1>11. ASSUME NEW u \in Upstreams, Outage(u) \/ Recovery(u) PROVE Typed'
  BY <1>11 DEF Outage, Recovery, TypeOK, BreakersOK
<1>12. CASE UNCHANGED vars
  BY <1>12 DEF vars, TypeOK, BreakersOK
<1> QED
  BY <1>1, <1>2, <1>3, <1>4, <1>5, <1>6, <1>7, <1>8, <1>9, <1>10, <1>11, <1>12,
     ChosenAssumption
     DEF Next, DialStep, HealthLoop, Upstreams

(* Every reachable state is typed, and a closed breaker is one with fewer    *)
(* than Threshold consecutive failures on record, however the records of the *)
(* dials and of the health loop interleave.                                  *)
THEOREM TypeCorrect == Spec => []TypeOK
<1>1. Spec => []Typed
  BY TypedInit, TypedNext, PTL DEF Spec
<1>2. Typed => TypeOK
  BY DEF Typed
<1> QED BY <1>1, <1>2, PTL

THEOREM ClosedBelowThresholdCorrect == Spec => []ClosedBelowThreshold
<1>1. Spec => []Typed
  BY TypedInit, TypedNext, PTL DEF Spec
<1>2. Typed => ClosedBelowThreshold
  BY DEF Typed, BreakersOK, BreakerOK, ClosedBelowThreshold
<1> QED BY <1>1, <1>2, PTL

-----------------------------------------------------------------------------
(* A half-open breaker has its request in flight. *)

LEMMA OwnedInit == Init => Owned
BY DEF Init, Owned, NewState

(* How one step changes the dials on trial: a dial that was not the one that *)
(* ended is still on trial.                                                  *)
LEMMA OwnedNext == Typed /\ Owned /\ [Next]_vars => Owned'
<1> SUFFICES ASSUME Typed, Owned, [Next]_vars,
                    NEW v \in Upstreams, states'[v].halfOpenInFlight
             PROVE  \E e \in Dialers : OnTrial(e, v)'
  BY DEF Owned
<1> USE DEF Typed
<1>1. ASSUME NEW d \in Dialers, NEW u \in Upstreams, Admit(d, u)
      PROVE  \E e \in Dialers : OnTrial(e, v)'
  <2>1. CASE u = v /\ states[u].circuit # "closed"
    <3>1. Enabled
      BY <2>1 DEF BreakersOK, BreakerOK
    <3>2. dial'[d].pc = "dialing" /\ dial'[d].trial /\ dial'[d].upstream = v
      BY <1>1, <2>1, <3>1 DEF Admit, TypeOK
    <3> QED BY <3>2 DEF OnTrial
  <2>2. CASE u # v \/ states[u].circuit = "closed"
    <3>1. states'[v] = states[v]
      BY <1>1, <2>2, AdmittedOK DEF Admit, TypeOK, BreakersOK
    <3>2. PICK e \in Dialers : OnTrial(e, v)
      BY <3>1 DEF Owned
    <3>3. e # d
      BY <1>1, <3>2 DEF Admit, OnTrial
    <3> QED BY <1>1, <3>2, <3>3 DEF Admit, OnTrial, TypeOK
  <2> QED BY <2>1, <2>2
<1>2. ASSUME NEW d \in Dialers, NEW u \in Upstreams, Reject(d, u)
      PROVE  \E e \in Dialers : OnTrial(e, v)'
  <2>1. PICK e \in Dialers : OnTrial(e, v)
    BY <1>2 DEF Reject, Owned
  <2>2. e # d
    BY <1>2, <2>1 DEF Reject, OnTrial
  <2> QED BY <1>2, <2>1, <2>2 DEF Reject, OnTrial, TypeOK
<1>3. ASSUME NEW d \in Dialers, ReadState(d) \/ PublishDial(d)
      PROVE  \E e \in Dialers : OnTrial(e, v)'
  <2>1. PICK e \in Dialers : OnTrial(e, v)
    BY <1>3 DEF ReadState, PublishDial, Owned
  <2>2. e # d
    BY <1>3, <2>1 DEF ReadState, PublishDial, OnTrial
  <2> QED BY <1>3, <2>1, <2>2 DEF ReadState, PublishDial, OnTrial, TypeOK
<1>4. ASSUME NEW d \in Dialers, DialReturns(d)
      PROVE  \E e \in Dialers : OnTrial(e, v)'
  <2> DEFINE u == dial[d].upstream
  <2>1. u \in Upstreams
    BY DEF TypeOK, Dial
  <2>2. PICK ok \in BOOLEAN : states' = [states EXCEPT ![u] = Recorded(states[u], ok)]
    BY <1>4 DEF DialReturns
  <2>3. ~Recorded(states[u], ok).halfOpenInFlight
    BY <2>1, RecordedOK DEF BreakersOK
  <2>4. u # v /\ states'[v] = states[v]
    BY <2>1, <2>2, <2>3 DEF TypeOK
  <2>5. PICK e \in Dialers : OnTrial(e, v)
    BY <2>4 DEF Owned
  <2>6. e # d
    BY <2>4, <2>5 DEF OnTrial
  <2>7. dial'[e] = dial[e]
    BY <1>4, <2>6 DEF DialReturns, TypeOK
  <2> QED BY <2>5, <2>7 DEF OnTrial
<1>5. CASE RecordCheck
  <2> DEFINE u == checker.at
             r == Recorded(states[u], checker.answered)
  <2>1. u \in Upstreams /\ checker.answered \in BOOLEAN
    BY DEF TypeOK, Checker
  <2>2. ~r.halfOpenInFlight
    BY <2>1, RecordedOK DEF BreakersOK
  <2>3. states' = [states EXCEPT ![u] = r] /\ dial' = dial
    BY <1>5 DEF RecordCheck
  <2>4. states'[v] = states[v]
    BY <2>1, <2>2, <2>3 DEF TypeOK
  <2> QED BY <2>3, <2>4 DEF Owned, OnTrial
<1>6. CASE HealthTick \/ CheckAnswers \/ PublishCheck \/ UNCHANGED vars
  <2>1. states' = states /\ dial' = dial
    BY <1>6 DEF HealthTick, CheckAnswers, PublishCheck, vars
  <2> QED BY <2>1 DEF Owned, OnTrial
<1>7. CASE Tick
  <2>1. states[v].halfOpenInFlight
    BY <1>7 DEF Tick, BreakersOK, BreakerOK, ManagedState
  <2>2. PICK e \in Dialers : OnTrial(e, v)
    BY <2>1 DEF Owned
  <2>3. dial'[e] = [dial[e] EXCEPT !.left = Less(@)] /\ dial[e] \in Dial
    BY <1>7 DEF Tick, TypeOK
  <2> QED BY <2>2, <2>3 DEF OnTrial, Dial
<1>8. ASSUME NEW u \in Upstreams, Outage(u) \/ Recovery(u)
      PROVE  \E e \in Dialers : OnTrial(e, v)'
  BY <1>8 DEF Outage, Recovery, Owned, OnTrial
<1> QED
  BY <1>1, <1>2, <1>3, <1>4, <1>5, <1>6, <1>7, <1>8, ChosenAssumption
     DEF Next, DialStep, HealthLoop, Upstreams

(* No interleaving of late answers and health checks leaves a breaker        *)
(* half-open with nobody dialing, which would reject every request for good. *)
THEOREM HalfOpenIsOwnedCorrect == Spec => []HalfOpenIsOwned
<1>1. Spec => [](Typed /\ Owned)
  BY TypedInit, TypedNext, OwnedInit, OwnedNext, PTL DEF Spec
<1>2. Typed /\ Owned => HalfOpenIsOwned
  BY DEF Typed, BreakersOK, BreakerOK, Owned, HalfOpenIsOwned
<1> QED BY <1>1, <1>2, PTL

-----------------------------------------------------------------------------
(* One half-open request at a time, provided a dial ends before a cooldown. *)

LEMMA TrialInit == Init => TrialInv
BY DEF Init, TrialInv, SingleTrial, Fenced, OnTrial, IdleDial

(* A breaker that somebody has just recorded a result in is closed, or open  *)
(* for longer than any dial has left: the fence is up again.                 *)
LEMMA RecordFences ==
    ASSUME DialTimeout < Cooldown, Typed, NEW u \in Upstreams, NEW ok \in BOOLEAN,
           NEW d \in Dialers
    PROVE  LET r == Recorded(states[u], ok) IN
           r.circuit = "open" => r.cooldown > dial[d].left
<1>1. dial[d].left \in 0..DialTimeout
  BY DEF Typed, TypeOK, Dial
<1>2. Recorded(states[u], ok).circuit = "open" => Recorded(states[u], ok).cooldown = Cooldown
  BY RecordedOK DEF Typed, BreakersOK
<1> QED BY <1>1, <1>2, Numbers

LEMMA TrialNext ==
    ASSUME DialTimeout < Cooldown
    PROVE  Typed /\ Owned /\ TrialInv /\ [Next]_vars => TrialInv'
<1> SUFFICES ASSUME Typed, Owned, TrialInv, [Next]_vars PROVE TrialInv'
  OBVIOUS
<1> USE DEF Typed
<1>1. ASSUME NEW d \in Dialers, NEW u \in Upstreams, Admit(d, u) PROVE TrialInv'
  <2>1. /\ \A v \in Upstreams : v # u => states'[v] = states[v]
        /\ \A e \in Dialers : e # d => dial'[e] = dial[e]
        /\ states'[u] = Admitted(states[u])
    BY <1>1 DEF Admit, TypeOK
  <2>2. CASE states[u].circuit = "closed"
    <3>1. states'[u] = states[u]
      BY <2>1, <2>2, AdmittedOK DEF BreakersOK
    <3>2. ~dial'[d].trial
      BY <1>1, <2>2 DEF Admit, TypeOK
    <3> QED BY <2>1, <3>1, <3>2 DEF TrialInv, SingleTrial, Fenced, OnTrial
  <2>3. CASE states[u].circuit # "closed"
    <3>1. Enabled /\ BreakerOK(states[u])
      BY <2>3 DEF BreakersOK, BreakerOK
    <3>2. states[u].circuit = "open" /\ states[u].cooldown \in 0..Cooldown
          /\ ~(states[u].cooldown > 0)
      BY <1>1, <2>3, <3>1 DEF Admit, Allows, Rejects, BreakerOK, ManagedState, Circuits
    <3>3. \A e \in Dialers : ~OnTrial(e, u)
      BY <3>2, Numbers DEF TrialInv, Fenced, TypeOK, Dial
    <3>4. states'[u].circuit = "half-open"
      BY <2>1, <2>3, <3>1, AdmittedOK
    <3>5. \A e \in Dialers, v \in Upstreams : e # d => (OnTrial(e, v)' <=> OnTrial(e, v))
      BY <2>1 DEF OnTrial
    <3>6. dial'[d].upstream = u
      BY <1>1 DEF Admit, TypeOK
    <3>7. SingleTrial'
      BY <3>3, <3>5, <3>6 DEF TrialInv, SingleTrial, OnTrial
    <3>8. Fenced'
      BY <2>1, <3>4, <3>5, <3>6 DEF TrialInv, Fenced, OnTrial
    <3> QED BY <3>7, <3>8 DEF TrialInv
  <2> QED BY <2>2, <2>3
<1>2. ASSUME NEW d \in Dialers, NEW u \in Upstreams, Reject(d, u) PROVE TrialInv'
  <2>1. /\ states' = states /\ dial'[d].pc # "dialing"
        /\ \A e \in Dialers : e # d => dial'[e] = dial[e]
    BY <1>2 DEF Reject, TypeOK
  <2> QED BY <2>1 DEF TrialInv, SingleTrial, Fenced, OnTrial
<1>3. ASSUME NEW d \in Dialers, ReadState(d) \/ PublishDial(d) PROVE TrialInv'
  <2>1. /\ states' = states /\ dial'[d].pc # "dialing"
        /\ \A e \in Dialers : e # d => dial'[e] = dial[e]
    <3>1. CASE ReadState(d)
      BY <3>1 DEF ReadState, TypeOK
    <3>2. CASE PublishDial(d)
      <4>1. states' = states
        BY <3>2 DEF PublishDial
      <4>2. dial \in [Dialers -> Dial]
        BY DEF TypeOK
      <4>3. CASE dial' = [dial EXCEPT ![d].pc = "publishOpen"]
        <5>1. dial'[d].pc = "publishOpen"
          BY <4>2, <4>3 DEF Dial
        <5> QED BY <4>1, <4>2, <4>3, <5>1
      <4>4. CASE dial' = [dial EXCEPT ![d] = IdleDial]
        <5>1. dial'[d].pc = "idle"
          BY <4>2, <4>4 DEF IdleDial
        <5> QED BY <4>1, <4>2, <4>4, <5>1
      <4> QED BY <3>2, <4>3, <4>4 DEF PublishDial
    <3> QED BY <1>3, <3>1, <3>2
  <2> QED BY <2>1 DEF TrialInv, SingleTrial, Fenced, OnTrial
<1>4. ASSUME NEW d \in Dialers, DialReturns(d) PROVE TrialInv'
  <2> DEFINE u == dial[d].upstream
  <2>1. u \in Upstreams
    BY DEF TypeOK, Dial
  <2>2. PICK ok \in BOOLEAN : states' = [states EXCEPT ![u] = Recorded(states[u], ok)]
    BY <1>4 DEF DialReturns
  <2>3. /\ dial'[d].pc # "dialing"
        /\ \A e \in Dialers : e # d => dial'[e] = dial[e]
    BY <1>4 DEF DialReturns, TypeOK, IdleDial
  <2>4. \A e \in Dialers : states'[u].circuit = "open" => states'[u].cooldown > dial[e].left
    BY <2>1, <2>2, RecordFences DEF TypeOK
  <2>5. \A v \in Upstreams : v # u => states'[v] = states[v]
    BY <2>2 DEF TypeOK
  <2> QED BY <2>3, <2>4, <2>5 DEF TrialInv, SingleTrial, Fenced, OnTrial
<1>5. CASE RecordCheck
  <2> DEFINE u == checker.at
  <2>1. u \in Upstreams /\ checker.answered \in BOOLEAN
    BY DEF TypeOK, Checker
  <2>2. states' = [states EXCEPT ![u] = Recorded(states[u], checker.answered)] /\ dial' = dial
    BY <1>5 DEF RecordCheck
  <2>3. \A e \in Dialers : states'[u].circuit = "open" => states'[u].cooldown > dial[e].left
    BY <2>1, <2>2, RecordFences DEF TypeOK
  <2>4. \A v \in Upstreams : v # u => states'[v] = states[v]
    BY <2>2 DEF TypeOK
  <2> QED BY <2>2, <2>3, <2>4 DEF TrialInv, SingleTrial, Fenced, OnTrial
<1>6. CASE HealthTick \/ CheckAnswers \/ PublishCheck \/ UNCHANGED vars
  <2>1. states' = states /\ dial' = dial
    BY <1>6 DEF HealthTick, CheckAnswers, PublishCheck, vars
  <2> QED BY <2>1 DEF TrialInv, SingleTrial, Fenced, OnTrial
<1>7. CASE Tick
  <2>1. \A e \in Dialers : /\ dial'[e].pc = dial[e].pc /\ dial'[e].trial = dial[e].trial
                           /\ dial'[e].upstream = dial[e].upstream
                           /\ dial'[e].left = Less(dial[e].left)
    BY <1>7 DEF Tick, TypeOK, Dial
  <2>2. \A v \in Upstreams : /\ states'[v].circuit = states[v].circuit
                             /\ states'[v].cooldown = Less(states[v].cooldown)
    BY <1>7 DEF Tick, TypeOK, ManagedState
  <2>3. SingleTrial'
    BY <2>1 DEF TrialInv, SingleTrial, OnTrial
  <2>4. ASSUME NEW v \in Upstreams, NEW e \in Dialers, OnTrial(e, v)',
               states'[v].circuit = "open"
        PROVE  states'[v].cooldown > dial'[e].left
    <3>1. dial[e].left > 0 /\ OnTrial(e, v)
      BY <1>7, <2>1, <2>4 DEF Tick, Running, OnTrial
    <3>2. states[v].cooldown > dial[e].left
      BY <2>2, <2>4, <3>1 DEF TrialInv, Fenced
    <3>3. states[v].cooldown \in Nat /\ dial[e].left \in Nat
      BY Numbers DEF TypeOK, ManagedState, Dial
    <3> QED BY <2>1, <2>2, <3>1, <3>2, <3>3 DEF Less
  <2> QED BY <2>3, <2>4 DEF TrialInv, Fenced
<1>8. ASSUME NEW u \in Upstreams, Outage(u) \/ Recovery(u) PROVE TrialInv'
  BY <1>8 DEF Outage, Recovery, TrialInv, SingleTrial, Fenced, OnTrial
<1> QED
  BY <1>1, <1>2, <1>3, <1>4, <1>5, <1>6, <1>7, <1>8, ChosenAssumption
     DEF Next, DialStep, HealthLoop, Upstreams

(* "Exactly one request is admitted as a half-open probe" (manager.go:63-64) *)
(* holds whenever connect-timeout is shorter than the cooldown, as it is by  *)
(* default; the run long_dial shows that the hypothesis is needed.           *)
THEOREM SingleTrialCorrect ==
    ASSUME DialTimeout < Cooldown
    PROVE  Spec => []SingleTrial
<1>1. Typed /\ Owned /\ TrialInv /\ [Next]_vars => (Typed /\ Owned /\ TrialInv)'
  BY TypedNext, OwnedNext, TrialNext
<1>2. Spec => [](Typed /\ Owned /\ TrialInv)
  BY <1>1, TypedInit, OwnedInit, TrialInit, PTL DEF Spec
<1>3. Typed /\ Owned /\ TrialInv => SingleTrial
  BY DEF TrialInv
<1> QED BY <1>2, <1>3, PTL
=============================================================================
