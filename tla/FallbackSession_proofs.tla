----------------------- MODULE FallbackSession_proofs -----------------------
(***************************************************************************)
(* The sessions and their monitors for any sessions, hosts, upstreams,     *)
(* limits and faults: types, and the refinement of the probe coordinator.  *)
(*                                                                         *)
(* A monitor outlives its session's streams but not its session, so Held   *)
(* says what of the session is still there while the monitor runs, and     *)
(* that a monitor without a probe carries no backoff.                      *)
(***************************************************************************)
EXTENDS FallbackSession, TLAPS

States == [Hosts -> Coordinator!ProbeState \cup {None}]

HeldBy(r, m) ==
    /\ r.pc # "idle" => r.target # None
    /\ r.pc \in {"fallback", "learning"} => r.fallback # None
    /\ r.forward => r.pc \in {"streaming", "ended"}
    /\ m.pc # "off" =>
         /\ r.pc \in {"streaming", "ended"} /\ r.probed
         /\ r.fallback # None /\ m.host # None
    /\ m.pc \notin ProbePcs => m.retryIn = 0
Held == \A s \in Sessions : HeldBy(session[s], monitor[s])

Inv == TypeOK /\ Held

-----------------------------------------------------------------------------
(* The operators on the two tables. *)

LEMMA EntryTypes ==
    /\ Coordinator!Active \in Coordinator!ProbeState
    /\ \A n \in 0..Backoff : Coordinator!Waiting(n) \in Coordinator!ProbeState
    /\ \A n \in 0..Backoff : Coordinator!Later(n) \in 0..Backoff
    /\ \A e \in Coordinator!ProbeState : Coordinator!LaterEntry(e) \in Coordinator!ProbeState
<1>1. \A n \in 0..Backoff : Coordinator!Later(n) \in 0..Backoff
  BY BoundsAssumption DEF Coordinator!Later
<1>2. Coordinator!LaterEntry(Coordinator!Active) = Coordinator!Active
  BY DEF Coordinator!LaterEntry, Coordinator!Active, Coordinator!Later
<1>3. \A n \in 0..Backoff :
        Coordinator!LaterEntry(Coordinator!Waiting(n)) = Coordinator!Waiting(Coordinator!Later(n))
  BY DEF Coordinator!LaterEntry, Coordinator!Waiting
<1> QED BY <1>1, <1>2, <1>3 DEF Coordinator!ProbeState

LEMMA TableTypes ==
    ASSUME NEW f \in States, NEW h \in Hosts
    PROVE  /\ Coordinator!Pruned(f, h) \in States
           /\ Coordinator!Started(f, h) \in States
           /\ \A forget \in BOOLEAN, n \in 0..Backoff : Coordinator!Done(f, h, forget, n) \in States
           /\ [k \in Hosts |-> IF f[k] = None THEN None ELSE Coordinator!LaterEntry(f[k])] \in States
<1>1. Coordinator!Pruned(f, h) \in States
  BY DEF Coordinator!Pruned, States
<1>2. Coordinator!Started(f, h) \in States
  BY <1>1, EntryTypes DEF Coordinator!Started, States
<1>3. ASSUME NEW forget \in BOOLEAN, NEW n \in 0..Backoff
      PROVE  Coordinator!Done(f, h, forget, n) \in States
  BY EntryTypes DEF Coordinator!Done, States
<1>4. [k \in Hosts |-> IF f[k] = None THEN None ELSE Coordinator!LaterEntry(f[k])] \in States
  BY EntryTypes DEF States
<1> QED BY <1>1, <1>2, <1>3, <1>4

LEMMA AddType ==
    ASSUME routes \in [Hosts -> Route \cup {None}],
           NEW h \in Hosts, NEW u \in Upstreams, Add(h, u)
    PROVE  routes' \in [Hosts -> Route \cup {None}]
<1>1. Fresh(u) \in Route
  BY DEF Fresh, Route
<1> QED BY <1>1 DEF Add, Known

LEMMA EgressType ==
    ASSUME routes \in [Hosts -> Route \cup {None}], NEW h \in Hosts, NEW fallback
    PROVE  EgressFor(h, fallback) \in Upstreams \cup {Direct}
BY DEF EgressFor, ActiveRoute, Route

-----------------------------------------------------------------------------
LEMMA InvInit == Init => Inv
<1>1. NoSession \in Session /\ NoMonitor \in Monitor
  BY BoundsAssumption DEF NoSession, Session, NoMonitor, Monitor
<1> QED BY <1>1 DEF Init, Inv, TypeOK, Held, HeldBy, NoSession, NoMonitor, ProbePcs

(* A step of one session: the others keep what they have. *)
LEMMA InvFrame ==
    ASSUME Inv, NEW s \in Sessions, NEW r \in Session, NEW m \in Monitor,
           session' = [session EXCEPT ![s] = r], monitor' = [monitor EXCEPT ![s] = m],
           routes' \in [Hosts -> Route \cup {None}], probes' \in States,
           HeldBy(r, m)
    PROVE  Inv'
<1>1. TypeOK'
  BY DEF Inv, TypeOK, States
<1>2. ASSUME NEW t \in Sessions
      PROVE  /\ session'[t] = IF t = s THEN r ELSE session[t]
             /\ monitor'[t] = IF t = s THEN m ELSE monitor[t]
  BY DEF Inv, TypeOK
<1>3. Held'
  BY <1>2 DEF Inv, Held
<1> QED BY <1>1, <1>3 DEF Inv

LEMMA Parts ==
    ASSUME Inv, NEW s \in Sessions
    PROVE  /\ session[s] \in Session /\ monitor[s] \in Monitor
           /\ session = [session EXCEPT ![s] = session[s]]
           /\ monitor = [monitor EXCEPT ![s] = monitor[s]]
           /\ routes \in [Hosts -> Route \cup {None}] /\ probes \in States
           /\ HeldBy(session[s], monitor[s])
BY DEF Inv, TypeOK, Held, States

(* What is held, and is there, has its type. *)
LEMMA HeldTypes ==
    ASSUME NEW r \in Session, NEW m \in Monitor, HeldBy(r, m)
    PROVE  /\ r.pc # "idle" => r.target \in Hosts
           /\ r.pc \in {"fallback", "learning"} => r.fallback \in Upstreams
           /\ m.pc # "off" => r.fallback \in Upstreams /\ m.host \in Hosts
           /\ m.retryIn \in 0..Backoff /\ m.forget \in BOOLEAN
BY DEF Session, Monitor, HeldBy

LEMMA NotNone == None \notin Hosts /\ None \notin Upstreams
BY NoneAssumption

-----------------------------------------------------------------------------
(* The main goroutine and StreamReverse. *)
LEMMA InvMain ==
    ASSUME Inv, NEW s \in Sessions,
           \/ \E h \in Hosts, fallback \in Fallbacks : Request(s, h, fallback)
           \/ Main(s) \/ TargetAnswers(s) \/ Release(s)
           \/ ForwardEnds(s) \/ WriteFails(s) \/ ClientLeaves(s) \/ TargetLeaves(s)
    PROVE  Inv'
<1> DEFINE old == session[s]
<1>0. /\ old \in Session /\ monitor[s] \in Monitor /\ HeldBy(old, monitor[s])
      /\ monitor = [monitor EXCEPT ![s] = monitor[s]]
      /\ routes \in [Hosts -> Route \cup {None}] /\ probes \in States
  BY Parts
<1>1. ASSUME NEW r \in Session, session' = [session EXCEPT ![s] = r], UNCHANGED <<probes, monitor>>,
             routes' \in [Hosts -> Route \cup {None}], HeldBy(r, monitor[s])
      PROVE  Inv'
  <2>1. probes' \in States /\ monitor' = [monitor EXCEPT ![s] = monitor[s]]
    BY <1>0, <1>1
  <2> QED BY <1>0, <1>1, <2>1, InvFrame
<1>2. ASSUME NEW r \in Session,
             r.target = old.target, r.fallback = old.fallback, r.probed = old.probed,
             old.pc # "idle",
             r.pc \in {"fallback", "learning"} => r.fallback # None,
             r.forward => r.pc \in {"streaming", "ended"},
             old.pc \in {"streaming", "ended"} => r.pc \in {"streaming", "ended"}
      PROVE  HeldBy(r, monitor[s])
  BY <1>0, <1>2 DEF HeldBy
<1>3. Streaming(old) \in Session /\ Ended(old) \in Session /\ ForwardEnded(old) \in Session
  BY <1>0 DEF Streaming, Ended, ForwardEnded, Session
<1>4. ASSUME old.pc # "idle" PROVE HeldBy(Streaming(old), monitor[s]) /\ HeldBy(Ended(old), monitor[s])
  BY <1>0, <1>4 DEF HeldBy, Streaming, Ended, Session
<1>5. ASSUME NEW h \in Hosts, NEW fallback \in Fallbacks, Request(s, h, fallback) PROVE Inv'
  <2> DEFINE r == [NoSession EXCEPT !.pc = "dialing", !.target = h, !.client = TRUE,
                            !.fallback = fallback, !.egress = EgressFor(h, fallback)]
  <2>1. EgressFor(h, fallback) \in Upstreams \cup {Direct}
    BY <1>0, EgressType
  <2>2. r \in Session /\ r.pc = "dialing" /\ r.target = h /\ r.forward = FALSE
    BY <2>1, EgressAssumption DEF NoSession, Session
  <2>3. HeldBy(r, monitor[s])
    BY <1>0, <1>5, <2>2, NotNone DEF Request, HeldBy
  <2>4. session' = [session EXCEPT ![s] = r] /\ UNCHANGED <<routes, probes, monitor>>
    BY <1>5 DEF Request
  <2> HIDE DEF r
  <2> QED BY <1>0, <1>1, <2>2, <2>3, <2>4
<1>6. CASE DialSucceeds(s)
  BY <1>0, <1>1, <1>3, <1>4, <1>6 DEF DialSucceeds
<1>7. CASE DialFails(s)
  <2>1. CASE old.egress = Direct /\ old.fallback # None
    <3> DEFINE r == [old EXCEPT !.pc = "fallback"]
    <3>1. r \in Session /\ HeldBy(r, monitor[s])
      BY <1>0, <1>7, <2>1 DEF DialFails, Session, HeldBy
    <3>2. session' = [session EXCEPT ![s] = r]
      BY <1>7, <2>1 DEF DialFails
    <3> QED BY <1>0, <1>1, <1>7, <3>1, <3>2 DEF DialFails
  <2>2. CASE ~(old.egress = Direct /\ old.fallback # None)
    BY <1>0, <1>1, <1>3, <1>4, <1>7, <2>2 DEF DialFails
  <2> QED BY <2>1, <2>2
<1>8. CASE FallbackDialed(s)
  <2> DEFINE r == [old EXCEPT !.pc = "learning", !.egress = old.fallback]
  <2>1. r \in Session /\ HeldBy(r, monitor[s])
    <3>1. old.fallback \in Upstreams
      BY <1>0, <1>8, HeldTypes DEF FallbackDialed
    <3> QED BY <1>0, <1>8, <3>1, NotNone DEF FallbackDialed, Session, HeldBy
  <2>2. session' = [session EXCEPT ![s] = r] \/ session' = [session EXCEPT ![s] = Ended(old)]
    BY <1>8 DEF FallbackDialed
  <2> HIDE DEF r
  <2> QED BY <1>0, <1>1, <1>3, <1>4, <1>8, <2>1, <2>2 DEF FallbackDialed
<1>9. CASE LearnAfterFallback(s)
  <2>1. routes' \in [Hosts -> Route \cup {None}]
    BY <1>0, <1>9, AddType, HeldTypes DEF LearnAfterFallback
  <2> QED BY <1>0, <1>1, <1>3, <1>4, <1>9, <2>1 DEF LearnAfterFallback
<1>10. CASE TargetAnswers(s)
  <2> DEFINE r == [old EXCEPT !.responded = TRUE]
  <2>1. r \in Session /\ HeldBy(r, monitor[s])
    BY <1>0, <1>10 DEF TargetAnswers, Session, HeldBy
  <2> QED BY <1>0, <1>1, <1>10, <2>1 DEF TargetAnswers
<1>11. CASE ReverseEnds(s)
  BY <1>0, <1>1, <1>3, <1>4, <1>11 DEF ReverseEnds
<1>12. ASSUME old.forward PROVE HeldBy(ForwardEnded(old), monitor[s])
  BY <1>0, <1>12 DEF HeldBy, ForwardEnded, Session
<1>13. CASE ForwardEnds(s)
  BY <1>0, <1>1, <1>3, <1>12, <1>13 DEF ForwardEnds
<1>14. CASE WriteFails(s)
  BY <1>0, <1>1, <1>3, <1>4, <1>12, <1>14 DEF WriteFails
<1>15. CASE ClientLeaves(s)
  <2> DEFINE r == [old EXCEPT !.client = FALSE]
  <2>1. r \in Session /\ HeldBy(r, monitor[s])
    BY <1>0 DEF Session, HeldBy
  <2> QED BY <1>0, <1>1, <1>15, <2>1 DEF ClientLeaves
<1>16. CASE TargetLeaves(s)
  <2> DEFINE r == [old EXCEPT !.server = FALSE]
  <2>1. r \in Session /\ HeldBy(r, monitor[s])
    BY <1>0 DEF Session, HeldBy
  <2> QED BY <1>0, <1>1, <1>16, <2>1 DEF TargetLeaves
<1>17. CASE Release(s)
  <2>1. NoSession \in Session /\ HeldBy(NoSession, monitor[s])
    BY <1>0, <1>17 DEF Release, NoSession, Session, HeldBy
  <2> QED BY <1>0, <1>1, <1>17, <2>1 DEF Release
<1> QED BY <1>5, <1>6, <1>7, <1>8, <1>9, <1>10, <1>11, <1>13, <1>14, <1>15, <1>16, <1>17 DEF Main

(* The monitor, from the ClientHello that starts it to its Done. *)
LEMMA InvMonitor ==
    ASSUME Inv, NEW s \in Sessions,
           \/ \E sni \in (Hosts \ Addresses) \cup {None} : ClientHello(s, sni)
           \/ MonitorStep(s)
    PROVE  Inv'
<1> DEFINE old == session[s]
           was == monitor[s]
<1>0. /\ old \in Session /\ was \in Monitor /\ HeldBy(old, was)
      /\ session = [session EXCEPT ![s] = old]
      /\ routes \in [Hosts -> Route \cup {None}] /\ probes \in States
  BY Parts
<1>1. NoMonitor \in Monitor /\ HeldBy(old, NoMonitor)
  BY <1>0, BoundsAssumption DEF NoMonitor, Monitor, HeldBy
<1>2. ASSUME NEW m \in Monitor, monitor' = [monitor EXCEPT ![s] = m], UNCHANGED session,
             routes' \in [Hosts -> Route \cup {None}], probes' \in States, HeldBy(old, m)
      PROVE  Inv'
  BY <1>0, <1>2, InvFrame
<1>3. ASSUME NEW m \in Monitor, was.pc # "off", m.host = was.host, m.pc \in ProbePcs
      PROVE  HeldBy(old, m)
  BY <1>0, <1>3 DEF HeldBy
<1>4. was.pc # "off" => was.host \in Hosts /\ old.fallback \in Upstreams
  BY <1>0, HeldTypes
<1>5. ASSUME NEW sni \in (Hosts \ Addresses) \cup {None}, ClientHello(s, sni) PROVE Inv'
  <2> DEFINE m == [NoMonitor EXCEPT !.pc = "waiting", !.host = CandidateHost(old.target, sni)]
             r == [old EXCEPT !.probed = TRUE]
  <2>1. CandidateHost(old.target, sni) \in Hosts
    <3>1. old.target \in Hosts
      BY <1>0, <1>5, HeldTypes DEF ClientHello, HeldBy
    <3> QED BY <3>1 DEF CandidateHost
  <2>2. NoMonitor \in Monitor /\ NoMonitor.retryIn = 0
    BY <1>1 DEF NoMonitor
  <2>3. m \in Monitor /\ m.pc = "waiting" /\ m.host \in Hosts /\ m.retryIn = 0
    BY <2>1, <2>2 DEF Monitor
  <2>4. r \in Session /\ r.pc = old.pc /\ r.target = old.target
        /\ r.fallback = old.fallback /\ r.probed /\ r.forward = old.forward
    BY <1>0 DEF Session
  <2>5. session' = [session EXCEPT ![s] = r] /\ monitor' = [monitor EXCEPT ![s] = m]
        /\ UNCHANGED <<routes, probes>> /\ old.forward /\ old.fallback # None
    BY <1>5 DEF ClientHello
  <2> HIDE DEF m, r
  <2>6. HeldBy(r, m)
    BY <1>0, <2>3, <2>4, <2>5, NotNone DEF HeldBy, ProbePcs
  <2> QED BY <1>0, <2>3, <2>4, <2>5, <2>6, InvFrame
<1>6. CASE MonitorSeesResponse(s)
  BY <1>0, <1>1, <1>2, <1>6 DEF MonitorSeesResponse
<1>7. CASE MonitorTimesOut(s)
  <2>1. was.host \in Hosts /\ was.pc = "waiting" /\ UNCHANGED <<routes, session>>
    BY <1>4, <1>7 DEF MonitorTimesOut
  <2>2. Coordinator!Pruned(probes, was.host) \in States /\ Coordinator!Started(probes, was.host) \in States
    BY <1>0, <2>1, TableTypes
  <2>3. CASE monitor' = [monitor EXCEPT ![s] = NoMonitor] /\ probes' \in States
    BY <1>0, <1>1, <1>2, <2>1, <2>3
  <2>4. CASE /\ probes' = Coordinator!Started(probes, was.host)
             /\ monitor' = [monitor EXCEPT ![s].pc = "probing", ![s].retryIn = Backoff]
    <3> DEFINE m == [was EXCEPT !.pc = "probing", !.retryIn = Backoff]
    <3>1. m \in Monitor /\ m.pc \in ProbePcs /\ m.host = was.host
      <4>1. Backoff \in 0..Backoff
        BY BoundsAssumption
      <4>2. m \in Monitor
        BY <1>0, <4>1 DEF Monitor
      <4>3. m.pc = "probing" /\ m.host = was.host
        BY <1>0 DEF Monitor
      <4> QED BY <4>2, <4>3 DEF ProbePcs
    <3>2. monitor' = [monitor EXCEPT ![s] = m]
      BY <2>4
    <3> HIDE DEF m
    <3> QED BY <1>0, <1>2, <1>3, <2>1, <2>2, <2>4, <3>1, <3>2
  <2>5. \/ probes' = probes /\ monitor' = [monitor EXCEPT ![s] = NoMonitor]
        \/ probes' = Coordinator!Pruned(probes, was.host) /\ monitor' = [monitor EXCEPT ![s] = NoMonitor]
        \/ /\ probes' = Coordinator!Started(probes, was.host)
           /\ monitor' = [monitor EXCEPT ![s].pc = "probing", ![s].retryIn = Backoff]
    BY <1>7 DEF MonitorTimesOut
  <2> QED BY <1>0, <2>2, <2>3, <2>4, <2>5
<1>8. ASSUME NEW pc \in ProbePcs, was.pc # "off"
      PROVE  /\ [was EXCEPT !.pc = pc] \in Monitor /\ HeldBy(old, [was EXCEPT !.pc = pc])
             /\ [was EXCEPT !.pc = pc, !.forget = TRUE] \in Monitor
             /\ HeldBy(old, [was EXCEPT !.pc = pc, !.forget = TRUE])
  <2> DEFINE m == [was EXCEPT !.pc = pc]
             n == [was EXCEPT !.pc = pc, !.forget = TRUE]
  <2>1. m \in Monitor /\ m.host = was.host /\ m.pc \in ProbePcs
    BY <1>0 DEF Monitor, ProbePcs
  <2>2. n \in Monitor /\ n.host = was.host /\ n.pc \in ProbePcs
    BY <1>0 DEF Monitor, ProbePcs
  <2> HIDE DEF m, n
  <2>3. HeldBy(old, m) /\ HeldBy(old, n)
    BY <1>3, <1>8, <2>1, <2>2
  <2> QED BY <2>1, <2>2, <2>3 DEF m, n
<1>9. {"done", "learning", "closingTarget", "closingClient"} \subseteq ProbePcs
  BY DEF ProbePcs
<1>10. CASE ProbeFails(s)
  BY <1>0, <1>2, <1>8, <1>9, <1>10 DEF ProbeFails
<1>11. CASE ProbeAnswers(s)
  BY <1>0, <1>2, <1>8, <1>9, <1>11 DEF ProbeAnswers
<1>12. CASE MonitorLearns(s)
  <2>1. routes' \in [Hosts -> Route \cup {None}]
    BY <1>0, <1>4, <1>12, AddType DEF MonitorLearns
  <2>2. /\ was.pc # "off" /\ UNCHANGED <<probes, session>>
        /\ \/ monitor' = [monitor EXCEPT ![s] = [was EXCEPT !.pc = "closingTarget", !.forget = TRUE]]
           \/ monitor' = [monitor EXCEPT ![s] = [was EXCEPT !.pc = "done"]]
    BY <1>12 DEF MonitorLearns
  <2> QED BY <1>0, <1>2, <1>8, <1>9, <2>1, <2>2
<1>13. CASE MonitorCloses(s)
  <2>1. ASSUME NEW r \in Session, NEW m \in Monitor,
               session' = [session EXCEPT ![s] = r], monitor' = [monitor EXCEPT ![s] = m],
               UNCHANGED <<routes, probes>>, HeldBy(r, m)
        PROVE  Inv'
    BY <1>0, <2>1, InvFrame
  <2>2. [old EXCEPT !.server = FALSE] \in Session /\ [old EXCEPT !.client = FALSE] \in Session
    BY <1>0 DEF Session
  <2>3. ASSUME NEW m, HeldBy(old, m)
        PROVE  HeldBy([old EXCEPT !.server = FALSE], m) /\ HeldBy([old EXCEPT !.client = FALSE], m)
    BY <1>0, <2>3 DEF HeldBy, Session
  <2>4. CASE was.pc = "closingTarget" /\ monitor' = [monitor EXCEPT ![s] = [was EXCEPT !.pc = "closingClient"]]
              /\ session' = [session EXCEPT ![s] = [old EXCEPT !.server = FALSE]]
    BY <1>8, <1>9, <1>13, <2>1, <2>2, <2>3, <2>4 DEF MonitorCloses
  <2>5. CASE was.pc = "closingClient" /\ monitor' = [monitor EXCEPT ![s] = [was EXCEPT !.pc = "done"]]
              /\ session' = [session EXCEPT ![s] = [old EXCEPT !.client = FALSE]]
    BY <1>8, <1>9, <1>13, <2>1, <2>2, <2>3, <2>5 DEF MonitorCloses
  <2> QED BY <1>13, <2>4, <2>5 DEF MonitorCloses, Closed
<1>14. CASE MonitorDone(s)
  <2>1. was.host \in Hosts /\ was.forget \in BOOLEAN /\ was.retryIn \in 0..Backoff
    BY <1>0, <1>14, HeldTypes DEF MonitorDone
  <2>2. probes' \in States
    BY <1>0, <1>14, <2>1, TableTypes DEF MonitorDone
  <2> QED BY <1>0, <1>1, <1>2, <1>14, <2>2 DEF MonitorDone
<1> QED BY <1>5, <1>6, <1>7, <1>10, <1>11, <1>12, <1>13, <1>14 DEF MonitorStep

LEMMA InvNext == Inv /\ [Next]_vars => Inv'
<1> SUFFICES ASSUME Inv, [Next]_vars PROVE Inv'
  OBVIOUS
<1>0. routes \in [Hosts -> Route \cup {None}] /\ probes \in States
  BY DEF Inv, TypeOK, States
<1>1. ASSUME UNCHANGED <<probes, session, monitor>>, routes' \in [Hosts -> Route \cup {None}]
      PROVE  Inv'
  BY <1>1 DEF Inv, TypeOK, Held, HeldBy
<1>2. ASSUME NEW h \in Hosts, OperatorDeletes(h) PROVE Inv'
  BY <1>0, <1>1, <1>2 DEF OperatorDeletes
<1>3. ASSUME NEW h \in Hosts, RouteExpires(h) PROVE Inv'
  BY <1>0, <1>1, <1>3 DEF RouteExpires, Known, Route
<1>4. ASSUME NEW h \in Hosts, NEW u \in Upstreams, OperatorAdds(h, u) PROVE Inv'
  BY <1>0, <1>1, <1>4, AddType DEF OperatorAdds
<1>5. CASE PruneExpired
  BY <1>0, <1>1, <1>5 DEF PruneExpired
<1>6. CASE Tick
  <2>1. probes' \in States
    BY <1>0, <1>6, TableTypes DEF Tick, States
  <2>2. ASSUME NEW s \in Sessions
        PROVE  /\ monitor'[s] \in Monitor /\ monitor'[s].pc = monitor[s].pc
               /\ monitor'[s].host = monitor[s].host
               /\ monitor[s].retryIn = 0 => monitor'[s].retryIn = 0
    <3>1. monitor'[s] = [monitor[s] EXCEPT !.retryIn = Coordinator!Later(monitor[s].retryIn)]
      BY <1>6 DEF Tick
    <3>2. monitor[s] \in Monitor /\ monitor[s].retryIn \in 0..Backoff
      BY DEF Inv, TypeOK, Monitor
    <3>3. Coordinator!Later(monitor[s].retryIn) \in 0..Backoff
      BY <3>2, EntryTypes
    <3>4. monitor[s].retryIn = 0 => Coordinator!Later(monitor[s].retryIn) = 0
      BY DEF Coordinator!Later
    <3> QED BY <3>1, <3>2, <3>3, <3>4 DEF Monitor
  <2>3. monitor' \in [Sessions -> Monitor] /\ UNCHANGED <<routes, session>>
    BY <1>6, <2>2 DEF Tick
  <2> QED BY <2>1, <2>2, <2>3 DEF Inv, TypeOK, Held, HeldBy, States
<1>7. CASE UNCHANGED vars
  BY <1>0, <1>1, <1>7 DEF vars
<1> QED BY <1>2, <1>3, <1>4, <1>5, <1>6, <1>7, InvMain, InvMonitor DEF Next

(* The type invariant (TypeOK), for any sessions, hosts and faults: what a   *)
(* session and its monitor hold of each other keeps their records whole.    *)
THEOREM SessionTypeCorrect == Spec => []TypeOK
<1>1. Inv => TypeOK
  BY DEF Inv
<1> QED BY <1>1, InvInit, InvNext, PTL DEF Spec

-----------------------------------------------------------------------------
(* What the coordinator sees of the monitors. *)
Seen(m) == [probing |-> m.pc \in ProbePcs,
            host |-> IF m.pc \in ProbePcs THEN m.host ELSE None,
            retryIn |-> m.retryIn]
Probers == [s \in Sessions |-> Seen(monitor[s])]

(* A monitor that is off or waiting is an idle prober, one that probes for   *)
(* a host is busy with it.                                                  *)
LEMMA SeenFields ==
    ASSUME NEW m
    PROVE  /\ Seen(m).probing <=> m.pc \in ProbePcs
           /\ m.pc \in ProbePcs => Seen(m).host = m.host
           /\ Seen(m).retryIn = m.retryIn
           /\ m.pc \notin ProbePcs /\ m.retryIn = 0 => Seen(m) = Coordinator!Idle
           /\ m.pc \in ProbePcs => Seen(m) = Coordinator!Probing(m.host, m.retryIn)
<1>1. /\ Seen(m).probing <=> m.pc \in ProbePcs
      /\ Seen(m).retryIn = m.retryIn
      /\ m.pc \in ProbePcs => Seen(m).host = m.host
  BY DEF Seen
<1>2. ASSUME m.pc \notin ProbePcs, m.retryIn = 0
      PROVE  Seen(m) = Coordinator!Idle
  <2>1. (m.pc \in ProbePcs) = FALSE
    BY <1>2
  <2> QED BY <1>2, <2>1, Zenon DEF Seen, Coordinator!Idle
<1>3. ASSUME m.pc \in ProbePcs
      PROVE  Seen(m) = Coordinator!Probing(m.host, m.retryIn)
  <2>1. (m.pc \in ProbePcs) = TRUE
    BY <1>3
  <2> QED BY <1>3, <2>1, Zenon DEF Seen, Coordinator!Probing
<1> QED BY <1>1, <1>2, <1>3

LEMMA ProbersChange ==
    ASSUME Inv, NEW s \in Sessions, NEW m, monitor' = [monitor EXCEPT ![s] = m]
    PROVE  Probers' = [Probers EXCEPT ![s] = Seen(m)]
BY DEF Inv, TypeOK, Probers, Seen

LEMMA NobodySeen == NoMonitor \in Monitor /\ Seen(NoMonitor) = Coordinator!Idle
<1>1. NoMonitor \in Monitor
  BY BoundsAssumption DEF NoMonitor, Monitor
<1>2. NoMonitor.pc \notin ProbePcs /\ NoMonitor.retryIn = 0
  BY DEF NoMonitor, ProbePcs
<1> QED BY <1>1, <1>2, SeenFields

LEMMA CoordinatorInit == Init => Coordinator!Init
<1> SUFFICES ASSUME Init PROVE Coordinator!Init
  OBVIOUS
<1>1. Probers = [s \in Sessions |-> Coordinator!Idle]
  BY NobodySeen DEF Init, Probers
<1> QED BY <1>1 DEF Init, Coordinator!Init, Probers, Seen

(* Every step of a monitor is one step of the coordinator or none. *)
LEMMA CoordinatorMonitor ==
    ASSUME Inv, NEW s \in Sessions,
           \/ \E sni \in (Hosts \ Addresses) \cup {None} : ClientHello(s, sni)
           \/ MonitorStep(s)
    PROVE  \/ UNCHANGED <<probes, Probers>>
           \/ \E h \in Hosts : Coordinator!Start(s, h) \/ Coordinator!Refuse(s, h)
           \/ Coordinator!Finish(s)
<1> DEFINE was == monitor[s]
<1>0. /\ was \in Monitor /\ session[s] \in Session /\ HeldBy(session[s], was)
      /\ Probers[s] = Seen(was) /\ Probers = [Probers EXCEPT ![s] = Seen(was)]
  BY Parts DEF Probers
<1>1. ASSUME NEW m \in Monitor, monitor' = [monitor EXCEPT ![s] = m], UNCHANGED probes,
             Seen(m) = Seen(was)
      PROVE  UNCHANGED <<probes, Probers>>
  BY <1>0, <1>1, ProbersChange
<1>2. NoMonitor \in Monitor /\ Seen(NoMonitor) = Coordinator!Idle
  BY NobodySeen
<1>3. was.pc \notin ProbePcs => Seen(was) = Coordinator!Idle
  BY <1>0, SeenFields DEF HeldBy
<1>4. ASSUME NEW m \in Monitor, UNCHANGED probes, monitor' = [monitor EXCEPT ![s] = m],
             was.pc \in ProbePcs, m.pc \in ProbePcs, m.host = was.host, m.retryIn = was.retryIn
      PROVE  UNCHANGED <<probes, Probers>>
  BY <1>0, <1>1, <1>4 DEF Seen
<1>5. ASSUME NEW sni \in (Hosts \ Addresses) \cup {None}, ClientHello(s, sni)
      PROVE  UNCHANGED <<probes, Probers>>
  <2> DEFINE m == [NoMonitor EXCEPT !.pc = "waiting",
                                    !.host = CandidateHost(session[s].target, sni)]
  <2>1. was.pc = "off" /\ monitor' = [monitor EXCEPT ![s] = m] /\ UNCHANGED probes
    BY <1>0, <1>5 DEF ClientHello, HeldBy
  <2>2. m.pc \notin ProbePcs /\ m.retryIn = 0
    BY DEF NoMonitor, ProbePcs
  <2>3. Seen(m) = Coordinator!Idle
    BY <2>2, SeenFields
  <2>4. Probers' = [Probers EXCEPT ![s] = Coordinator!Idle]
    BY <2>1, <2>3, ProbersChange
  <2> QED BY <1>0, <1>3, <2>1, <2>4 DEF ProbePcs
<1>6. CASE MonitorSeesResponse(s)
  BY <1>1, <1>2, <1>3, <1>6 DEF MonitorSeesResponse, ProbePcs
<1>7. CASE MonitorTimesOut(s)
  <2>1. was.pc = "waiting" /\ was.host \in Hosts
    BY <1>0, <1>7, HeldTypes DEF MonitorTimesOut
  <2>2. Seen(was) = Coordinator!Idle /\ Seen(was).probing = FALSE
    BY <1>3, <2>1 DEF ProbePcs, Coordinator!Idle
  <2>3. CASE UNCHANGED probes /\ monitor' = [monitor EXCEPT ![s] = NoMonitor]
    BY <1>1, <1>2, <2>2, <2>3
  <2>4. CASE /\ Coordinator!Refused(probes, was.host)
             /\ probes' = Coordinator!Pruned(probes, was.host)
             /\ monitor' = [monitor EXCEPT ![s] = NoMonitor]
    <3>1. Probers' = Probers
      BY <1>0, <1>2, <2>2, <2>4, ProbersChange
    <3> QED BY <1>0, <2>1, <2>2, <2>4, <3>1 DEF Coordinator!Refuse, Probers, Seen
  <2>5. CASE /\ ~Coordinator!Refused(probes, was.host)
             /\ probes' = Coordinator!Started(probes, was.host)
             /\ monitor' = [monitor EXCEPT ![s].pc = "probing", ![s].retryIn = Backoff]
    <3> DEFINE m == [was EXCEPT !.pc = "probing", !.retryIn = Backoff]
    <3>1. m.pc \in ProbePcs /\ m.host = was.host /\ m.retryIn = Backoff
      BY <1>0 DEF Monitor, ProbePcs
    <3>2. Seen(m) = Coordinator!Probing(was.host, Backoff)
      BY <3>1, SeenFields
    <3>3. Probers' = [Probers EXCEPT ![s] = Coordinator!Probing(was.host, Backoff)]
      <4>1. monitor' = [monitor EXCEPT ![s] = m]
        BY <2>5
      <4> QED BY <3>2, <4>1, ProbersChange
    <3> QED BY <1>0, <2>1, <2>2, <2>5, <3>3 DEF Coordinator!Start, Probers, Seen
  <2> QED BY <1>7, <2>3, <2>4, <2>5 DEF MonitorTimesOut
<1>8. ASSUME NEW pc \in ProbePcs, NEW forget \in BOOLEAN, was.pc \in ProbePcs, UNCHANGED probes,
             \/ monitor' = [monitor EXCEPT ![s] = [was EXCEPT !.pc = pc]]
             \/ monitor' = [monitor EXCEPT ![s] = [was EXCEPT !.pc = pc, !.forget = forget]]
      PROVE  UNCHANGED <<probes, Probers>>
  <2>1. [was EXCEPT !.pc = pc] \in Monitor /\ [was EXCEPT !.pc = pc, !.forget = forget] \in Monitor
    BY <1>0 DEF Monitor, ProbePcs
  <2>2. /\ [was EXCEPT !.pc = pc].pc = pc /\ [was EXCEPT !.pc = pc, !.forget = forget].pc = pc
        /\ [was EXCEPT !.pc = pc].host = was.host
        /\ [was EXCEPT !.pc = pc, !.forget = forget].host = was.host
        /\ [was EXCEPT !.pc = pc].retryIn = was.retryIn
        /\ [was EXCEPT !.pc = pc, !.forget = forget].retryIn = was.retryIn
    BY <1>0 DEF Monitor
  <2> QED BY <1>4, <1>8, <2>1, <2>2
<1>9. {"probing", "learning", "closingTarget", "closingClient", "done"} = ProbePcs
  BY DEF ProbePcs
<1>10. CASE ProbeFails(s)
  BY <1>8, <1>9, <1>10 DEF ProbeFails
<1>11. CASE ProbeAnswers(s)
  BY <1>8, <1>9, <1>11 DEF ProbeAnswers
<1>12. CASE MonitorLearns(s)
  BY <1>8, <1>9, <1>12 DEF MonitorLearns
<1>13. CASE MonitorCloses(s)
  BY <1>8, <1>9, <1>13 DEF MonitorCloses, Closed
<1>14. CASE MonitorDone(s)
  <2>1. Seen(was).probing /\ Seen(was).host = was.host /\ Seen(was).retryIn = was.retryIn
    BY <1>0, <1>14, SeenFields DEF MonitorDone, ProbePcs
  <2>2. was.forget \in BOOLEAN
    BY <1>0 DEF Monitor
  <2>3. Probers' = [Probers EXCEPT ![s] = Coordinator!Idle]
    BY <1>2, <1>14, ProbersChange DEF MonitorDone
  <2> QED BY <1>0, <1>14, <2>1, <2>2, <2>3 DEF MonitorDone, Coordinator!Finish, Probers, Seen
<1> QED BY <1>5, <1>6, <1>7, <1>10, <1>11, <1>12, <1>13, <1>14 DEF MonitorStep

LEMMA CoordinatorNext == Inv /\ [Next]_vars => [Coordinator!Next]_(Coordinator!vars)
<1> SUFFICES ASSUME Inv, [Next]_vars PROVE [Coordinator!Next]_(Coordinator!vars)
  OBVIOUS
<1>0. Coordinator!vars = <<probes, Probers>>
  BY DEF Coordinator!vars, Probers, Seen
<1>1. ASSUME UNCHANGED <<probes, Probers>> PROVE UNCHANGED Coordinator!vars
  BY <1>1 DEF Coordinator!vars, Probers, Seen
<1>2. ASSUME UNCHANGED <<probes, monitor>> PROVE UNCHANGED Coordinator!vars
  BY <1>2 DEF Coordinator!vars
<1>3. ASSUME NEW s \in Sessions,
             \/ \E h \in Hosts, fallback \in Fallbacks : Request(s, h, fallback)
             \/ Main(s) \/ TargetAnswers(s) \/ Release(s)
             \/ ForwardEnds(s) \/ WriteFails(s) \/ ClientLeaves(s) \/ TargetLeaves(s)
      PROVE  UNCHANGED <<probes, monitor>>
  BY <1>3 DEF Request, Main, DialSucceeds, DialFails, FallbackDialed, LearnAfterFallback,
              ReverseEnds, TargetAnswers, Release, ForwardEnds, WriteFails, ClientLeaves, TargetLeaves
<1>4. ASSUME NEW s \in Sessions,
             \/ \E sni \in (Hosts \ Addresses) \cup {None} : ClientHello(s, sni)
             \/ MonitorStep(s)
      PROVE  [Coordinator!Next]_(Coordinator!vars)
  BY <1>1, <1>4, CoordinatorMonitor DEF Coordinator!Next
<1>5. ASSUME \/ \E h \in Hosts : OperatorDeletes(h) \/ RouteExpires(h)
             \/ \E h \in Hosts, u \in Upstreams : OperatorAdds(h, u)
             \/ PruneExpired
      PROVE  UNCHANGED <<probes, monitor>>
  BY <1>5 DEF OperatorDeletes, RouteExpires, OperatorAdds, PruneExpired
<1>6. CASE Tick
  <2>1. ASSUME NEW s \in Sessions
        PROVE  Seen(monitor'[s]) = Coordinator!LaterProber(Seen(monitor[s]))
    <3>1. monitor[s] \in Monitor
      BY DEF Inv, TypeOK
    <3>2. monitor'[s] = [monitor[s] EXCEPT !.retryIn = Coordinator!Later(monitor[s].retryIn)]
      BY <1>6 DEF Tick
    <3>3. /\ monitor'[s].pc = monitor[s].pc /\ monitor'[s].host = monitor[s].host
          /\ monitor'[s].retryIn = Coordinator!Later(monitor[s].retryIn)
      BY <3>1, <3>2 DEF Monitor
    <3> QED BY <3>3 DEF Seen, Coordinator!LaterProber
  <2>2. Probers' = [s \in Sessions |-> Coordinator!LaterProber(Probers[s])]
    BY <2>1 DEF Probers
  <2>3. (\E s \in Sessions : monitor[s].retryIn > 0) => \E s \in Sessions : Probers[s].retryIn > 0
    BY DEF Probers, Seen
  <2>4. Coordinator!Tick
    BY <1>6, <2>2, <2>3 DEF Tick, Coordinator!Tick, Probers, Seen
  <2> QED BY <2>4 DEF Coordinator!Next
<1>7. CASE UNCHANGED vars
  BY <1>2, <1>7 DEF vars
<1> QED BY <1>2, <1>3, <1>4, <1>5, <1>6, <1>7 DEF Next

(* ImplementsCoordinator for any number of sessions: on every path out of    *)
(* monitorBlockCandidate a granted Start is answered by exactly one Done,    *)
(* for the same host and with the backoff of that probe.                    *)
THEOREM ImplementsCoordinatorCorrect == Spec => ImplementsCoordinator
BY InvInit, InvNext, CoordinatorInit, CoordinatorNext, PTL
   DEF Spec, ImplementsCoordinator, Coordinator!Spec

-----------------------------------------------------------------------------
(* RetryUsesLearned, where a target is named and routes do not expire: the   *)
(* two ways in which the code breaks it are the only ones.                  *)
Unexpired == \A h \in Hosts : routes[h] # None => ~routes[h].expired
SameHost == \A s \in Sessions : monitor[s].pc # "off" => monitor[s].host = session[s].target

LEMMA AddFresh ==
    ASSUME routes \in [Hosts -> Route \cup {None}], NEW h \in Hosts, NEW u \in Upstreams, Add(h, u),
           Unexpired
    PROVE  /\ Unexpired'
           /\ routes'[h] # None /\ routes'[h].upstream = u
<1>1. Fresh(u).expired = FALSE /\ Fresh(u).upstream = u
  BY DEF Fresh
<1>2. Fresh(u) # None
  <2>1. Fresh(u) \in [upstream : Upstreams, expired : BOOLEAN]
    BY DEF Fresh
  <2> QED BY <2>1, NoneAssumption
<1>3. CASE routes[h] # None /\ routes[h].upstream = u /\ routes' = routes
  BY <1>3 DEF Unexpired
<1>4. CASE routes' = [routes EXCEPT ![h] = Fresh(u)]
  BY <1>1, <1>2, <1>4 DEF Unexpired
<1>5. ASSUME NEW victim \in Known, victim # h,
             routes' = [routes EXCEPT ![victim] = None, ![h] = Fresh(u)]
      PROVE  Unexpired' /\ routes'[h] # None /\ routes'[h].upstream = u
  BY <1>1, <1>2, <1>5 DEF Unexpired, Known
<1> QED BY <1>3, <1>4, <1>5 DEF Add, Known

LEMMA UnexpiredNext ==
    Inv /\ Unexpired /\ "expiry" \notin Faults /\ [Next]_vars => Unexpired'
<1> SUFFICES ASSUME Inv, Unexpired, "expiry" \notin Faults, [Next]_vars PROVE Unexpired'
  OBVIOUS
<1>0. routes \in [Hosts -> Route \cup {None}]
  BY DEF Inv, TypeOK
<1>1. ASSUME UNCHANGED routes PROVE Unexpired'
  BY <1>1 DEF Unexpired
<1>2. ASSUME NEW h \in Hosts, NEW u \in Upstreams, Add(h, u) PROVE Unexpired'
  BY <1>0, <1>2, AddFresh
<1>3. ASSUME NEW s \in Sessions, LearnAfterFallback(s) PROVE Unexpired'
  <2>1. session[s].target \in Hosts /\ session[s].fallback \in Upstreams
    BY <1>3, Parts, HeldTypes DEF LearnAfterFallback
  <2> QED BY <1>1, <1>2, <1>3, <2>1 DEF LearnAfterFallback
<1>4. ASSUME NEW s \in Sessions, MonitorLearns(s) PROVE Unexpired'
  <2>1. monitor[s].host \in Hosts /\ session[s].fallback \in Upstreams
    BY <1>4, Parts, HeldTypes DEF MonitorLearns
  <2> QED BY <1>1, <1>2, <1>4, <2>1 DEF MonitorLearns
<1>5. ASSUME NEW h \in Hosts, OperatorDeletes(h) PROVE Unexpired'
  BY <1>0, <1>5 DEF OperatorDeletes, Unexpired
<1>6. ASSUME NEW h \in Hosts, RouteExpires(h) PROVE Unexpired'
  BY <1>6 DEF RouteExpires
<1>7. CASE PruneExpired
  BY <1>0, <1>7 DEF PruneExpired, Unexpired
<1>8. ASSUME NEW s \in Sessions,
             \/ \E h \in Hosts, fallback \in Fallbacks : Request(s, h, fallback)
             \/ DialSucceeds(s) \/ DialFails(s) \/ FallbackDialed(s) \/ ReverseEnds(s)
             \/ TargetAnswers(s) \/ Release(s)
             \/ \E sni \in (Hosts \ Addresses) \cup {None} : ClientHello(s, sni)
             \/ ForwardEnds(s) \/ WriteFails(s) \/ ClientLeaves(s) \/ TargetLeaves(s)
             \/ MonitorSeesResponse(s) \/ MonitorTimesOut(s) \/ ProbeFails(s) \/ ProbeAnswers(s)
             \/ MonitorCloses(s) \/ MonitorDone(s)
      PROVE  UNCHANGED routes
  BY <1>8 DEF Request, DialSucceeds, DialFails, FallbackDialed, ReverseEnds, TargetAnswers, Release,
              ClientHello, ForwardEnds, WriteFails, ClientLeaves, TargetLeaves, MonitorSeesResponse,
              MonitorTimesOut, ProbeFails, ProbeAnswers, MonitorCloses, MonitorDone
<1>9. CASE Tick \/ UNCHANGED vars
  BY <1>1, <1>9 DEF Tick, vars
<1>10. ASSUME NEW h \in Hosts, NEW u \in Upstreams, OperatorAdds(h, u) PROVE Unexpired'
  BY <1>2, <1>10 DEF OperatorAdds
<1> QED BY <1>1, <1>3, <1>4, <1>5, <1>6, <1>7, <1>8, <1>9, <1>10 DEF Next, Main, MonitorStep

LEMMA SameHostNext ==
    Inv /\ SameHost /\ Addresses = {} /\ [Next]_vars => SameHost'
<1> SUFFICES ASSUME Inv, SameHost, Addresses = {}, [Next]_vars PROVE SameHost'
  OBVIOUS
<1>0. session \in [Sessions -> Session] /\ monitor \in [Sessions -> Monitor]
  BY DEF Inv, TypeOK
<1>1. ASSUME \A t \in Sessions :
               monitor'[t].pc # "off" => /\ monitor[t].pc # "off"
                                         /\ monitor'[t].host = monitor[t].host
                                         /\ session'[t].target = session[t].target
      PROVE  SameHost'
  BY <1>1 DEF SameHost
<1>2. ASSUME UNCHANGED monitor, NEW s \in Sessions, NEW r,
             session' = [session EXCEPT ![s] = r],
             monitor[s].pc = "off" \/ r.target = session[s].target
      PROVE  SameHost'
  BY <1>0, <1>1, <1>2
<1>3. ASSUME NEW s \in Sessions, NEW m, monitor' = [monitor EXCEPT ![s] = m], UNCHANGED session,
             m.pc # "off" => monitor[s].pc # "off" /\ m.host = monitor[s].host
      PROVE  SameHost'
  BY <1>0, <1>1, <1>3
<1>4. ASSUME NEW s \in Sessions
      PROVE  /\ session[s].pc = "idle" => monitor[s].pc = "off"
             /\ session[s].forward => session[s].pc # "idle"
             /\ ~session[s].probed => monitor[s].pc = "off"
             /\ session[s] \in Session /\ monitor[s] \in Monitor
  BY Parts DEF HeldBy
<1>5. NoMonitor.pc = "off"
  BY DEF NoMonitor
<1>6. ASSUME NEW s \in Sessions, NEW h \in Hosts, NEW fallback \in Fallbacks, Request(s, h, fallback)
      PROVE  SameHost'
  BY <1>2, <1>4, <1>6 DEF Request
<1>7. ASSUME NEW s \in Sessions
      PROVE  /\ Streaming(session[s]).target = session[s].target
             /\ Ended(session[s]).target = session[s].target
             /\ ForwardEnded(session[s]).target = session[s].target
  BY <1>4 DEF Streaming, Ended, ForwardEnded, Session
<1>8. ASSUME NEW s \in Sessions,
             Main(s) \/ TargetAnswers(s) \/ ForwardEnds(s) \/ WriteFails(s)
               \/ ClientLeaves(s) \/ TargetLeaves(s)
      PROVE  SameHost'
  <2> DEFINE old == session[s]
  <2>1. /\ [old EXCEPT !.pc = "fallback"].target = old.target
        /\ [old EXCEPT !.pc = "learning", !.egress = old.fallback].target = old.target
        /\ [old EXCEPT !.responded = TRUE].target = old.target
        /\ [old EXCEPT !.client = FALSE].target = old.target
        /\ [old EXCEPT !.server = FALSE].target = old.target
    BY <1>4 DEF Session
  <2>2. CASE DialSucceeds(s) \/ LearnAfterFallback(s) \/ ReverseEnds(s) \/ ForwardEnds(s) \/ WriteFails(s)
    BY <1>2, <1>7, <2>2 DEF DialSucceeds, LearnAfterFallback, ReverseEnds, ForwardEnds, WriteFails
  <2>3. CASE DialFails(s)
    BY <1>2, <1>7, <2>1, <2>3 DEF DialFails
  <2>4. CASE FallbackDialed(s)
    BY <1>2, <1>7, <2>1, <2>4 DEF FallbackDialed
  <2>5. CASE TargetAnswers(s) \/ ClientLeaves(s) \/ TargetLeaves(s)
    BY <1>2, <2>1, <2>5 DEF TargetAnswers, ClientLeaves, TargetLeaves
  <2> QED BY <1>8, <2>2, <2>3, <2>4, <2>5 DEF Main
<1>9. ASSUME NEW s \in Sessions, Release(s) PROVE SameHost'
  BY <1>2, <1>4, <1>9 DEF Release
<1>10. ASSUME NEW s \in Sessions, NEW sni \in (Hosts \ Addresses) \cup {None}, ClientHello(s, sni)
       PROVE  SameHost'
  <2> DEFINE m == [NoMonitor EXCEPT !.pc = "waiting",
                                    !.host = CandidateHost(session[s].target, sni)]
             r == [session[s] EXCEPT !.probed = TRUE]
  <2>1. m.host = session[s].target
    BY DEF NoMonitor, CandidateHost
  <2>2. r.target = session[s].target
    BY <1>4 DEF Session
  <2>3. monitor' = [monitor EXCEPT ![s] = m] /\ session' = [session EXCEPT ![s] = r]
    BY <1>10 DEF ClientHello
  <2> HIDE DEF m, r
  <2>4. ASSUME NEW t \in Sessions, monitor'[t].pc # "off"
        PROVE  monitor'[t].host = session'[t].target
    BY <1>0, <2>1, <2>2, <2>3, <2>4 DEF SameHost
  <2> QED BY <2>4 DEF SameHost
<1>11. ASSUME NEW s \in Sessions, MonitorStep(s) PROVE SameHost'
  <2> DEFINE was == monitor[s]
  <2>1. ASSUME NEW pc
        PROVE  [was EXCEPT !.pc = pc].host = was.host
    BY <1>4 DEF Monitor
  <2>2. /\ [was EXCEPT !.pc = "done", !.forget = TRUE].host = was.host
        /\ [was EXCEPT !.pc = "closingTarget", !.forget = TRUE].host = was.host
        /\ [was EXCEPT !.pc = "probing", !.retryIn = Backoff].host = was.host
    BY <1>4 DEF Monitor
  <2>3. CASE MonitorSeesResponse(s) \/ MonitorDone(s)
    BY <1>3, <1>5, <2>3 DEF MonitorSeesResponse, MonitorDone
  <2>4. CASE MonitorTimesOut(s)
    <3>1. was.pc # "off"
      BY <2>4 DEF MonitorTimesOut
    <3>2. UNCHANGED session /\ \/ monitor' = [monitor EXCEPT ![s] = NoMonitor]
                               \/ monitor' = [monitor EXCEPT ![s] = [was EXCEPT !.pc = "probing", !.retryIn = Backoff]]
      BY <2>4 DEF MonitorTimesOut
    <3> QED BY <1>3, <1>5, <2>2, <3>1, <3>2
  <2>5. CASE ProbeFails(s)
    BY <1>3, <2>1, <2>5 DEF ProbeFails
  <2>6. CASE ProbeAnswers(s)
    BY <1>3, <2>1, <2>2, <2>6 DEF ProbeAnswers
  <2>7. CASE MonitorLearns(s)
    <3>1. /\ was.pc # "off" /\ UNCHANGED session
          /\ \/ monitor' = [monitor EXCEPT ![s] = [was EXCEPT !.pc = "closingTarget", !.forget = TRUE]]
             \/ monitor' = [monitor EXCEPT ![s] = [was EXCEPT !.pc = "done"]]
      BY <2>7 DEF MonitorLearns
    <3> QED BY <1>3, <2>1, <2>2, <3>1
  <2>8. CASE MonitorCloses(s)
    <3>1. /\ [session[s] EXCEPT !.server = FALSE].target = session[s].target
          /\ [session[s] EXCEPT !.client = FALSE].target = session[s].target
      BY <1>4 DEF Session
    <3>2. PICK m, r : /\ monitor' = [monitor EXCEPT ![s] = m] /\ session' = [session EXCEPT ![s] = r]
                      /\ m.host = was.host /\ r.target = session[s].target /\ was.pc # "off"
      BY <2>1, <2>8, <3>1 DEF MonitorCloses, Closed
    <3> QED BY <1>0, <1>1, <3>2
  <2> QED BY <1>11, <2>3, <2>4, <2>5, <2>6, <2>7, <2>8 DEF MonitorStep
<1>12. CASE Tick
  <2>1. ASSUME NEW t \in Sessions
        PROVE  monitor'[t].pc = monitor[t].pc /\ monitor'[t].host = monitor[t].host
    BY <1>4, <1>12 DEF Tick, Monitor
  <2> QED BY <1>1, <1>12, <2>1 DEF Tick
<1>13. ASSUME UNCHANGED <<session, monitor>> PROVE SameHost'
  BY <1>13 DEF SameHost
<1>14. ASSUME \/ \E h \in Hosts : OperatorDeletes(h) \/ RouteExpires(h)
              \/ \E h \in Hosts, u \in Upstreams : OperatorAdds(h, u)
              \/ PruneExpired \/ UNCHANGED vars
       PROVE  UNCHANGED <<session, monitor>>
  BY <1>14 DEF OperatorDeletes, RouteExpires, OperatorAdds, PruneExpired, vars
<1> QED BY <1>6, <1>8, <1>9, <1>10, <1>11, <1>12, <1>13, <1>14 DEF Next

(* A monitor goes from learning to closing by adding the route, and no other *)
(* way.                                                                     *)
LEMMA LearnsByAdding ==
    ASSUME Inv, [Next]_vars, NEW s \in Sessions,
           monitor[s].pc = "learning", monitor'[s].pc = "closingTarget"
    PROVE  Add(monitor[s].host, session[s].fallback) /\ UNCHANGED session
<1>0. monitor \in [Sessions -> Monitor]
  BY DEF Inv, TypeOK
<1>1. monitor' # monitor
  OBVIOUS
<1>2. ASSUME NEW t \in Sessions, MonitorStep(t), t # s PROVE FALSE
  <2>1. \E m : monitor' = [monitor EXCEPT ![t] = m]
    BY <1>2 DEF MonitorStep, MonitorSeesResponse, MonitorTimesOut, ProbeFails, ProbeAnswers,
                MonitorLearns, MonitorCloses, MonitorDone
  <2> QED BY <1>0, <1>2, <2>1
<1>3. ASSUME NEW t \in Sessions, NEW sni \in (Hosts \ Addresses) \cup {None}, ClientHello(t, sni)
      PROVE  FALSE
  <2>1. t # s
    BY <1>3, Parts DEF ClientHello, HeldBy
  <2> QED BY <1>0, <1>3, <2>1 DEF ClientHello
<1>4. ASSUME NEW t \in Sessions,
             \/ \E h \in Hosts, fallback \in Fallbacks : Request(t, h, fallback)
             \/ Main(t) \/ TargetAnswers(t) \/ Release(t)
             \/ ForwardEnds(t) \/ WriteFails(t) \/ ClientLeaves(t) \/ TargetLeaves(t)
      PROVE  FALSE
  BY <1>1, <1>4 DEF Request, Main, DialSucceeds, DialFails, FallbackDialed, LearnAfterFallback,
              ReverseEnds, TargetAnswers, Release, ForwardEnds, WriteFails, ClientLeaves, TargetLeaves
<1>5. CASE Tick
  <2>1. monitor'[s].pc = monitor[s].pc
    BY <1>0, <1>5 DEF Tick, Monitor
  <2> QED BY <2>1
<1>6. ASSUME \/ \E h \in Hosts : OperatorDeletes(h) \/ RouteExpires(h)
             \/ \E h \in Hosts, u \in Upstreams : OperatorAdds(h, u)
             \/ PruneExpired \/ UNCHANGED vars
      PROVE  FALSE
  BY <1>1, <1>6 DEF OperatorDeletes, RouteExpires, OperatorAdds, PruneExpired, vars
<1>7. CASE MonitorStep(s)
  <2>1. MonitorLearns(s)
    <3>1. ~MonitorSeesResponse(s) /\ ~MonitorTimesOut(s) /\ ~ProbeFails(s) /\ ~ProbeAnswers(s)
          /\ ~MonitorCloses(s) /\ ~MonitorDone(s)
      BY DEF MonitorSeesResponse, MonitorTimesOut, ProbeFails, ProbeAnswers, MonitorCloses,
             MonitorDone
    <3> QED BY <1>7, <3>1 DEF MonitorStep
  <2>2. monitor' # [monitor EXCEPT ![s].pc = "done"]
    BY <1>0 DEF Monitor
  <2> QED BY <2>1, <2>2 DEF MonitorLearns
<1> QED BY <1>2, <1>3, <1>4, <1>5, <1>6, <1>7 DEF Next

(* RetryUsesLearned holds for any sessions, hosts, limits and faults, if     *)
(* routes do not expire and clients give names: what the runs expired_route  *)
(* and address_target show is all that can break it.                        *)
THEOREM RetryUsesLearnedCorrect ==
    ASSUME "expiry" \notin Faults, Addresses = {}
    PROVE  Spec => RetryUsesLearned
<1> DEFINE Step == \A s \in Sessions :
                     monitor[s].pc = "learning" /\ monitor'[s].pc = "closingTarget"
                       => EgressFor(session[s].target, session[s].fallback)' # Direct
           Ground == Inv /\ Unexpired /\ SameHost
<1>1. Init => Ground
  BY InvInit DEF Init, Unexpired, SameHost, NoMonitor
<1>2. Ground /\ [Next]_vars => Ground'
  BY InvNext, UnexpiredNext, SameHostNext
<1>3. Ground /\ [Next]_vars => [Step]_vars
  <2> SUFFICES ASSUME Ground, [Next]_vars, NEW s \in Sessions,
                      monitor[s].pc = "learning", monitor'[s].pc = "closingTarget"
               PROVE  EgressFor(session[s].target, session[s].fallback)' # Direct
    OBVIOUS
  <2>1. Add(monitor[s].host, session[s].fallback) /\ UNCHANGED session
    BY LearnsByAdding
  <2>2. /\ monitor[s].host \in Hosts /\ session[s].fallback \in Upstreams
        /\ monitor[s].host = session[s].target
    BY Parts, HeldTypes DEF SameHost
  <2>3. /\ Unexpired' /\ routes'[session[s].target] # None
        /\ routes'[session[s].target].upstream = session[s].fallback
    BY <2>1, <2>2, AddFresh DEF Inv, TypeOK
  <2>4. ActiveRoute(session[s].target)' = session[s].fallback
    BY <2>1, <2>2, <2>3 DEF ActiveRoute, Unexpired
  <2>5. session[s].fallback # None /\ session[s].fallback # Direct
    BY <2>2, NotNone, EgressAssumption
  <2> QED BY <2>1, <2>4, <2>5 DEF EgressFor
<1> QED BY <1>1, <1>2, <1>3, PTL DEF Spec, RetryUsesLearned

-----------------------------------------------------------------------------
(* What is proved of the coordinator holds of the monitors of all sessions. *)
Proved == INSTANCE ProbeCoordinator_proofs WITH
    Probers <- Sessions,
    NoState <- None,
    states <- probes,
    prober <- [s \in Sessions |->
                  [probing |-> monitor[s].pc \in ProbePcs,
                   host |-> IF monitor[s].pc \in ProbePcs THEN monitor[s].host ELSE None,
                   retryIn |-> monitor[s].retryIn]]

(* Proved and Coordinator are the same module with the same substitution. *)
LEMMA SameCoordinator ==
    /\ Proved!Init <=> Coordinator!Init
    /\ [Proved!Next]_(Proved!vars) <=> [Coordinator!Next]_(Coordinator!vars)
    /\ Proved!Bounded <=> Coordinator!Bounded
<1>1. Proved!Init <=> Coordinator!Init
  BY DEF Proved!Init, Coordinator!Init, Proved!Idle, Coordinator!Idle
<1>2. ASSUME NEW S PROVE Proved!Cardinality(S) = Coordinator!Cardinality(S)
  BY DEF Proved!Cardinality, Coordinator!Cardinality
<1>3. ASSUME NEW f
      PROVE  /\ Proved!Remembered(f) = Coordinator!Remembered(f)
             /\ Proved!ActiveHosts(f) = Coordinator!ActiveHosts(f)
             /\ Proved!SuppressedHosts(f) = Coordinator!SuppressedHosts(f)
             /\ Proved!Stale(f) = Coordinator!Stale(f)
  BY DEF Proved!Remembered, Coordinator!Remembered, Proved!ActiveHosts,
         Coordinator!ActiveHosts, Proved!SuppressedHosts, Coordinator!SuppressedHosts,
         Proved!Stale, Coordinator!Stale
<1>4. ASSUME NEW f PROVE Proved!IsFull(f) <=> Coordinator!IsFull(f)
  BY <1>2, <1>3, Zenon DEF Proved!IsFull, Coordinator!IsFull
<1>5. ASSUME NEW f, NEW h PROVE Proved!Pruned(f, h) = Coordinator!Pruned(f, h)
  BY <1>3, <1>4 DEF Proved!Pruned, Coordinator!Pruned
<1>6. Proved!Active = Coordinator!Active
  BY DEF Proved!Active, Coordinator!Active
<1>7. ASSUME NEW f, NEW h
       PROVE  /\ Proved!Refused(f, h) <=> Coordinator!Refused(f, h)
              /\ Proved!Started(f, h) = Coordinator!Started(f, h)
  BY <1>3, <1>4, <1>5, <1>6
     DEF Proved!Refused, Coordinator!Refused, Proved!Started, Coordinator!Started
<1>8. ASSUME NEW s, NEW h
       PROVE  /\ Proved!Start(s, h) <=> Coordinator!Start(s, h)
              /\ Proved!Refuse(s, h) <=> Coordinator!Refuse(s, h)
  BY <1>5, <1>7
     DEF Proved!Start, Coordinator!Start, Proved!Refuse, Coordinator!Refuse, Proved!Probing,
         Coordinator!Probing
<1>9. ASSUME NEW s PROVE Proved!Finish(s) <=> Coordinator!Finish(s)
  BY DEF Proved!Finish, Coordinator!Finish, Proved!Done, Coordinator!Done, Proved!Waiting,
         Coordinator!Waiting, Proved!Idle, Coordinator!Idle
<1>10. Proved!Tick <=> Coordinator!Tick
  BY <1>3
     DEF Proved!Tick, Coordinator!Tick, Proved!Later, Coordinator!Later, Proved!LaterEntry,
         Coordinator!LaterEntry, Proved!LaterProber, Coordinator!LaterProber
<1>11. Proved!Next <=> Coordinator!Next
  BY <1>8, <1>9, <1>10 DEF Proved!Next, Coordinator!Next
<1>12. Proved!Bounded <=> Coordinator!Bounded
  BY <1>2, <1>3 DEF Proved!Bounded, Coordinator!Bounded
<1>13. UNCHANGED Proved!vars <=> UNCHANGED Coordinator!vars
  BY DEF Proved!vars, Coordinator!vars
<1>14. [Proved!Next]_(Proved!vars) <=> [Coordinator!Next]_(Coordinator!vars)
  <2>1. ASSUME Proved!Next \/ UNCHANGED Proved!vars
        PROVE  Coordinator!Next \/ UNCHANGED Coordinator!vars
    BY <1>11, <1>13, <2>1
  <2>2. ASSUME Coordinator!Next \/ UNCHANGED Coordinator!vars
        PROVE  Proved!Next \/ UNCHANGED Proved!vars
    BY <1>11, <1>13, <2>2
  <2> QED BY <2>1, <2>2, Zenon
<1> QED BY <1>1, <1>12, <1>14, Zenon

(* "One probe per hostname is allowed at a time" (docs/proxy-routing.md:75)  *)
(* among all sessions: two monitors that probe never do so for one host,     *)
(* and the map of the coordinator stays within maxProbeStates.              *)
OneProbePerHost ==
    \A s, t \in Sessions :
        monitor[s].pc \in ProbePcs /\ monitor[t].pc \in ProbePcs /\ monitor[s].host = monitor[t].host
            => s = t

(* OneProbePerHost, and the bound on the coordinator's map, for any number   *)
(* of sessions.                                                             *)
THEOREM OneProbePerHostCorrect == Spec => [](OneProbePerHost /\ Coordinator!Bounded)
<1>1. Proved!IsFiniteSet(Hosts)
  BY TargetsAssumption DEF IsFiniteSet, Proved!IsFiniteSet
<1>2. None \notin Proved!ProbeState
  <2>1. Proved!ProbeState \subseteq [active : BOOLEAN, retryIn : 0..Backoff]
    <3>1. Proved!Active \in [active : BOOLEAN, retryIn : 0..Backoff]
      BY BoundsAssumption DEF Proved!Active
    <3>2. \A n \in 0..Backoff : Proved!Waiting(n) \in [active : BOOLEAN, retryIn : 0..Backoff]
      BY DEF Proved!Waiting
    <3> QED BY <3>1, <3>2 DEF Proved!ProbeState
  <2> QED BY <2>1, NoneAssumption
<1>3. (Proved!Spec => []Proved!ActiveIsOwned) /\ (Proved!Spec => []Proved!Bounded)
  BY <1>1, <1>2, BoundsAssumption, Proved!ActiveIsOwnedCorrect, Proved!BoundedCorrect
<1>4. Spec => Proved!Spec
  BY InvInit, InvNext, CoordinatorInit, CoordinatorNext, SameCoordinator, PTL DEF Spec, Proved!Spec
<1>5. Inv /\ Proved!ActiveIsOwned => OneProbePerHost
  <2> SUFFICES ASSUME Inv, Proved!ActiveIsOwned, NEW s \in Sessions, NEW t \in Sessions,
                      monitor[s].pc \in ProbePcs, monitor[t].pc \in ProbePcs,
                      monitor[s].host = monitor[t].host
               PROVE  s = t
    BY DEF OneProbePerHost
  <2>1. monitor[s].host \in Hosts
    BY Parts, HeldTypes DEF ProbePcs
  <2> QED BY <2>1 DEF Proved!ActiveIsOwned
<1> QED BY <1>3, <1>4, <1>5, InvInit, InvNext, SameCoordinator, PTL DEF Spec
=============================================================================
