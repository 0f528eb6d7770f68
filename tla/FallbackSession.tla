-------------------------- MODULE FallbackSession --------------------------
(***************************************************************************)
(* "Direct first, fall back, learn" (cmd/socks5.go): the sessions of the   *)
(* proxy with the goroutines each of them has,                             *)
(*   - the main one: routing, dialing, the fallback after a failed direct  *)
(*     connect, then StreamReverse;                                        *)
(*   - StreamForward;                                                      *)
(*   - monitorBlockCandidate, started by the TLS ClientHello of a direct   *)
(*     session, which probes through the upstream when the target stays    *)
(*     silent, learns the route and closes the session for the browser to  *)
(*     retry.  It outlives the session when the client leaves early;       *)
(* and what all sessions share: the learned routes (LearnedStore, here at  *)
(* the level of RouteTable) and the coordinator of probes                  *)
(* (ProbeCoordinator, whose operators the actions use).                    *)
(*                                                                         *)
(* A dial through an upstream succeeds or fails freely: being turned away  *)
(* by the breaker (UpstreamManager) is one of the ways to fail.            *)
(***************************************************************************)
EXTENDS Integers, FiniteSets

CONSTANTS
    Sessions,     \* sessions alive at the same time
    Hosts,        \* normalized names of targets
    Addresses,    \* the targets clients give as an IP address
    Silenced,     \* the targets that never answer a direct connection
    Upstreams,
    Fallbacks,    \* fallbacks of the policies in force: upstreams, or None
    None,         \* no fallback, no route, no host, no state: nothing
    Direct,       \* the egress "direct"
    MaxRoutes,    \* learned-max-entries; 0: unlimited
    MaxStates,    \* maxProbeStates
    Backoff,      \* probe-failure-backoff, in ticks
    Faults        \* what may happen to the system: see Powers

(* The powers of the environment.  Each is a guard of the steps it allows. *)
Powers == {"connectFails", "probeFails", "saveFails", "filtered", "leaves", "operator", "expiry"}

ASSUME TargetsAssumption == Addresses \subseteq Hosts /\ Silenced \subseteq Hosts /\ IsFiniteSet(Hosts)
ASSUME EgressAssumption == Fallbacks \subseteq Upstreams \cup {None} /\ Direct \notin Upstreams
ASSUME BoundsAssumption == MaxRoutes \in Nat /\ MaxStates \in Nat \ {0} /\ Backoff \in Nat \ {0}
ASSUME FaultsAssumption == Faults \subseteq Powers
ASSUME NoneAssumption ==
    /\ None \notin Hosts \cup Upstreams \cup {Direct}
    /\ None \notin [upstream : Upstreams, expired : BOOLEAN]
    /\ None \notin [active : BOOLEAN, retryIn : 0..Backoff]

VARIABLES
    routes,   \* LearnedRoutes: the learned routes, with their age
    probes,   \* FallbackProbes.states
    session,  \* the main goroutine and StreamForward of each session
    monitor   \* the monitorBlockCandidate goroutine of each session

vars == <<routes, probes, session, monitor>>

(* A learned route; "expired" is "older than learned-domain-ttl". *)
Route == [upstream : Upstreams, expired : BOOLEAN]
Fresh(u) == [upstream |-> u, expired |-> FALSE]

(* "client" and "server" say that clientConn and targetConn are open at both *)
(* ends; "responded" that firstResponse is closed; "probed" is probeStarted. *)
Session == [pc : {"idle", "dialing", "fallback", "learning", "streaming", "ended"},
            target : Hosts \cup {None}, egress : Upstreams \cup {Direct},
            fallback : Upstreams \cup {None}, client : BOOLEAN, server : BOOLEAN,
            forward : BOOLEAN, responded : BOOLEAN, probed : BOOLEAN]
NoSession == [pc |-> "idle", target |-> None, egress |-> Direct, fallback |-> None,
              client |-> FALSE, server |-> FALSE, forward |-> FALSE,
              responded |-> FALSE, probed |-> FALSE]

(* "retryIn" is what is left until retryAfter; "forget" says that retryAfter *)
(* has been reset to the zero time.                                          *)
Monitor == [pc : {"off", "waiting", "probing", "learning", "closingTarget",
                  "closingClient", "done"},
            host : Hosts \cup {None}, retryIn : 0..Backoff, forget : BOOLEAN]
NoMonitor == [pc |-> "off", host |-> None, retryIn |-> 0, forget |-> FALSE]

ProbePcs == {"probing", "learning", "closingTarget", "closingClient", "done"}

(* The coordinator, and what of a monitor it is concerned with. *)
Coordinator == INSTANCE ProbeCoordinator WITH
    Probers <- Sessions,
    NoState <- None,
    states <- probes,
    prober <- [s \in Sessions |->
                  [probing |-> monitor[s].pc \in ProbePcs,
                   host |-> IF monitor[s].pc \in ProbePcs THEN monitor[s].host ELSE None,
                   retryIn |-> monitor[s].retryIn]]

-----------------------------------------------------------------------------
(* The learned routes as the sessions see them. *)

Known == {h \in Hosts : routes[h] # None}

(* LookupActive does not see an expired route. *)
ActiveRoute(h) == IF routes[h] # None /\ ~routes[h].expired THEN routes[h].upstream ELSE None

(* Next to some definitions stands the form a regression could give them;   *)
(* no action uses it.                                                       *)
EgressForUnchecked(h, fallback) ==
    IF fallback # None THEN ActiveRoute(h) ELSE Direct

(* PolicyFor: a learned route replaces a direct policy that has a fallback. *)
EgressFor(h, fallback) ==
    IF fallback # None /\ ActiveRoute(h) # None THEN ActiveRoute(h) ELSE Direct

(* AddWithLimit: a host that has this upstream is left as it is, a new host  *)
(* takes the place of another one when there is no room.                     *)
Add(h, u) ==
    \/ /\ routes[h] # None /\ routes[h].upstream = u
       /\ UNCHANGED routes
    \/ /\ routes[h] # None /\ routes[h].upstream # u
       /\ routes' = [routes EXCEPT ![h] = Fresh(u)]
    \/ /\ routes[h] = None
       /\ MaxRoutes = 0 \/ Cardinality(Known) < MaxRoutes
       /\ routes' = [routes EXCEPT ![h] = Fresh(u)]
    \/ /\ routes[h] = None
       /\ MaxRoutes > 0 /\ Cardinality(Known) >= MaxRoutes
       /\ \E victim \in Known : routes' = [routes EXCEPT ![victim] = None, ![h] = Fresh(u)]

-----------------------------------------------------------------------------
Init ==
    /\ routes = [h \in Hosts |-> None]
    /\ probes = [h \in Hosts |-> None]
    /\ session = [s \in Sessions |-> NoSession]
    /\ monitor = [s \in Sessions |-> NoMonitor]

(***************************************************************************)
(* The main goroutine: ProcessRequest, connectAfterDirectFailure,          *)
(* StreamReverse and the deferred closings of AcceptConnection.            *)
(***************************************************************************)

(* A request arrives; its policy is settled by one lookup. *)
Request(s, h, fallback) ==
    /\ session[s].pc = "idle"
    /\ session' = [session EXCEPT ![s] =
          [NoSession EXCEPT !.pc = "dialing", !.target = h, !.client = TRUE,
                            !.fallback = fallback, !.egress = EgressFor(h, fallback)]]
    /\ UNCHANGED <<routes, probes, monitor>>

Streaming(r) == [r EXCEPT !.pc = "streaming", !.server = TRUE, !.forward = TRUE]
Ended(r) == [r EXCEPT !.pc = "ended", !.client = FALSE, !.server = FALSE]

DialSucceeds(s) ==
    /\ session[s].pc = "dialing"
    /\ session' = [session EXCEPT ![s] = Streaming(@)]
    /\ UNCHANGED <<routes, probes, monitor>>

(* Only a direct dial falls back, and only once. *)
DialFails(s) ==
    /\ "connectFails" \in Faults
    /\ session[s].pc = "dialing"
    /\ session' = [session EXCEPT ![s] =
          IF session[s].egress = Direct /\ session[s].fallback # None
          THEN [@ EXCEPT !.pc = "fallback"]
          ELSE Ended(@)]
    /\ UNCHANGED <<routes, probes, monitor>>

FallbackDialed(s) ==
    /\ session[s].pc = "fallback"
    /\ \/ session' = [session EXCEPT ![s] =
                         [@ EXCEPT !.pc = "learning", !.egress = session[s].fallback]]
       \/ "connectFails" \in Faults /\ session' = [session EXCEPT ![s] = Ended(@)]
    /\ UNCHANGED <<routes, probes, monitor>>

(* The target is learned as the client named it; a filter (CanLearn) or a   *)
(* failed save leaves the table alone and the session goes on all the same. *)
LearnAfterFallback(s) ==
    /\ session[s].pc = "learning"
    /\ \/ Add(session[s].target, session[s].fallback)
       \/ {"filtered", "saveFails"} \cap Faults # {} /\ UNCHANGED routes
    /\ session' = [session EXCEPT ![s] = Streaming(@)]
    /\ UNCHANGED <<probes, monitor>>

(* StreamReverse relays what the target sends; the first of it closes       *)
(* firstResponse.                                                           *)
TargetAnswers(s) ==
    /\ session[s].pc = "streaming" /\ session[s].server /\ ~session[s].responded
    /\ session[s].egress = Direct /\ session[s].target \notin Silenced
    /\ session' = [session EXCEPT ![s].responded = TRUE]
    /\ UNCHANGED <<routes, probes, monitor>>

(* StreamReverse sees the end of targetConn, and everything is closed. *)
ReverseEnds(s) ==
    /\ session[s].pc = "streaming" /\ ~session[s].server
    /\ session' = [session EXCEPT ![s] = Ended(@)]
    /\ UNCHANGED <<routes, probes, monitor>>

(***************************************************************************)
(* StreamForward                                                           *)
(***************************************************************************)

(* The host a probe of this session would be about, with the name the       *)
(* ClientHello carries, if it carries one.                                  *)
CandidateHostAlwaysSni(target, sni) ==
    IF sni # None THEN sni ELSE target

CandidateHost(target, sni) ==
    IF target \in Addresses /\ sni # None THEN sni ELSE target

(* A whole ClientHello has been forwarded. *)
ClientHello(s, sni) ==
    /\ session[s].forward /\ session[s].client /\ session[s].server
    /\ ~session[s].probed
    /\ session[s].egress = Direct /\ session[s].fallback # None
    /\ session' = [session EXCEPT ![s].probed = TRUE]
    /\ monitor' = [monitor EXCEPT ![s] =
          [NoMonitor EXCEPT !.pc = "waiting",
                            !.host = CandidateHost(session[s].target, sni)]]
    /\ UNCHANGED <<routes, probes>>

(* StreamForward sees the end of clientConn and closes targetConn. *)
ForwardEndedForgettingTarget(r) == [r EXCEPT !.forward = FALSE]
ForwardEnded(r) == [r EXCEPT !.forward = FALSE, !.server = FALSE]

ForwardEnds(s) ==
    /\ session[s].forward /\ ~session[s].client
    /\ session' = [session EXCEPT ![s] = ForwardEnded(@)]
    /\ UNCHANGED <<routes, probes, monitor>>

(* Or a write fails: on a closed targetConn here, on a closed clientConn in *)
(* StreamReverse.  Nothing makes a peer send, so this need not happen.      *)
WriteFails(s) ==
    /\ \/ /\ session[s].forward /\ session[s].client /\ ~session[s].server
          /\ session' = [session EXCEPT ![s] = ForwardEnded(@)]
       \/ /\ session[s].pc = "streaming" /\ ~session[s].client
          /\ session' = [session EXCEPT ![s] = Ended(@)]
    /\ UNCHANGED <<routes, probes, monitor>>

(***************************************************************************)
(* monitorBlockCandidate                                                   *)
(***************************************************************************)

(* The select before the probe: either case may be taken when both the      *)
(* response and the timer are there.                                        *)
MonitorSeesResponse(s) ==
    /\ monitor[s].pc = "waiting"
    /\ session[s].responded
    /\ monitor' = [monitor EXCEPT ![s] = NoMonitor]
    /\ UNCHANGED <<routes, probes, session>>

MonitorTimesOut(s) ==
    LET h == monitor[s].host
        refused == Coordinator!Refused(probes, h)
    IN  /\ monitor[s].pc = "waiting"
        /\ \/ /\ "filtered" \in Faults
              /\ monitor' = [monitor EXCEPT ![s] = NoMonitor]
              /\ UNCHANGED probes
           \/ /\ refused
              /\ probes' = Coordinator!Pruned(probes, h)
              /\ monitor' = [monitor EXCEPT ![s] = NoMonitor]
           \/ /\ ~refused
              /\ probes' = Coordinator!Started(probes, h)
              /\ monitor' = [monitor EXCEPT ![s].pc = "probing", ![s].retryIn = Backoff]
        /\ UNCHANGED <<routes, session>>

(* No such upstream any more, no connection through it, no answer in time. *)
ProbeFails(s) ==
    /\ "probeFails" \in Faults
    /\ monitor[s].pc = "probing"
    /\ monitor' = [monitor EXCEPT ![s].pc = "done"]
    /\ UNCHANGED <<routes, probes, session>>

(* The upstream brought an answer; did the direct connection win after all? *)
ProbeAnswers(s) ==
    /\ monitor[s].pc = "probing"
    /\ monitor' = [monitor EXCEPT
          ![s] = IF session[s].responded
                 THEN [@ EXCEPT !.pc = "done", !.forget = TRUE]
                 ELSE [@ EXCEPT !.pc = "learning"]]
    /\ UNCHANGED <<routes, probes, session>>

MonitorLearns(s) ==
    /\ monitor[s].pc = "learning"
    /\ \/ /\ Add(monitor[s].host, session[s].fallback)
          /\ monitor' = [monitor EXCEPT ![s].pc = "closingTarget", ![s].forget = TRUE]
       \/ /\ "saveFails" \in Faults
          /\ monitor' = [monitor EXCEPT ![s].pc = "done"]
          /\ UNCHANGED routes
    /\ UNCHANGED <<probes, session>>

(* The session, if it is still there, is closed for the browser to retry. *)
ClosedWithoutDone(m) == NoMonitor
Closed(m) == [m EXCEPT !.pc = "done"]

MonitorCloses(s) ==
    /\ \/ /\ monitor[s].pc = "closingTarget"
          /\ session' = [session EXCEPT ![s].server = FALSE]
          /\ monitor' = [monitor EXCEPT ![s].pc = "closingClient"]
       \/ /\ monitor[s].pc = "closingClient"
          /\ session' = [session EXCEPT ![s].client = FALSE]
          /\ monitor' = [monitor EXCEPT ![s] = Closed(@)]
    /\ UNCHANGED <<routes, probes>>

(* The deferred FallbackProbes.Done comes last. *)
MonitorDone(s) ==
    /\ monitor[s].pc = "done"
    /\ probes' = Coordinator!Done(probes, monitor[s].host, monitor[s].forget, monitor[s].retryIn)
    /\ monitor' = [monitor EXCEPT ![s] = NoMonitor]
    /\ UNCHANGED <<routes, session>>

(* All goroutines of the session are gone. *)
Release(s) ==
    /\ session[s].pc = "ended" /\ ~session[s].forward /\ monitor[s].pc = "off"
    /\ session' = [session EXCEPT ![s] = NoSession]
    /\ UNCHANGED <<routes, probes, monitor>>

(***************************************************************************)
(* The environment: the two peers, the operator, time.                     *)
(***************************************************************************)

ClientLeaves(s) ==
    /\ "leaves" \in Faults
    /\ session[s].pc = "streaming" /\ session[s].client
    /\ session' = [session EXCEPT ![s].client = FALSE]
    /\ UNCHANGED <<routes, probes, monitor>>

TargetLeaves(s) ==
    /\ "leaves" \in Faults
    /\ session[s].pc = "streaming" /\ session[s].server
    /\ session' = [session EXCEPT ![s].server = FALSE]
    /\ UNCHANGED <<routes, probes, monitor>>

(* DELETE and POST /api/learned *)
OperatorDeletes(h) ==
    /\ "operator" \in Faults
    /\ h \in Known
    /\ routes' = [routes EXCEPT ![h] = None]
    /\ UNCHANGED <<probes, session, monitor>>

OperatorAdds(h, u) ==
    /\ "operator" \in Faults
    /\ Add(h, u)
    /\ UNCHANGED <<probes, session, monitor>>

(* A route reaches learned-domain-ttl; an hourly pass removes such routes. *)
RouteExpires(h) ==
    /\ "expiry" \in Faults
    /\ h \in Known
    /\ routes' = [routes EXCEPT ![h].expired = TRUE]
    /\ UNCHANGED <<probes, session, monitor>>

PruneExpired ==
    /\ \E h \in Known : routes[h].expired
    /\ routes' = [h \in Hosts |-> IF ActiveRoute(h) = None THEN None ELSE routes[h]]
    /\ UNCHANGED <<probes, session, monitor>>

Tick ==
    /\ \/ Coordinator!SuppressedHosts(probes) # {}
       \/ \E s \in Sessions : monitor[s].retryIn > 0
    /\ probes' = [h \in Hosts |->
                     IF probes[h] = None THEN None ELSE Coordinator!LaterEntry(probes[h])]
    /\ monitor' = [s \in Sessions |->
                      [monitor[s] EXCEPT !.retryIn = Coordinator!Later(@)]]
    /\ UNCHANGED <<routes, session>>

-----------------------------------------------------------------------------
Main(s) ==
    \/ DialSucceeds(s) \/ DialFails(s) \/ FallbackDialed(s) \/ LearnAfterFallback(s)
    \/ ReverseEnds(s)

MonitorStep(s) ==
    \/ MonitorSeesResponse(s) \/ MonitorTimesOut(s)
    \/ ProbeFails(s) \/ ProbeAnswers(s) \/ MonitorLearns(s)
    \/ MonitorCloses(s) \/ MonitorDone(s)

Next ==
    \/ \E s \in Sessions :
         \/ \E h \in Hosts, fallback \in Fallbacks : Request(s, h, fallback)
         \/ Main(s) \/ TargetAnswers(s) \/ Release(s)
         \/ \E sni \in (Hosts \ Addresses) \cup {None} : ClientHello(s, sni)
         \/ ForwardEnds(s) \/ WriteFails(s)
         \/ MonitorStep(s)
         \/ ClientLeaves(s) \/ TargetLeaves(s)
    \/ \E h \in Hosts : OperatorDeletes(h) \/ RouteExpires(h)
    \/ \E h \in Hosts, u \in Upstreams : OperatorAdds(h, u)
    \/ PruneExpired
    \/ Tick

Spec == Init /\ [][Next]_vars

(* Dials, probes and timers have deadlines, and a read returns once its     *)
(* connection is closed, so every goroutine gets on; expired routes are     *)
(* removed every hour.  Nothing is assumed of the clients, the targets, the *)
(* operator, or which case a select takes.                                  *)
FairSpec ==
    /\ Spec
    /\ WF_vars(PruneExpired)
    /\ \A s \in Sessions : /\ WF_vars(Main(s))
                           /\ WF_vars(ForwardEnds(s))
                           /\ WF_vars(MonitorStep(s))

-----------------------------------------------------------------------------
(***************************************************************************)
(* Properties                                                              *)
(***************************************************************************)

(* The type invariant. *)
TypeOK ==
    /\ routes \in [Hosts -> Route \cup {None}]
    /\ probes \in [Hosts -> Coordinator!ProbeState \cup {None}]
    /\ session \in [Sessions -> Session]
    /\ monitor \in [Sessions -> Monitor]

(* The monitors use the coordinator as it is meant to be used: each Start   *)
(* that is granted is answered by exactly one Done for the same host with   *)
(* the backoff of that probe, on every path out of monitorBlockCandidate.   *)
(* With it one probe per host, suppression and the bound carry over.        *)
ImplementsCoordinator == Coordinator!Spec

(* "The next connection uses the learned upstream" (socks5.go:746-747): at  *)
(* the moment a monitor has learned and goes on to close its session, a     *)
(* retry of that session's request is routed through an upstream.           *)
RetryUsesLearned ==
    [][\A s \in Sessions :
         monitor[s].pc = "learning" /\ monitor'[s].pc = "closingTarget"
             => EgressFor(session[s].target, session[s].fallback)' # Direct]_vars

(* The proxy "closes the silent connection" (docs/proxy-routing.md:9), and   *)
(* a direct response that arrives first wins (direct_won, socks5.go:714-723): *)
(* a connection that has answered is never the one that is closed.          *)
ClosesOnlySilent ==
    \A s \in Sessions :
        monitor[s].pc = "closingTarget" /\ session[s].server => ~session[s].responded

(* When one side of a session is gone the whole of it goes: both loops end   *)
(* and both connections are closed, whatever its monitor is doing.  Shutdown *)
(* waits for this (gracefulShutdown), and a session that hangs on leaks.     *)
SessionsDrain ==
    \A s \in Sessions :
        (session[s].pc = "streaming" /\ ~(session[s].client /\ session[s].server))
            ~> (session[s].pc \in {"ended", "idle"} /\ ~session[s].forward)

(* What it is all for: clients that keep sending a ClientHello to a host that *)
(* never answers directly get a route for it, whoever else probes the host,   *)
(* whatever is evicted or deleted meanwhile, and whether or not they wait.    *)
HealsSilenced ==
    \A h \in Silenced :
        []<>(\E s \in Sessions : monitor[s].pc = "waiting" /\ monitor[s].host = h)
            => []<>(ActiveRoute(h) # None)
=============================================================================
