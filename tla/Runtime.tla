------------------------------- MODULE Runtime -------------------------------
(***************************************************************************)
(* The life of the proxy process (cmd/runtime.go, cmd/micro-socks.go): the *)
(* runtime that is in force, its replacement by a reload, the health loop  *)
(* that belongs to it, the maintenance of the learned routes, and shutdown. *)
(*                                                                          *)
(* A runtime is a configuration and an upstream manager, immutable once     *)
(* published; runtimes are numbered as they are installed.  Whoever works   *)
(* with one - a session, a health loop - goes on with it after it has been  *)
(* replaced.  A reload is a sequence of steps under reloadMu that others    *)
(* interleave with; the learned store is LearnedStore seen from outside:    *)
(* its hosts, the limit each caller passes, and whether it is dirty.        *)
(***************************************************************************)
EXTENDS Integers, FiniteSets, Sequences

CONSTANTS
    Reloaders,    \* the SIGHUP watcher and the handlers of POST /api/reload
    Sessions,     \* sessions (and adding admin requests) at the same time
    Hosts,        \* hosts of learned routes
    Configs,      \* configurations the file may hold, see below
    Nobody,       \* no holder of reloadMu
    Nothing,      \* no configuration read
    Broken,       \* a file that does not load, or changes a restart-only setting
    MaxEdits,     \* bound: edits of the configuration file
    MaxRuntimes   \* bound: runtimes installed; no reload starts beyond it

(* Of a configuration: learned-max-entries (0: unlimited), and whether it   *)
(* has upstream-health enabled.                                             *)
ASSUME ConfigsAssumption == Configs \subseteq [limit : Nat, health : BOOLEAN]
ASSUME HostsAssumption == IsFiniteSet(Hosts)
ASSUME ReloadersAssumption == Nobody \notin Reloaders
ASSUME BoundsAssumption == MaxEdits \in Nat /\ MaxRuntimes \in Nat \ {0}
ASSUME BrokenAssumption == Broken \notin Configs
ASSUME NothingAssumption == Nothing \notin [edit : 0..MaxEdits, config : Configs]

VARIABLES
    file,       \* the configuration file
    runtimes,   \* all runtimes installed so far; runtimeState is the last one
    reloader,   \* where each caller of reloadRuntime is
    reloadMu,   \* who holds it
    health,     \* healthCancel, and the contexts it has cancelled
    loop,       \* the health loop of each runtime
    session,    \* each session, with its snapshot
    routes,     \* the hosts in LearnedRoutes
    dirty,      \* LearnedRoutes.dirty: usage that is not in the file yet
    main        \* the goroutine of main and gracefulShutdown

vars == <<file, runtimes, reloader, reloadMu, health, loop, session, routes, dirty, main>>

Numbers == 1..MaxRuntimes

(* "edit" counts the changes of the file and travels with what is read. *)
File == [edit : 0..MaxEdits, config : Configs \cup {Broken}]
ProxyRuntime == [edit : 0..MaxEdits, config : Configs]

ReloadPcs == {"idle", "called", "loading", "pruning", "storing", "swapping"}
Reloader == [pc : ReloadPcs, next : ProxyRuntime \cup {Nothing}]
IdleReloader == [pc |-> "idle", next |-> Nothing]

(* "running" is counted by SessionWG; "lingering" is a session that is over *)
(* but whose monitorBlockCandidate is not, which nothing counts.            *)
Session == [pc : {"none", "running", "lingering"}, runtime : 0..MaxRuntimes]
NoSession == [pc |-> "none", runtime |-> 0]

(* The stages of main, in their order; "lost" says that the sessions did not *)
(* end in time, or that the last Flush failed.                               *)
StagesFlushingEarly ==
    <<"serving", "stopping", "flushing", "waiting", "leaving", "exited">>
Stages == <<"serving", "stopping", "waiting", "flushing", "leaving", "exited">>
Stage == Stages[main.stage]
Advanced == [main EXCEPT !.stage = @ + 1]

Alive == Stage # "exited"
AppCancelled == Stage # "serving"

(* currentRuntime.  Next to some definitions stands the form a regression   *)
(* could give them; no action uses it.                                      *)
CurrentOneBehind == Len(runtimes) - 1
Current == Len(runtimes)
ConfigOf(n) == runtimes[n].config

(* A loop's context is done when its own cancel function was called, or that *)
(* of the parent.                                                            *)
ContextDone(n) == n \in health.cancelled \/ AppCancelled

-----------------------------------------------------------------------------
Init ==
    /\ \E c \in Configs :
         /\ file = [edit |-> 0, config |-> c]
         /\ runtimes = <<[edit |-> 0, config |-> c]>>
         /\ loop = [n \in Numbers |-> IF n = 1 /\ c.health THEN "checking" ELSE "off"]
         /\ routes \in {r \in SUBSET Hosts : c.limit > 0 => Cardinality(r) <= c.limit}
    /\ reloader = [r \in Reloaders |-> IdleReloader]
    /\ reloadMu = Nobody
    /\ health = [cancel |-> 1, cancelled |-> {}]
    /\ session = [s \in Sessions |-> NoSession]
    /\ dirty = FALSE
    /\ main = [stage |-> 1, lost |-> FALSE]

(* Somebody edits the file. *)
Edit(c) ==
    /\ Alive
    /\ file.edit < MaxEdits
    /\ file' = [edit |-> file.edit + 1, config |-> c]
    /\ UNCHANGED <<runtimes, reloader, reloadMu, health, loop, session, routes, dirty, main>>

(***************************************************************************)
(* reloadRuntime, validateReload and installRuntime                        *)
(***************************************************************************)

At(r, pc) == Alive /\ reloader[r].pc = pc
Goes(r, pc) == reloader' = [reloader EXCEPT ![r].pc = pc]
Returns(r) ==
    /\ reloader' = [reloader EXCEPT ![r] = IdleReloader]
    /\ reloadMu' = Nobody

Call(r) ==
    /\ At(r, "idle")
    /\ Goes(r, "called")
    /\ UNCHANGED <<file, runtimes, reloadMu, health, loop, session, routes, dirty, main>>

ReloadMuAlwaysFree == TRUE
ReloadMuFree == reloadMu = Nobody

Lock(r) ==
    /\ At(r, "called")
    /\ ReloadMuFree
    /\ Current < MaxRuntimes
    /\ reloadMu' = r
    /\ Goes(r, "loading")
    /\ UNCHANGED <<file, runtimes, health, loop, session, routes, dirty, main>>

(* LoadConfig and validateReload: the reload ends here when they object. *)
LoadFile(r) ==
    /\ At(r, "loading")
    /\ \/ /\ file.config = Broken
          /\ Returns(r)
       \/ /\ file.config # Broken
          /\ reloader' = [reloader EXCEPT ![r] = [pc |-> "pruning", next |-> file]]
          /\ UNCHANGED reloadMu
    /\ UNCHANGED <<file, runtimes, health, loop, session, routes, dirty, main>>

(* PruneToLimit with the new limit; its error ends the reload. *)
Prune(r) ==
    LET limit == reloader[r].next.config.limit
        over == limit > 0 /\ Cardinality(routes) > limit
    IN  /\ At(r, "pruning")
        /\ \/ /\ ~over
              /\ Goes(r, "storing")
              /\ UNCHANGED <<reloadMu, routes, dirty>>
           \/ /\ over
              /\ \E kept \in SUBSET routes : Cardinality(kept) = limit /\ routes' = kept
              /\ dirty' = FALSE
              /\ Goes(r, "storing")
              /\ UNCHANGED reloadMu
           \/ /\ over
              /\ Returns(r)
              /\ UNCHANGED <<routes, dirty>>
        /\ UNCHANGED <<file, runtimes, health, loop, session, main>>

(* The new runtime is published: from here on sessions get it. *)
Store(r) ==
    /\ At(r, "storing")
    /\ runtimes' = Append(runtimes, reloader[r].next)
    /\ reloader' = [reloader EXCEPT ![r] = [pc |-> "swapping", next |-> Nothing]]
    /\ UNCHANGED <<file, reloadMu, health, loop, session, routes, dirty, main>>

(* Under healthMu the old health loop is cancelled, and the new one gets its *)
(* context.                                                                 *)
SwappedWithoutCancel(n) == [health EXCEPT !.cancel = n]
Swapped(n) ==
    [cancel |-> n,
     cancelled |-> health.cancelled \cup (IF health.cancel > 0 THEN {health.cancel} ELSE {})]

SwapHealthLoop(r) ==
    /\ At(r, "swapping")
    /\ health' = Swapped(Current)
    /\ loop' = [loop EXCEPT ![Current] = IF ConfigOf(Current).health THEN "checking" ELSE "off"]
    /\ Returns(r)
    /\ UNCHANGED <<file, runtimes, session, routes, dirty, main>>

(***************************************************************************)
(* monitorUpstreamHealth, one for each runtime that wants it               *)
(***************************************************************************)

LoopGoes(n, from, to) == Alive /\ loop[n] = from /\ loop' = [loop EXCEPT ![n] = to]

(* CheckAll is over, at once when the context is done, and published. *)
Check(n) ==
    /\ LoopGoes(n, "checking", "resting")
    /\ UNCHANGED <<file, runtimes, reloader, reloadMu, health, session, routes, dirty, main>>

(* The select: the ticker can win although the context is done. *)
LoopTicks(n) ==
    /\ LoopGoes(n, "resting", "checking")
    /\ UNCHANGED <<file, runtimes, reloader, reloadMu, health, session, routes, dirty, main>>

LoopEnds(n) ==
    /\ ContextDone(n)
    /\ LoopGoes(n, "resting", "off")
    /\ UNCHANGED <<file, runtimes, reloader, reloadMu, health, session, routes, dirty, main>>

(***************************************************************************)
(* Sessions                                                                *)
(***************************************************************************)

Accept(s) ==
    /\ Stage = "serving"
    /\ session[s].pc = "none"
    /\ session' = [session EXCEPT ![s] = [pc |-> "running", runtime |-> Current]]
    /\ UNCHANGED <<file, runtimes, reloader, reloadMu, health, loop, routes, dirty, main>>

(* A request goes through a learned route: MarkUsed. *)
UseRoute(s) ==
    /\ Alive
    /\ session[s].pc = "running"
    /\ routes # {}
    /\ dirty' = TRUE
    /\ UNCHANGED <<file, runtimes, reloader, reloadMu, health, loop, session, routes, main>>

(* AddWithLimit with the limit of the snapshot: a known host is routed      *)
(* elsewhere, another one gets in; in both cases everything is saved.  (A    *)
(* route that is there already, or a failed save, changes nothing.)          *)
LearnRoute(s, h) ==
    LET limit == ConfigOf(session[s].runtime).limit
        full == limit > 0 /\ Cardinality(routes) >= limit
    IN  /\ Alive
        /\ session[s].pc # "none"
        /\ \/ h \in routes /\ UNCHANGED routes
           \/ h \notin routes /\ ~full /\ routes' = routes \cup {h}
           \/ h \notin routes /\ full /\ \E victim \in routes :
                                            routes' = (routes \ {victim}) \cup {h}
        /\ dirty' = FALSE
        /\ UNCHANGED <<file, runtimes, reloader, reloadMu, health, loop, session, main>>

EndSession(s) ==
    /\ Alive
    /\ \/ /\ session[s].pc = "running"
          /\ \E pc \in {"none", "lingering"} :
               session' = [session EXCEPT ![s] =
                              IF pc = "none" THEN NoSession ELSE [@ EXCEPT !.pc = pc]]
       \/ /\ session[s].pc = "lingering"
          /\ session' = [session EXCEPT ![s] = NoSession]
    /\ UNCHANGED <<file, runtimes, reloader, reloadMu, health, loop, routes, dirty, main>>

(***************************************************************************)
(* maintainLearnedRoutes: it, too, may still win a select after the cancel *)
(***************************************************************************)

FlushTick ==
    /\ Alive /\ dirty
    /\ dirty' = FALSE
    /\ UNCHANGED <<file, runtimes, reloader, reloadMu, health, loop, session, routes, main>>

PruneTick ==
    /\ Alive
    /\ \E kept \in SUBSET routes : kept # routes /\ routes' = kept
    /\ dirty' = FALSE
    /\ UNCHANGED <<file, runtimes, reloader, reloadMu, health, loop, session, main>>

(***************************************************************************)
(* Shutdown                                                                *)
(***************************************************************************)

(* The listener is closed, the accept loop left and appCtx cancelled. *)
Signal ==
    /\ Stage = "serving"
    /\ main' = Advanced
    /\ UNCHANGED <<file, runtimes, reloader, reloadMu, health, loop, session, routes, dirty>>

StopHealth ==
    /\ Stage = "stopping"
    /\ health' = [cancel |-> 0, cancelled |-> Swapped(0).cancelled]
    /\ main' = Advanced
    /\ UNCHANGED <<file, runtimes, reloader, reloadMu, loop, session, routes, dirty>>

(* Sessions are awaited, until the timeout at the latest. *)
Running == {s \in Sessions : session[s].pc = "running"}

Await ==
    /\ Stage = "waiting"
    /\ main' = [Advanced EXCEPT !.lost = (Running # {})]
    /\ UNCHANGED <<file, runtimes, reloader, reloadMu, health, loop, session, routes, dirty>>

(* The last Flush; then main returns, and with it everything ends. *)
FinalFlush ==
    /\ Stage = "flushing"
    /\ \/ main' = Advanced /\ dirty' = FALSE
       \/ dirty /\ main' = [Advanced EXCEPT !.lost = TRUE] /\ UNCHANGED dirty
    /\ UNCHANGED <<file, runtimes, reloader, reloadMu, health, loop, session, routes>>

Exit ==
    /\ Stage = "leaving"
    /\ main' = Advanced
    /\ UNCHANGED <<file, runtimes, reloader, reloadMu, health, loop, session, routes, dirty>>

-----------------------------------------------------------------------------
Reload(r) ==
    \/ Lock(r) \/ LoadFile(r) \/ Prune(r) \/ Store(r)
    \/ SwapHealthLoop(r)

LoopStep(n) == Check(n) \/ LoopTicks(n)

Next ==
    \/ \E c \in Configs \cup {Broken} : Edit(c)
    \/ \E r \in Reloaders : Call(r) \/ Reload(r)
    \/ \E n \in Numbers : LoopStep(n) \/ LoopEnds(n)
    \/ \E s \in Sessions :
         \/ Accept(s) \/ UseRoute(s) \/ EndSession(s)
         \/ \E h \in Hosts : LearnRoute(s, h)
    \/ FlushTick \/ PruneTick
    \/ Signal \/ StopHealth \/ Await \/ FinalFlush \/ Exit

Spec == Init /\ [][Next]_vars

-----------------------------------------------------------------------------
(***************************************************************************)
(* Properties                                                              *)
(***************************************************************************)

(* The type invariant. *)
TypeOK ==
    /\ file \in File
    /\ Current \in Numbers /\ runtimes \in Seq(ProxyRuntime)
    /\ reloader \in [Reloaders -> Reloader]
    /\ reloadMu \in Reloaders \cup {Nobody}
    /\ health \in [cancel : 0..MaxRuntimes, cancelled : SUBSET Numbers]
    /\ loop \in [Numbers -> {"off", "checking", "resting"}]
    /\ session \in [Sessions -> Session]
    /\ \A s \in Sessions : session[s].pc # "none" => session[s].runtime \in 1..Current
    /\ routes \subseteq Hosts
    /\ dirty \in BOOLEAN
    /\ main \in [stage : 1..Len(Stages), lost : BOOLEAN]

(* However reloads and shutdown interleave, a health loop that has not been *)
(* told to end is the one whose cancel function is kept, so that it can be   *)
(* told.  Between reloads that is the loop of the runtime in force, which    *)
(* has one exactly if its configuration wants it.                            *)
Live(n) == loop[n] # "off" /\ ~ContextDone(n)

OneLiveLoop ==
    /\ \A n \in Numbers : Live(n) => n = health.cancel
    /\ reloadMu = Nobody /\ ~AppCancelled
         => \A n \in Numbers : Live(n) <=> n = Current /\ ConfigOf(Current).health

(* Concurrent reloads (SIGHUP and the API) never put an older state of the  *)
(* file in place of a newer one.                                            *)
InstallsInOrder ==
    [][Len(runtimes') > Len(runtimes)
         => runtimes'[Len(runtimes')].edit >= runtimes[Len(runtimes)].edit]_vars

(* Shutdown does "flush learned-domain usage before exit"                   *)
(* (docs/proxy-routing.md:99): when the sessions ended in time, and the last *)
(* Flush worked, no usage is lost, whatever monitors, reloads and the        *)
(* maintenance did meanwhile.                                                *)
FlushedAtExit == Stage = "exited" /\ ~main.lost => ~dirty
=============================================================================
