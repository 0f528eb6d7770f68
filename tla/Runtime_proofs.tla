--------------------------- MODULE Runtime_proofs ---------------------------
(***************************************************************************)
(* Proofs about Runtime, for any number of reloaders and sessions and any   *)
(* bounds: the type invariant, the order of the installed files, the one    *)
(* live health loop and the last flush.                                     *)
(***************************************************************************)
EXTENDS Runtime, TLAPS

(* Stages is a tuple; what is needed of it is which stage has which number. *)
LEMMA StageNumbers ==
    /\ Len(Stages) = 6
    /\ \A i \in 1..6 :
         /\ (Stages[i] = "serving") <=> (i = 1)
         /\ (Stages[i] = "stopping") <=> (i = 2)
         /\ (Stages[i] = "waiting") <=> (i = 3)
         /\ (Stages[i] = "flushing") <=> (i = 4)
         /\ (Stages[i] = "leaving") <=> (i = 5)
         /\ (Stages[i] = "exited") <=> (i = 6)
  <1> SUFFICES ASSUME NEW i \in {1, 2, 3, 4, 5, 6}
               PROVE /\ Len(Stages) = 6
                     /\ (Stages[i] = "serving") <=> (i = 1)
                     /\ (Stages[i] = "stopping") <=> (i = 2)
                     /\ (Stages[i] = "waiting") <=> (i = 3)
                     /\ (Stages[i] = "flushing") <=> (i = 4)
                     /\ (Stages[i] = "leaving") <=> (i = 5)
                     /\ (Stages[i] = "exited") <=> (i = 6)
    OBVIOUS
  <1> QED BY DEF Stages

(***************************************************************************)
(* The type invariant and reloadMu                                         *)
(***************************************************************************)

Inside(r) == reloader[r].pc \in {"loading", "pruning", "storing", "swapping"}

(* Who is between Lock and the return holds the mutex; while the mutex is   *)
(* held, nobody else installs, so the room seen by Lock is still there and  *)
(* the file that was read is no older than the one in force.                *)
Mutex == \A r \in Reloaders : Inside(r) <=> reloadMu = r
Room ==
    \A r \in Reloaders :
        reloader[r].pc \in {"loading", "pruning", "storing"} => Current < MaxRuntimes
Reading ==
    /\ runtimes[Current].edit <= file.edit
    /\ \A r \in Reloaders :
         reloader[r].pc \in {"pruning", "storing"} =>
             /\ reloader[r].next \in ProxyRuntime
             /\ runtimes[Current].edit <= reloader[r].next.edit
             /\ reloader[r].next.edit <= file.edit

RuntimeInv == TypeOK /\ Mutex /\ Room /\ Reading

LEMMA RuntimeInvInit == Init => RuntimeInv
  <1> SUFFICES ASSUME Init PROVE RuntimeInv
    OBVIOUS
  <1> USE BoundsAssumption
  <1>1. PICK c \in Configs :
            /\ file = [edit |-> 0, config |-> c]
            /\ runtimes = <<[edit |-> 0, config |-> c]>>
            /\ loop = [n \in Numbers |-> IF n = 1 /\ c.health THEN "checking" ELSE "off"]
            /\ routes \in {r \in SUBSET Hosts : c.limit > 0 => Cardinality(r) <= c.limit}
    BY DEF Init
  <1>2. file \in File /\ [edit |-> 0, config |-> c] \in ProxyRuntime
    BY <1>1 DEF File, ProxyRuntime
  <1>3. Current = 1 /\ runtimes \in Seq(ProxyRuntime) /\ runtimes[1] = [edit |-> 0, config |-> c]
    BY <1>1, <1>2 DEF Current
  <1>4. loop \in [Numbers -> {"off", "checking", "resting"}] /\ routes \subseteq Hosts
    BY <1>1
  <1>5. reloader \in [Reloaders -> Reloader] /\ \A r \in Reloaders : reloader[r].pc = "idle"
    BY DEF Init, IdleReloader, Reloader, ReloadPcs
  <1>6. session \in [Sessions -> Session] /\ \A s \in Sessions : session[s].pc = "none"
    BY DEF Init, NoSession, Session
  <1>7. health \in [cancel : 0..MaxRuntimes, cancelled : SUBSET Numbers]
    BY DEF Init, Numbers
  <1>8. main \in [stage : 1..Len(Stages), lost : BOOLEAN] /\ dirty \in BOOLEAN
    <2>1. main = [stage |-> 1, lost |-> FALSE] /\ dirty = FALSE
      BY DEF Init
    <2>2. 1 \in 1..Len(Stages)
      BY StageNumbers
    <2> QED BY <2>1, <2>2
  <1>9. reloadMu = Nobody
    BY DEF Init
  <1>10. TypeOK
    BY <1>2, <1>3, <1>4, <1>5, <1>6, <1>7, <1>8, <1>9 DEF TypeOK, Numbers
  <1>11. Mutex /\ Room
    BY <1>5, <1>9, ReloadersAssumption DEF Mutex, Room, Inside
  <1>12. Reading
    BY <1>1, <1>3, <1>5 DEF Reading
  <1> QED BY <1>10, <1>11, <1>12 DEF RuntimeInv

(* What the steps of a reload do to the record of its caller. *)
LEMMA GoesOn ==
    ASSUME TypeOK, NEW r \in Reloaders, NEW pc \in ReloadPcs, Goes(r, pc)
    PROVE  /\ reloader' \in [Reloaders -> Reloader]
           /\ reloader'[r].pc = pc /\ reloader'[r].next = reloader[r].next
           /\ \A q \in Reloaders \ {r} : reloader'[q] = reloader[q]
  <1>1. reloader \in [Reloaders -> Reloader] /\ reloader[r] \in Reloader
    BY DEF TypeOK
  <1>2. [reloader[r] EXCEPT !.pc = pc] \in Reloader
    BY <1>1 DEF Reloader
  <1> QED BY <1>1, <1>2 DEF Goes, Reloader

LEMMA GoesHome ==
    ASSUME TypeOK, NEW r \in Reloaders, Returns(r)
    PROVE  /\ reloader' \in [Reloaders -> Reloader]
           /\ reloader'[r].pc = "idle" /\ reloadMu' = Nobody
           /\ \A q \in Reloaders \ {r} : reloader'[q] = reloader[q]
  <1>1. IdleReloader \in Reloader /\ IdleReloader.pc = "idle"
    BY DEF IdleReloader, Reloader, ReloadPcs
  <1> QED BY <1>1 DEF Returns, TypeOK

(* Nothing in RuntimeInv but the type of session, loop, health, routes,     *)
(* dirty and main is at stake in a step that leaves the files, runtimes and  *)
(* reloads alone.                                                           *)
LEMMA ElsewhereKeepsRuntimeInv ==
    ASSUME RuntimeInv, UNCHANGED <<file, runtimes, reloader, reloadMu>>,
           health' \in [cancel : 0..MaxRuntimes, cancelled : SUBSET Numbers],
           loop' \in [Numbers -> {"off", "checking", "resting"}],
           session' \in [Sessions -> Session],
           \A s \in Sessions : session'[s].pc # "none" => session'[s].runtime \in 1..Current,
           routes' \subseteq Hosts,
           dirty' \in BOOLEAN,
           main' \in [stage : 1..Len(Stages), lost : BOOLEAN]
    PROVE  RuntimeInv'
  <1>1. Current' = Current
    BY DEF Current
  <1>2. TypeOK'
    BY <1>1 DEF RuntimeInv, TypeOK
  <1>3. Mutex' /\ Room'
    BY <1>1 DEF RuntimeInv, Mutex, Inside, Room
  <1>4. Reading'
    BY <1>1 DEF RuntimeInv, Reading
  <1> QED BY <1>2, <1>3, <1>4 DEF RuntimeInv

LEMMA MainAdvances ==
    ASSUME TypeOK, Alive, NEW b \in BOOLEAN,
           main' = Advanced \/ main' = [Advanced EXCEPT !.lost = b]
    PROVE  main' \in [stage : 1..Len(Stages), lost : BOOLEAN] /\ main'.stage = main.stage + 1
  <1>1. main \in [stage : 1..6, lost : BOOLEAN] /\ main.stage \in 1..6 /\ Len(Stages) = 6
    BY StageNumbers DEF TypeOK
  <1>2. main.stage # 6
    BY <1>1, StageNumbers DEF Alive, Stage
  <1>3. Advanced = [stage |-> main.stage + 1, lost |-> main.lost] /\ main.lost \in BOOLEAN
    BY <1>1 DEF Advanced
  <1>4. \E l \in BOOLEAN : main' = [stage |-> main.stage + 1, lost |-> l]
    BY <1>3
  <1>5. main.stage + 1 \in 1..Len(Stages)
    BY <1>1, <1>2
  <1> QED BY <1>4, <1>5

LEMMA EditKeepsRuntimeInv ==
    ASSUME RuntimeInv, NEW c \in Configs \cup {Broken}, Edit(c)
    PROVE  RuntimeInv'
  <1>1. Current' = Current
    BY DEF Edit, Current
  <1>2. file.edit \in Nat /\ file'.edit = file.edit + 1 /\ file' \in File
    BY BoundsAssumption DEF RuntimeInv, TypeOK, Edit, File
  <1>3. TypeOK'
    BY <1>1, <1>2 DEF RuntimeInv, TypeOK, Edit
  <1>4. Mutex' /\ Room'
    BY <1>1 DEF RuntimeInv, Mutex, Inside, Room, Edit
  <1>5. Reading'
    <2>1. runtimes'[Current'] = runtimes[Current] /\ runtimes[Current].edit \in Nat
      <3>1. runtimes[Current] \in ProxyRuntime
        BY DEF RuntimeInv, TypeOK, Current, Numbers
      <3> QED BY <1>1, <3>1, BoundsAssumption DEF Edit, ProxyRuntime
    <2>2. runtimes'[Current'].edit <= file'.edit
      BY <1>2, <2>1 DEF RuntimeInv, Reading
    <2>3. ASSUME NEW r \in Reloaders, reloader[r].pc \in {"pruning", "storing"}
          PROVE  /\ reloader[r].next \in ProxyRuntime
                 /\ runtimes[Current].edit <= reloader[r].next.edit
                 /\ reloader[r].next.edit <= file'.edit
      BY <1>2, <2>3 DEF RuntimeInv, Reading, ProxyRuntime
    <2> QED BY <2>1, <2>2, <2>3 DEF Reading, Edit
  <1> QED BY <1>3, <1>4, <1>5 DEF RuntimeInv

LEMMA ReloadKeepsRuntimeInv ==
    ASSUME RuntimeInv, NEW r \in Reloaders, Call(r) \/ Reload(r)
    PROVE  RuntimeInv'
  <1> USE DEF RuntimeInv
  <1>1. CASE Call(r)
    <2>1. reloader' \in [Reloaders -> Reloader] /\ reloader'[r].pc = "called"
          /\ \A q \in Reloaders \ {r} : reloader'[q] = reloader[q]
      BY <1>1, GoesOn DEF Call, ReloadPcs
    <2>2. Current' = Current /\ reloader[r].pc = "idle"
      BY <1>1 DEF Call, Current, At
    <2>3. TypeOK'
      BY <1>1, <2>1, <2>2 DEF TypeOK, Call
    <2>4. Mutex'
      BY <1>1, <2>1, <2>2 DEF Mutex, Inside, Call
    <2>5. Room' /\ Reading'
      BY <1>1, <2>1, <2>2 DEF Room, Reading, Call
    <2> QED BY <2>3, <2>4, <2>5
  <1>2. CASE Lock(r)
    <2>1. reloader' \in [Reloaders -> Reloader] /\ reloader'[r].pc = "loading"
          /\ \A q \in Reloaders \ {r} : reloader'[q] = reloader[q]
      BY <1>2, GoesOn DEF Lock, ReloadPcs
    <2>2. Current' = Current /\ Current < MaxRuntimes /\ reloadMu = Nobody /\ reloadMu' = r
      BY <1>2 DEF Lock, Current, ReloadMuFree
    <2>3. TypeOK'
      BY <1>2, <2>1, <2>2 DEF TypeOK, Lock
    <2>4. Mutex'
      BY <1>2, <2>1, <2>2, ReloadersAssumption DEF Mutex, Inside, Lock
    <2>5. Room' /\ Reading'
      BY <1>2, <2>1, <2>2 DEF Room, Reading, Lock
    <2> QED BY <2>3, <2>4, <2>5
  <1>3. CASE LoadFile(r)
    <2>1. Current' = Current /\ reloader[r].pc = "loading" /\ UNCHANGED <<file, runtimes>>
      BY <1>3 DEF LoadFile, Current, At
    <2>2. CASE file.config = Broken
      <3>1. reloader' \in [Reloaders -> Reloader] /\ reloader'[r].pc = "idle" /\ reloadMu' = Nobody
            /\ \A q \in Reloaders \ {r} : reloader'[q] = reloader[q]
        BY <1>3, <2>2, GoesHome DEF LoadFile
      <3>2. TypeOK'
        BY <1>3, <2>1, <3>1 DEF TypeOK, LoadFile
      <3>3. Mutex'
        BY <2>1, <3>1, ReloadersAssumption DEF Mutex, Inside
      <3>4. Room' /\ Reading'
        BY <2>1, <3>1 DEF Room, Reading
      <3> QED BY <3>2, <3>3, <3>4
    <2>3. CASE file.config # Broken
      <3>1. file \in ProxyRuntime
        BY <2>3 DEF TypeOK, File, ProxyRuntime
      <3>2. [pc |-> "pruning", next |-> file] \in Reloader
        BY <3>1 DEF Reloader, ReloadPcs
      <3>3. reloader' = [reloader EXCEPT ![r] = [pc |-> "pruning", next |-> file]] /\ UNCHANGED reloadMu
        BY <1>3, <2>3 DEF LoadFile
      <3>4. reloader' \in [Reloaders -> Reloader] /\ reloader'[r].pc = "pruning" /\ reloader'[r].next = file
            /\ \A q \in Reloaders \ {r} : reloader'[q] = reloader[q]
        BY <3>2, <3>3 DEF TypeOK
      <3>5. TypeOK'
        BY <1>3, <2>1, <3>3, <3>4 DEF TypeOK, LoadFile
      <3>6. Mutex' /\ Room'
        BY <2>1, <3>3, <3>4 DEF Mutex, Inside, Room
      <3>7. Reading'
        BY <2>1, <3>1, <3>4 DEF Reading, ProxyRuntime
      <3> QED BY <3>5, <3>6, <3>7
    <2> QED BY <2>2, <2>3
  <1>4. CASE Prune(r)
    <2>1. Current' = Current /\ reloader[r].pc = "pruning" /\ UNCHANGED <<file, runtimes, health, loop, session, main>>
      BY <1>4 DEF Prune, Current, At
    <2>2. routes' \subseteq Hosts /\ dirty' \in BOOLEAN
      BY <1>4 DEF Prune, TypeOK
    <2>3. CASE Goes(r, "storing") /\ UNCHANGED reloadMu
      <3>1. reloader' \in [Reloaders -> Reloader]
            /\ reloader'[r].pc = "storing" /\ reloader'[r].next = reloader[r].next
            /\ \A q \in Reloaders \ {r} : reloader'[q] = reloader[q]
        BY <2>3, GoesOn DEF ReloadPcs
      <3>2. TypeOK'
        BY <2>1, <2>2, <2>3, <3>1 DEF TypeOK
      <3>3. Mutex' /\ Room' /\ Reading'
        BY <2>1, <2>3, <3>1 DEF Mutex, Inside, Room, Reading
      <3> QED BY <3>2, <3>3
    <2>4. CASE Returns(r)
      <3>1. reloader' \in [Reloaders -> Reloader] /\ reloader'[r].pc = "idle" /\ reloadMu' = Nobody
            /\ \A q \in Reloaders \ {r} : reloader'[q] = reloader[q]
        BY <2>4, GoesHome
      <3>2. TypeOK'
        BY <2>1, <2>2, <3>1 DEF TypeOK
      <3>3. Mutex' /\ Room' /\ Reading'
        BY <2>1, <3>1, ReloadersAssumption DEF Mutex, Inside, Room, Reading
      <3> QED BY <3>2, <3>3
    <2> QED BY <1>4, <2>3, <2>4 DEF Prune
  <1>5. CASE Store(r)
    <2> DEFINE new == reloader[r].next
    <2>1. reloader[r].pc = "storing" /\ new \in ProxyRuntime /\ Current < MaxRuntimes
          /\ runtimes \in Seq(ProxyRuntime) /\ Current \in 1..MaxRuntimes
      BY <1>5 DEF Store, At, Reading, Room, TypeOK, Numbers
    <2>2. runtimes' = Append(runtimes, new) /\ UNCHANGED <<file, reloadMu, health, loop, session, routes, dirty, main>>
      BY <1>5 DEF Store
    <2>3. runtimes' \in Seq(ProxyRuntime) /\ Current' = Current + 1 /\ runtimes'[Current'] = new
      BY <2>1, <2>2 DEF Current
    <2>4. [pc |-> "swapping", next |-> Nothing] \in Reloader
      BY DEF Reloader, ReloadPcs
    <2>5. reloader' \in [Reloaders -> Reloader] /\ reloader'[r].pc = "swapping"
          /\ \A q \in Reloaders \ {r} : reloader'[q] = reloader[q]
      BY <1>5, <2>4 DEF Store, TypeOK
    <2>6. \A q \in Reloaders \ {r} : ~Inside(q)
      BY <2>1 DEF Mutex, Inside
    <2>7. TypeOK'
      <3>1. \A s \in Sessions : session'[s].pc # "none" => session'[s].runtime \in 1..Current'
        BY <2>1, <2>2, <2>3 DEF TypeOK
      <3>2. Current' \in Numbers
        BY <2>1, <2>3, BoundsAssumption DEF Numbers
      <3>3. file' \in File /\ reloadMu' \in Reloaders \cup {Nobody}
            /\ health' \in [cancel : 0..MaxRuntimes, cancelled : SUBSET Numbers]
            /\ loop' \in [Numbers -> {"off", "checking", "resting"}]
            /\ session' \in [Sessions -> Session] /\ routes' \subseteq Hosts /\ dirty' \in BOOLEAN
            /\ main' \in [stage : 1..Len(Stages), lost : BOOLEAN]
        BY <2>2 DEF TypeOK
      <3> QED BY <2>3, <2>5, <3>1, <3>2, <3>3 DEF TypeOK
    <2>8. Mutex'
      BY <2>1, <2>2, <2>5 DEF Mutex, Inside
    <2>9. Room' /\ Reading'
      BY <2>1, <2>2, <2>3, <2>5, <2>6 DEF Room, Reading, Inside
    <2> QED BY <2>7, <2>8, <2>9
  <1>6. CASE SwapHealthLoop(r)
    <2>1. reloader' \in [Reloaders -> Reloader] /\ reloader'[r].pc = "idle" /\ reloadMu' = Nobody
          /\ \A q \in Reloaders \ {r} : reloader'[q] = reloader[q]
      BY <1>6, GoesHome DEF SwapHealthLoop
    <2>2. Current' = Current /\ Current \in 1..MaxRuntimes /\ reloader[r].pc = "swapping"
          /\ UNCHANGED <<file, runtimes, session, routes, dirty, main>>
      BY <1>6 DEF SwapHealthLoop, Current, At, TypeOK, Numbers
    <2>3. health' \in [cancel : 0..MaxRuntimes, cancelled : SUBSET Numbers]
      BY <1>6, <2>2, BoundsAssumption DEF SwapHealthLoop, Swapped, TypeOK, Numbers
    <2>4. loop' \in [Numbers -> {"off", "checking", "resting"}]
      BY <1>6 DEF SwapHealthLoop, TypeOK
    <2>5. TypeOK'
      BY <2>1, <2>2, <2>3, <2>4 DEF TypeOK
    <2>6. Mutex' /\ Room' /\ Reading'
      BY <2>1, <2>2, ReloadersAssumption DEF Mutex, Inside, Room, Reading
    <2> QED BY <2>5, <2>6
  <1> QED BY <1>1, <1>2, <1>3, <1>4, <1>5, <1>6 DEF Reload

LEMMA RuntimeInvNext == RuntimeInv /\ [Next]_vars => RuntimeInv'
  <1> SUFFICES ASSUME RuntimeInv, [Next]_vars PROVE RuntimeInv'
    OBVIOUS
  <1>1. TypeOK
    BY DEF RuntimeInv
  <1> DEFINE Rest == <<file, runtimes, reloader, reloadMu>>
  <1>2. ASSUME NEW c \in Configs \cup {Broken}, Edit(c) PROVE RuntimeInv'
    BY <1>2, EditKeepsRuntimeInv
  <1>3. ASSUME NEW r \in Reloaders, Call(r) \/ Reload(r) PROVE RuntimeInv'
    BY <1>3, ReloadKeepsRuntimeInv
  <1>4. ASSUME NEW n \in Numbers, LoopStep(n) \/ LoopEnds(n) PROVE RuntimeInv'
    <2>1. loop' \in [Numbers -> {"off", "checking", "resting"}]
      BY <1>1, <1>4 DEF LoopStep, Check, LoopTicks, LoopEnds, LoopGoes, TypeOK
    <2>2. UNCHANGED Rest /\ UNCHANGED <<health, session, routes, dirty, main>>
      BY <1>4 DEF LoopStep, Check, LoopTicks, LoopEnds
    <2> QED BY <1>1, <2>1, <2>2, ElsewhereKeepsRuntimeInv DEF TypeOK
  <1>5. ASSUME NEW s \in Sessions, Accept(s) PROVE RuntimeInv'
    <2>1. UNCHANGED Rest /\ UNCHANGED <<health, loop, routes, dirty, main>>
      BY <1>5 DEF Accept
    <2>2. Current \in 1..MaxRuntimes
      BY <1>1 DEF TypeOK, Numbers
    <2>3. [pc |-> "running", runtime |-> Current] \in Session
      BY <2>2 DEF Session
    <2>4. session' = [session EXCEPT ![s] = [pc |-> "running", runtime |-> Current]]
          /\ session \in [Sessions -> Session]
      BY <1>1, <1>5 DEF Accept, TypeOK
    <2>5. session' \in [Sessions -> Session]
      BY <2>3, <2>4
    <2>6. \A q \in Sessions : session'[q].pc # "none" => session'[q].runtime \in 1..Current
      BY <1>1, <2>2, <2>4 DEF TypeOK
    <2> QED BY <1>1, <2>1, <2>5, <2>6, ElsewhereKeepsRuntimeInv DEF TypeOK
  <1>6. ASSUME NEW s \in Sessions, UseRoute(s) PROVE RuntimeInv'
    <2>1. UNCHANGED Rest /\ UNCHANGED <<health, loop, session, routes, main>> /\ dirty' \in BOOLEAN
      BY <1>6 DEF UseRoute
    <2> QED BY <1>1, <2>1, ElsewhereKeepsRuntimeInv DEF TypeOK
  <1>7. ASSUME NEW s \in Sessions, EndSession(s) PROVE RuntimeInv'
    <2>1. UNCHANGED Rest /\ UNCHANGED <<health, loop, routes, dirty, main>>
      BY <1>7 DEF EndSession
    <2>2. session \in [Sessions -> Session] /\ session[s] \in Session
      BY <1>1 DEF TypeOK
    <2>3. NoSession \in Session /\ NoSession.pc = "none"
      BY BoundsAssumption DEF NoSession, Session
    <2>4. [session[s] EXCEPT !.pc = "lingering"] \in Session
          /\ [session[s] EXCEPT !.pc = "lingering"].runtime = session[s].runtime
      BY <2>2 DEF Session
    <2>5. \/ session' = [session EXCEPT ![s] = NoSession]
          \/ /\ session' = [session EXCEPT ![s] = [session[s] EXCEPT !.pc = "lingering"]]
             /\ session[s].pc = "running"
      BY <1>7, <2>2 DEF EndSession
    <2>6. session' \in [Sessions -> Session]
      BY <2>2, <2>3, <2>4, <2>5
    <2>7. \A q \in Sessions : session'[q].pc # "none" => session'[q].runtime \in 1..Current
      BY <1>1, <2>2, <2>3, <2>4, <2>5 DEF TypeOK
    <2> QED BY <1>1, <2>1, <2>6, <2>7, ElsewhereKeepsRuntimeInv DEF TypeOK
  <1>8. ASSUME NEW s \in Sessions, NEW h \in Hosts, LearnRoute(s, h) PROVE RuntimeInv'
    <2>1. UNCHANGED Rest /\ UNCHANGED <<health, loop, session, main>> /\ dirty' \in BOOLEAN
      BY <1>8 DEF LearnRoute
    <2>2. routes' \subseteq Hosts
      BY <1>1, <1>8 DEF LearnRoute, TypeOK
    <2> QED BY <1>1, <2>1, <2>2, ElsewhereKeepsRuntimeInv DEF TypeOK
  <1>9. CASE FlushTick
    <2>1. UNCHANGED Rest /\ UNCHANGED <<health, loop, session, routes, main>> /\ dirty' \in BOOLEAN
      BY <1>9 DEF FlushTick
    <2> QED BY <1>1, <2>1, ElsewhereKeepsRuntimeInv DEF TypeOK
  <1>10. CASE PruneTick
    <2>1. UNCHANGED Rest /\ UNCHANGED <<health, loop, session, main>> /\ dirty' \in BOOLEAN
      BY <1>10 DEF PruneTick
    <2>2. routes' \subseteq Hosts
      BY <1>1, <1>10 DEF PruneTick, TypeOK
    <2> QED BY <1>1, <2>1, <2>2, ElsewhereKeepsRuntimeInv DEF TypeOK
  <1>11. CASE Signal \/ StopHealth \/ Await \/ FinalFlush \/ Exit
    <2>1. UNCHANGED Rest /\ UNCHANGED <<loop, session, routes>> /\ dirty' \in BOOLEAN
      BY <1>1, <1>11 DEF Signal, StopHealth, Await, FinalFlush, Exit, TypeOK
    <2>2. health' \in [cancel : 0..MaxRuntimes, cancelled : SUBSET Numbers]
      BY <1>1, <1>11, BoundsAssumption
      DEF Signal, StopHealth, Await, FinalFlush, Exit, Swapped, TypeOK, Numbers
    <2>3. Alive
      BY <1>11 DEF Signal, StopHealth, Await, FinalFlush, Exit, Alive
    <2>4. \E b \in BOOLEAN : main' = Advanced \/ main' = [Advanced EXCEPT !.lost = b]
      BY <1>11 DEF Signal, StopHealth, Await, FinalFlush, Exit
    <2>5. main' \in [stage : 1..Len(Stages), lost : BOOLEAN]
      BY <1>1, <2>3, <2>4, MainAdvances
    <2> QED BY <1>1, <2>1, <2>2, <2>5, ElsewhereKeepsRuntimeInv DEF TypeOK
  <1>12. CASE UNCHANGED vars
    BY <1>1, <1>12, ElsewhereKeepsRuntimeInv DEF vars, TypeOK
  <1> QED
    BY <1>2, <1>3, <1>4, <1>5, <1>6, <1>7, <1>8, <1>9, <1>10, <1>11, <1>12 DEF Next

LEMMA RuntimeInvCorrect == Spec => []RuntimeInv
  BY RuntimeInvInit, RuntimeInvNext, PTL DEF Spec

(* The process keeps its type for any reloaders, sessions, hosts,           *)
(* configurations and bounds (TypeOK of run runtime).                       *)
THEOREM RuntimeTypeCorrect == Spec => []TypeOK
  <1>1. RuntimeInv => TypeOK
    BY DEF RuntimeInv
  <1> QED BY <1>1, RuntimeInvCorrect, PTL

(* Reloads, however many run at once, install the states of the file in     *)
(* their order: what has been read under reloadMu is not older than what is *)
(* in force, and nobody else installs in between.                           *)
THEOREM InstallsInOrderCorrect == Spec => InstallsInOrder
  <1>1. RuntimeInv /\ [Next]_vars
          => [Len(runtimes') > Len(runtimes)
                => runtimes'[Len(runtimes')].edit >= runtimes[Len(runtimes)].edit]_vars
    <2> SUFFICES ASSUME RuntimeInv, Next, Len(runtimes') > Len(runtimes)
                 PROVE  runtimes'[Len(runtimes')].edit >= runtimes[Len(runtimes)].edit
      BY DEF vars
    <2>1. Len(runtimes) \in Nat
      BY DEF RuntimeInv, TypeOK
    <2>2. runtimes' # runtimes
      BY <2>1
    <2>3. PICK r \in Reloaders : Store(r)
      BY <2>2 DEF Next, Reload, Edit, Call, Lock, LoadFile, Prune, SwapHealthLoop, LoopStep,
         Check, LoopTicks, LoopEnds, Accept, UseRoute, LearnRoute, EndSession, FlushTick,
         PruneTick, Signal, StopHealth, Await, FinalFlush, Exit
    <2> DEFINE new == reloader[r].next
    <2>4. new \in ProxyRuntime /\ runtimes[Len(runtimes)].edit <= new.edit
      BY <2>3 DEF RuntimeInv, Reading, Store, At, Current
    <2>5. runtimes \in Seq(ProxyRuntime) /\ runtimes' = Append(runtimes, new)
      BY <2>3 DEF RuntimeInv, TypeOK, Store
    <2>6. runtimes'[Len(runtimes')] = new
      BY <2>4, <2>5
    <2>7. runtimes[Len(runtimes)] \in ProxyRuntime
      BY <2>5 DEF RuntimeInv, TypeOK, Current, Numbers
    <2> QED BY <2>4, <2>6, <2>7, BoundsAssumption DEF ProxyRuntime
  <1> QED BY <1>1, RuntimeInvCorrect, PTL DEF Spec, InstallsInOrder

(***************************************************************************)
(* The health loops                                                        *)
(***************************************************************************)

(* Until shutdown, the loop that can be cancelled is that of the last        *)
(* runtime, or of the one before it between Store and SwapHealthLoop; all    *)
(* older ones are cancelled, and no later one has been started.              *)
Swapping == \E r \in Reloaders : reloader[r].pc = "swapping"
LoopsInv ==
    Stage = "serving" =>
        /\ health.cancel \in 1..Current
        /\ Swapping => health.cancel + 1 = Current
        /\ ~Swapping => health.cancel = Current
        /\ \A n \in Numbers : n \in health.cancelled <=> n < health.cancel
        /\ \A n \in Numbers : n > health.cancel => loop[n] = "off"
        /\ loop[health.cancel] # "off" <=> ConfigOf(health.cancel).health

LEMMA LoopsInvInit == Init => LoopsInv
  <1> SUFFICES ASSUME Init PROVE LoopsInv
    OBVIOUS
  <1>1. PICK c \in Configs :
            /\ runtimes = <<[edit |-> 0, config |-> c]>>
            /\ loop = [n \in Numbers |-> IF n = 1 /\ c.health THEN "checking" ELSE "off"]
    BY DEF Init
  <1>2. Current = 1 /\ ConfigOf(1) = c /\ 1 \in Numbers
    BY <1>1, BoundsAssumption DEF Current, ConfigOf, Numbers
  <1>3. health.cancel = 1 /\ health.cancelled = {}
    BY DEF Init
  <1>4. ~Swapping
    BY DEF Init, IdleReloader, Swapping
  <1> QED BY <1>1, <1>2, <1>3, <1>4 DEF LoopsInv, Numbers

(* As long as the process serves, only reloads and the loops matter.        *)
LEMMA ElsewhereKeepsLoopsInv ==
    ASSUME LoopsInv, UNCHANGED <<runtimes, health, loop>>, Swapping' <=> Swapping,
           Stage' = "serving" => Stage = "serving"
    PROVE  LoopsInv'
  BY DEF LoopsInv, Current, ConfigOf

LEMMA LoopsInvNext == RuntimeInv /\ LoopsInv /\ [Next]_vars => LoopsInv'
  <1> SUFFICES ASSUME RuntimeInv, LoopsInv, [Next]_vars PROVE LoopsInv'
    OBVIOUS
  <1>1. TypeOK /\ Mutex
    BY DEF RuntimeInv
  <1>2. Current \in 1..MaxRuntimes /\ MaxRuntimes \in Nat
    BY <1>1, BoundsAssumption DEF TypeOK, Numbers
  <1>3. ASSUME NEW c \in Configs \cup {Broken}, Edit(c) PROVE LoopsInv'
    BY <1>3, ElsewhereKeepsLoopsInv DEF Edit, Swapping, Stage
  <1>4. ASSUME NEW r \in Reloaders, Call(r) \/ Lock(r) \/ LoadFile(r) \/ Prune(r)
        PROVE  LoopsInv'
    <2>1. UNCHANGED <<runtimes, health, loop, main>>
      BY <1>4 DEF Call, Lock, LoadFile, Prune
    <2>2. reloader[r].pc # "swapping"
      BY <1>4 DEF Call, Lock, LoadFile, Prune, At
    <2>3. reloader'[r].pc # "swapping" /\ \A q \in Reloaders \ {r} : reloader'[q] = reloader[q]
      <3>1. \/ \E pc \in {"called", "loading", "storing"} : Goes(r, pc)
            \/ Returns(r)
            \/ reloader' = [reloader EXCEPT ![r] = [pc |-> "pruning", next |-> file]]
        BY <1>4 DEF Call, Lock, LoadFile, Prune
      <3> QED BY <1>1, <3>1, GoesOn, GoesHome DEF TypeOK, ReloadPcs
    <2>4. Swapping' <=> Swapping
      BY <2>2, <2>3 DEF Swapping
    <2> QED BY <2>1, <2>4, ElsewhereKeepsLoopsInv DEF Stage
  <1>5. ASSUME NEW r \in Reloaders, Store(r) PROVE LoopsInv'
    <2>1. runtimes \in Seq(ProxyRuntime) /\ runtimes' = Append(runtimes, reloader[r].next)
          /\ reloader[r].next \in ProxyRuntime /\ reloader[r].pc = "storing"
          /\ UNCHANGED <<health, loop, main>>
      BY <1>1, <1>5 DEF TypeOK, Store, RuntimeInv, Reading, At
    <2>2. Current' = Current + 1 /\ \A n \in 1..Current : ConfigOf(n)' = ConfigOf(n)
      BY <2>1 DEF Current, ConfigOf
    <2>3. ~Swapping
      BY <1>1, <2>1 DEF Mutex, Inside, Swapping
    <2>4. Swapping'
      <3>1. reloader'[r] = [pc |-> "swapping", next |-> Nothing]
        BY <1>1, <1>5 DEF Store, TypeOK
      <3> QED BY <3>1 DEF Swapping
    <2>5. Stage' = "serving" => Stage = "serving"
      BY <2>1 DEF Stage
    <2> QED BY <1>2, <2>1, <2>2, <2>3, <2>4, <2>5 DEF LoopsInv
  <1>6. ASSUME NEW r \in Reloaders, SwapHealthLoop(r) PROVE LoopsInv'
    <2> SUFFICES ASSUME Stage = "serving" PROVE LoopsInv'
      BY <1>6 DEF SwapHealthLoop, LoopsInv, Stage
    <2>1. reloader[r].pc = "swapping" /\ UNCHANGED <<runtimes, main>> /\ Swapping
      BY <1>6 DEF SwapHealthLoop, At, Swapping
    <2>2. ~Swapping'
      BY <1>1, <1>6, <2>1, GoesHome DEF Mutex, Inside, Swapping, SwapHealthLoop
    <2>3. Current' = Current /\ \A n \in 1..Current : ConfigOf(n)' = ConfigOf(n)
      BY <2>1 DEF Current, ConfigOf
    <2>4. health.cancel + 1 = Current /\ health.cancel \in 1..Current
          /\ (\A n \in Numbers : n \in health.cancelled <=> n < health.cancel)
          /\ (\A n \in Numbers : n > health.cancel => loop[n] = "off")
      BY <2>1 DEF LoopsInv
    <2>5. health'.cancel = Current /\ health'.cancelled = health.cancelled \cup {health.cancel}
      BY <1>6, <2>4 DEF SwapHealthLoop, Swapped
    <2>6. \A n \in Numbers : n \in health'.cancelled <=> n < health'.cancel
      BY <1>2, <2>4, <2>5 DEF Numbers
    <2>7. loop' = [loop EXCEPT ![Current] = IF ConfigOf(Current).health THEN "checking" ELSE "off"]
          /\ loop \in [Numbers -> {"off", "checking", "resting"}] /\ Current \in Numbers
      BY <1>1, <1>2, <1>6 DEF SwapHealthLoop, TypeOK, Numbers
    <2>8. \A n \in Numbers : n > health'.cancel => loop'[n] = "off"
      BY <1>2, <2>4, <2>5, <2>7 DEF Numbers
    <2>9. loop'[Current] # "off" <=> ConfigOf(Current)'.health
      BY <1>2, <2>3, <2>7
    <2> QED BY <1>2, <2>2, <2>3, <2>5, <2>6, <2>8, <2>9 DEF LoopsInv
  <1>7. ASSUME NEW n \in Numbers, LoopStep(n) \/ LoopEnds(n) PROVE LoopsInv'
    <2> SUFFICES ASSUME Stage = "serving" PROVE LoopsInv'
      BY <1>7 DEF LoopStep, Check, LoopTicks, LoopEnds, LoopsInv, Stage
    <2>1. UNCHANGED <<runtimes, reloader, health, main>> /\ loop[n] # "off"
      BY <1>7 DEF LoopStep, Check, LoopTicks, LoopEnds, LoopGoes
    <2>2. Current' = Current /\ \A m \in 1..Current : ConfigOf(m)' = ConfigOf(m)
      BY <2>1 DEF Current, ConfigOf
    <2>3. \A m \in Numbers : m # n => loop'[m] = loop[m]
      BY <1>1, <1>7 DEF LoopStep, Check, LoopTicks, LoopEnds, LoopGoes, TypeOK
    <2>4. ~(n > health.cancel) /\ health.cancel \in 1..Current
      BY <2>1 DEF LoopsInv
    <2>5. n = health.cancel => loop'[n] # "off"
      <3>1. CASE LoopStep(n)
        BY <1>1, <3>1 DEF LoopStep, Check, LoopTicks, LoopGoes, TypeOK
      <3>2. CASE LoopEnds(n)
        BY <3>2, <2>4 DEF LoopEnds, ContextDone, AppCancelled, LoopsInv
      <3> QED BY <1>7, <3>1, <3>2
    <2>6. health.cancel \in Numbers
      BY <1>2, <2>4 DEF Numbers
    <2>7. Swapping' <=> Swapping
      BY <2>1 DEF Swapping
    <2> QED BY <2>1, <2>2, <2>3, <2>4, <2>5, <2>6, <2>7 DEF LoopsInv
  <1>8. ASSUME NEW s \in Sessions, Accept(s) \/ UseRoute(s) \/ EndSession(s) PROVE LoopsInv'
    BY <1>8, ElsewhereKeepsLoopsInv DEF Accept, UseRoute, EndSession, Swapping, Stage
  <1>9. ASSUME NEW s \in Sessions, NEW h \in Hosts, LearnRoute(s, h) PROVE LoopsInv'
    BY <1>9, ElsewhereKeepsLoopsInv DEF LearnRoute, Swapping, Stage
  <1>10. CASE FlushTick \/ PruneTick \/ UNCHANGED vars
    BY <1>10, ElsewhereKeepsLoopsInv DEF FlushTick, PruneTick, vars, Swapping, Stage
  <1>11. CASE Signal \/ StopHealth \/ Await \/ FinalFlush \/ Exit
    <2>1. Alive /\ \E b \in BOOLEAN : main' = Advanced \/ main' = [Advanced EXCEPT !.lost = b]
      BY <1>11 DEF Signal, StopHealth, Await, FinalFlush, Exit, Alive
    <2>2. main.stage \in 1..6 /\ main'.stage = main.stage + 1 /\ main'.stage \in 1..6
      BY <1>1, <2>1, MainAdvances, StageNumbers DEF TypeOK
    <2>3. Stage' # "serving"
      BY <2>2, StageNumbers DEF Stage
    <2> QED BY <2>3 DEF LoopsInv
  <1> QED
    BY <1>3, <1>4, <1>5, <1>6, <1>7, <1>8, <1>9, <1>10, <1>11 DEF Next, Reload

(* However reloads and shutdown interleave, the health loop that has not    *)
(* been told to end is the one that can be told, and between reloads it is   *)
(* that of the runtime in force (OneLiveLoop of run runtime).                *)
THEOREM OneLiveLoopCorrect == Spec => []OneLiveLoop
  <1>1. RuntimeInv /\ LoopsInv => OneLiveLoop
    <2> SUFFICES ASSUME RuntimeInv, LoopsInv PROVE OneLiveLoop
      OBVIOUS
    <2>1. CASE Stage = "serving"
      <3>1. Current \in Numbers /\ health.cancel \in 1..Current /\ health.cancel \in Numbers
        BY <2>1, BoundsAssumption DEF LoopsInv, RuntimeInv, TypeOK, Numbers
      <3>2. \A n \in Numbers : Live(n) => n = health.cancel
        BY <2>1, <3>1 DEF Live, ContextDone, LoopsInv, Numbers
      <3>3. ASSUME reloadMu = Nobody, NEW n \in Numbers
            PROVE  Live(n) <=> n = Current /\ ConfigOf(Current).health
        <4>1. ~Swapping
          BY <3>3, ReloadersAssumption DEF RuntimeInv, Mutex, Inside, Swapping
        <4>2. health.cancel = Current
          BY <2>1, <4>1 DEF LoopsInv
        <4> QED BY <2>1, <3>1, <3>2, <4>2 DEF Live, ContextDone, AppCancelled, LoopsInv, Numbers
      <3> QED BY <3>2, <3>3 DEF OneLiveLoop
    <2>2. CASE Stage # "serving"
      BY <2>2 DEF OneLiveLoop, Live, ContextDone, AppCancelled
    <2> QED BY <2>1, <2>2
  <1> QED BY <1>1, RuntimeInvCorrect, LoopsInvInit, LoopsInvNext, PTL DEF Spec

(***************************************************************************)
(* Shutdown                                                                *)
(***************************************************************************)

(* Once the sessions are known to be over, none is left to use a route, and  *)
(* after the last Flush nothing is dirty.                                    *)
DrainedInv ==
    ~main.lost =>
        /\ main.stage >= 4 => Running = {}
        /\ main.stage >= 5 => ~dirty

LEMMA DrainedInvNext == TypeOK /\ DrainedInv /\ [Next]_vars => DrainedInv'
  <1> SUFFICES ASSUME TypeOK, DrainedInv, [Next]_vars PROVE DrainedInv'
    OBVIOUS
  <1>1. main \in [stage : 1..6, lost : BOOLEAN] /\ session \in [Sessions -> Session]
    BY StageNumbers DEF TypeOK
  <1>2. ASSUME UNCHANGED main, Running' \subseteq Running, dirty' => dirty PROVE DrainedInv'
    BY <1>2 DEF DrainedInv
  <1>3. ASSUME NEW c \in Configs \cup {Broken}, Edit(c) PROVE DrainedInv'
    BY <1>2, <1>3 DEF Edit, Running
  <1>4. ASSUME NEW r \in Reloaders, Call(r) \/ Reload(r) PROVE DrainedInv'
    BY <1>2, <1>4 DEF Call, Reload, Lock, LoadFile, Prune, Store, SwapHealthLoop, Running
  <1>5. ASSUME NEW n \in Numbers, LoopStep(n) \/ LoopEnds(n) PROVE DrainedInv'
    BY <1>2, <1>5 DEF LoopStep, Check, LoopTicks, LoopEnds, Running
  <1>6. ASSUME NEW s \in Sessions, Accept(s) PROVE DrainedInv'
    <2>1. main.stage = 1 /\ UNCHANGED main
      BY <1>1, <1>6, StageNumbers DEF Accept, Stage
    <2> QED BY <2>1 DEF DrainedInv
  <1>7. ASSUME NEW s \in Sessions, UseRoute(s) PROVE DrainedInv'
    <2>1. s \in Running /\ UNCHANGED <<main, session>>
      BY <1>7 DEF UseRoute, Running
    <2>2. ~main.lost => main.stage < 4
      BY <1>1, <2>1 DEF DrainedInv
    <2> QED BY <1>1, <2>1, <2>2 DEF DrainedInv
  <1>8. ASSUME NEW s \in Sessions, EndSession(s) PROVE DrainedInv'
    <2>1. NoSession.pc # "running" /\ [session[s] EXCEPT !.pc = "lingering"].pc # "running"
      BY <1>1 DEF NoSession, Session
    <2>2. Running' \subseteq Running
      BY <1>1, <1>8, <2>1 DEF EndSession, Running
    <2> QED BY <1>2, <1>8, <2>2 DEF EndSession
  <1>9. ASSUME NEW s \in Sessions, NEW h \in Hosts, LearnRoute(s, h) PROVE DrainedInv'
    BY <1>2, <1>9 DEF LearnRoute, Running
  <1>10. CASE FlushTick \/ PruneTick \/ UNCHANGED vars
    BY <1>2, <1>10 DEF FlushTick, PruneTick, vars, Running
  <1>11. CASE Signal \/ StopHealth \/ Exit
    <2>1. Alive /\ main' = Advanced /\ UNCHANGED <<session, dirty>>
      BY <1>11 DEF Signal, StopHealth, Exit, Alive
    <2>2. main.stage \in {1, 2, 5} /\ main'.stage = main.stage + 1 /\ main'.lost = main.lost
      BY <1>1, <1>11, <2>1, StageNumbers DEF Signal, StopHealth, Exit, Stage, Advanced
    <2> QED BY <1>1, <2>1, <2>2 DEF DrainedInv, Running
  <1>12. CASE Await
    <2>1. main.stage = 3
      BY <1>1, <1>12, StageNumbers DEF Await, Stage
    <2>2. main'.stage = 4 /\ main'.lost = (Running # {}) /\ UNCHANGED session
      BY <1>1, <1>12, <2>1 DEF Await, Advanced
    <2>3. ~main'.lost => Running' = {}
      BY <2>2, Zenon DEF Running
    <2>4. ~(main'.stage >= 5)
      BY <2>2
    <2> QED BY <2>3, <2>4 DEF DrainedInv
  <1>13. CASE FinalFlush
    <2>1. main.stage = 4 /\ UNCHANGED session
      BY <1>1, <1>13, StageNumbers DEF FinalFlush, Stage
    <2>2. Advanced = [stage |-> 5, lost |-> main.lost]
      BY <1>1, <2>1 DEF Advanced
    <2>3. \/ main' = Advanced /\ dirty' = FALSE
          \/ main' = [Advanced EXCEPT !.lost = TRUE]
      BY <1>13 DEF FinalFlush
    <2>4. CASE main' = Advanced /\ dirty' = FALSE
      BY <2>1, <2>2, <2>4 DEF DrainedInv, Running
    <2>5. CASE main' = [Advanced EXCEPT !.lost = TRUE]
      BY <2>2, <2>5 DEF DrainedInv
    <2> QED BY <2>3, <2>4, <2>5
  <1> QED
    BY <1>3, <1>4, <1>5, <1>6, <1>7, <1>8, <1>9, <1>10, <1>11, <1>12, <1>13 DEF Next

(* No usage of learned routes that was recorded by a session which ended in  *)
(* time is lost at shutdown, unless the last Flush fails (FlushedAtExit of   *)
(* run runtime).                                                            *)
THEOREM FlushedAtExitCorrect == Spec => []FlushedAtExit
  <1>1. Init => DrainedInv
    BY DEF Init, DrainedInv
  <1>2. TypeOK /\ DrainedInv => FlushedAtExit
    <2> SUFFICES ASSUME TypeOK, DrainedInv, Stage = "exited", ~main.lost PROVE ~dirty
      BY DEF FlushedAtExit
    <2>1. main.stage = 6
      BY StageNumbers DEF TypeOK, Stage
    <2> QED BY <2>1 DEF DrainedInv
  <1> QED BY <1>1, <1>2, RuntimeTypeCorrect, DrainedInvNext, PTL DEF Spec
=============================================================================
