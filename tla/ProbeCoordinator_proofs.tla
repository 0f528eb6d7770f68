----------------------- MODULE ProbeCoordinator_proofs -----------------------
(***************************************************************************)
(* The probe coordinator for any hosts, probers, backoff and capacity.     *)
(*                                                                         *)
(* The invariant is TypeOK /\ ActiveIsOwned /\ Bounded: the bound on the    *)
(* map is not inductive alone, because Done writes an entry without asking  *)
(* for room.  That entry is one the map already has, and this is what       *)
(* ActiveIsOwned says.                                                      *)
(***************************************************************************)
EXTENDS ProbeCoordinator, FiniteSetTheorems, TLAPS

-----------------------------------------------------------------------------
(* Facts about the map. *)

LEMMA RememberedFinite ==
    ASSUME NEW f
    PROVE  IsFiniteSet(Remembered(f)) /\ Cardinality(Remembered(f)) \in Nat
<1>1. Remembered(f) \subseteq Hosts
  BY DEF Remembered
<1> QED BY <1>1, HostsAssumption, FS_Subset, FS_CardinalityType

LEMMA EntryType ==
    ASSUME NEW s \in ProbeState
    PROVE  /\ s # NoState
           /\ s.active \in BOOLEAN /\ s.retryIn \in 0..Backoff
           /\ s = Active \/ s = Waiting(s.retryIn)
           /\ s.active <=> s = Active
           /\ s.retryIn > 0 => ~s.active
<1>1. s # NoState
  BY NoStateAssumption
<1>2. CASE s = Active
  BY <1>1, <1>2, BackoffAssumption DEF Active
<1>3. ASSUME NEW n \in 0..Backoff, s = Waiting(n)
      PROVE  s.active = FALSE /\ s.retryIn = n
  BY <1>3 DEF Waiting
<1>4. Active.active = TRUE
  BY DEF Active
<1> QED BY <1>1, <1>2, <1>3, <1>4 DEF ProbeState

LEMMA ProberType ==
    ASSUME NEW p \in Probers, TypeOK
    PROVE  /\ prober[p].probing \in BOOLEAN
           /\ prober[p].probing => prober[p].host \in Hosts
           /\ prober[p].retryIn \in 0..Backoff
<1>1. prober[p] = Idle \/ \E h \in Hosts, n \in 0..Backoff : prober[p] = Probing(h, n)
  BY DEF TypeOK, Prober
<1>2. CASE prober[p] = Idle
  BY <1>2, BackoffAssumption DEF Idle
<1>3. ASSUME NEW h \in Hosts, NEW n \in 0..Backoff, prober[p] = Probing(h, n)
      PROVE  prober[p].probing = TRUE /\ prober[p].host = h /\ prober[p].retryIn = n
  BY <1>3 DEF Probing
<1> QED BY <1>1, <1>2, <1>3

(* Time keeps the kind of an entry and of a prober. *)

LEMMA LaterType ==
    ASSUME NEW n \in 0..Backoff
    PROVE  Later(n) \in 0..Backoff
BY BackoffAssumption DEF Later

LEMMA EntryLater ==
    ASSUME NEW s \in ProbeState
    PROVE  /\ s = Active => LaterEntry(s) = Active
           /\ s # Active => LaterEntry(s) = Waiting(Later(s.retryIn))
           /\ LaterEntry(s) \in ProbeState
<1>1. ASSUME s = Active
      PROVE  LaterEntry(s) = Active
  BY <1>1 DEF Active, Later, LaterEntry
<1>2. ASSUME s # Active
      PROVE  LaterEntry(s) = Waiting(Later(s.retryIn))
  BY <1>2, EntryType DEF LaterEntry, Waiting
<1> QED BY <1>1, <1>2, EntryType, LaterType DEF ProbeState

LEMMA ProberLater ==
    ASSUME NEW r \in Prober
    PROVE  /\ LaterProber(r) \in Prober
           /\ LaterProber(r).probing = r.probing
           /\ LaterProber(r).host = r.host
<1>1. CASE r = Idle
  BY <1>1 DEF Idle, Later, LaterProber, Prober
<1>2. ASSUME NEW h \in Hosts, NEW n \in 0..Backoff, r = Probing(h, n)
      PROVE  LaterProber(r) = Probing(h, Later(n))
  BY <1>2 DEF Probing, LaterProber
<1>3. ASSUME NEW h \in Hosts, NEW n \in 0..Backoff, r = Probing(h, n)
      PROVE  LaterProber(r) \in Prober
  BY <1>2, <1>3, LaterType DEF Prober
<1> QED BY <1>1, <1>3 DEF Prober, LaterProber

(* Pruning takes away only entries that neither are active nor suppressed. *)
LEMMA PruningIsSafe ==
    ASSUME NEW f \in [Hosts -> ProbeState \cup {NoState}], NEW h \in Hosts
    PROVE  /\ Pruned(f, h) \in [Hosts -> ProbeState \cup {NoState}]
           /\ Remembered(Pruned(f, h)) \subseteq Remembered(f)
           /\ \A k \in Hosts : Pruned(f, h)[k] = f[k] \/ k \in Stale(f)
           /\ ActiveHosts(Pruned(f, h)) = ActiveHosts(f)
<1>1. /\ Pruned(f, h) \in [Hosts -> ProbeState \cup {NoState}]
      /\ \A k \in Hosts :
           \/ Pruned(f, h)[k] = f[k]
           \/ k \in Stale(f) /\ Pruned(f, h)[k] = NoState
  BY DEF Pruned
<1> QED BY <1>1 DEF Remembered, ActiveHosts, Stale

(* A host that Start admits fits into the map. *)
LEMMA StartFits ==
    ASSUME NEW f \in [Hosts -> ProbeState \cup {NoState}], NEW h \in Hosts,
           ~Refused(f, h), Cardinality(Remembered(f)) <= MaxStates
    PROVE  Cardinality(Remembered(Started(f, h))) <= MaxStates
<1> DEFINE g == Pruned(f, h)
<1>0. g \in [Hosts -> ProbeState \cup {NoState}]
  BY PruningIsSafe
<1>1. Remembered(Started(f, h)) = Remembered(g) \cup {h}
  <2>1. Active # NoState
    BY NoStateAssumption DEF ProbeState
  <2> QED BY <1>0, <2>1 DEF Started, Remembered
<1>2. CASE f[h] # NoState
  <2>1. g = f
    BY <1>2 DEF Pruned
  <2> QED BY <1>1, <1>2, <2>1 DEF Remembered
<1>3. CASE f[h] = NoState
  <2>1. g[h] = NoState
    BY <1>3 DEF Pruned
  <2>2. h \notin Remembered(g)
    BY <2>1 DEF Remembered
  <2>3. Cardinality(Remembered(g)) < MaxStates
    BY <1>3, RememberedFinite, MaxStatesAssumption DEF Refused, IsFull
  <2>4. Cardinality(Remembered(g) \cup {h}) = Cardinality(Remembered(g)) + 1
    BY <2>2, RememberedFinite, FS_AddElement
  <2> QED BY <1>1, <2>3, <2>4, RememberedFinite, MaxStatesAssumption
<1> QED BY <1>2, <1>3

-----------------------------------------------------------------------------
(* The type invariant (TypeOK): the coordinator's map and the probers'      *)
(* records keep their shape, and no retryAfter lies further ahead than the  *)
(* backoff.                                                                 *)
THEOREM ProbeTypeCorrect == Spec => []TypeOK
<1>1. Init => TypeOK
  BY DEF Init, TypeOK, Prober
<1>2. ASSUME TypeOK, [Next]_vars
      PROVE  TypeOK'
  <2> USE <1>2
  <2>1. ASSUME NEW p \in Probers, NEW h \in Hosts, Start(p, h)
        PROVE  TypeOK'
    <3>1. states' \in [Hosts -> ProbeState \cup {NoState}]
      BY <2>1, PruningIsSafe DEF Start, Started, TypeOK, Active, ProbeState
    <3>2. Probing(h, Backoff) \in Prober
      BY BackoffAssumption DEF Prober
    <3>3. prober' \in [Probers -> Prober]
      BY <2>1, <3>2 DEF Start, TypeOK
    <3> QED BY <3>1, <3>3 DEF TypeOK
  <2>2. ASSUME NEW p \in Probers, NEW h \in Hosts, Refuse(p, h)
        PROVE  TypeOK'
    BY <2>2, PruningIsSafe DEF Refuse, TypeOK
  <2>3. ASSUME NEW p \in Probers, Finish(p)
        PROVE  TypeOK'
    <3>1. Waiting(prober[p].retryIn) \in ProbeState
      BY ProberType DEF Waiting, ProbeState
    <3>2. states' \in [Hosts -> ProbeState \cup {NoState}]
      BY <2>3, <3>1 DEF Finish, Done, TypeOK
    <3>3. Idle \in Prober
      BY DEF Prober
    <3>4. prober' \in [Probers -> Prober]
      BY <2>3, <3>3 DEF Finish, TypeOK
    <3> QED BY <3>2, <3>4 DEF TypeOK
  <2>4. ASSUME Tick
        PROVE  TypeOK'
    <3>1. ASSUME NEW h \in Hosts
          PROVE  states'[h] \in ProbeState \cup {NoState}
      BY <2>4, EntryLater DEF Tick, TypeOK
    <3>2. ASSUME NEW p \in Probers
          PROVE  prober'[p] \in Prober
      BY <2>4, ProberLater DEF Tick, TypeOK
    <3> QED BY <2>4, <3>1, <3>2 DEF Tick, TypeOK
  <2>5. CASE UNCHANGED vars
    BY <2>5 DEF vars, TypeOK
  <2> QED BY <2>1, <2>2, <2>3, <2>4, <2>5 DEF Next
<1> QED BY <1>1, <1>2, PTL DEF Spec

-----------------------------------------------------------------------------
(* One probe per host (ActiveIsOwned), for any number of probers racing     *)
(* through Start and Done, with the map pruned under them at any time.      *)
THEOREM ActiveIsOwnedCorrect == Spec => []ActiveIsOwned
<1> DEFINE Owners(h) == {p \in Probers : prober[p].probing /\ prober[p].host = h}
<1>1. Init => ActiveIsOwned
  BY DEF Init, ActiveIsOwned, Idle, ActiveHosts, Remembered
<1>2. ASSUME TypeOK, TypeOK', ActiveIsOwned, [Next]_vars
      PROVE  ActiveIsOwned'
  <2> USE <1>2
  <2>0. \A h \in Hosts : /\ h \in ActiveHosts(states) <=> Owners(h) # {}
                         /\ \A p, q \in Owners(h) : p = q
    BY DEF ActiveIsOwned
  <2> SUFFICES ASSUME NEW h \in Hosts
               PROVE  /\ h \in ActiveHosts(states)' <=> Owners(h)' # {}
                      /\ \A p, q \in Owners(h)' : p = q
    BY DEF ActiveIsOwned
  <2>1. ASSUME NEW p \in Probers, NEW k \in Hosts, Start(p, k)
        PROVE  /\ h \in ActiveHosts(states)' <=> Owners(h)' # {}
               /\ \A r, q \in Owners(h)' : r = q
    <3>1. k \notin ActiveHosts(states) /\ Owners(k) = {}
      BY <2>0, <2>1 DEF Start, Refused
    <3>2. ActiveHosts(states') = ActiveHosts(states) \cup {k}
      <4>1. /\ Pruned(states, k) \in [Hosts -> ProbeState \cup {NoState}]
            /\ ActiveHosts(Pruned(states, k)) = ActiveHosts(states)
        BY PruningIsSafe DEF TypeOK
      <4>2. states' = [Pruned(states, k) EXCEPT ![k] = Active]
        BY <2>1 DEF Start, Started
      <4>3. Active # NoState /\ Active.active
        BY NoStateAssumption DEF ProbeState, Active
      <4>4. ASSUME NEW j \in Hosts
            PROVE  states'[j] = IF j = k THEN Active ELSE Pruned(states, k)[j]
        BY <4>1, <4>2
      <4> QED BY <4>1, <4>3, <4>4 DEF ActiveHosts, Remembered
    <3>3. prober' = [prober EXCEPT ![p] = Probing(k, Backoff)] /\ ~prober[p].probing
      BY <2>1 DEF Start
    <3>4. Owners(h)' = IF h = k THEN {p} ELSE Owners(h)
      BY <3>1, <3>3 DEF TypeOK, Probing
    <3> QED BY <2>0, <3>1, <3>2, <3>4
  <2>2. ASSUME NEW p \in Probers, NEW k \in Hosts, Refuse(p, k)
        PROVE  /\ h \in ActiveHosts(states)' <=> Owners(h)' # {}
               /\ \A r, q \in Owners(h)' : r = q
    <3>1. ActiveHosts(states') = ActiveHosts(states)
      BY <2>2, PruningIsSafe DEF Refuse, TypeOK
    <3> QED BY <2>0, <2>2, <3>1 DEF Refuse
  <2>3. ASSUME NEW p \in Probers, Finish(p)
        PROVE  /\ h \in ActiveHosts(states)' <=> Owners(h)' # {}
               /\ \A r, q \in Owners(h)' : r = q
    <3> DEFINE k == prober[p].host
    <3>1. k \in Hosts /\ p \in Owners(k)
      BY <2>3, ProberType DEF Finish
    <3>2. ActiveHosts(states') = ActiveHosts(states) \ {k}
      BY <2>3, <3>1 DEF Finish, Done, Waiting, ActiveHosts, Remembered, TypeOK, ProbeState
    <3>3. prober' = [prober EXCEPT ![p] = Idle]
      BY <2>3 DEF Finish
    <3>4. Owners(h)' = Owners(h) \ {p}
      BY <3>3 DEF Idle, TypeOK
    <3>5. CASE h = k
      BY <2>0, <3>1, <3>2, <3>4, <3>5
    <3>6. CASE h # k
      BY <2>0, <3>1, <3>2, <3>4, <3>6
    <3> QED BY <3>5, <3>6
  <2>4. ASSUME Tick
        PROVE  /\ h \in ActiveHosts(states)' <=> Owners(h)' # {}
               /\ \A r, q \in Owners(h)' : r = q
    <3>1. h \in ActiveHosts(states') <=> h \in ActiveHosts(states)
      <4>1. CASE states[h] = NoState
        BY <2>4, <4>1 DEF Tick, ActiveHosts, Remembered
      <4>2. CASE states[h] # NoState
        <5>1. states[h] \in ProbeState
          BY <4>2 DEF TypeOK
        <5>2. states'[h] = LaterEntry(states[h])
          BY <2>4, <4>2 DEF Tick
        <5>3. states'[h] \in ProbeState /\ (states'[h] = Active <=> states[h] = Active)
          <6>1. \A n : Waiting(n) # Active
            BY DEF Active, Waiting
          <6> QED BY <5>1, <5>2, <6>1, EntryLater
        <5> QED BY <5>1, <5>3, EntryType DEF ActiveHosts, Remembered
      <4> QED BY <4>1, <4>2
    <3>2. Owners(h)' = Owners(h)
      <4>1. ASSUME NEW p \in Probers
            PROVE  prober'[p].probing = prober[p].probing /\ prober'[p].host = prober[p].host
        BY <2>4, ProberLater DEF Tick, TypeOK
      <4> QED BY <4>1
    <3> QED BY <2>0, <3>1, <3>2
  <2>5. CASE UNCHANGED vars
    BY <2>0, <2>5 DEF vars
  <2> QED BY <2>1, <2>2, <2>3, <2>4, <2>5 DEF Next
<1> QED BY <1>1, <1>2, ProbeTypeCorrect, PTL DEF Spec

(* A host a prober holds is in the map, so that Done needs no room. *)
LEMMA HeldHostRemembered ==
    ASSUME NEW p \in Probers, TypeOK, ActiveIsOwned, prober[p].probing
    PROVE  prober[p].host \in Remembered(states)
BY ProberType DEF ActiveIsOwned, ActiveHosts

(* The coordinator remembers at most maxProbeStates hosts (Bounded).         *)
THEOREM BoundedCorrect == Spec => []Bounded
<1>1. Init => Bounded
  <2>1. ASSUME Init PROVE Remembered(states) = {}
    BY <2>1 DEF Init, Remembered
  <2> QED BY <2>1, FS_EmptySet, MaxStatesAssumption DEF Bounded
<1>2. ASSUME TypeOK, ActiveIsOwned, Bounded, [Next]_vars
      PROVE  Bounded'
  <2> USE <1>2
  <2>0. SUFFICES ASSUME Remembered(states') # Remembered(states)
                 PROVE  Bounded'
    BY DEF Bounded
  <2>1. ASSUME Remembered(states') \subseteq Remembered(states)
        PROVE  Bounded'
    <3>1. Cardinality(Remembered(states')) <= Cardinality(Remembered(states))
      BY <2>1, RememberedFinite, FS_Subset
    <3> QED BY <3>1, RememberedFinite, MaxStatesAssumption DEF Bounded
  <2>2. ASSUME NEW p \in Probers, NEW h \in Hosts, Start(p, h)
        PROVE  Bounded'
    BY <2>2, StartFits DEF Start, Bounded, TypeOK
  <2>3. ASSUME NEW p \in Probers, NEW h \in Hosts, Refuse(p, h)
        PROVE  Bounded'
    BY <2>1, <2>3, PruningIsSafe DEF Refuse, TypeOK
  <2>4. ASSUME NEW p \in Probers, Finish(p)
        PROVE  Bounded'
    <3>1. Remembered(states') \subseteq Remembered(states)
      BY <2>4, HeldHostRemembered DEF Finish, Done, Remembered, TypeOK
    <3> QED BY <2>1, <3>1
  <2>5. ASSUME Tick
        PROVE  Bounded'
    <3>1. Remembered(states') \subseteq Remembered(states)
      BY <2>5 DEF Tick, Remembered
    <3> QED BY <2>1, <3>1
  <2>6. CASE UNCHANGED vars
    BY <2>0, <2>6 DEF vars
  <2> QED BY <2>2, <2>3, <2>4, <2>5, <2>6 DEF Next
<1> QED BY <1>1, <1>2, ProbeTypeCorrect, ActiveIsOwnedCorrect, PTL DEF Spec

(* Nothing but time ends the suppression of a host (SuppressionHolds): not   *)
(* the probes of other hosts, nor the pruning they cause in a full map.      *)
Kept(h) ==
    \/ states'[h] = states[h]
    \/ /\ states'[h] = Waiting(Later(states[h].retryIn))
       /\ prober' = [p \in Probers |-> LaterProber(prober[p])]

THEOREM SuppressionHoldsCorrect == Spec => SuppressionHolds
<1>1. ASSUME TypeOK, ActiveIsOwned, [Next]_vars, NEW h \in SuppressedHosts(states)
      PROVE  Kept(h)
  <2> USE <1>1
  <2>0. /\ h \in Hosts /\ states[h] \in ProbeState
        /\ states[h].retryIn > 0 /\ h \notin Stale(states)
    BY DEF SuppressedHosts, Remembered, Stale, TypeOK, ProbeState
  <2>1. ASSUME NEW p \in Probers, NEW k \in Hosts, Start(p, k)
        PROVE  Kept(h)
    <3>1. h # k
      BY <2>1 DEF Start, Refused
    <3>2. Pruned(states, k)[h] = states[h]
      BY <2>0, PruningIsSafe DEF TypeOK
    <3>3. Pruned(states, k) \in [Hosts -> ProbeState \cup {NoState}]
      BY PruningIsSafe DEF TypeOK
    <3> QED BY <2>0, <2>1, <3>1, <3>2, <3>3 DEF Kept, Start, Started
  <2>2. ASSUME NEW p \in Probers, NEW k \in Hosts, Refuse(p, k)
        PROVE  Kept(h)
    BY <2>0, <2>2, PruningIsSafe DEF Kept, Refuse, TypeOK
  <2>3. ASSUME NEW p \in Probers, Finish(p)
        PROVE  Kept(h)
    <3> DEFINE k == prober[p].host
    <3>1. k \in Hosts /\ k \in ActiveHosts(states)
      BY <2>3, ProberType DEF Finish, ActiveIsOwned
    <3>2. h # k
      BY <2>0, <3>1, EntryType DEF ActiveHosts
    <3> QED BY <2>0, <2>3, <3>1, <3>2 DEF Kept, Finish, Done, TypeOK
  <2>4. CASE Tick
    <3>1. states[h] # NoState /\ states[h] # Active
      BY <2>0, EntryType DEF Active
    <3>2. states'[h] = LaterEntry(states[h])
      BY <2>0, <2>4, <3>1 DEF Tick
    <3>3. states'[h] = Waiting(Later(states[h].retryIn))
      BY <2>0, <3>1, <3>2, EntryLater
    <3> QED BY <2>4, <3>3 DEF Kept, Tick
  <2>5. CASE UNCHANGED vars
    BY <2>5 DEF Kept, vars
  <2> QED BY <2>1, <2>2, <2>3, <2>4, <2>5 DEF Next
<1>2. TypeOK /\ ActiveIsOwned /\ [Next]_vars
          => [\A h \in SuppressedHosts(states) : Kept(h)]_vars
  BY <1>1
<1> QED BY <1>2, ProbeTypeCorrect, ActiveIsOwnedCorrect, PTL DEF Spec, SuppressionHolds, Kept
=============================================================================
