------------------------ MODULE LearnedStore_proofs ------------------------
(***************************************************************************)
(* The learned store for any set of hosts, upstreams and limits.           *)
(*                                                                         *)
(* Two independent arguments meet here.  Durability is an inductive         *)
(* invariant over the outcomes of a save (SavedKeeps): memory and file have *)
(* the same routes, and are equal unless dirty.  Eviction rests on the      *)
(* order lessRecentlyUsed being strict and total on the known hosts: each    *)
(* host then has a rank, the number of hosts more recently used, the ranks   *)
(* of m known hosts are exactly 0..m-1, and so the hosts PruneToLimit keeps  *)
(* are exactly "limit" many and the eviction candidate is exactly one.       *)
(***************************************************************************)
EXTENDS LearnedStore, FunctionTheorems, FiniteSetTheorems, WellFoundedInduction, TLAPS

-----------------------------------------------------------------------------
(* The order of eviction. *)

LEMMA KnownFinite ==
    ASSUME NEW f
    PROVE  /\ Known(f) \subseteq Hosts
           /\ IsFiniteSet(Known(f))
           /\ Cardinality(Known(f)) \in Nat
<1>1. Known(f) \subseteq Hosts
  BY DEF Known
<1>2. IsFiniteSet(Known(f))
  BY <1>1, HostsAssumption, FS_Subset
<1> QED BY <1>1, <1>2, FS_CardinalityType

LEMMA EntryTimes ==
    ASSUME NEW f \in Entries, NEW h \in Known(f)
    PROVE  /\ f[h] \in LearnedDomain /\ h \in Nat
           /\ f[h].learnedAt \in Nat
           /\ LastTouch(f[h]) \in Nat
BY HostsAssumption DEF Known, Entries, LearnedDomain, LastTouch, NeverUsed

(* lessRecentlyUsed (learned.go:167-183) is a strict total order on the     *)
(* known hosts: the host name breaks every tie.                             *)
THEOREM EvictionOrder ==
    ASSUME NEW f \in Entries
    PROVE  /\ \A h \in Known(f) : ~LessRecentlyUsed(f, h, h)
           /\ \A h, k \in Known(f) :
                h # k => LessRecentlyUsed(f, h, k) \/ LessRecentlyUsed(f, k, h)
           /\ \A h, k, l \in Known(f) :
                LessRecentlyUsed(f, h, k) /\ LessRecentlyUsed(f, k, l)
                    => LessRecentlyUsed(f, h, l)
<1>1. \A h \in Known(f) : ~LessRecentlyUsed(f, h, h)
  BY EntryTimes DEF LessRecentlyUsed
<1>2. \A h, k \in Known(f) :
        h # k => LessRecentlyUsed(f, h, k) \/ LessRecentlyUsed(f, k, h)
  BY EntryTimes DEF LessRecentlyUsed
<1>3. \A h, k, l \in Known(f) :
        LessRecentlyUsed(f, h, k) /\ LessRecentlyUsed(f, k, l)
            => LessRecentlyUsed(f, h, l)
  BY EntryTimes DEF LessRecentlyUsed
<1> QED BY <1>1, <1>2, <1>3

MoreRecent(f, h) == {k \in Known(f) : LessRecentlyUsed(f, h, k)}
Rank(f, h) == Cardinality(MoreRecent(f, h))

LEMMA RankType ==
    ASSUME NEW f \in Entries, NEW h \in Known(f)
    PROVE  /\ IsFiniteSet(MoreRecent(f, h))
           /\ Rank(f, h) \in 0..(Cardinality(Known(f)) - 1)
<1>1. MoreRecent(f, h) \subseteq Known(f) \ {h}
  BY EvictionOrder DEF MoreRecent
<1>2. /\ IsFiniteSet(Known(f) \ {h})
      /\ Cardinality(Known(f) \ {h}) = Cardinality(Known(f)) - 1
  BY KnownFinite, FS_RemoveElement
<1>3. /\ IsFiniteSet(MoreRecent(f, h))
      /\ Cardinality(MoreRecent(f, h)) <= Cardinality(Known(f)) - 1
  BY <1>1, <1>2, FS_Subset
<1>4. Cardinality(MoreRecent(f, h)) \in Nat
  BY <1>3, FS_CardinalityType
<1> QED BY <1>3, <1>4, KnownFinite DEF Rank

(* A host used less recently has the larger rank. *)
LEMMA RankOrder ==
    ASSUME NEW f \in Entries, NEW h \in Known(f), NEW k \in Known(f),
           LessRecentlyUsed(f, h, k)
    PROVE  Rank(f, h) > Rank(f, k)
<1>1. MoreRecent(f, k) \subseteq MoreRecent(f, h) \ {k}
  BY EvictionOrder DEF MoreRecent
<1>2. k \in MoreRecent(f, h)
  BY DEF MoreRecent
<1>3. /\ IsFiniteSet(MoreRecent(f, h) \ {k})
      /\ Cardinality(MoreRecent(f, h) \ {k}) = Rank(f, h) - 1
  BY <1>2, RankType, FS_RemoveElement DEF Rank
<1>4. Rank(f, k) <= Rank(f, h) - 1
  BY <1>1, <1>3, FS_Subset DEF Rank
<1>5. Rank(f, h) \in Nat /\ Rank(f, k) \in Nat
  BY RankType, KnownFinite
<1> QED BY <1>4, <1>5

(* The ranks of the known hosts are 0, 1, ..., up to their number. *)
LEMMA RankBijection ==
    ASSUME NEW f \in Entries
    PROVE  [h \in Known(f) |-> Rank(f, h)]
              \in Bijection(Known(f), 0..(Cardinality(Known(f)) - 1))
<1> DEFINE K == Known(f)
           T == 0..(Cardinality(K) - 1)
           r == [h \in K |-> Rank(f, h)]
<1>1. r \in [K -> T]
  BY RankType
<1>2. \A h, k \in K : r[h] = r[k] => h = k
  <2> SUFFICES ASSUME NEW h \in K, NEW k \in K, h # k PROVE r[h] # r[k]
    OBVIOUS
  <2>1. LessRecentlyUsed(f, h, k) \/ LessRecentlyUsed(f, k, h)
    BY EvictionOrder
  <2>2. Rank(f, h) > Rank(f, k) \/ Rank(f, k) > Rank(f, h)
    BY <2>1, RankOrder
  <2>3. Rank(f, h) \in Nat /\ Rank(f, k) \in Nat
    BY RankType, KnownFinite
  <2> QED BY <2>2, <2>3
<1> HIDE DEF r
<1>3. r \in Injection(K, T)
  BY <1>1, <1>2, Fun_IsInj
<1>4. IsFiniteSet(T) /\ Cardinality(T) = Cardinality(K)
  BY KnownFinite, FS_Interval
<1>5. r \in Surjection(K, T)
  BY <1>3, <1>4, FS_Injection
<1> QED BY <1>3, <1>5, Fun_IsBij DEF r

LEMMA RankSurjective ==
    ASSUME NEW f \in Entries, NEW i \in 0..(Cardinality(Known(f)) - 1)
    PROVE  \E h \in Known(f) : Rank(f, h) = i
<1> DEFINE r == [h \in Known(f) |-> Rank(f, h)]
           T == 0..(Cardinality(Known(f)) - 1)
<1>1. r \in Bijection(Known(f), T) /\ i \in T
  BY RankBijection
<1> HIDE DEF r, T
<1>2. \A t \in T : \E h \in Known(f) : r[h] = t
  BY <1>1, Fun_BijectionProperties
<1>3. PICK h \in Known(f) : r[h] = i
  BY <1>1, <1>2
<1> QED BY <1>3 DEF r

-----------------------------------------------------------------------------
(* What the order makes of the two evictions. *)

(* evictionCandidateLocked (learned.go:156-165) finds exactly one host of a *)
(* store that is not empty.                                                 *)
LEMMA OneCandidate ==
    ASSUME NEW f \in Entries
    PROVE  /\ Candidate(f) \subseteq Known(f)
           /\ \A h, k \in Candidate(f) : h = k
           /\ Known(f) # {} => \E h \in Known(f) : Candidate(f) = {h}
<1>1. Candidate(f) \subseteq Known(f)
  BY DEF Candidate
<1>2. \A h, k \in Candidate(f) : h = k
  <2> SUFFICES ASSUME NEW h \in Candidate(f), NEW k \in Candidate(f), h # k PROVE FALSE
    OBVIOUS
  <2>1. LessRecentlyUsed(f, h, k) /\ LessRecentlyUsed(f, k, h)
    BY <1>1 DEF Candidate
  <2>2. h \in Known(f) /\ k \in Known(f)
    BY <1>1
  <2> QED BY <2>1, <2>2, EvictionOrder
<1>3. ASSUME Known(f) # {} PROVE \E h \in Known(f) : Candidate(f) = {h}
  <2> DEFINE m == Cardinality(Known(f))
  <2>1. m \in Nat /\ m # 0
    BY <1>3, KnownFinite, FS_EmptySet
  <2>2. PICK h \in Known(f) : Rank(f, h) = m - 1
    BY <2>1, RankSurjective
  <2>3. \A k \in Known(f) \ {h} : LessRecentlyUsed(f, h, k)
    <3> SUFFICES ASSUME NEW k \in Known(f), k # h, ~LessRecentlyUsed(f, h, k) PROVE FALSE
      OBVIOUS
    <3>1. LessRecentlyUsed(f, k, h)
      BY EvictionOrder
    <3>2. Rank(f, k) > m - 1 /\ Rank(f, k) \in 0..(m - 1)
      BY <2>2, <3>1, RankOrder, RankType
    <3> QED BY <2>1, <3>2
  <2>4. h \in Candidate(f)
    BY <2>3 DEF Candidate
  <2> QED BY <1>2, <2>4
<1> QED BY <1>1, <1>2, <1>3

(* Whoever PruneToLimit (learned.go:230-256) drops, it keeps exactly limit *)
(* routes of a larger store.                                               *)
THEOREM PruneKeepsLimit ==
    ASSUME NEW f \in Entries, NEW limit \in Nat, Cardinality(Known(f)) > limit
    PROVE  Cardinality(Known(f) \ Surplus(f, limit)) = limit
<1> DEFINE K == Known(f)
           kept == K \ Surplus(f, limit)
           low == 0..(limit - 1)
           r == [h \in kept |-> Rank(f, h)]
<1>1. kept = {h \in K : Rank(f, h) < limit}
  <2>1. \A h \in K : Rank(f, h) \in Nat
    BY RankType, KnownFinite
  <2> QED BY <2>1 DEF Surplus, Rank, MoreRecent
<1>2. r \in [kept -> low]
  <2>1. \A h \in K : Rank(f, h) \in Nat
    BY RankType, KnownFinite
  <2> QED BY <1>1, <2>1
<1>3. \A h, k \in kept : r[h] = r[k] => h = k
  <2>1. [h \in K |-> Rank(f, h)] \in Bijection(K, 0..(Cardinality(K) - 1))
    BY RankBijection
  <2> DEFINE s == [h \in K |-> Rank(f, h)]
  <2>2. \A h, k \in K : s[h] = s[k] => h = k
    <3> HIDE DEF s
    <3> QED BY <2>1, Fun_BijectionProperties DEF s
  <2> QED BY <2>2
<1>4. \A i \in low : \E h \in kept : r[h] = i
  <2> SUFFICES ASSUME NEW i \in low PROVE \E h \in kept : r[h] = i
    OBVIOUS
  <2>1. i \in 0..(Cardinality(K) - 1)
    BY KnownFinite
  <2>2. PICK h \in K : Rank(f, h) = i
    BY <2>1, RankSurjective
  <2> QED BY <1>1, <2>2
<1> HIDE DEF r
<1>5. r \in Bijection(kept, low)
  BY <1>2, <1>3, <1>4, Fun_IsBij
<1>6. IsFiniteSet(kept) /\ IsFiniteSet(low) /\ Cardinality(low) = limit
  <2>1. IsFiniteSet(kept)
    BY KnownFinite, FS_Difference
  <2> QED BY <2>1, FS_Interval
<1>7. Cardinality(low) = Cardinality(kept)
  BY <1>5, <1>6, FS_Bijection DEF ExistsBijection
<1> QED BY <1>6, <1>7

(* A dropped route was not touched after a kept one. *)
LEMMA SurplusIsOld ==
    ASSUME NEW f \in Entries, NEW limit \in Nat,
           NEW h \in Surplus(f, limit), NEW k \in Known(f), k \notin Surplus(f, limit)
    PROVE  LastTouch(f[h]) <= LastTouch(f[k])
<1>1. h \in Known(f) /\ h # k
  BY DEF Surplus
<1>2. Rank(f, h) >= limit /\ ~(Rank(f, k) >= limit)
  BY DEF Surplus, Rank, MoreRecent
<1>3. Rank(f, h) \in Nat /\ Rank(f, k) \in Nat
  BY <1>1, RankType, KnownFinite
<1>4. ~LessRecentlyUsed(f, k, h)
  BY <1>1, <1>2, <1>3, RankOrder
<1>5. LessRecentlyUsed(f, h, k)
  BY <1>1, <1>4, EvictionOrder
<1> QED BY <1>1, <1>5, EntryTimes DEF LessRecentlyUsed

-----------------------------------------------------------------------------
(* The loop.  Induction here is over sets of numbers, since the library's    *)
(* principle for predicates takes an operator.                              *)

LEMMA LeastNatural ==
    ASSUME NEW T \in SUBSET Nat, T # {}
    PROVE  \E m \in T : \A k \in T : m <= k
<1> DEFINE R == OpToRel(<, Nat)
<1>1. IsWellFoundedOn(R, Nat)
  BY NatLessThanWellFounded, Zenon
<1>2. \A x, y \in Nat : x < y => <<x, y>> \in R
  BY Zenon DEF OpToRel
<1> HIDE DEF R
<1>3. PICK m \in T : \A k \in T : ~(<<k, m>> \in R)
  BY <1>1, WFMin, Zenon
<1>4. \A k \in T : ~(k < m)
  BY <1>2, <1>3, Zenon
<1> QED BY <1>3, <1>4

LEMMA SetInduction ==
    ASSUME NEW T, 0 \in T, \A n \in Nat : n \in T => n + 1 \in T
    PROVE  Nat \subseteq T
<1> SUFFICES ASSUME Nat \ T # {} PROVE FALSE
  OBVIOUS
<1>1. PICK m \in Nat \ T : \A k \in Nat \ T : m <= k
  BY LeastNatural
<1>2. m # 0 /\ m - 1 \in Nat
  BY <1>1
<1> QED BY <1>1, <1>2

(* A function that is defined by what it was one number before exists. *)
Steps(p, S, a, g, m) ==
    /\ p \in [0..m -> S]
    /\ \A n \in 0..m : p[n] = IF n = 0 THEN a ELSE g[p[n - 1]]

LEMMA Iteration ==
    ASSUME NEW S, NEW a \in S, NEW g \in [S -> S], NEW m \in Nat
    PROVE  \E p : Steps(p, S, a, g, m)
<1> DEFINE T == {k \in Nat : \E p : Steps(p, S, a, g, k)}
<1>1. 0 \in T
  <2>1. Steps([n \in 0..0 |-> a], S, a, g, 0)
    BY DEF Steps
  <2> QED BY <2>1
<1>2. ASSUME NEW k \in Nat, k \in T PROVE k + 1 \in T
  <2>1. PICK p : Steps(p, S, a, g, k)
    BY <1>2
  <2> DEFINE q == [n \in 0..(k + 1) |-> IF n = k + 1 THEN g[p[k]] ELSE p[n]]
  <2>2. q \in [0..(k + 1) -> S]
    BY <2>1 DEF Steps
  <2>3. \A n \in 0..(k + 1) : q[n] = IF n = 0 THEN a ELSE g[q[n - 1]]
    <3> SUFFICES ASSUME NEW n \in 0..(k + 1)
                 PROVE  q[n] = IF n = 0 THEN a ELSE g[q[n - 1]]
      OBVIOUS
    <3>1. CASE n = k + 1
      BY <3>1
    <3>2. CASE n # k + 1
      <4>1. n \in 0..k /\ q[n] = p[n] /\ (n # 0 => q[n - 1] = p[n - 1])
        BY <3>2
      <4>2. p[n] = IF n = 0 THEN a ELSE g[p[n - 1]]
        BY <2>1, <4>1 DEF Steps
      <4> QED BY <4>1, <4>2
    <3> QED BY <3>1, <3>2
  <2>4. Steps(q, S, a, g, k + 1)
    BY <2>2, <2>3 DEF Steps
  <2> QED BY <2>4
<1> HIDE DEF T
<1>3. m \in T
  BY <1>1, <1>2, SetInduction
<1> QED BY <1>3 DEF T

(* What PruneToLimit leaves after each round (learned.go:236-244). *)
Leaves(left, f, limit) ==
    left = [n \in 0..Cardinality(Known(f)) |->
              IF n = 0 THEN f ELSE Round(left[n - 1], limit)]

LEMMA WithoutKnown ==
    ASSUME NEW f \in Entries, NEW gone
    PROVE  /\ Without(f, gone) \in Entries
           /\ Known(Without(f, gone)) = Known(f) \ gone
           /\ \A h \in Known(f) \ gone : Without(f, gone)[h] = f[h]
BY DEF Without, Known, Entries

LEMMA RoundType ==
    ASSUME NEW f \in Entries, NEW limit
    PROVE  Round(f, limit) \in Entries
BY WithoutKnown DEF Round

LEMMA LoopDefined ==
    ASSUME NEW f \in Entries, NEW limit
    PROVE  \E left : Leaves(left, f, limit) /\ PruneLoop(f, limit) = left[Cardinality(Known(f))]
<1> DEFINE m == Cardinality(Known(f))
           g == [e \in Entries |-> Round(e, limit)]
           left == CHOOSE l : l = [n \in 0..m |-> IF n = 0 THEN f ELSE Round(l[n - 1], limit)]
<1>1. m \in Nat /\ g \in [Entries -> Entries]
  BY KnownFinite, RoundType
<1> HIDE DEF m
<1>2. PICK p : Steps(p, Entries, f, g, m)
  <2> HIDE DEF g
  <2> QED BY <1>1, Iteration
<1>3. p \in [0..m -> Entries] /\ \A n \in 0..m : p[n] = IF n = 0 THEN f ELSE g[p[n - 1]]
  BY <1>2 DEF Steps
<1>4. \A n \in 0..m : p[n] = IF n = 0 THEN f ELSE Round(p[n - 1], limit)
  <2> SUFFICES ASSUME NEW n \in 0..m PROVE p[n] = IF n = 0 THEN f ELSE Round(p[n - 1], limit)
    OBVIOUS
  <2>1. n # 0 => p[n - 1] \in Entries
    BY <1>1, <1>3
  <2>2. n # 0 => g[p[n - 1]] = Round(p[n - 1], limit)
    BY <2>1
  <2>3. p[n] = IF n = 0 THEN f ELSE g[p[n - 1]]
    BY <1>3
  <2> QED BY <2>2, <2>3
<1>5. p = [n \in 0..m |-> IF n = 0 THEN f ELSE Round(p[n - 1], limit)]
  BY <1>3, <1>4
<1>6. left = [n \in 0..m |-> IF n = 0 THEN f ELSE Round(left[n - 1], limit)]
  BY <1>5
<1>7. PruneLoop(f, limit) = left[m]
  BY DEF PruneLoop, m
<1> QED BY <1>6, <1>7 DEF Leaves, m

(* What a round leaves of what is left when only the routes of rank below j *)
(* are: one route less, as long as there are more than the limit.           *)
LEMMA RoundOfSurplus ==
    ASSUME NEW f \in Entries, NEW limit \in Nat, NEW j \in Nat,
           j <= Cardinality(Known(f)), limit <= j
    PROVE  Round(Without(f, Surplus(f, j)), limit)
              = Without(f, Surplus(f, IF j > limit THEN j - 1 ELSE j))
<1> DEFINE m == Cardinality(Known(f))
           e == Without(f, Surplus(f, j))
<1>1. \A h \in Known(f) : Rank(f, h) \in 0..(m - 1)
  BY RankType
<1>2. m \in Nat
  BY KnownFinite
<1>3. \A n \in Nat : Surplus(f, n) = {h \in Known(f) : Rank(f, h) >= n}
  BY DEF Surplus, Rank, MoreRecent
<1>4. /\ e \in Entries
      /\ Known(e) = {h \in Known(f) : Rank(f, h) < j}
      /\ \A h \in Known(e) : e[h] = f[h]
  BY <1>1, <1>2, <1>3, WithoutKnown
<1>5. Cardinality(Known(e)) = j
  <2>1. CASE j = m
    <3>1. Known(e) = Known(f)
      BY <1>1, <1>2, <1>4, <2>1
    <3> QED BY <2>1, <3>1
  <2>2. CASE j < m
    <3>1. Known(e) = Known(f) \ Surplus(f, j)
      BY WithoutKnown
    <3> QED BY <2>2, <3>1, PruneKeepsLimit
  <2> QED BY <1>2, <2>1, <2>2
<1>6. CASE j > limit
  <2>1. j - 1 \in 0..(m - 1) /\ j - 1 \in Nat
    BY <1>2, <1>6
  <2>2. PICK h \in Known(f) : Rank(f, h) = j - 1
    BY <2>1, RankSurjective
  <2>3. h \in Known(e)
    BY <1>4, <2>1, <2>2
  <2>4. Candidate(e) = {h}
    <3>1. PICK c \in Known(e) : Candidate(e) = {c}
      BY <1>4, <2>3, OneCandidate
    <3>2. ASSUME c # h PROVE FALSE
      <4>1. LessRecentlyUsed(e, c, h)
        BY <2>3, <3>1, <3>2 DEF Candidate
      <4>2. LessRecentlyUsed(f, c, h) /\ c \in Known(f)
        BY <1>4, <2>3, <3>1, <4>1 DEF LessRecentlyUsed
      <4>3. Rank(f, c) > j - 1
        BY <2>2, <4>2, RankOrder
      <4>4. Rank(f, c) \in Nat /\ Rank(f, c) < j
        BY <1>1, <1>4, <3>1, <4>2
      <4> QED BY <4>3, <4>4
    <3> QED BY <3>1, <3>2
  <2>5. \A k \in Known(f) : Rank(f, k) = j - 1 => k = h
    <3> SUFFICES ASSUME NEW k \in Known(f), Rank(f, k) = j - 1, k # h PROVE FALSE
      OBVIOUS
    <3>1. LessRecentlyUsed(f, h, k) \/ LessRecentlyUsed(f, k, h)
      BY EvictionOrder
    <3> QED BY <2>1, <2>2, <3>1, RankOrder
  <2>6. Surplus(f, j - 1) = Surplus(f, j) \cup {h}
    <3>1. \A k \in Known(f) : Rank(f, k) >= j - 1 <=> Rank(f, k) >= j \/ k = h
      BY <1>1, <1>2, <2>2, <2>5
    <3> QED BY <1>3, <2>1, <3>1
  <2>7. Round(e, limit) = Without(e, {h})
    BY <1>5, <1>6, <2>4 DEF Round
  <2>8. Without(e, {h}) = Without(f, Surplus(f, j) \cup {h})
    BY DEF Without
  <2> QED BY <1>6, <2>6, <2>7, <2>8
<1>7. CASE ~(j > limit)
  BY <1>5, <1>7 DEF Round
<1> QED BY <1>6, <1>7

(* The loop of the code comes to what evicting down to the limit means. *)
THEOREM PruneLoopIsSurplus ==
    ASSUME NEW f \in Entries, NEW limit \in Nat
    PROVE  PruneLoop(f, limit) = Without(f, Surplus(f, limit))
<1>1. PICK m \in Nat : m = Cardinality(Known(f))
  BY KnownFinite
<1>2. PICK left : Leaves(left, f, limit) /\ PruneLoop(f, limit) = left[m]
  BY <1>1, LoopDefined
<1>3. /\ left[0] = f
      /\ \A n \in Nat : n + 1 <= m => left[n + 1] = Round(left[n], limit)
  BY <1>1, <1>2 DEF Leaves
<1> DEFINE bound(n) == IF m - n > limit THEN m - n ELSE limit
           T == {n \in Nat : n <= m => left[n] = Without(f, Surplus(f, bound(n)))}
<1>4. \A n \in Nat : n >= m => Without(f, Surplus(f, n)) = f
  <2>1. ASSUME NEW n \in Nat, n >= m PROVE Surplus(f, n) = {}
    <3>1. \A h \in Known(f) : Rank(f, h) \in 0..(m - 1)
      BY <1>1, RankType
    <3>2. \A h \in Known(f) : ~(Rank(f, h) >= n)
      BY <2>1, <3>1
    <3> QED BY <3>2 DEF Surplus, Rank, MoreRecent
  <2>2. Without(f, {}) = f
    BY DEF Without, Entries
  <2> QED BY <2>1, <2>2
<1>5. CASE limit >= m
  <2>1. Round(f, limit) = f
    BY <1>1, <1>5 DEF Round
  <2> DEFINE U == {n \in Nat : n <= m => left[n] = f}
  <2>2. 0 \in U /\ \A n \in Nat : n \in U => n + 1 \in U
    BY <1>3, <2>1
  <2> HIDE DEF U
  <2>3. m \in U
    BY <2>2, SetInduction
  <2> QED BY <1>2, <1>4, <1>5, <2>3 DEF U
<1>6. CASE limit < m
  <2>1. 0 \in T
    BY <1>3, <1>4, <1>6
  <2>2. ASSUME NEW n \in Nat, n \in T, n + 1 <= m PROVE n + 1 \in T
    <3>1. PICK j \in Nat : j = bound(n)
      BY <2>2
    <3>2. j <= m /\ limit <= j /\ bound(n + 1) = IF j > limit THEN j - 1 ELSE j
      BY <1>6, <2>2, <3>1
    <3>3. left[n + 1] = Round(Without(f, Surplus(f, j)), limit)
      BY <1>3, <2>2, <3>1
    <3>4. left[n + 1] = Without(f, Surplus(f, bound(n + 1)))
      <4> HIDE DEF bound
      <4> QED BY <1>1, <3>2, <3>3, RoundOfSurplus
    <3> QED BY <3>4
  <2>3. \A n \in Nat : n \in T => n + 1 \in T
    BY <2>2
  <2>4. m \in T
    <3> HIDE DEF T
    <3> QED BY <2>1, <2>3, SetInduction
  <2>5. bound(m) = limit
    BY <1>6
  <2> QED BY <1>2, <2>4, <2>5
<1> QED BY <1>5, <1>6

-----------------------------------------------------------------------------
(* Durability. *)

StoreInv == TypeOK /\ RoutesDurable /\ CleanIsSaved

(* A map the store may hold: typed, nothing learned in the future. *)
Sound(f) == /\ f \in Entries
            /\ \A h \in Hosts : f[h] # NoRoute => f[h].learnedAt <= now

LEMMA SoundMaps ==
    ASSUME StoreInv
    PROVE  Sound(domains) /\ Sound(disk)
BY DEF StoreInv, TypeOK, Sound

LEMMA EmptySound == Sound(Empty)
BY DEF Sound, Empty, Entries

LEMMA WithoutSound ==
    ASSUME NEW f, Sound(f), NEW gone
    PROVE  Sound(Without(f, gone))
BY DEF Sound, Without, Entries

(* The rollback (learned.go:137-146, 194-197, 218-223, 248-253) is complete  *)
(* when the touched hosts cover the difference between old and new map.      *)
LEMMA RollbackComplete ==
    ASSUME NEW f \in Entries, NEW next \in Entries, NEW touched,
           \A h \in Hosts : h \notin touched => next[h] = f[h]
    PROVE  Restored(f, next, touched) = f
BY DEF Restored, Entries

(* Whatever becomes of a save, memory and file agree afterwards. *)
LEMMA SaveKeepsInv ==
    ASSUME StoreInv, now' = now, NEW next, Sound(next), NEW touched,
           \A h \in Hosts : h \notin touched => next[h] = domains[h],
           Save(next, touched)
    PROVE  StoreInv'
<1>1. CASE Saved(next)
  BY <1>1 DEF Saved, StoreInv, TypeOK, RoutesDurable, CleanIsSaved, Sound
<1>2. CASE SaveFails(next, touched)
  <2>1. domains' = domains
    BY <1>2, RollbackComplete DEF SaveFails, Sound, StoreInv, TypeOK
  <2> QED
    BY <1>2, <2>1 DEF SaveFails, StoreInv, TypeOK, RoutesDurable, CleanIsSaved, Routes
<1>3. CASE CrashInSave(next)
  <2>1. Sound(Empty) /\ Sound(disk)
    BY EmptySound, SoundMaps
  <2> QED
    BY <1>3, <2>1 DEF CrashInSave, StoreInv, TypeOK, RoutesDurable, CleanIsSaved, Sound
<1> QED BY <1>1, <1>2, <1>3 DEF Save

(* The map AddWithLimit saves. *)
AfterAdd(h, u, limit) ==
    [Without(domains, Victims(domains, h, limit)) EXCEPT
        ![h] = [upstream |-> u, learnedAt |-> now, lastUsedAt |-> NeverUsed]]

LEMMA AfterAddSound ==
    ASSUME StoreInv, NEW h \in Hosts, NEW u \in Upstreams, NEW limit
    PROVE  /\ Sound(AfterAdd(h, u, limit))
           /\ \A k \in Hosts : k \notin Victims(domains, h, limit) \cup {h}
                => AfterAdd(h, u, limit)[k] = domains[k]
<1> DEFINE base == Without(domains, Victims(domains, h, limit))
           new == [upstream |-> u, learnedAt |-> now, lastUsedAt |-> NeverUsed]
<1>1. Sound(base)
  BY SoundMaps, WithoutSound
<1>2. new \in LearnedDomain /\ new.learnedAt <= now
  BY ClockAssumption DEF StoreInv, TypeOK, LearnedDomain, NeverUsed
<1>3. \A k \in Hosts : k \notin Victims(domains, h, limit) => base[k] = domains[k]
  BY DEF Without
<1>4. AfterAdd(h, u, limit) = [base EXCEPT ![h] = new]
  BY DEF AfterAdd
<1> HIDE DEF base, new
<1> QED BY <1>1, <1>2, <1>3, <1>4 DEF Sound, Entries

(* What PruneToLimit saves, and which hosts it may have to put back. *)
LEMMA PruneSaves ==
    ASSUME StoreInv, NEW limit \in Limits, PruneToLimit(limit)
    PROVE  /\ up /\ now' = now /\ limit > 0 /\ Cardinality(Known(domains)) > limit
           /\ Save(Without(domains, Surplus(domains, limit)), Surplus(domains, limit))
<1>1. domains \in Entries /\ limit \in Nat
  BY LimitsAssumption DEF StoreInv, TypeOK
<1>2. PruneLoop(domains, limit) = Without(domains, Surplus(domains, limit))
  BY <1>1, PruneLoopIsSurplus
<1>3. Known(domains) \ Known(Without(domains, Surplus(domains, limit))) = Surplus(domains, limit)
  BY <1>1, WithoutKnown DEF Surplus
<1> QED BY <1>2, <1>3 DEF PruneToLimit

LEMMA StoreInit == Init => StoreInv
<1> SUFFICES ASSUME Init PROVE StoreInv
  OBVIOUS
<1>1. Empty \in Entries /\ \A h \in Hosts : Empty[h] = NoRoute
  BY DEF Empty, Entries
<1>2. TypeOK
  <2>1. domains \in Entries /\ disk \in Entries
    BY <1>1 DEF Init
  <2>2. \A h \in Hosts : domains[h] = NoRoute /\ disk[h] = NoRoute
    BY <1>1 DEF Init
  <2>3. now \in 1..MaxTime
    BY ClockAssumption DEF Init
  <2>4. dirty \in BOOLEAN /\ up \in BOOLEAN
    BY Zenon DEF Init
  <2> QED BY <2>1, <2>2, <2>3, <2>4 DEF TypeOK
<1>3. Routes(domains) = Routes(disk) /\ domains = disk
  BY DEF Init, Routes
<1> QED BY <1>2, <1>3 DEF StoreInv, RoutesDurable, CleanIsSaved

LEMMA StoreNext == StoreInv /\ [Next]_vars => StoreInv'
<1> SUFFICES ASSUME StoreInv, [Next]_vars PROVE StoreInv'
  OBVIOUS
<1>1. ASSUME NEW h \in Hosts, NEW u \in Upstreams, NEW limit \in Limits,
             AddWithLimit(h, u, limit)
      PROVE  StoreInv'
  <2>1. Save(AfterAdd(h, u, limit), Victims(domains, h, limit) \cup {h}) /\ now' = now
    BY <1>1 DEF AddWithLimit, AfterAdd
  <2> QED BY <2>1, AfterAddSound, SaveKeepsInv
<1>2. ASSUME NEW h \in Hosts, NEW at \in RecentInstants, MarkUsed(h, at) PROVE StoreInv'
  <2>1. at \in Nat /\ domains \in Entries /\ domains[h] \in LearnedDomain
    BY <1>2 DEF MarkUsed, RecentInstants, StoreInv, TypeOK, Known, Entries
  <2>2. domains' \in Entries
    BY <1>2, <2>1 DEF MarkUsed, Entries, LearnedDomain
  <2>3. \A k \in Hosts : /\ domains'[k] = NoRoute <=> domains[k] = NoRoute
                         /\ domains'[k].learnedAt = domains[k].learnedAt
                         /\ domains'[k].upstream = domains[k].upstream
    BY <1>2, <2>1, <2>2, NoRouteAssumption
       DEF MarkUsed, Entries, LearnedDomain, Known
  <2>4. Routes(domains') = Routes(domains)
    BY <2>3 DEF Routes, RouteOf
  <2> QED
    BY <1>2, <2>2, <2>3, <2>4
       DEF MarkUsed, StoreInv, TypeOK, RoutesDurable, CleanIsSaved, Routes
<1>3. ASSUME NEW h \in Hosts, Delete(h) PROVE StoreInv'
  <2>1. \A k \in Hosts : k \notin {h} => Without(domains, {h})[k] = domains[k]
    BY DEF Without
  <2> QED BY <1>3, <2>1, SoundMaps, WithoutSound, SaveKeepsInv DEF Delete
<1>4. ASSUME NEW at \in RecentInstants, PruneExpired(at) PROVE StoreInv'
  <2> DEFINE old == Expired(domains, at)
  <2>1. \A k \in Hosts : k \notin old => Without(domains, old)[k] = domains[k]
    BY DEF Without
  <2> QED BY <1>4, <2>1, SoundMaps, WithoutSound, SaveKeepsInv DEF PruneExpired
<1>5. ASSUME NEW limit \in Limits, PruneToLimit(limit) PROVE StoreInv'
  <2> DEFINE old == Surplus(domains, limit)
  <2>1. \A k \in Hosts : k \notin old => Without(domains, old)[k] = domains[k]
    BY DEF Without
  <2>2. Save(Without(domains, old), old) /\ now' = now
    BY <1>5, PruneSaves
  <2> QED BY <2>1, <2>2, SoundMaps, WithoutSound, SaveKeepsInv
<1>6. CASE Flush
  BY <1>6, SoundMaps, SaveKeepsInv DEF Flush
<1>7. CASE Crash
  BY <1>7, EmptySound
     DEF Crash, StoreInv, TypeOK, RoutesDurable, CleanIsSaved, Sound
<1>8. CASE Load
  BY <1>8 DEF Load, StoreInv, TypeOK, RoutesDurable, CleanIsSaved, Routes
<1>9. CASE Advance
  <2>1. now' \in 1..MaxTime /\ \A n \in Nat : n <= now => n <= now'
    BY <1>9, ClockAssumption DEF Advance, StoreInv, TypeOK
  <2>2. \A h \in Hosts : /\ domains[h] # NoRoute => domains[h].learnedAt \in Nat
                         /\ disk[h] # NoRoute => disk[h].learnedAt \in Nat
    BY DEF StoreInv, TypeOK, Entries, LearnedDomain
  <2> QED
    BY <1>9, <2>1, <2>2
       DEF Advance, StoreInv, TypeOK, RoutesDurable, CleanIsSaved, Routes
<1>10. CASE UNCHANGED vars
  BY <1>10 DEF vars, StoreInv, TypeOK, RoutesDurable, CleanIsSaved, Routes
<1> QED
  BY <1>1, <1>2, <1>3, <1>4, <1>5, <1>6, <1>7, <1>8, <1>9, <1>10 DEF Next

(* The store stays typed and never holds a route learned in the future. *)
THEOREM StoreTypeCorrect == Spec => []TypeOK
<1>1. Spec => []StoreInv
  BY StoreInit, StoreNext, PTL DEF Spec
<1>2. StoreInv => TypeOK
  BY DEF StoreInv
<1> QED BY <1>1, <1>2, PTL

(* While the process runs, memory and file hold the same routes, whatever   *)
(* saves failed and wherever earlier processes died: a crash loses usage    *)
(* data only.                                                               *)
THEOREM RoutesDurableCorrect == Spec => []RoutesDurable
<1>1. Spec => []StoreInv
  BY StoreInit, StoreNext, PTL DEF Spec
<1>2. StoreInv => RoutesDurable
  BY DEF StoreInv
<1> QED BY <1>1, <1>2, PTL

(* A store that is not dirty is on disk entirely, so skipping Flush loses  *)
(* nothing (learned.go:261-263).                                           *)
THEOREM CleanIsSavedCorrect == Spec => []CleanIsSaved
<1>1. Spec => []StoreInv
  BY StoreInit, StoreNext, PTL DEF Spec
<1>2. StoreInv => CleanIsSaved
  BY DEF StoreInv
<1> QED BY <1>1, <1>2, PTL

(* Evicting one at a time comes to what the order says in one go, and every *)
(* round finds exactly one route to evict.                                  *)
THEOREM PruneLoopAgreesCorrect == Spec => []PruneLoopAgrees
<1>1. Spec => []TypeOK
  BY StoreTypeCorrect
<1>2. TypeOK => PruneLoopAgrees
  <2> SUFFICES ASSUME TypeOK, NEW limit \in Limits \ {0}
               PROVE  /\ PruneLoop(domains, limit) = Without(domains, Surplus(domains, limit))
                      /\ Known(domains) # {} => Cardinality(Candidate(domains)) = 1
    BY DEF PruneLoopAgrees
  <2>1. domains \in Entries /\ limit \in Nat
    BY LimitsAssumption DEF TypeOK
  <2>2. Known(domains) # {} => Cardinality(Candidate(domains)) = 1
    BY <2>1, OneCandidate, FS_Singleton
  <2> QED BY <2>1, <2>2, PruneLoopIsSurplus
<1> QED BY <1>1, <1>2, PTL

-----------------------------------------------------------------------------
(* Evictions. *)

(* What a step of one of the two evicting operations makes of the map. *)
LEMMA AddEffect ==
    ASSUME StoreInv, NEW h \in Hosts, NEW u \in Upstreams, NEW limit \in Limits,
           AddWithLimit(h, u, limit)
    PROVE  \/ domains' = AfterAdd(h, u, limit) /\ up'
           \/ domains' = domains /\ up'
           \/ ~up'
<1> DEFINE next == AfterAdd(h, u, limit)
           touched == Victims(domains, h, limit) \cup {h}
<1>1. Save(next, touched) /\ up
  BY DEF AddWithLimit, AfterAdd
<1>2. Restored(domains, next, touched) = domains
  BY AfterAddSound, RollbackComplete DEF Sound, StoreInv, TypeOK
<1> QED BY <1>1, <1>2 DEF Save, Saved, SaveFails, CrashInSave

LEMMA PruneEffect ==
    ASSUME StoreInv, NEW limit \in Limits, PruneToLimit(limit)
    PROVE  \/ domains' = Without(domains, Surplus(domains, limit)) /\ up'
           \/ domains' = domains /\ up'
           \/ ~up'
<1> DEFINE touched == Surplus(domains, limit)
           next == Without(domains, touched)
<1>1. Save(next, touched) /\ up
  BY PruneSaves
<1>2. next \in Entries /\ \A k \in Hosts : k \notin touched => next[k] = domains[k]
  BY SoundMaps, WithoutSound DEF Sound, Without
<1>3. Restored(domains, next, touched) = domains
  BY <1>2, RollbackComplete DEF StoreInv, TypeOK
<1> QED BY <1>1, <1>3 DEF Save, Saved, SaveFails, CrashInSave

LEMMA TouchedIsLastTouch ==
    ASSUME NEW f \in Entries, NEW h \in Known(f)
    PROVE  Touched(f[h]) = LastTouch(f[h])
BY DEF Touched, LastTouch, NeverUsed, Entries, LearnedDomain, Known

LEMMA EvictionStepIsLRU ==
    ASSUME StoreInv, EvictionStep, up',
           NEW h \in Known(domains), NEW k \in Known(domains),
           domains'[h] = NoRoute, domains'[k] # NoRoute
    PROVE  Touched(domains[h]) <= Touched(domains[k])
<1>1. domains \in Entries /\ domains[h] # NoRoute /\ h \in Hosts /\ k \in Hosts
  BY DEF StoreInv, TypeOK, Known
<1>2. ASSUME NEW limit \in Limits, PruneToLimit(limit)
      PROVE  Touched(domains[h]) <= Touched(domains[k])
  <2>1. domains' = Without(domains, Surplus(domains, limit))
    BY <1>1, <1>2, PruneEffect
  <2>2. h \in Surplus(domains, limit) /\ k \notin Surplus(domains, limit)
    BY <1>1, <2>1 DEF Without
  <2> QED BY <1>1, <2>2, SurplusIsOld, TouchedIsLastTouch, LimitsAssumption
<1>3. ASSUME NEW g \in Hosts, NEW u \in Upstreams, NEW limit \in Limits,
             AddWithLimit(g, u, limit)
      PROVE  Touched(domains[h]) <= Touched(domains[k])
  <2> DEFINE new == [upstream |-> u, learnedAt |-> now, lastUsedAt |-> NeverUsed]
             victims == Victims(domains, g, limit)
  <2>1. domains' = [Without(domains, victims) EXCEPT ![g] = new]
    BY <1>1, <1>3, AddEffect DEF AfterAdd
  <2>2. new # NoRoute
    BY NoRouteAssumption, <1>1 DEF StoreInv, TypeOK, NeverUsed
  <2> HIDE DEF new
  <2>3. h # g /\ h \in victims
    BY <1>1, <2>1, <2>2 DEF Without
  <2>4. h \in Candidate(domains) /\ domains[g] = NoRoute
    BY <2>3 DEF Victims
  <2>5. k # g
    BY <2>4 DEF Known
  <2>6. k # h
    OBVIOUS
  <2>7. LessRecentlyUsed(domains, h, k)
    BY <2>4, <2>6 DEF Candidate
  <2> QED BY <1>1, <2>7, EntryTimes, TouchedIsLastTouch DEF LessRecentlyUsed
<1> QED BY <1>2, <1>3 DEF EvictionStep

(* Evictions take the least recently used routes, whichever operation makes  *)
(* them and however many routes go at once.                                  *)
THEOREM EvictsLeastRecentlyUsedCorrect == Spec => EvictsLeastRecentlyUsed
<1>1. Spec => []StoreInv
  BY StoreInit, StoreNext, PTL DEF Spec
<1> DEFINE LRU == \A h, k \in Known(domains) :
                    (/\ up'
                     /\ domains'[h] = NoRoute /\ domains'[k] # NoRoute
                     /\ Touched(domains[h]) > Touched(domains[k]))
                       => ~EvictionStep
<1>2. StoreInv => [LRU]_vars
  <2> SUFFICES ASSUME StoreInv, NEW h \in Known(domains), NEW k \in Known(domains),
                      up', domains'[h] = NoRoute, domains'[k] # NoRoute,
                      Touched(domains[h]) > Touched(domains[k]), EvictionStep
               PROVE  FALSE
    OBVIOUS
  <2>1. Touched(domains[h]) <= Touched(domains[k])
    BY EvictionStepIsLRU
  <2>2. Touched(domains[h]) \in Nat /\ Touched(domains[k]) \in Nat
    BY EntryTimes, TouchedIsLastTouch DEF StoreInv, TypeOK
  <2> QED BY <2>1, <2>2
<1>3. EvictsLeastRecentlyUsed <=> [][LRU]_vars
  BY DEF EvictsLeastRecentlyUsed
<1> QED BY <1>1, <1>2, <1>3, PTL

(* The known hosts after AddWithLimit has added one. *)
LEMMA AddBounded ==
    ASSUME StoreInv, NEW h \in Hosts, NEW u \in Upstreams, NEW limit \in Limits \ {0},
           AddWithLimit(h, u, limit), Cardinality(Known(domains)) >= limit
    PROVE  Cardinality(Known(domains')) <= Cardinality(Known(domains))
<1> DEFINE K == Known(domains)
           new == [upstream |-> u, learnedAt |-> now, lastUsedAt |-> NeverUsed]
<1>1. domains \in Entries /\ limit \in Nat /\ limit > 0
  BY LimitsAssumption DEF StoreInv, TypeOK
<1>2. IsFiniteSet(K) /\ Cardinality(K) \in Nat
  BY KnownFinite
<1>3. CASE domains' = domains
  BY <1>2, <1>3
<1>4. CASE ~up'
  <2>1. domains' = Empty
    BY <1>4 DEF AddWithLimit, Save, Saved, SaveFails, CrashInSave
  <2>2. Known(domains') = {}
    BY <2>1 DEF Known, Empty
  <2> QED BY <1>2, <2>2, FS_EmptySet
<1>5. CASE domains' = AfterAdd(h, u, limit)
  <2>1. new # NoRoute
    BY NoRouteAssumption DEF StoreInv, TypeOK, NeverUsed
  <2>2. domains' = [Without(domains, Victims(domains, h, limit)) EXCEPT ![h] = new]
    BY <1>5 DEF AfterAdd
  <2> HIDE DEF new
  <2>3. Known(domains') = (K \ Victims(domains, h, limit)) \cup {h}
    BY <2>1, <2>2 DEF Known, Without
  <2>4. CASE domains[h] # NoRoute
    <3>1. Victims(domains, h, limit) = {} /\ h \in K
      BY <2>4 DEF Victims, Known
    <3>2. Known(domains') = K
      BY <2>3, <3>1
    <3> QED BY <1>2, <3>2
  <2>5. CASE domains[h] = NoRoute
    <3>1. Victims(domains, h, limit) = Candidate(domains)
      BY <1>1, <2>5 DEF Victims
    <3>2. K # {}
      BY <1>1, <1>2, FS_EmptySet
    <3>3. PICK c \in K : Candidate(domains) = {c}
      BY <1>1, <3>2, OneCandidate
    <3>4. Known(domains') = (K \ {c}) \cup {h}
      BY <2>3, <3>1, <3>3
    <3>5. IsFiniteSet(K \ {c}) /\ Cardinality(K \ {c}) = Cardinality(K) - 1
      BY <1>2, FS_RemoveElement
    <3>6. h \notin K \ {c}
      BY <2>5 DEF Known
    <3>7. Cardinality((K \ {c}) \cup {h}) = (Cardinality(K) - 1) + 1
      BY <3>5, <3>6, FS_AddElement
    <3> QED BY <1>2, <3>4, <3>7
  <2> QED BY <2>4, <2>5
<1> QED BY <1>3, <1>4, <1>5, AddEffect

LEMMA PruneExact ==
    ASSUME StoreInv, NEW limit \in Limits \ {0}, PruneToLimit(limit), up'
    PROVE  Cardinality(Known(domains')) \in {Cardinality(Known(domains)), limit}
<1>1. domains \in Entries /\ limit \in Nat /\ Cardinality(Known(domains)) > limit
  BY LimitsAssumption DEF StoreInv, TypeOK, PruneToLimit
<1>2. CASE domains' = Without(domains, Surplus(domains, limit))
  <2>1. Known(domains') = Known(domains) \ Surplus(domains, limit)
    BY <1>2 DEF Known, Without
  <2> QED BY <1>1, <2>1, PruneKeepsLimit
<1> QED BY <1>2, PruneEffect

(* The store grows past no limit: AddWithLimit at or above its limit never   *)
(* makes it larger, PruneToLimit leaves exactly its limit or, when the save  *)
(* fails, everything.                                                        *)
THEOREM LimitHeldCorrect == Spec => LimitHeld
<1>1. Spec => []StoreInv
  BY StoreInit, StoreNext, PTL DEF Spec
<1> DEFINE Held == \A limit \in Limits \ {0} :
         LET size == Cardinality(Known(domains))
             newSize == Cardinality(Known(domains'))
         IN  /\ size >= limit /\ newSize > size
                  => ~ \E h \in Hosts, u \in Upstreams : AddWithLimit(h, u, limit)
             /\ up' /\ newSize \notin {size, limit} => ~PruneToLimit(limit)
<1>2. StoreInv => [Held]_vars
  <2> SUFFICES ASSUME StoreInv, NEW limit \in Limits \ {0}
               PROVE  LET size == Cardinality(Known(domains))
                          newSize == Cardinality(Known(domains'))
                      IN  /\ size >= limit /\ newSize > size
                               => ~ \E h \in Hosts, u \in Upstreams : AddWithLimit(h, u, limit)
                          /\ up' /\ newSize \notin {size, limit} => ~PruneToLimit(limit)
    OBVIOUS
  <2>1. Cardinality(Known(domains)) \in Nat /\ Cardinality(Known(domains')) \in Nat
    BY KnownFinite
  <2>2. ASSUME Cardinality(Known(domains)) >= limit,
               Cardinality(Known(domains')) > Cardinality(Known(domains)),
               NEW h \in Hosts, NEW u \in Upstreams, AddWithLimit(h, u, limit)
        PROVE  FALSE
    BY <2>1, <2>2, AddBounded
  <2>3. ASSUME up', Cardinality(Known(domains')) \notin {Cardinality(Known(domains)), limit},
               PruneToLimit(limit)
        PROVE  FALSE
    BY <2>3, PruneExact
  <2> QED BY <2>2, <2>3
<1>3. LimitHeld <=> [][Held]_vars
  BY DEF LimitHeld
<1> QED BY <1>1, <1>2, <1>3, PTL

-----------------------------------------------------------------------------
(* The store implements the durable table of RouteTable. *)

(* The table a reader of the store sees, or would see after a restart. *)
TheTable == IF up THEN Routes(domains) ELSE Routes(disk)

LEMMA RouteFacts ==
    ASSUME NEW f \in Entries, NEW h \in Hosts
    PROVE  /\ Routes(f)[h] = NoRoute <=> f[h] = NoRoute
           /\ f[h] # NoRoute => /\ Routes(f)[h].upstream = f[h].upstream
                                /\ Routes(f)[h].learnedAt = f[h].learnedAt
<1>1. CASE f[h] = NoRoute
  BY <1>1 DEF Routes, RouteOf
<1>2. CASE f[h] # NoRoute
  <2>1. f[h] \in LearnedDomain
    BY <1>2 DEF Entries
  <2>2. Routes(f)[h] = [upstream |-> f[h].upstream, learnedAt |-> f[h].learnedAt]
    BY <1>2 DEF Routes, RouteOf
  <2>3. Routes(f)[h] \in [upstream : Upstreams, learnedAt : Nat]
    BY <2>1, <2>2 DEF LearnedDomain
  <2> QED BY <1>2, <2>2, <2>3, NoRouteAssumption
<1> QED BY <1>1, <1>2

(* The instance counts as this module does. *)
LEMMA SameCardinality == \A S : Table!Cardinality(S) = Cardinality(S)
BY Zenon DEF Table!Cardinality, Cardinality

LEMMA RoutesKnown ==
    ASSUME NEW f \in Entries
    PROVE  Table!Known(Routes(f)) = Known(f)
BY RouteFacts DEF Known, Table!Known

LEMMA RoutesWithout ==
    ASSUME NEW f \in Entries, NEW gone
    PROVE  Routes(Without(f, gone)) = Table!Without(Routes(f), gone)
BY DEF Routes, RouteOf, Without, Table!Without

(* A save shows as the new map, or as nothing at all. *)
LEMMA SaveShows ==
    ASSUME StoreInv, up, NEW next \in Entries, NEW touched,
           \A h \in Hosts : h \notin touched => next[h] = domains[h],
           Save(next, touched)
    PROVE  TheTable = Routes(domains) /\ TheTable' \in {TheTable, Routes(next)}
<1>1. TheTable = Routes(domains) /\ Routes(domains) = Routes(disk)
  BY DEF TheTable, StoreInv, RoutesDurable
<1>2. CASE Saved(next)
  BY <1>1, <1>2 DEF Saved, TheTable, Routes
<1>3. CASE SaveFails(next, touched)
  <2>1. domains' = domains
    BY <1>3, RollbackComplete DEF SaveFails, StoreInv, TypeOK
  <2> QED BY <1>1, <1>3, <2>1 DEF SaveFails, TheTable, Routes
<1>4. CASE CrashInSave(next)
  <2>1. TheTable' = Routes(disk')
    BY <1>4 DEF CrashInSave, TheTable, Routes
  <2>2. disk' = disk \/ disk' = next
    BY <1>4 DEF CrashInSave
  <2> QED BY <1>1, <2>1, <2>2 DEF Routes
<1> QED BY <1>1, <1>2, <1>3, <1>4 DEF Save

LEMMA TableInitially == Init => Table!TableInit
<1> SUFFICES ASSUME Init PROVE Table!TableInit
  OBVIOUS
<1>1. domains = Empty /\ up
  BY DEF Init
<1>2. Routes(Empty) = [h \in Hosts |-> NoRoute]
  BY DEF Routes, RouteOf, Empty
<1>3. now \in Nat
  BY DEF Init
<1> QED BY <1>1, <1>2, <1>3 DEF Table!TableInit

LEMMA TableStep ==
    StoreInv /\ [Next]_vars => [Table!TableNext]_<<TheTable, now>>
<1> SUFFICES ASSUME StoreInv, [Next]_vars, ~(TheTable' = TheTable /\ now' = now)
             PROVE  Table!TableNext
  OBVIOUS
<1>1. domains \in Entries /\ disk \in Entries
  BY DEF StoreInv, TypeOK
<1>2. ASSUME NEW h \in Hosts, NEW u \in Upstreams, NEW limit \in Limits,
             AddWithLimit(h, u, limit)
      PROVE  Table!TableNext
  <2> DEFINE next == AfterAdd(h, u, limit)
             victims == Victims(domains, h, limit)
             new == [upstream |-> u, learnedAt |-> now, lastUsedAt |-> NeverUsed]
             base == Without(domains, victims)
  <2>1. up /\ now' = now /\ Save(next, victims \cup {h})
    BY <1>2 DEF AddWithLimit, AfterAdd
  <2>2. next \in Entries /\ \A k \in Hosts : k \notin victims \cup {h} => next[k] = domains[k]
    BY AfterAddSound DEF Sound
  <2>3. TheTable = Routes(domains) /\ TheTable' = Routes(next)
    BY <2>1, <2>2, SaveShows
  <2>4. new # NoRoute /\ RouteOf(new) = [upstream |-> u, learnedAt |-> now]
    BY NoRouteAssumption DEF StoreInv, TypeOK, NeverUsed, RouteOf
  <2>5. base \in Entries /\ next = [base EXCEPT ![h] = new]
    BY <1>1 DEF Without, Entries, AfterAdd
  <2>6. Routes(next) = [Routes(base) EXCEPT ![h] = [upstream |-> u, learnedAt |-> now]]
    <3> HIDE DEF new, base, next
    <3>1. \A k \in Hosts : next[k] = IF k = h THEN new ELSE base[k]
      BY <2>5 DEF Entries
    <3>2. Routes(next) = [k \in Hosts |-> IF k = h THEN RouteOf(new) ELSE RouteOf(base[k])]
      BY <3>1 DEF Routes
    <3> QED BY <2>4, <3>2 DEF Routes
  <2>7. Routes(base) = Table!Without(Routes(domains), victims)
    BY <1>1, RoutesWithout
  <2>8. TheTable' = [Table!Without(TheTable, victims) EXCEPT
                        ![h] = [upstream |-> u, learnedAt |-> now]]
    BY <2>3, <2>6, <2>7
  <2>9. TheTable[h] # NoRoute => TheTable[h].upstream # u
    BY <1>1, <1>2, <2>3, RouteFacts DEF AddWithLimit
  <2>10. /\ victims \in {{}} \cup {{k} : k \in Table!Known(TheTable)}
         /\ victims # {} => /\ TheTable[h] = NoRoute
                            /\ \E n \in Limits \ {0} : Cardinality(Table!Known(TheTable)) >= n
    <3>1. CASE victims = {}
      BY <3>1
    <3>2. CASE victims # {}
      <4>1. /\ domains[h] = NoRoute /\ limit > 0
            /\ Cardinality(Known(domains)) >= limit /\ victims = Candidate(domains)
        BY <3>2 DEF Victims
      <4>2. Known(domains) # {}
        BY <1>1, <3>2, <4>1, OneCandidate
      <4>3. PICK c \in Known(domains) : victims = {c}
        BY <1>1, <4>1, <4>2, OneCandidate
      <4>4. TheTable[h] = NoRoute /\ Table!Known(TheTable) = Known(domains)
        BY <1>1, <2>3, <4>1, RouteFacts, RoutesKnown
      <4>5. limit \in Limits \ {0}
        BY <4>1
      <4> QED BY <4>1, <4>3, <4>4, <4>5
    <3> QED BY <3>1, <3>2
  <2> HIDE DEF victims, next, base, new
  <2>11. \E vs \in {{}} \cup {{k} : k \in Table!Known(TheTable)} :
           /\ TheTable' = [Table!Without(TheTable, vs) EXCEPT
                             ![h] = [upstream |-> u, learnedAt |-> now]]
           /\ vs # {} => /\ TheTable[h] = NoRoute
                         /\ \E n \in Limits \ {0} : Cardinality(Table!Known(TheTable)) >= n
    BY <2>8, <2>10
  <2>12. Table!Learn(h, u)
    BY <2>1, <2>9, <2>11, SameCardinality, Zenon DEF Table!Learn, TheTable
  <2> QED BY <2>12 DEF Table!TableNext
<1>3. ASSUME NEW h \in Hosts, NEW at \in RecentInstants, MarkUsed(h, at)
      PROVE  FALSE
  <2>1. domains[h] \in LearnedDomain /\ at \in Nat
    BY <1>1, <1>3 DEF MarkUsed, Known, Entries, RecentInstants
  <2>2. domains' = [domains EXCEPT ![h] = [domains[h] EXCEPT !.lastUsedAt = at]]
    BY <1>3 DEF MarkUsed
  <2>3. [domains[h] EXCEPT !.lastUsedAt = at] \in LearnedDomain
    BY <2>1 DEF LearnedDomain
  <2>4. RouteOf([domains[h] EXCEPT !.lastUsedAt = at]) = RouteOf(domains[h])
    BY <2>1, <2>3, NoRouteAssumption DEF RouteOf, LearnedDomain
  <2>5. \A k \in Hosts : RouteOf(domains'[k]) = RouteOf(domains[k])
    BY <1>1, <2>2, <2>4 DEF Entries
  <2>6. Routes(domains') = Routes(domains)
    BY <2>5 DEF Routes
  <2> QED BY <1>3, <2>6 DEF MarkUsed, TheTable, Routes
<1>4. ASSUME NEW h \in Hosts, Delete(h) PROVE Table!TableNext
  <2>1. /\ up /\ now' = now /\ h \in Known(domains)
        /\ Save(Without(domains, {h}), {h})
    BY <1>4 DEF Delete
  <2>2. Without(domains, {h}) \in Entries
        /\ \A k \in Hosts : k \notin {h} => Without(domains, {h})[k] = domains[k]
    BY <1>1 DEF Without, Entries
  <2>3. TheTable = Routes(domains) /\ TheTable' = Routes(Without(domains, {h}))
    BY <2>1, <2>2, SaveShows
  <2>4. h \in Table!Known(TheTable) /\ TheTable' = Table!Without(TheTable, {h})
    BY <1>1, <2>1, <2>3, RoutesKnown, RoutesWithout
  <2>5. Table!Forget(h)
    BY <2>1, <2>4 DEF Table!Forget, TheTable
  <2> QED BY <2>5 DEF Table!TableNext
<1>5. ASSUME NEW at \in RecentInstants, PruneExpired(at) PROVE Table!TableNext
  <2> DEFINE old == Expired(domains, at)
             upTo == at - TTL
  <2>1. /\ up /\ now' = now /\ TTL > 0 /\ old # {}
        /\ Save(Without(domains, old), old)
    BY <1>5 DEF PruneExpired
  <2>2. Without(domains, old) \in Entries
        /\ \A k \in Hosts : k \notin old => Without(domains, old)[k] = domains[k]
    BY <1>1 DEF Without, Entries
  <2>3. TheTable = Routes(domains) /\ TheTable' = Routes(Without(domains, old))
    BY <2>1, <2>2, SaveShows
  <2>4. at \in Nat /\ at <= now /\ now \in Nat /\ TTL \in Nat
    BY TTLAssumption DEF RecentInstants, StoreInv, TypeOK
  <2>5. \A h \in Known(domains) : domains[h].learnedAt \in Nat
    BY <1>1, EntryTimes
  <2>6. upTo \in 0..now /\ upTo + TTL <= now
    <3>1. PICK h \in Known(domains) : at - domains[h].learnedAt >= TTL
      BY <2>1 DEF Expired
    <3> QED BY <2>4, <2>5, <3>1
  <2>7. old = {h \in Known(domains) : domains[h].learnedAt <= upTo}
    BY <2>4, <2>5 DEF Expired
  <2>8. \A h \in Known(domains) : TheTable[h].learnedAt = domains[h].learnedAt
    BY <1>1, <2>3, RouteFacts DEF Known
  <2>9. old = {h \in Table!Known(TheTable) : TheTable[h].learnedAt <= upTo}
    BY <1>1, <2>3, <2>7, <2>8, RoutesKnown
  <2>10. TheTable' = Table!Without(TheTable, old)
    BY <1>1, <2>3, RoutesWithout
  <2> HIDE DEF old, upTo
  <2>11. Table!Expire
    BY <2>1, <2>6, <2>9, <2>10 DEF Table!Expire, TheTable
  <2> QED BY <2>11 DEF Table!TableNext
<1>6. ASSUME NEW limit \in Limits, PruneToLimit(limit) PROVE Table!TableNext
  <2> DEFINE old == Surplus(domains, limit)
  <2>1. /\ up /\ now' = now /\ limit > 0 /\ Cardinality(Known(domains)) > limit
        /\ Save(Without(domains, old), old)
    BY <1>6, PruneSaves
  <2>2. Without(domains, old) \in Entries
        /\ \A k \in Hosts : k \notin old => Without(domains, old)[k] = domains[k]
    BY <1>1 DEF Without, Entries
  <2>3. TheTable = Routes(domains) /\ TheTable' = Routes(Without(domains, old))
    BY <2>1, <2>2, SaveShows
  <2>4. Table!Known(TheTable) = Known(domains) /\ TheTable' = Table!Without(TheTable, old)
    BY <1>1, <2>3, RoutesKnown, RoutesWithout
  <2>5. old \in SUBSET Known(domains)
    BY DEF Surplus
  <2>6. Cardinality(Known(domains) \ old) = limit
    BY <1>1, <2>1, LimitsAssumption, PruneKeepsLimit
  <2> HIDE DEF old
  <2>7. /\ Cardinality(Table!Known(TheTable)) > limit
        /\ \E vs \in SUBSET Table!Known(TheTable) :
             /\ Cardinality(Table!Known(TheTable) \ vs) = limit
             /\ TheTable' = Table!Without(TheTable, vs)
    BY <2>1, <2>4, <2>5, <2>6
  <2>8. Table!Shrink(limit)
    BY <2>1, <2>7, SameCardinality, Zenon DEF Table!Shrink, TheTable
  <2> QED BY <2>8 DEF Table!TableNext
<1>7. CASE Flush
  <2>1. up /\ now' = now /\ Save(domains, {})
    BY <1>7 DEF Flush
  <2>2. TheTable' = TheTable
    BY <1>1, <2>1, SaveShows
  <2> QED BY <2>1, <2>2
<1>8. CASE Crash
  BY <1>8 DEF Crash, TheTable, StoreInv, RoutesDurable, Routes
<1>9. CASE Load
  BY <1>9 DEF Load, TheTable, Routes
<1>10. CASE Advance
  <2>1. TheTable' = TheTable /\ now' = now + 1
    BY <1>10 DEF Advance, TheTable, Routes
  <2>2. Table!Advance
    BY <2>1 DEF Table!Advance, TheTable
  <2> QED BY <2>2 DEF Table!TableNext
<1>11. CASE UNCHANGED vars
  BY <1>11 DEF vars, TheTable, Routes
<1> QED
  BY <1>2, <1>3, <1>4, <1>5, <1>6, <1>7, <1>8, <1>9, <1>10, <1>11 DEF Next

(* Through failed saves, crashes inside or between operations, restarts and  *)
(* batched usage updates, the store is a durable table of routes.            *)
THEOREM ImplementsRouteTableCorrect == Spec => ImplementsRouteTable
<1>1. Spec => []StoreInv
  BY StoreInit, StoreNext, PTL DEF Spec
<1>2. StoreInv /\ [Next]_vars => [Table!TableNext]_<<TheTable, now>>
  BY TableStep
<1> QED BY <1>1, <1>2, TableInitially, PTL
        DEF Spec, ImplementsRouteTable, Table!TableSpec, TheTable
=============================================================================
