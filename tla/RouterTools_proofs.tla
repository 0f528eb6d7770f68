------------------------- MODULE RouterTools_proofs -------------------------
(***************************************************************************)
(* The programs that go with a router: the route manager for any number of *)
(* requests and prefixes, the BIRD manager for any processes, lists and    *)
(* batches, the route lookup server for any requests, names and addresses. *)
(* Next to each other they are the three specifications (ToolsStandAlone). *)
(***************************************************************************)
EXTENDS RouterTools, FunctionTheorems, FiniteSetTheorems, TLAPS

-----------------------------------------------------------------------------
(* The route manager.                                                      *)
(*                                                                         *)
(* First what the file operations do to the lines of a prefix: appending   *)
(* adds one line, removing takes those of one prefix, in whatever order    *)
(* the others are.  The lines that stay are numbered by the number of      *)
(* lines before them (Place); that every number is taken follows from      *)
(* counting, and gives the last line of a set as well (LastOf).            *)

-----------------------------------------------------------------------------
(* The k-th and the last of a finite set of numbers.                       *)
Below(S, i) == {j \in S : j < i}
Place(S, i) == Cardinality(Below(S, i))

LEMMA PlaceType ==
    ASSUME NEW S \in SUBSET Nat, IsFiniteSet(S), NEW i \in S
    PROVE  /\ IsFiniteSet(Below(S, i))
           /\ Cardinality(S) \in Nat
           /\ Place(S, i) \in 0..(Cardinality(S) - 1)
<1>1. Below(S, i) \in SUBSET (S \ {i})
  BY DEF Below
<1>2. IsFiniteSet(S \ {i}) /\ Cardinality(S \ {i}) = Cardinality(S) - 1
  BY FS_RemoveElement
<1>3. IsFiniteSet(Below(S, i)) /\ Place(S, i) <= Cardinality(S) - 1
  BY <1>1, <1>2, FS_Subset DEF Place
<1>4. Place(S, i) \in Nat /\ Cardinality(S) \in Nat
  BY <1>3, FS_CardinalityType DEF Place
<1> QED BY <1>3, <1>4

(* A larger number has more of the set below it. *)
LEMMA PlaceOrder ==
    ASSUME NEW S \in SUBSET Nat, IsFiniteSet(S), NEW i \in S, NEW l \in S, i < l
    PROVE  Place(S, i) < Place(S, l)
<1> i \in Nat /\ l \in Nat
  OBVIOUS
<1>1. Below(S, i) \in SUBSET (Below(S, l) \ {i}) /\ i \in Below(S, l)
  <2>1. \A j \in Below(S, i) : j \in Nat /\ j \in S /\ j < i
    BY DEF Below
  <2>2. \A j \in Below(S, i) : j < l /\ j # i
    BY <2>1
  <2> QED BY <2>1, <2>2 DEF Below
<1>2. /\ IsFiniteSet(Below(S, l) \ {i})
      /\ Cardinality(Below(S, l) \ {i}) = Place(S, l) - 1
  BY <1>1, PlaceType, FS_RemoveElement DEF Place
<1>3. Place(S, i) <= Place(S, l) - 1
  BY <1>1, <1>2, FS_Subset DEF Place
<1> QED BY <1>3, PlaceType

LEMMA PlaceOnto ==
    ASSUME NEW S \in SUBSET Nat, IsFiniteSet(S)
    PROVE  \A k \in 1..Cardinality(S) : \E i \in S : Place(S, i) = k - 1
<1> DEFINE T == 0..(Cardinality(S) - 1)
           f == [i \in S |-> Place(S, i)]
<1>1. f \in [S -> T]
  BY PlaceType
<1>2. \A i, l \in S : f[i] = f[l] => i = l
  <2> SUFFICES ASSUME NEW i \in S, NEW l \in S, i # l PROVE f[i] # f[l]
    OBVIOUS
  <2>1. i < l \/ l < i
    OBVIOUS
  <2>2. Place(S, i) < Place(S, l) \/ Place(S, l) < Place(S, i)
    BY <2>1, PlaceOrder
  <2> QED BY <2>2, PlaceType
<1> HIDE DEF f
<1>3. f \in Injection(S, T)
  BY <1>1, <1>2, Fun_IsInj
<1>4. Cardinality(S) \in Nat
  BY FS_CardinalityType
<1>5. IsFiniteSet(T) /\ Cardinality(T) = Cardinality(S)
  <2>1. 0 \in Int /\ Cardinality(S) - 1 \in Int
    BY <1>4
  <2>2. /\ IsFiniteSet(T)
        /\ Cardinality(T) = IF 0 > Cardinality(S) - 1 THEN 0 ELSE Cardinality(S) - 1 - 0 + 1
    BY <2>1, FS_Interval
  <2> QED BY <1>4, <2>2
<1>6. f \in Surjection(S, T)
  BY <1>3, <1>5, FS_Injection
<1>7. \A t \in T : \E i \in S : f[i] = t
  BY <1>6 DEF Surjection
<1> QED BY <1>4, <1>7 DEF f

(* Nth(S, 1), Nth(S, 2), ... are the numbers of S, each once. *)
LEMMA NthEnumerates ==
    ASSUME NEW S \in SUBSET Nat, IsFiniteSet(S)
    PROVE  /\ \A k \in 1..Cardinality(S) : Nth(S, k) \in S /\ Place(S, Nth(S, k)) = k - 1
           /\ \A i \in S : \E k \in 1..Cardinality(S) : Nth(S, k) = i
<1>1. \A k \in 1..Cardinality(S) : Nth(S, k) \in S /\ Place(S, Nth(S, k)) = k - 1
  BY PlaceOnto DEF Nth, Place, Below
<1>2. ASSUME NEW i \in S PROVE \E k \in 1..Cardinality(S) : Nth(S, k) = i
  <2> DEFINE k == Place(S, i) + 1
  <2>1. k \in 1..Cardinality(S) /\ Place(S, i) = k - 1
    BY PlaceType
  <2>2. Nth(S, k) \in S /\ Place(S, Nth(S, k)) = Place(S, i)
    BY <1>1, <2>1
  <2> HIDE DEF k
  <2>3. Place(S, i) \in Nat
    BY PlaceType
  <2>4. ~(Nth(S, k) < i)
    <3> SUFFICES ASSUME Nth(S, k) < i PROVE FALSE
      OBVIOUS
    <3>1. Place(S, Nth(S, k)) < Place(S, i)
      BY <2>2, PlaceOrder
    <3> QED BY <3>1, <2>2, <2>3
  <2>5. ~(i < Nth(S, k))
    <3> SUFFICES ASSUME i < Nth(S, k) PROVE FALSE
      OBVIOUS
    <3>1. Place(S, i) < Place(S, Nth(S, k))
      BY <2>2, PlaceOrder
    <3> QED BY <3>1, <2>2, <2>3
  <2>6. i \in Nat /\ Nth(S, k) \in Nat
    BY <2>2
  <2>7. Nth(S, k) = i
    BY <2>4, <2>5, <2>6
  <2> QED BY <2>1, <2>7
<1> QED BY <1>1, <1>2

LEMMA LastOfIsLast ==
    ASSUME NEW S \in SUBSET Nat, IsFiniteSet(S), S # {}
    PROVE  LastOf(S) \in S /\ \A j \in S : j <= LastOf(S)
<1> DEFINE i == Nth(S, Cardinality(S))
<1>1. Cardinality(S) \in Nat \ {0}
  BY FS_CardinalityType, FS_EmptySet
<1>2. i \in S /\ Place(S, i) = Cardinality(S) - 1
  BY <1>1, NthEnumerates
<1>3. ASSUME NEW j \in S PROVE j <= i
  <2>1. i \in Nat /\ j \in Nat
    BY <1>2
  <2>2. Place(S, j) <= Cardinality(S) - 1 /\ Place(S, j) \in Nat
    BY <1>1, PlaceType
  <2>3. ~(i < j)
    <3> SUFFICES ASSUME i < j PROVE FALSE
      OBVIOUS
    <3>1. Place(S, i) < Place(S, j)
      <4> HIDE DEF i
      <4> QED BY <1>2, PlaceOrder
    <3> QED BY <3>1, <1>1, <1>2, <2>2
  <2> QED BY <2>1, <2>3
<1> HIDE DEF i
<1>4. \A l \in S : (\A j \in S : j <= l) => l = i
  <2> SUFFICES ASSUME NEW l \in S, \A j \in S : j <= l PROVE l = i
    OBVIOUS
  <2>1. i \in Nat /\ l \in Nat /\ i <= l /\ l <= i
    BY <1>2, <1>3
  <2> QED BY <2>1
<1> QED BY <1>2, <1>3, <1>4 DEF LastOf

-----------------------------------------------------------------------------
(* The operations on the file.                                             *)

LEMMA LinesOfType ==
    ASSUME NEW f \in Seq(Lines), NEW p
    PROVE  LinesOf(f, p) \in SUBSET Nat /\ IsFiniteSet(LinesOf(f, p))
<1>1. Len(f) \in Nat /\ DOMAIN f = 1..Len(f)
  OBVIOUS
<1>2. IsFiniteSet(1..Len(f))
  BY <1>1, FS_Interval
<1>3. LinesOf(f, p) \in SUBSET (1..Len(f))
  BY <1>1 DEF LinesOf
<1> QED BY <1>2, <1>3, FS_Subset

AtMostOne(S) == \A i, j \in S : i = j

LEMMA OneIsAtMostOne ==
    ASSUME NEW S, IsFiniteSet(S)
    PROVE  Cardinality(S) <= 1 <=> AtMostOne(S)
<1>1. Cardinality(S) \in Nat
  BY FS_CardinalityType
<1>2. Cardinality(S) <= 1 <=> Cardinality(S) = 0 \/ Cardinality(S) = 1
  BY <1>1
<1>3. Cardinality(S) = 0 <=> S = {}
  BY FS_EmptySet
<1>4. Cardinality(S) = 1 <=> \E x : S = {x}
  BY FS_Singleton
<1>5. ASSUME S = {} \/ \E x : S = {x} PROVE AtMostOne(S)
  BY <1>5 DEF AtMostOne
<1>6. ASSUME AtMostOne(S) PROVE S = {} \/ \E x : S = {x}
  <2> SUFFICES ASSUME NEW x \in S PROVE S = {x}
    OBVIOUS
  <2> QED BY <1>6 DEF AtMostOne
<1> QED BY <1>2, <1>3, <1>4, <1>5, <1>6

Kept(f, p) == DOMAIN f \ Dropped(f, p)

LEMMA KeptType ==
    ASSUME NEW f \in Seq(Lines), NEW p
    PROVE  /\ Kept(f, p) \in SUBSET Nat /\ Kept(f, p) \subseteq DOMAIN f
           /\ IsFiniteSet(Kept(f, p)) /\ Cardinality(Kept(f, p)) \in Nat
<1>1. Len(f) \in Nat /\ DOMAIN f = 1..Len(f)
  OBVIOUS
<1>2. IsFiniteSet(1..Len(f))
  BY <1>1, FS_Interval
<1>3. Kept(f, p) \in SUBSET (1..Len(f))
  BY <1>1 DEF Kept
<1>4. IsFiniteSet(Kept(f, p))
  BY <1>2, <1>3, FS_Subset
<1> QED BY <1>1, <1>3, <1>4, FS_CardinalityType

(* removeFromConfigFile keeps whole lines. *)
LEMMA WithoutType ==
    ASSUME NEW f \in Seq(Lines), NEW p
    PROVE  /\ Without(f, p) \in Seq(Lines)
           /\ DOMAIN Without(f, p) = 1..Cardinality(Kept(f, p))
           /\ \A k \in DOMAIN Without(f, p) :
                /\ Nth(Kept(f, p), k) \in Kept(f, p)
                /\ Without(f, p)[k] = f[Nth(Kept(f, p), k)]
<1>1. Without(f, p) = [k \in 1..Cardinality(Kept(f, p)) |-> f[Nth(Kept(f, p), k)]]
  BY DEF Without, Kept
<1>2. \A k \in 1..Cardinality(Kept(f, p)) : Nth(Kept(f, p), k) \in Kept(f, p)
  BY KeptType, NthEnumerates
<1>3. \A i \in Kept(f, p) : f[i] \in Lines
  BY KeptType
<1> QED BY <1>1, <1>2, <1>3, KeptType

(* If no prefix begins another, it takes the routes of its prefix away and  *)
(* leaves those of every other prefix.                                      *)
LEMMA WithoutLines ==
    ASSUME Begins = {}, NEW f \in Seq(Lines), NEW p
    PROVE  /\ LinesOf(Without(f, p), p) = {}
           /\ \A q : q # p =>
                /\ LinesOf(Without(f, p), q) = {} <=> LinesOf(f, q) = {}
                /\ AtMostOne(LinesOf(f, q)) => AtMostOne(LinesOf(Without(f, p), q))
<1> DEFINE K == Kept(f, p)
           w == Without(f, p)
           n(k) == Nth(K, k)
<1>1. \A i \in DOMAIN f : IsRoute(f[i]) => (i \in K <=> f[i].prefix # p)
  BY DEF Kept, Dropped, Matches, IsRoute, IsComment
<1>2. \A k \in DOMAIN w : n(k) \in K /\ n(k) \in DOMAIN f /\ w[k] = f[n(k)]
  BY WithoutType, KeptType
<1>3. \A i \in K : \E k \in DOMAIN w : n(k) = i
  BY WithoutType, KeptType, NthEnumerates
<1>4. \A k, l \in DOMAIN w : n(k) = n(l) => k = l
  <2>1. \A k \in 1..Cardinality(K) : Place(K, n(k)) = k - 1
    BY KeptType, NthEnumerates
  <2> SUFFICES ASSUME NEW k \in DOMAIN w, NEW l \in DOMAIN w, n(k) = n(l) PROVE k = l
    OBVIOUS
  <2>2. k \in 1..Cardinality(K) /\ l \in 1..Cardinality(K) /\ Cardinality(K) \in Nat
    BY WithoutType, KeptType
  <2>3. k - 1 = l - 1
    BY <2>1, <2>2
  <2> QED BY <2>2, <2>3
<1> HIDE DEF K, w, n
<1>5. LinesOf(w, p) = {}
  BY <1>1, <1>2 DEF LinesOf
<1>6. ASSUME NEW q, q # p
      PROVE  /\ LinesOf(w, q) = {} <=> LinesOf(f, q) = {}
             /\ AtMostOne(LinesOf(f, q)) => AtMostOne(LinesOf(w, q))
  <2>1. \A k \in LinesOf(w, q) : k \in DOMAIN w /\ n(k) \in LinesOf(f, q)
    BY <1>2 DEF LinesOf
  <2>2. \A i \in LinesOf(f, q) : \E k \in LinesOf(w, q) : n(k) = i
    <3> SUFFICES ASSUME NEW i \in LinesOf(f, q) PROVE \E k \in LinesOf(w, q) : n(k) = i
      OBVIOUS
    <3>1. i \in DOMAIN f /\ IsRoute(f[i]) /\ f[i].prefix = q
      BY DEF LinesOf
    <3>2. PICK k \in DOMAIN w : n(k) = i
      BY <1>1, <1>3, <1>6, <3>1
    <3>3. k \in LinesOf(w, q)
      BY <1>2, <3>1, <3>2 DEF LinesOf
    <3> QED BY <3>2, <3>3
  <2> QED BY <1>4, <2>1, <2>2 DEF AtMostOne
<1> QED BY <1>5, <1>6 DEF w

EntryText == Texts \cup {NoText}

LEMMA EntryType ==
    ASSUME NEW p \in Networks, NEW n \in Nexthops, NEW t \in EntryText
    PROVE  /\ Entry(p, n, t) \in Seq(Lines)
           /\ Len(Entry(p, n, t)) \in 1..2
           /\ \A i \in 1..Len(Entry(p, n, t)) :
                Entry(p, n, t)[i] = IF i = Len(Entry(p, n, t)) THEN Route(p, n) ELSE Comment(t)
<1>1. Comment(t) \in Lines /\ Route(p, n) \in Lines
  BY DEF Comment, Route, Lines, EntryText
<1>2. CASE t = NoText
  <2>1. Entry(p, n, t) = <<Route(p, n)>>
    BY <1>2 DEF Entry
  <2> QED BY <1>1, <2>1
<1>3. CASE t # NoText
  <2>1. Entry(p, n, t) = <<Comment(t)>> \o <<Route(p, n)>>
    BY <1>3 DEF Entry
  <2> QED BY <1>1, <2>1
<1> QED BY <1>2, <1>3

(* appendToConfigFile adds one line to those of its prefix. *)
LEMMA AppendedLines ==
    ASSUME ~open, NEW f \in Seq(Lines), NEW p \in Networks, NEW n \in Nexthops,
           NEW t \in EntryText
    PROVE  LET g == Appended(f, Entry(p, n, t)) IN
           /\ LinesOf(g, p) = LinesOf(f, p) \cup {Len(g)}
           /\ \A q : q # p => LinesOf(g, q) = LinesOf(f, q)
           /\ \A i \in DOMAIN g : IsRoute(g[i]) =>
                 g[i].nexthop = n \/ (i \in DOMAIN f /\ IsRoute(f[i]) /\ g[i] = f[i])
<1> DEFINE e == Entry(p, n, t)
           g == f \o e
<1>1. Appended(f, e) = g
  BY DEF Appended
<1>2. /\ Len(f) \in Nat /\ Len(e) \in 1..2 /\ Len(g) = Len(f) + Len(e)
      /\ DOMAIN f = 1..Len(f) /\ DOMAIN g = 1..(Len(f) + Len(e))
      /\ \A i \in DOMAIN f : g[i] = f[i]
      /\ \A i \in 1..Len(e) : g[Len(f) + i] = e[i]
  BY EntryType
<1>3. \A i \in DOMAIN g :
        \/ i \in DOMAIN f /\ g[i] = f[i]
        \/ i \notin DOMAIN f /\ g[i] = IF i = Len(g) THEN Route(p, n) ELSE Comment(t)
  <2> SUFFICES ASSUME NEW i \in DOMAIN g, i \notin DOMAIN f
               PROVE  g[i] = IF i = Len(g) THEN Route(p, n) ELSE Comment(t)
    BY <1>2
  <2>1. i - Len(f) \in 1..Len(e) /\ i = Len(f) + (i - Len(f))
    BY <1>2
  <2>2. g[i] = e[i - Len(f)]
    BY <1>2, <2>1
  <2> QED BY <1>2, <2>1, <2>2, EntryType
<1> HIDE DEF g, e
<1>4. Len(g) \in DOMAIN g /\ Len(g) \notin DOMAIN f
  <2>1. Len(f) \in Nat /\ Len(e) \in 1..2
    BY <1>2
  <2>2. Len(f) + Len(e) \in 1..(Len(f) + Len(e)) /\ Len(f) + Len(e) \notin 1..Len(f)
    BY <2>1
  <2>3. Len(g) = Len(f) + Len(e) /\ DOMAIN g = 1..(Len(f) + Len(e)) /\ DOMAIN f = 1..Len(f)
    BY <1>2
  <2> QED BY <2>2, <2>3, Zenon
<1>5. DOMAIN f \subseteq DOMAIN g
  BY <1>2
<1>6. /\ IsRoute(Route(p, n)) /\ Route(p, n).prefix = p /\ Route(p, n).nexthop = n
      /\ ~IsRoute(Comment(t))
  BY DEF IsRoute, Route, Comment
<1>7. LinesOf(g, p) = LinesOf(f, p) \cup {Len(g)}
  BY <1>3, <1>4, <1>5, <1>6 DEF LinesOf
<1>8. ASSUME NEW q, q # p PROVE LinesOf(g, q) = LinesOf(f, q)
  BY <1>3, <1>4, <1>5, <1>6, <1>8 DEF LinesOf
<1>9. ASSUME NEW i \in DOMAIN g, IsRoute(g[i])
      PROVE  g[i].nexthop = n \/ (i \in DOMAIN f /\ IsRoute(f[i]) /\ g[i] = f[i])
  BY <1>3, <1>6, <1>9
<1> QED BY <1>1, <1>7, <1>8, <1>9 DEF e

(* Whatever a write left of an entry, and glued to whatever: lines again. *)
LEMMA AppendedType ==
    ASSUME NEW f \in Seq(Lines), NEW l \in Seq(Lines)
    PROVE  Appended(f, l) \in Seq(Lines)
<1>1. CASE open /\ f # <<>> /\ l # <<>>
  <2>1. Last(f) \in Lines /\ Head(l) \in Lines /\ Tail(l) \in Seq(Lines) /\ Front(f) \in Seq(Lines)
    <3>1. Len(f) \in Nat \ {0} /\ DOMAIN f = 1..Len(f)
      BY <1>1
    <3>2. Front(f) \in Seq(Lines)
      BY <3>1 DEF Front
    <3> QED BY <1>1, <3>1, <3>2 DEF Last
  <2>2. Glued(Last(f), Head(l)) \in Lines
    BY <2>1 DEF Glued, Lines, IsRoute, Route, Torn
  <2>3. Front(f) \o <<Glued(Last(f), Head(l))>> \o Tail(l) \in Seq(Lines)
    BY <2>1, <2>2
  <2> QED BY <1>1, <2>3 DEF Appended
<1>2. CASE ~(open /\ f # <<>> /\ l # <<>>)
  BY <1>2 DEF Appended
<1> QED BY <1>1, <1>2

LEMMA RemainsType ==
    ASSUME NEW e \in Seq(Lines), NEW left \in Remains(e), open \in BOOLEAN
    PROVE  /\ left.lines \in Seq(Lines) /\ left.open \in BOOLEAN
           /\ "tear" \notin Faults => left.lines = <<>> /\ left.open = open
<1> DEFINE cut(i) == [lines |-> SubSeq(e, 1, i - 1) \o <<Cut(e[i])>>, open |-> TRUE]
           whole(i) == [lines |-> SubSeq(e, 1, i), open |-> FALSE]
<1>1. ASSUME NEW i \in 1..Len(e)
      PROVE  SubSeq(e, 1, i - 1) \o <<Cut(e[i])>> \in Seq(Lines) /\ SubSeq(e, 1, i) \in Seq(Lines)
  <2>1. Cut(e[i]) \in Lines
    <3>1. e[i] \in Lines
      OBVIOUS
    <3> QED BY <3>1 DEF Cut, Torn, Lines
  <2>2. SubSeq(e, 1, i - 1) \in Seq(Lines) /\ SubSeq(e, 1, i) \in Seq(Lines)
    OBVIOUS
  <2> QED BY <2>1, <2>2
<1>2. \/ left = [lines |-> <<>>, open |-> open]
      \/ /\ "tear" \in Faults
         /\ \E i \in 1..Len(e) : left = cut(i) \/ left = whole(i)
  <2>1. \A i \in DOMAIN e : i \in 1..Len(e)
    OBVIOUS
  <2>2. \A i \in 1..(Len(e) - 1) : i \in 1..Len(e)
    OBVIOUS
  <2> HIDE DEF cut, whole
  <2>3. Remains(e) = {[lines |-> <<>>, open |-> open]} \cup
                     (IF "tear" \notin Faults THEN {}
                      ELSE {cut(i) : i \in DOMAIN e} \cup {whole(i) : i \in 1..(Len(e) - 1)})
    BY DEF Remains, cut, whole
  <2> QED BY <2>1, <2>2, <2>3
<1>3. CASE left = [lines |-> <<>>, open |-> open]
  BY <1>3
<1>4. CASE "tear" \in Faults /\ \E i \in 1..Len(e) : left = cut(i) \/ left = whole(i)
  <2>1. PICK i \in 1..Len(e) : left = cut(i) \/ left = whole(i)
    BY <1>4
  <2>2. CASE left = cut(i)
    <3>1. left.lines = SubSeq(e, 1, i - 1) \o <<Cut(e[i])>> /\ left.open = TRUE
      BY <2>2, Zenon
    <3> QED BY <1>1, <1>4, <3>1
  <2>3. CASE left = whole(i)
    <3>1. left.lines = SubSeq(e, 1, i) /\ left.open = FALSE
      BY <2>3, Zenon
    <3> QED BY <1>1, <1>4, <3>1
  <2> QED BY <2>1, <2>2, <2>3
<1> QED BY <1>2, <1>3, <1>4

-----------------------------------------------------------------------------
(* Types.  A request that is under way asks for a prefix.                  *)
Handler == [pc : Pcs, op : {"add", "delete"}, prefix : Networks \cup {None},
            nexthop : Nexthops \cup {None}, text : EntryText, routes : Map]
Asking == {"load", "enter"} \cup HalfWay
AskedBy(handler) ==
    handler.pc \in Asking => handler.prefix \in Networks /\ handler.nexthop \in Nexthops
Typed == TypeOK /\ \A r \in Requests : AskedBy(req[r])

LEMMA LoadedType == ASSUME NEW f \in Seq(Lines) PROVE Loaded(f) \in Map
<1>1. ASSUME NEW i \in DOMAIN f PROVE Description(f, i) \in EntryText
  <2> DEFINE own == {j \in 1..(i - 1) : IsComment(f[j]) /\ \A k \in j..(i - 1) : ~IsRoute(f[k])}
  <2>1. i \in Nat /\ i <= Len(f) /\ DOMAIN f = 1..Len(f) /\ Len(f) \in Nat
    OBVIOUS
  <2>2. own \in SUBSET (1..(i - 1)) /\ own \in SUBSET Nat
    BY <2>1
  <2>3. IsFiniteSet(1..(i - 1))
    BY <2>1, FS_Interval
  <2>4. IsFiniteSet(own)
    BY <2>2, <2>3, FS_Subset
  <2> HIDE DEF own
  <2>5. ASSUME own # {} PROVE f[LastOf(own)].text \in EntryText
    <3>1. LastOf(own) \in own
      BY <2>2, <2>4, <2>5, LastOfIsLast
    <3>2. LastOf(own) \in DOMAIN f
      <4>1. \A j \in 1..(i - 1) : j \in 1..Len(f)
        BY <2>1
      <4> QED BY <2>1, <2>2, <3>1, <4>1, Zenon
    <3>3. f[LastOf(own)] \in Lines
      BY <3>2
    <3> QED BY <3>3 DEF Lines, EntryText
  <2> QED BY <2>5 DEF Description, own, EntryText
<1>2. ASSUME NEW p \in Networks, LinesOf(f, p) # {}
      PROVE  LastOf(LinesOf(f, p)) \in DOMAIN f
  <2>1. LastOf(LinesOf(f, p)) \in LinesOf(f, p)
    BY <1>2, LinesOfType, LastOfIsLast
  <2> QED BY <2>1 DEF LinesOf
<1>3. ASSUME NEW p \in Networks
      PROVE  (IF LinesOf(f, p) = {} THEN Absent
              ELSE LET i == LastOf(LinesOf(f, p))
                   IN  [nexthop |-> ReadNexthop(f[i].nexthop), text |-> Description(f, i)])
             \in [nexthop : {Blackhole, Via, None}, text : EntryText]
  BY <1>1, <1>2 DEF Absent, ReadNexthop, EntryText
<1> QED BY <1>3 DEF Loaded, Map, EntryText

LEMMA CountsType == ASSUME NEW map PROVE Counts(map) \in [Types -> Nat]
<1>1. ASSUME NEW t
      PROVE  Cardinality({p \in Networks : map[p] # Absent /\ TypeOf(map[p].nexthop) = t}) \in Nat
  <2>1. IsFiniteSet({p \in Networks : map[p] # Absent /\ TypeOf(map[p].nexthop) = t})
    BY NetworksAssumption, FS_Subset
  <2> QED BY <2>1, FS_CardinalityType
<1> QED BY <1>1 DEF Counts

LEMMA NoRoutesType == NoRoutes \in Map /\ NoCounts \in [Types -> Nat]
BY DEF NoRoutes, NoCounts, Map, Absent

LEMMA EndedType ==
    ASSUME NEW result \in {"waiting", "done", "failed", "lost"}
    PROVE  /\ Ended(result) \in Handler /\ Ended(result).pc = result
           /\ result \notin Asking /\ result \notin HalfWay
           /\ Waiting \in Handler /\ Waiting.pc = "waiting"
BY NoRoutesType DEF Ended, Waiting, Handler, Pcs, EntryText, Asking, HalfWay

LEMMA TypedInit == Init => Typed
<1> SUFFICES ASSUME Init PROVE Typed
  OBVIOUS
<1>1. Waiting \in Handler /\ Waiting.pc = "waiting" /\ "waiting" \notin Asking
  BY EndedType DEF Asking, HalfWay
<1>2. <<>> \in Seq(Lines) /\ 0 \in 0..MaxCrashes
  BY FaultsAssumption
<1> QED BY <1>1, <1>2, NoRoutesType DEF Init, Typed, TypeOK, AskedBy, Handler, EntryText

(* What every step of a handler makes of its request. *)
LEMMA HandlerStep ==
    ASSUME Typed, NEW r \in Requests, NEW x \in Handler, AskedBy(x),
           req' = [req EXCEPT ![r] = x]
    PROVE  req' \in [Requests -> Handler] /\ \A q \in Requests : AskedBy(req'[q])
BY DEF Typed, TypeOK, Handler, EntryText

LEMMA ProceedsType ==
    ASSUME Typed, NEW r \in Requests, NEW pc \in HalfWay, req[r].pc \in Asking, Proceeds(r, pc)
    PROVE  /\ req' \in [Requests -> Handler] /\ \A q \in Requests : AskedBy(req'[q])
           /\ mu' \in Requests
<1> DEFINE x == [req[r] EXCEPT !.pc = pc, !.routes = NoRoutes]
<1>1. req \in [Requests -> Handler] /\ req[r] \in Handler /\ AskedBy(req[r])
  BY DEF Typed, TypeOK, Handler, EntryText
<1>2. x \in Handler /\ x.prefix = req[r].prefix /\ x.nexthop = req[r].nexthop
  BY <1>1, NoRoutesType DEF Handler, Pcs
<1>3. AskedBy(x)
  BY <1>1, <1>2 DEF AskedBy
<1>4. req' = [req EXCEPT ![r] = x]
  BY <1>1 DEF Proceeds
<1> QED BY <1>2, <1>3, <1>4, HandlerStep DEF Proceeds

LEMMA AnswersType ==
    ASSUME Typed, NEW r \in Requests, NEW result \in {"done", "failed"}, Answers(r, result)
    PROVE  /\ req' \in [Requests -> Handler] /\ \A q \in Requests : AskedBy(req'[q])
           /\ mu' = Nobody
<1>1. Ended(result) \in Handler /\ AskedBy(Ended(result))
  BY EndedType DEF AskedBy
<1> QED BY <1>1, HandlerStep DEF Answers

LEMMA TypedNext == Typed /\ [Next]_vars => Typed'
<1> SUFFICES ASSUME Typed, [Next]_vars PROVE Typed'
  OBVIOUS
<1> USE DEF daemon
<1>1. /\ bird \in [Networks -> Nexthops \cup {Via, None}]
      /\ file \in Seq(Lines) /\ open \in BOOLEAN /\ mu \in Requests \cup {Nobody}
      /\ req \in [Requests -> Handler]
      /\ ticker \in [pc : {"idle", "counted"}, counts : [Types -> Nat]]
      /\ gauge \in [Types -> Nat] /\ mishaps \subseteq Networks /\ crashes \in 0..MaxCrashes
      /\ \A q \in Requests : AskedBy(req[q])
  BY DEF Typed, TypeOK, Handler, EntryText
<1>2. (/\ bird \in [Networks -> Nexthops \cup {Via, None}]
       /\ file \in Seq(Lines) /\ open \in BOOLEAN /\ mu \in Requests \cup {Nobody}
       /\ req \in [Requests -> Handler]
       /\ ticker \in [pc : {"idle", "counted"}, counts : [Types -> Nat]]
       /\ gauge \in [Types -> Nat] /\ mishaps \subseteq Networks /\ crashes \in 0..MaxCrashes
       /\ \A q \in Requests : AskedBy(req[q]))' => Typed'
  BY DEF Typed, TypeOK, Handler, EntryText
<1> DEFINE Asks(r) == /\ req[r].prefix \in Networks /\ req[r].nexthop \in Nexthops
                      /\ req[r].text \in EntryText
<1>3. \A r \in Requests : req[r].pc \in Asking => Asks(r)
  BY <1>1 DEF AskedBy, Handler
<1> HIDE DEF Asks
<1>4. \A pc \in {"load", "enter"} \cup HalfWay : pc \in Asking
  BY DEF Asking
<1> USE DEF HalfWay
<1>5. ASSUME NEW r \in Requests, NEW op \in {"add", "delete"}, NEW p \in Networks,
             NEW n \in Nexthops, NEW t \in EntryText, Receive(r, op, p, n, t)
      PROVE  Typed'
  <2> DEFINE x == [pc |-> "load", op |-> op, prefix |-> p, nexthop |-> n, text |-> t,
                   routes |-> NoRoutes]
  <2>1. x \in Handler /\ AskedBy(x)
    BY NoRoutesType DEF Handler, Pcs, AskedBy
  <2>2. req' \in [Requests -> Handler] /\ \A q \in Requests : AskedBy(req'[q])
    BY <1>5, <2>1, HandlerStep DEF Receive
  <2> QED BY <1>1, <1>2, <1>5, <2>2 DEF Receive
<1>6. ASSUME NEW r \in Requests, Load(r) PROVE Typed'
  <2>1. PICK map \in Map : req' = [req EXCEPT ![r].pc = "enter", ![r].routes = map]
    BY <1>1, <1>6, LoadedType, NoRoutesType DEF Load
  <2> DEFINE x == [req[r] EXCEPT !.pc = "enter", !.routes = map]
  <2>2. req[r] \in Handler /\ req[r].pc \in Asking /\ Asks(r)
    BY <1>1, <1>3, <1>4, <1>6 DEF Load, At
  <2>3. x \in Handler /\ AskedBy(x)
    BY <2>2 DEF Handler, Pcs, AskedBy, Asks
  <2>4. req' = [req EXCEPT ![r] = x]
    BY <1>1, <2>1
  <2> HIDE DEF x
  <2>5. req' \in [Requests -> Handler] /\ \A q \in Requests : AskedBy(req'[q])
    BY <2>3, <2>4, HandlerStep
  <2> QED BY <1>1, <1>2, <1>6, <2>5 DEF Load
<1>7. ASSUME NEW r \in Requests, Refuse(r) PROVE Typed'
  <2>1. /\ req' \in [Requests -> Handler] /\ \A q \in Requests : AskedBy(req'[q])
        /\ mu' = Nobody
    BY <1>7, AnswersType DEF Refuse
  <2> QED BY <1>1, <1>2, <1>7, <2>1 DEF Refuse
<1>8. ASSUME NEW r \in Requests, AddToBird(r) PROVE Typed'
  <2>1. req[r].pc \in Asking /\ Asks(r)
    BY <1>3, <1>4, <1>8 DEF AddToBird, Enters, At
  <2>2. /\ req' \in [Requests -> Handler] /\ \A q \in Requests : AskedBy(req'[q])
        /\ mu' \in Requests \cup {Nobody}
    BY <1>8, <2>1, AnswersType, ProceedsType DEF AddToBird
  <2>3. bird' \in [Networks -> Nexthops \cup {Via, None}]
    BY <1>1, <1>8, <2>1 DEF AddToBird, Asks
  <2> QED BY <1>1, <1>2, <1>8, <2>2, <2>3 DEF AddToBird
<1>9. ASSUME NEW r \in Requests, AppendToFile(r) PROVE Typed'
  <2> DEFINE entry == Entry(req[r].prefix, req[r].nexthop, req[r].text)
  <2>1. req[r].pc \in Asking /\ Asks(r)
    BY <1>3, <1>4, <1>9 DEF AppendToFile, At
  <2>2. /\ req' \in [Requests -> Handler] /\ \A q \in Requests : AskedBy(req'[q])
        /\ mu' \in Requests \cup {Nobody}
    BY <1>9, <2>1, AnswersType, ProceedsType DEF AppendToFile
  <2>3. entry \in Seq(Lines)
    BY <2>1, EntryType DEF Asks
  <2> HIDE DEF entry
  <2>4. CASE /\ file' = Appended(file, entry) /\ open' = FALSE
             /\ gauge' = [gauge EXCEPT ![TypeOf(req[r].nexthop)] = @ + 1]
    <3>1. file' \in Seq(Lines)
      BY <1>1, <2>3, <2>4, AppendedType
    <3>2. gauge' \in [Types -> Nat]
      BY <1>1, <2>4 DEF TypeOf, Types
    <3> QED BY <1>1, <1>2, <1>9, <2>2, <2>4, <3>1, <3>2 DEF AppendToFile
  <2>5. CASE /\ \E left \in Remains(entry) : file' = Appended(file, left.lines) /\ open' = left.open
             /\ UNCHANGED gauge
    <3>1. PICK left \in Remains(entry) : file' = Appended(file, left.lines) /\ open' = left.open
      BY <2>5
    <3>2. file' \in Seq(Lines) /\ open' \in BOOLEAN
      BY <1>1, <2>3, <3>1, RemainsType, AppendedType
    <3> QED BY <1>1, <1>2, <1>9, <2>2, <2>5, <3>2 DEF AppendToFile
  <2> QED BY <1>9, <2>4, <2>5 DEF AppendToFile, entry
<1>10. ASSUME NEW r \in Requests, UndoInBird(r) PROVE Typed'
  <2>1. req[r].pc \in Asking /\ Asks(r)
    BY <1>3, <1>4, <1>10 DEF UndoInBird, At
  <2>2. /\ req' \in [Requests -> Handler] /\ \A q \in Requests : AskedBy(req'[q])
        /\ mu' = Nobody
    BY <1>10, AnswersType DEF UndoInBird
  <2>3. bird' \in [Networks -> Nexthops \cup {Via, None}] /\ mishaps' \subseteq Networks
    BY <1>1, <1>10, <2>1 DEF UndoInBird, StopsHalfWay, Asks
  <2> QED BY <1>1, <1>2, <1>10, <2>2, <2>3 DEF UndoInBird
<1>11. ASSUME NEW r \in Requests, DeleteFromBird(r) PROVE Typed'
  <2>1. req[r].pc \in Asking /\ Asks(r)
    BY <1>3, <1>4, <1>11 DEF DeleteFromBird, Enters, At
  <2>2. /\ req' \in [Requests -> Handler] /\ \A q \in Requests : AskedBy(req'[q])
        /\ mu' \in Requests
    BY <1>11, <2>1, ProceedsType DEF DeleteFromBird
  <2>3. bird' \in [Networks -> Nexthops \cup {Via, None}] /\ mishaps' \subseteq Networks
    BY <1>1, <1>11, <2>1 DEF DeleteFromBird, StopsHalfWay, Asks
  <2> QED BY <1>1, <1>2, <1>11, <2>2, <2>3 DEF DeleteFromBird
<1>12. ASSUME NEW r \in Requests, RemoveFromFile(r) PROVE Typed'
  <2>1. req[r].pc \in Asking /\ Asks(r)
    BY <1>3, <1>4, <1>12 DEF RemoveFromFile, At
  <2>2. /\ req' \in [Requests -> Handler] /\ \A q \in Requests : AskedBy(req'[q])
        /\ mu' = Nobody
    BY <1>12, AnswersType DEF RemoveFromFile
  <2>3. Without(file, req[r].prefix) \in Seq(Lines)
    BY <1>1, WithoutType
  <2>4. /\ file' \in Seq(Lines) /\ open' \in BOOLEAN /\ mishaps' \subseteq Networks
    BY <1>1, <1>12, <2>1, <2>3 DEF RemoveFromFile, StopsHalfWay, Asks
  <2> QED BY <1>1, <1>2, <1>12, <2>2, <2>4 DEF RemoveFromFile
<1>13. CASE Count
  <2>1. ticker' \in [pc : {"idle", "counted"}, counts : [Types -> Nat]]
    BY <1>13, CountsType DEF Count
  <2> QED BY <1>1, <1>2, <1>13, <2>1 DEF Count
<1>14. CASE SetGauges
  <2>1. /\ gauge' \in [Types -> Nat]
        /\ ticker' \in [pc : {"idle", "counted"}, counts : [Types -> Nat]]
    BY <1>1, <1>14, NoRoutesType DEF SetGauges
  <2> QED BY <1>1, <1>2, <1>14, <2>1 DEF SetGauges
<1>15. {req[r].prefix : r \in {q \in Requests : req[q].pc \in HalfWay}} \subseteq Networks
  BY <1>3, <1>4 DEF Asks
<1>16. CASE Crash
  <2>1. req' \in [Requests -> Handler] /\ \A q \in Requests : AskedBy(req'[q])
    BY <1>1, <1>16, EndedType DEF Crash, AskedBy
  <2>2. mishaps' \subseteq Networks /\ crashes' \in 0..MaxCrashes
    BY <1>1, <1>15, <1>16, FaultsAssumption DEF Crash
  <2> QED BY <1>1, <1>2, <1>16, <2>1, <2>2, NoRoutesType DEF Crash
<1>17. CASE RestartBird
  <2>1. ASSUME NEW p \in Networks, LinesOf(file, p) # {}
        PROVE  file[LastOf(LinesOf(file, p))].nexthop \in Nexthops \cup {Via, None}
    <3>1. LastOf(LinesOf(file, p)) \in LinesOf(file, p)
      BY <1>1, <2>1, LinesOfType, LastOfIsLast
    <3>2. file[LastOf(LinesOf(file, p))] \in Lines
      BY <1>1, <3>1 DEF LinesOf
    <3> QED BY <3>2 DEF Lines
  <2>2. bird' \in [Networks -> Nexthops \cup {Via, None}]
    BY <1>17, <2>1 DEF RestartBird
  <2>3. mishaps' \subseteq Networks /\ crashes' \in 0..MaxCrashes
    BY <1>1, <1>15, <1>17, FaultsAssumption DEF RestartBird
  <2> QED BY <1>1, <1>2, <1>17, <2>2, <2>3 DEF RestartBird
<1>18. CASE UNCHANGED vars
  BY <1>1, <1>2, <1>18 DEF vars
<1> QED BY <1>5, <1>6, <1>7, <1>8, <1>9, <1>10, <1>11, <1>12, <1>13, <1>14, <1>16, <1>17, <1>18
        DEF Next, Handle, EntryText

(* The route manager keeps its type for any requests, prefixes and faults,  *)
(* torn lines and prefixes that begin others included.                      *)
THEOREM RouteTypeCorrect == Spec => []TypeOK
<1>1. Typed => TypeOK
  BY DEF Typed
<1> QED BY <1>1, TypedInit, TypedNext, PTL DEF Spec

-----------------------------------------------------------------------------
(* BIRD and the file, where no write tears a line and no prefix begins      *)
(* another.  Only who holds mu is between the two steps of a change         *)
(* (Holder), the file is made of whole lines (Whole), and a change that is   *)
(* half-way has BIRD where its first step left it, unless BIRD was restarted *)
(* or failed (MidChange).                                                  *)
LinesApart == "tear" \notin Faults /\ Begins = {}

Holder == \A r \in Requests : req[r].pc \in HalfWay <=> mu = r

Whole == ~open /\ \A i \in DOMAIN file : IsRoute(file[i]) => file[i].nexthop \in Nexthops

MidChangeOf(r) ==
    LET p == req[r].prefix IN
    /\ req[r].pc \in {"append", "undo"} =>
         p \in mishaps \/ (bird[p] # None /\ LinesOf(file, p) = {})
    /\ req[r].pc = "remove" => p \in mishaps \/ bird[p] = None
MidChange == \A r \in Requests : MidChangeOf(r)

Agree(p) == bird[p] = None <=> LinesOf(file, p) = {}
Drift == \A p \in Networks :
           \/ Agree(p) \/ p \in mishaps
           \/ \E r \in Requests : mu = r /\ req[r].prefix = p
OneLine == \A p \in Networks \ mishaps : AtMostOne(LinesOf(file, p))

RouteInv == Typed /\ Holder /\ Whole /\ MidChange /\ Drift /\ OneLine

LEMMA RouteInvInit == Init => RouteInv
<1> SUFFICES ASSUME Init PROVE RouteInv
  OBVIOUS
<1>1. Waiting.pc = "waiting" /\ "waiting" \notin HalfWay
  BY DEF Waiting, HalfWay
<1>2. \A p : LinesOf(<<>>, p) = {}
  BY DEF LinesOf
<1>3. Holder /\ MidChange
  BY <1>1, NobodyAssumption DEF Init, Holder, MidChange, MidChangeOf, HalfWay
<1>4. Whole /\ Drift /\ OneLine
  BY <1>2 DEF Init, Whole, Drift, Agree, OneLine, AtMostOne
<1> QED BY <1>3, <1>4, TypedInit DEF RouteInv

(* A step that leaves alone BIRD, the file and every change that is half-way *)
(* keeps the invariant.                                                    *)
LEMMA OutsideStep ==
    ASSUME RouteInv, Typed', UNCHANGED <<bird, file, open, mu, mishaps>>,
           \A q \in Requests :
             req'[q] = req[q] \/ (req[q].pc \notin HalfWay /\ req'[q].pc \notin HalfWay)
    PROVE  RouteInv'
<1>1. Holder'
  BY DEF RouteInv, Holder
<1>2. MidChange'
  BY DEF RouteInv, MidChange, MidChangeOf, HalfWay
<1>3. Drift'
  <2> SUFFICES ASSUME NEW p \in Networks, ~Agree(p), p \notin mishaps
               PROVE  \E r \in Requests : mu = r /\ req'[r].prefix = p
    BY DEF Drift, Agree
  <2>1. PICK r \in Requests : mu = r /\ req[r].prefix = p
    BY DEF RouteInv, Drift
  <2> QED BY <2>1 DEF RouteInv, Holder
<1> QED BY <1>1, <1>2, <1>3 DEF RouteInv, Whole, OneLine

(* A step of the request that holds mu, or that takes it: only the state of  *)
(* its own prefix has to be looked at.                                     *)
LEMMA HolderStep ==
    ASSUME RouteInv, Typed', Whole', NEW r \in Requests, NEW p \in Networks,
           req[r].prefix = p, mu = r \/ mu = Nobody,
           \A q \in Requests : q # r => req'[q] = req[q],
           mu' \in {r, Nobody}, mu' = r <=> req'[r].pc \in HalfWay,
           mu' = r => req'[r].prefix = p,
           \A q \in Networks : q # p =>
             /\ bird'[q] = bird[q]
             /\ LinesOf(file', q) = {} <=> LinesOf(file, q) = {}
             /\ AtMostOne(LinesOf(file, q)) => AtMostOne(LinesOf(file', q))
             /\ q \in mishaps' <=> q \in mishaps,
           MidChangeOf(r)',
           Agree(p)' \/ p \in mishaps' \/ mu' = r,
           p \in mishaps' \/ AtMostOne(LinesOf(file', p))
    PROVE  RouteInv'
<1>1. \A q \in Requests : q # r => req[q].pc \notin HalfWay
  BY NobodyAssumption DEF RouteInv, Holder
<1>2. Holder'
  BY <1>1, NobodyAssumption DEF Holder
<1>3. MidChange'
  BY <1>1 DEF MidChange, MidChangeOf, HalfWay
<1>4. Drift'
  <2> SUFFICES ASSUME NEW q \in Networks
               PROVE  \/ Agree(q)' \/ q \in mishaps'
                      \/ \E s \in Requests : mu' = s /\ req'[s].prefix = q
    BY DEF Drift
  <2>1. CASE q = p
    BY <2>1
  <2>2. CASE q # p
    <3>1. Agree(q) \/ q \in mishaps
      BY <2>2, NobodyAssumption DEF RouteInv, Drift
    <3> QED BY <2>2, <3>1 DEF Agree
  <2> QED BY <2>1, <2>2
<1>5. OneLine'
  <2> SUFFICES ASSUME NEW q \in Networks, q \notin mishaps' PROVE AtMostOne(LinesOf(file', q))
    BY DEF OneLine
  <2> QED BY DEF RouteInv, OneLine
<1> QED BY <1>2, <1>3, <1>4, <1>5 DEF RouteInv

(* What is known of a request under way. *)
LEMMA UnderWayFacts ==
    ASSUME RouteInv, NEW r \in Requests
    PROVE  /\ file \in Seq(Lines) /\ bird \in [Networks -> Nexthops \cup {Via, None}]
           /\ open = FALSE /\ req \in [Requests -> Handler]
           /\ req[r].pc \in Asking =>
                /\ req[r].prefix \in Networks /\ req[r].nexthop \in Nexthops
                /\ req[r].text \in EntryText /\ req[r].nexthop # None
           /\ req[r].pc \in HalfWay => mu = r /\ req[r].pc \in Asking
BY NexthopsAssumption
   DEF RouteInv, Typed, TypeOK, Handler, AskedBy, EntryText, Whole, Holder, Asking, Nexthops

LEMMA ProceedsFacts ==
    ASSUME RouteInv, NEW r \in Requests, NEW pc \in HalfWay, Proceeds(r, pc)
    PROVE  /\ mu' = r /\ req'[r].pc = pc /\ req'[r].prefix = req[r].prefix
           /\ \A q \in Requests : q # r => req'[q] = req[q]
<1>1. req \in [Requests -> Handler] /\ req[r] \in Handler
  BY UnderWayFacts
<1> QED BY <1>1 DEF Proceeds, Handler

LEMMA AnswersFacts ==
    ASSUME RouteInv, NEW r \in Requests, NEW result \in {"done", "failed"}, Answers(r, result)
    PROVE  /\ mu' = Nobody /\ mu' # r /\ req'[r].pc = result /\ result \notin HalfWay
           /\ \A q \in Requests : q # r => req'[q] = req[q]
<1>1. req \in [Requests -> Handler]
  BY UnderWayFacts
<1>2. req' = [req EXCEPT ![r] = Ended(result)] /\ Ended(result).pc = result
  BY EndedType DEF Answers
<1>3. req'[r] = Ended(result)
  BY <1>1, <1>2
<1> QED BY <1>1, <1>2, <1>3, NobodyAssumption DEF Answers, HalfWay

LEMMA AddToBirdKeeps ==
    ASSUME RouteInv, Typed', NEW r \in Requests, AddToBird(r)
    PROVE  RouteInv'
<1>1. PICK p \in Networks :
      /\ req[r].prefix = p /\ req[r].nexthop # None /\ mu = Nobody /\ req[r].pc \notin HalfWay
      /\ bird \in [Networks -> Nexthops \cup {Via, None}]
  BY UnderWayFacts DEF AddToBird, Enters, At, Asking, HalfWay
<1>2. UNCHANGED <<file, open, mishaps>>
  BY DEF AddToBird, daemon
<1>3. CASE bird[p] = None /\ bird' = [bird EXCEPT ![p] = req[r].nexthop] /\ Proceeds(r, "append")
  <2>1. /\ mu' = r /\ req'[r].pc = "append" /\ req'[r].prefix = p
        /\ \A q \in Requests : q # r => req'[q] = req[q]
    BY <1>1, <1>3, ProceedsFacts DEF HalfWay
  <2>2. bird'[p] # None /\ \A q \in Networks : q # p => bird'[q] = bird[q]
    BY <1>1, <1>3
  <2>3. p \in mishaps \/ LinesOf(file, p) = {}
    BY <1>1, <1>3, NobodyAssumption DEF RouteInv, Drift, Agree
  <2>4. MidChangeOf(r)'
    BY <1>2, <2>1, <2>2, <2>3 DEF MidChangeOf
  <2>5. Whole' /\ (p \in mishaps' \/ AtMostOne(LinesOf(file', p)))
    BY <1>1, <1>2 DEF RouteInv, Whole, OneLine
  <2> QED BY <1>1, <1>2, <2>1, <2>2, <2>4, <2>5, HolderStep DEF HalfWay
<1>4. CASE Answers(r, "failed") /\ UNCHANGED bird
  <2>1. /\ mu' = mu /\ req'[r].pc \notin HalfWay
        /\ \A q \in Requests : q # r => req'[q] = req[q]
    BY <1>1, <1>4, AnswersFacts
  <2>2. UNCHANGED <<bird, file, open, mu, mishaps>>
    BY <1>2, <1>4, <2>1
  <2>3. \A q \in Requests :
          req'[q] = req[q] \/ (req[q].pc \notin HalfWay /\ req'[q].pc \notin HalfWay)
    BY <1>1, <2>1
  <2> QED BY <2>2, <2>3, OutsideStep
<1> QED BY <1>1, <1>3, <1>4 DEF AddToBird

LEMMA AppendToFileKeeps ==
    ASSUME LinesApart, RouteInv, Typed', NEW r \in Requests, AppendToFile(r)
    PROVE  RouteInv'
<1> DEFINE entry == Entry(req[r].prefix, req[r].nexthop, req[r].text)
<1>1. PICK p \in Networks :
      /\ req[r].prefix = p /\ req[r].nexthop \in Nexthops /\ req[r].text \in EntryText
      /\ mu = r /\ req[r].pc = "append" /\ file \in Seq(Lines) /\ open = FALSE
  BY UnderWayFacts DEF AppendToFile, At, HalfWay
<1>2. UNCHANGED <<bird, mishaps>>
  BY DEF AppendToFile
<1>3. p \in mishaps \/ (bird[p] # None /\ LinesOf(file, p) = {})
  BY <1>1 DEF RouteInv, MidChange, MidChangeOf
<1>4. CASE file' = Appended(file, entry) /\ open' = FALSE /\ Answers(r, "done")
  <2>1. /\ mu' = Nobody /\ mu' # r /\ req'[r].pc = "done"
        /\ \A q \in Requests : q # r => req'[q] = req[q]
    BY <1>4, AnswersFacts
  <2>2. /\ LinesOf(file', p) = LinesOf(file, p) \cup {Len(file')}
        /\ \A q : q # p => LinesOf(file', q) = LinesOf(file, q)
        /\ \A i \in DOMAIN file' : IsRoute(file'[i]) =>
              \/ file'[i].nexthop = req[r].nexthop
              \/ i \in DOMAIN file /\ IsRoute(file[i]) /\ file'[i] = file[i]
    BY <1>1, <1>4, AppendedLines
  <2>3. Whole'
    BY <1>1, <1>4, <2>2 DEF RouteInv, Whole
  <2>4. MidChangeOf(r)'
    BY <2>1 DEF MidChangeOf
  <2>5. Agree(p)' \/ p \in mishaps'
    BY <1>2, <1>3, <2>2 DEF Agree
  <2>6. p \in mishaps' \/ AtMostOne(LinesOf(file', p))
    BY <1>2, <1>3, <2>2 DEF AtMostOne
  <2> QED BY <1>1, <1>2, <2>1, <2>2, <2>3, <2>4, <2>5, <2>6, HolderStep DEF HalfWay
<1>5. CASE /\ \E left \in Remains(entry) : file' = Appended(file, left.lines) /\ open' = left.open
           /\ Proceeds(r, "undo")
  <2>1. /\ mu' = r /\ req'[r].pc = "undo" /\ req'[r].prefix = p
        /\ \A q \in Requests : q # r => req'[q] = req[q]
    BY <1>1, <1>5, ProceedsFacts DEF HalfWay
  <2>2. entry \in Seq(Lines)
    BY <1>1, EntryType
  <2> HIDE DEF entry
  <2>3. PICK left \in Remains(entry) : file' = Appended(file, left.lines) /\ open' = left.open
    BY <1>5
  <2>4. left.lines = <<>> /\ left.open = open
    BY <1>1, <2>2, <2>3, RemainsType DEF LinesApart
  <2>5. file' = file /\ open' = open
    BY <1>1, <2>3, <2>4 DEF Appended
  <2>6. Whole' /\ (p \in mishaps' \/ AtMostOne(LinesOf(file', p)))
    BY <1>1, <1>2, <2>5 DEF RouteInv, Whole, OneLine
  <2>7. MidChangeOf(r)'
    BY <1>2, <1>3, <2>1, <2>5 DEF MidChangeOf
  <2> QED BY <1>1, <1>2, <2>1, <2>5, <2>6, <2>7, HolderStep DEF HalfWay
<1> QED BY <1>1, <1>4, <1>5 DEF AppendToFile

LEMMA UndoInBirdKeeps ==
    ASSUME RouteInv, Typed', NEW r \in Requests, UndoInBird(r)
    PROVE  RouteInv'
<1>1. PICK p \in Networks :
      /\ req[r].prefix = p /\ mu = r /\ req[r].pc = "undo"
      /\ bird \in [Networks -> Nexthops \cup {Via, None}]
  BY UnderWayFacts DEF UndoInBird, At, HalfWay
<1>2. /\ mu' = Nobody /\ mu' # r /\ req'[r].pc = "failed"
      /\ \A q \in Requests : q # r => req'[q] = req[q]
  BY AnswersFacts DEF UndoInBird
<1>3. UNCHANGED <<file, open>>
  BY DEF UndoInBird
<1>4. p \in mishaps \/ LinesOf(file, p) = {}
  BY <1>1 DEF RouteInv, MidChange, MidChangeOf
<1>5. /\ \A q \in Networks : q # p => bird'[q] = bird[q] /\ (q \in mishaps' <=> q \in mishaps)
      /\ p \in mishaps => p \in mishaps'
      /\ p \in mishaps' \/ bird'[p] = None
  BY <1>1 DEF UndoInBird, StopsHalfWay
<1>6. Agree(p)' \/ p \in mishaps'
  BY <1>3, <1>4, <1>5 DEF Agree
<1>7. Whole' /\ MidChangeOf(r)' /\ (p \in mishaps' \/ AtMostOne(LinesOf(file', p)))
  BY <1>1, <1>2, <1>3, <1>5 DEF RouteInv, Whole, OneLine, MidChangeOf
<1> QED BY <1>1, <1>2, <1>3, <1>5, <1>6, <1>7, HolderStep DEF HalfWay

LEMMA DeleteFromBirdKeeps ==
    ASSUME RouteInv, Typed', NEW r \in Requests, DeleteFromBird(r)
    PROVE  RouteInv'
<1>1. PICK p \in Networks :
      /\ req[r].prefix = p /\ mu = Nobody
      /\ bird \in [Networks -> Nexthops \cup {Via, None}]
  BY UnderWayFacts DEF DeleteFromBird, Enters, At, Asking
<1>2. /\ mu' = r /\ req'[r].pc = "remove" /\ req'[r].prefix = p
      /\ \A q \in Requests : q # r => req'[q] = req[q]
  BY <1>1, ProceedsFacts DEF DeleteFromBird, HalfWay
<1>3. UNCHANGED <<file, open>>
  BY DEF DeleteFromBird
<1>4. /\ \A q \in Networks : q # p => bird'[q] = bird[q] /\ (q \in mishaps' <=> q \in mishaps)
      /\ p \in mishaps => p \in mishaps'
      /\ p \in mishaps' \/ bird'[p] = None
  BY <1>1 DEF DeleteFromBird, StopsHalfWay
<1>5. Whole' /\ MidChangeOf(r)' /\ (p \in mishaps' \/ AtMostOne(LinesOf(file', p)))
  BY <1>1, <1>2, <1>3, <1>4 DEF RouteInv, Whole, OneLine, MidChangeOf
<1> QED BY <1>1, <1>2, <1>3, <1>4, <1>5, HolderStep DEF HalfWay

LEMMA RemoveFromFileKeeps ==
    ASSUME LinesApart, RouteInv, Typed', NEW r \in Requests, RemoveFromFile(r)
    PROVE  RouteInv'
<1>1. PICK p \in Networks :
      /\ req[r].prefix = p /\ mu = r /\ req[r].pc = "remove"
      /\ file \in Seq(Lines) /\ open = FALSE
  BY UnderWayFacts DEF RemoveFromFile, At, HalfWay
<1>2. /\ mu' = Nobody /\ mu' # r /\ req'[r].pc \notin HalfWay
      /\ \A q \in Requests : q # r => req'[q] = req[q]
  BY AnswersFacts DEF RemoveFromFile
<1>3. UNCHANGED bird
  BY DEF RemoveFromFile, daemon
<1>4. p \in mishaps \/ bird[p] = None
  BY <1>1 DEF RouteInv, MidChange, MidChangeOf
<1>5. MidChangeOf(r)'
  BY <1>2 DEF MidChangeOf, HalfWay
<1>6. CASE /\ file' = Without(file, p) /\ open' = (open /\ Without(file, p) # <<>>)
           /\ mishaps' = IF bird[p] = None THEN mishaps \ {p} ELSE mishaps
  <2>1. /\ LinesOf(file', p) = {}
        /\ \A q : q # p =>
             /\ LinesOf(file', q) = {} <=> LinesOf(file, q) = {}
             /\ AtMostOne(LinesOf(file, q)) => AtMostOne(LinesOf(file', q))
    BY <1>1, <1>6, WithoutLines DEF LinesApart
  <2>2. \A i \in DOMAIN file' : \E j \in DOMAIN file : file'[i] = file[j]
    BY <1>1, <1>6, WithoutType, KeptType
  <2>3. Whole'
    BY <1>1, <1>6, <2>2 DEF RouteInv, Whole
  <2>4. (Agree(p)' \/ p \in mishaps') /\ AtMostOne(LinesOf(file', p))
    BY <1>3, <1>4, <1>6, <2>1 DEF Agree, AtMostOne
  <2>5. \A q \in Networks : q # p => (q \in mishaps' <=> q \in mishaps)
    BY <1>6
  <2> QED BY <1>1, <1>2, <1>3, <1>5, <2>1, <2>3, <2>4, <2>5, HolderStep
<1>7. CASE StopsHalfWay(r) /\ UNCHANGED <<file, open>>
  <2>1. p \in mishaps' /\ \A q \in Networks : q # p => (q \in mishaps' <=> q \in mishaps)
    BY <1>1, <1>7 DEF StopsHalfWay
  <2>2. Whole'
    BY <1>7 DEF RouteInv, Whole
  <2>3. bird' = bird /\ file' = file
    BY <1>3, <1>7
  <2> QED BY <1>1, <1>2, <1>5, <2>1, <2>2, <2>3, HolderStep
<1> QED BY <1>1, <1>6, <1>7 DEF RemoveFromFile

LEMMA CrashKeeps == ASSUME RouteInv, Typed', Crash PROVE RouteInv'
<1>1. \A r \in Requests :
        /\ req'[r].pc \notin HalfWay
        /\ req[r].pc \in HalfWay => req[r].prefix \in mishaps'
  <2> SUFFICES ASSUME NEW r \in Requests
               PROVE  /\ req'[r].pc \notin HalfWay
                      /\ req[r].pc \in HalfWay => req[r].prefix \in mishaps'
    OBVIOUS
  <2>1. req'[r] = IF r \in UnderWay THEN Ended("lost") ELSE req[r]
    BY DEF Crash
  <2>2. Ended("lost").pc \notin HalfWay
    BY EndedType
  <2>3. req[r].pc \in HalfWay => r \in UnderWay
    BY DEF UnderWay, HalfWay
  <2> QED BY <2>1, <2>2, <2>3 DEF Crash
<1>2. UNCHANGED <<bird, file, open>> /\ mu' = Nobody /\ mishaps \subseteq mishaps'
  BY DEF Crash
<1>3. Holder' /\ MidChange'
  BY <1>1, <1>2, NobodyAssumption DEF Holder, MidChange, MidChangeOf, HalfWay
<1>4. Whole' /\ OneLine'
  BY <1>2 DEF RouteInv, Whole, OneLine
<1>5. Drift'
  <2> SUFFICES ASSUME NEW p \in Networks PROVE Agree(p)' \/ p \in mishaps'
    BY DEF Drift
  <2>1. CASE Agree(p) \/ p \in mishaps
    BY <1>2, <2>1 DEF Agree
  <2>2. CASE \E r \in Requests : mu = r /\ req[r].prefix = p
    BY <1>1, <2>2 DEF RouteInv, Holder
  <2> QED BY <2>1, <2>2 DEF RouteInv, Drift
<1> QED BY <1>3, <1>4, <1>5 DEF RouteInv

LEMMA RestartBirdKeeps == ASSUME RouteInv, Typed', RestartBird PROVE RouteInv'
<1>1. UNCHANGED <<file, open, mu, req>> /\ mishaps \subseteq mishaps'
  BY DEF RestartBird
<1>2. \A r \in Requests : req[r].pc \in HalfWay => req[r].prefix \in mishaps'
  BY DEF RestartBird
<1>3. ASSUME NEW p \in Networks PROVE Agree(p)'
  <2>1. file \in Seq(Lines)
    BY DEF RouteInv, Typed, TypeOK
  <2>2. bird'[p] = IF LinesOf(file, p) = {} THEN None
                   ELSE file[LastOf(LinesOf(file, p))].nexthop
    BY DEF RestartBird
  <2>3. ASSUME LinesOf(file, p) # {} PROVE file[LastOf(LinesOf(file, p))].nexthop # None
    <3>1. LastOf(LinesOf(file, p)) \in LinesOf(file, p)
      BY <2>1, <2>3, LinesOfType, LastOfIsLast
    <3>2. file[LastOf(LinesOf(file, p))].nexthop \in Nexthops
      BY <3>1 DEF RouteInv, Whole, LinesOf
    <3> QED BY <3>2, NexthopsAssumption DEF Nexthops
  <2> QED BY <1>1, <2>2, <2>3 DEF Agree
<1>4. Holder' /\ Whole' /\ OneLine'
  BY <1>1 DEF RouteInv, Holder, Whole, OneLine
<1>5. MidChange'
  BY <1>1, <1>2 DEF MidChange, MidChangeOf, HalfWay
<1>6. Drift'
  BY <1>3 DEF Drift
<1> QED BY <1>4, <1>5, <1>6 DEF RouteInv

LEMMA RouteInvNext == LinesApart /\ RouteInv /\ [Next]_vars => RouteInv'
<1> SUFFICES ASSUME LinesApart, RouteInv, [Next]_vars PROVE RouteInv'
  OBVIOUS
<1> USE DEF daemon
<1>1. Typed'
  BY TypedNext DEF RouteInv
<1>2. req \in [Requests -> Handler]
  BY DEF RouteInv, Typed, TypeOK, Handler, EntryText
<1>3. ASSUME NEW r \in Requests, NEW op, NEW p, NEW n, NEW t, Receive(r, op, p, n, t)
      PROVE  RouteInv'
  <2>1. req[r].pc \notin HalfWay /\ req'[r].pc \notin HalfWay
    BY <1>2, <1>3 DEF Receive, At, HalfWay
  <2>2. \A q \in Requests : q # r => req'[q] = req[q]
    BY <1>2, <1>3 DEF Receive
  <2>3. UNCHANGED <<bird, file, open, mu, mishaps>>
    BY <1>3 DEF Receive
  <2> QED BY <1>1, <2>1, <2>2, <2>3, OutsideStep
<1>4. ASSUME NEW r \in Requests, Load(r) PROVE RouteInv'
  <2>1. req[r].pc \notin HalfWay /\ req'[r].pc \notin HalfWay
    <3>1. PICK map : req' = [req EXCEPT ![r].pc = "enter", ![r].routes = map]
      BY <1>4 DEF Load
    <3>2. req[r] \in Handler
      BY <1>2
    <3>3. req'[r].pc = "enter"
      BY <1>2, <3>1, <3>2 DEF Handler
    <3> QED BY <1>4, <3>3 DEF Load, At, HalfWay
  <2>2. \A q \in Requests : q # r => req'[q] = req[q]
    BY <1>2, <1>4 DEF Load
  <2>3. UNCHANGED <<bird, file, open, mu, mishaps>>
    BY <1>4 DEF Load
  <2> QED BY <1>1, <2>1, <2>2, <2>3, OutsideStep
<1>5. ASSUME NEW r \in Requests, Refuse(r) PROVE RouteInv'
  <2>1. /\ mu' = Nobody /\ req'[r].pc \notin HalfWay
        /\ \A q \in Requests : q # r => req'[q] = req[q]
    BY <1>5, AnswersFacts DEF Refuse
  <2>2. req[r].pc \notin HalfWay /\ UNCHANGED <<bird, file, open, mu, mishaps>>
    BY <1>5, <2>1 DEF Refuse, Enters, At, HalfWay
  <2> QED BY <1>1, <2>1, <2>2, OutsideStep
<1>6. CASE Count \/ SetGauges \/ UNCHANGED vars
  <2>1. UNCHANGED <<bird, file, open, mu, mishaps>> /\ UNCHANGED req
    BY <1>6 DEF Count, SetGauges, vars
  <2> QED BY <1>1, <2>1, OutsideStep
<1> QED
  BY <1>1, <1>3, <1>4, <1>5, <1>6, AddToBirdKeeps, AppendToFileKeeps, UndoInBirdKeeps,
     DeleteFromBirdKeeps, RemoveFromFileKeeps, CrashKeeps, RestartBirdKeeps
  DEF Next, Handle

(* DriftHasCause for any number of requests and prefixes, whatever fails or  *)
(* crashes, as long as no line is torn and no prefix begins another; a torn  *)
(* line, or a prefix that begins another, makes the file lose a route that   *)
(* BIRD still has.                                                         *)
THEOREM DriftHasCauseCorrect ==
    ASSUME LinesApart PROVE Spec => []DriftHasCause
<1>1. RouteInv => DriftHasCause
  BY DEF RouteInv, Drift, DriftHasCause, Agree, Holder
<1>2. RouteInv /\ [Next]_vars => RouteInv'
  BY RouteInvNext
<1> QED BY <1>1, <1>2, RouteInvInit, PTL DEF Spec

(* OneLinePerPrefix, likewise, with maps however old.                       *)
THEOREM OneLinePerPrefixCorrect ==
    ASSUME LinesApart PROVE Spec => []OneLinePerPrefix
<1>1. RouteInv => OneLinePerPrefix
  BY LinesOfType, OneIsAtMostOne DEF RouteInv, Typed, TypeOK, OneLine, OneLinePerPrefix
<1>2. RouteInv /\ [Next]_vars => RouteInv'
  BY RouteInvNext
<1> QED BY <1>1, <1>2, RouteInvInit, PTL DEF Spec

-----------------------------------------------------------------------------
(* The BIRD manager.  A call is made once: the list it is to write does not *)
(* change between the creation of its temporary file, which nobody else     *)
(* touches, and the end.  So whatever the order of the renames, the file    *)
(* is a beginning of the list of the call that renamed last.                *)

Replaced == {"reload"} \cup BM!Ended

(* The state of every process, and what a rename by it would put in place. *)
Shape ==
    /\ DOMAIN process = BirdProcesses /\ DOMAIN temporary = BirdProcesses
    /\ \A p \in BirdProcesses : DOMAIN process[p] = {"pc", "ops", "routes"}
Prepared ==
    \A p \in BirdProcesses : BM!At(p, "rename") => temporary[p] \in BM!Beginnings(process[p].routes)
LastReplaced ==
    last # Nothing =>
        /\ last \in BirdProcesses
        /\ process[last].pc \in Replaced
        /\ config \in BM!Beginnings(process[last].routes)
        /\ process[last].pc = "success" => BM!Loads(config)

OneScheduled == \A c, d \in scheduled : c = d

BirdInv == Shape /\ Prepared /\ LastReplaced /\ OneScheduled

LEMMA BirdInit == BM!Init => BirdInv
BY DEF BM!Init, BM!Idle, BM!At, BirdInv, Shape, Prepared, LastReplaced, OneScheduled

(* What a step of p that changes only where it is leaves of its state. *)
LEMMA GoesFacts ==
    ASSUME Shape, NEW p \in BirdProcesses, NEW pc, BM!Goes(p, pc)
    PROVE  /\ process'[p].pc = pc /\ process'[p].routes = process[p].routes
           /\ \A q \in BirdProcesses : q # p => process'[q] = process[q]
           /\ DOMAIN process' = BirdProcesses
           /\ \A q \in BirdProcesses : DOMAIN process'[q] = {"pc", "ops", "routes"}
<1>1. process' = [process EXCEPT ![p] = [process[p] EXCEPT !.pc = pc]]
  BY DEF BM!Goes
<1>2. DOMAIN process = BirdProcesses /\ DOMAIN process[p] = {"pc", "ops", "routes"}
  BY DEF Shape
<1>3. /\ process'[p] = [process[p] EXCEPT !.pc = pc] /\ DOMAIN process' = BirdProcesses
      /\ \A q \in BirdProcesses : q # p => process'[q] = process[q]
  BY <1>1, <1>2
<1>4. /\ process'[p].pc = pc /\ process'[p].routes = process[p].routes
      /\ DOMAIN process'[p] = {"pc", "ops", "routes"}
  BY <1>2, <1>3
<1> QED BY <1>3, <1>4 DEF Shape

LEMMA BirdNext == BirdInv /\ [BM!Next]_(BM!vars) => BirdInv'
<1> SUFFICES ASSUME BirdInv, [BM!Next]_(BM!vars) PROVE BirdInv'
  OBVIOUS
<1> USE DEF BM!At
<1>0. Shape /\ DOMAIN process = BirdProcesses /\ DOMAIN temporary = BirdProcesses
  BY DEF BirdInv, Shape
(* A step of a process that has not renamed yet, and does not rename. *)
<1>1. ASSUME NEW p \in BirdProcesses, UNCHANGED <<config, running, scheduled, last>>,
             process[p].pc \notin Replaced, Shape',
             \A q \in BirdProcesses : q # p => process'[q] = process[q] /\ temporary'[q] = temporary[q],
             process'[p].pc = "rename" => temporary'[p] \in BM!Beginnings(process'[p].routes)
      PROVE  BirdInv'
  <2>1. Prepared'
    BY <1>1 DEF BirdInv, Prepared
  <2>2. last # Nothing => last # p
    BY <1>1 DEF BirdInv, LastReplaced
  <2>3. LastReplaced'
    BY <1>1, <2>2 DEF BirdInv, LastReplaced, BM!Loads
  <2> QED BY <1>1, <2>1, <2>3 DEF BirdInv, OneScheduled
<1>2. ASSUME NEW p \in BirdProcesses, BM!At(p, "idle"),
             UNCHANGED <<config, temporary, running, scheduled, last>>,
             NEW pc \in {"create", "read"}, NEW ops, NEW routes,
             process' = [process EXCEPT ![p] = [pc |-> pc, ops |-> ops, routes |-> routes]]
      PROVE  BirdInv'
  <2>1. Shape' /\ process'[p].pc = pc
    BY <1>0, <1>2 DEF Shape
  <2>2. \A q \in BirdProcesses : q # p => process'[q] = process[q]
    BY <1>0, <1>2
  <2> QED BY <1>1, <1>2, <2>1, <2>2 DEF Replaced, BM!Ended
<1>3. ASSUME NEW p \in BirdProcesses, BM!Read(p) PROVE BirdInv'
  <2>1. /\ process'[p].pc \in {"create", "error"} /\ Shape'
        /\ \A q \in BirdProcesses : q # p => process'[q] = process[q]
    <3>1. CASE BM!Fails(p, "read")
      BY <1>0, <1>3, <3>1, GoesFacts DEF BM!Read, BM!Fails, Shape
    <3>2. CASE process' = [process EXCEPT ![p].pc = "create",
                                          ![p].routes = BM!Applied(process[p].ops, BM!Existing(config))]
      <4>1. process[p] = process[p] /\ DOMAIN process[p] = {"pc", "ops", "routes"}
        BY DEF BirdInv, Shape
      <4>2. /\ process'[p] = [process[p] EXCEPT !.pc = "create",
                                                !.routes = BM!Applied(process[p].ops, BM!Existing(config))]
            /\ DOMAIN process' = BirdProcesses
            /\ \A q \in BirdProcesses : q # p => process'[q] = process[q]
        BY <1>0, <3>2
      <4>3. process'[p].pc = "create" /\ DOMAIN process'[p] = {"pc", "ops", "routes"}
        BY <4>1, <4>2
      <4> QED BY <1>0, <1>3, <4>2, <4>3 DEF BM!Read, Shape
    <3> QED BY <1>3, <3>1, <3>2 DEF BM!Read
  <2> QED BY <1>1, <1>3, <2>1 DEF BM!Read, Replaced, BM!Ended
<1>4. ASSUME NEW p \in BirdProcesses, BM!Create(p) PROVE BirdInv'
  <2>1. CASE BM!Goes(p, "rename") /\ temporary'[p] \in BM!Beginnings(process[p].routes)
             /\ DOMAIN temporary' = BirdProcesses
             /\ \A q \in BirdProcesses : q # p => temporary'[q] = temporary[q]
    <3>1. /\ process'[p].routes = process[p].routes /\ Shape'
          /\ \A q \in BirdProcesses : q # p => process'[q] = process[q]
      BY <1>0, <2>1, GoesFacts DEF Shape
    <3> QED BY <1>1, <1>4, <2>1, <3>1 DEF BM!Create, Replaced, BM!Ended
  <2>2. CASE BM!Fails(p, "create") /\ UNCHANGED temporary
    <3>1. /\ process'[p].pc = "error" /\ Shape'
          /\ \A q \in BirdProcesses : q # p => process'[q] = process[q]
      BY <1>0, <2>2, GoesFacts DEF Shape, BM!Fails
    <3> QED BY <1>1, <1>4, <2>2, <3>1 DEF BM!Create, Replaced, BM!Ended
  <2>3. ASSUME NEW content, temporary' = [temporary EXCEPT ![p] = content]
        PROVE  /\ temporary'[p] = content /\ DOMAIN temporary' = BirdProcesses
               /\ \A q \in BirdProcesses : q # p => temporary'[q] = temporary[q]
    BY <1>0, <2>3
  <2>4. process[p].routes \in BM!Beginnings(process[p].routes)
    BY DEF BM!Beginnings
  <2> QED BY <1>4, <2>1, <2>2, <2>3, <2>4 DEF BM!Create
<1>5. ASSUME NEW p \in BirdProcesses, BM!Rename(p) PROVE BirdInv'
  <2>1. temporary[p] \in BM!Beginnings(process[p].routes)
    BY <1>5 DEF BirdInv, Prepared, BM!Rename
  <2>2. /\ DOMAIN temporary' = BirdProcesses
        /\ \A q \in BirdProcesses : q # p => temporary'[q] = temporary[q]
    BY <1>0, <1>5 DEF BM!Rename
  <2>3. CASE config' = temporary[p] /\ last' = p /\ BM!Goes(p, "reload")
    <3>1. /\ process'[p].pc = "reload" /\ process'[p].routes = process[p].routes /\ Shape'
          /\ \A q \in BirdProcesses : q # p => process'[q] = process[q]
      BY <1>0, <2>2, <2>3, GoesFacts DEF Shape
    <3>2. LastReplaced'
      BY <2>1, <2>3, <3>1 DEF LastReplaced, Replaced
    <3>3. Prepared'
      BY <2>2, <3>1 DEF BirdInv, Prepared
    <3>4. OneScheduled'
      BY <1>5 DEF BirdInv, OneScheduled, BM!Rename
    <3> QED BY <3>1, <3>2, <3>3, <3>4 DEF BirdInv
  <2>4. CASE BM!Fails(p, "rename") /\ UNCHANGED <<config, last>>
    <3>1. /\ process'[p].pc = "error" /\ Shape'
          /\ \A q \in BirdProcesses : q # p => process'[q] = process[q]
      BY <1>0, <2>2, <2>4, GoesFacts DEF Shape, BM!Fails
    <3> QED BY <1>1, <1>5, <2>2, <2>4, <3>1 DEF BM!Rename, Replaced, BM!Ended
  <2> QED BY <1>5, <2>3, <2>4 DEF BM!Rename
(* BIRD loads what the file says now, whoever told it to. *)
<1>6. BM!BirdReads /\ UNCHANGED config => BM!Loads(config)' /\ OneScheduled'
  BY DEF BM!BirdReads, BM!Loads, OneScheduled
<1>7. UNCHANGED <<config, running, scheduled>> =>
        OneScheduled' /\ (BM!Loads(config)' <=> BM!Loads(config))
  BY DEF BirdInv, BM!Loads, OneScheduled
<1>8. ASSUME NEW p \in BirdProcesses, BM!Reload(p) PROVE BirdInv'
  <2>1. PICK pc \in {"success", "unconfirmed", "error"} : BM!Goes(p, pc)
    BY <1>8 DEF BM!Reload, BM!Fails
  <2>2. /\ process'[p].pc = pc /\ process'[p].routes = process[p].routes /\ Shape'
        /\ \A q \in BirdProcesses : q # p => process'[q] = process[q]
    BY <1>0, <1>8, <2>1, GoesFacts DEF Shape, BM!Reload
  <2>3. UNCHANGED <<config, temporary, last>>
    BY <1>8 DEF BM!Reload
  <2>4. OneScheduled' /\ (BM!Loads(config)' \/ (pc # "success" /\ (BM!Loads(config)' <=> BM!Loads(config))))
    <3>1. BM!Goes(p, "success") => pc = "success"
      BY <1>0, <2>2, GoesFacts
    <3>2. BM!Goes(p, "unconfirmed") => pc = "unconfirmed"
      BY <1>0, <2>2, GoesFacts
    <3>3. BM!Goes(p, "error") => pc = "error"
      BY <1>0, <2>2, GoesFacts
    <3> QED BY <1>6, <1>7, <1>8, <2>3, <3>1, <3>2, <3>3 DEF BM!Reload, BM!Fails
  <2>5. LastReplaced'
    BY <2>2, <2>3, <2>4 DEF BirdInv, LastReplaced, Replaced, BM!Ended
  <2>6. Prepared'
    BY <2>2, <2>3 DEF BirdInv, Prepared
  <2> QED BY <2>2, <2>4, <2>5, <2>6 DEF BirdInv
<1>9. ASSUME NEW p \in BirdProcesses, BM!Crash(p) PROVE BirdInv'
  <2>1. /\ process'[p].pc = "lost" /\ process'[p].routes = process[p].routes /\ Shape'
        /\ \A q \in BirdProcesses : q # p => process'[q] = process[q]
    BY <1>0, <1>9, GoesFacts DEF Shape, BM!Crash
  <2>2. UNCHANGED <<config, temporary, running, scheduled, last>>
    BY <1>9 DEF BM!Crash
  <2>3. LastReplaced'
    BY <1>7, <2>1, <2>2 DEF BirdInv, LastReplaced, Replaced, BM!Ended
  <2>4. Prepared'
    BY <2>1, <2>2 DEF BirdInv, Prepared
  <2> QED BY <1>7, <2>1, <2>2, <2>3, <2>4 DEF BirdInv
<1>10. CASE BM!BirdReconfigures
  <2>1. UNCHANGED <<config, temporary, process, last>>
    BY <1>10 DEF BM!BirdReconfigures
  <2>2. BM!Loads(config) => BM!Loads(config)'
    BY <1>10, <2>1 DEF BirdInv, OneScheduled, BM!BirdReconfigures, BM!Loads
  <2>3. OneScheduled'
    BY <1>10 DEF OneScheduled, BM!BirdReconfigures
  <2> QED BY <2>1, <2>2, <2>3 DEF BirdInv, Shape, Prepared, LastReplaced
<1>11. CASE UNCHANGED BM!vars
  BY <1>11 DEF BM!vars, BirdInv, Shape, Prepared, LastReplaced, BM!Loads, OneScheduled
<1> QED
  BY <1>2, <1>3, <1>4, <1>5, <1>8, <1>9, <1>10, <1>11 DEF BM!Next, BM!CallUpdate, BM!CallBatch

(* FileIsOneList for any processes, lists, batches and faults.               *)
THEOREM FileIsOneListCorrect == BM!Spec => []FileIsOneList
<1>1. BirdInv => FileIsOneList
  BY DEF BirdInv, LastReplaced, FileIsOneList, BM!FileIsOneList
<1> QED BY <1>1, BirdInit, BirdNext, PTL DEF BM!Spec

(* DriftIsReported, likewise.  The call that replaced the file last may be   *)
(* overtaken on its way to BIRD, but whoever comes last makes BIRD read the  *)
(* file as it then is.                                                     *)
THEOREM DriftIsReportedCorrect == BM!Spec => []DriftIsReported
<1>1. BirdInv => DriftIsReported
  BY DEF BirdInv, LastReplaced, DriftIsReported, BM!DriftIsReported
<1> QED BY <1>1, BirdInit, BirdNext, PTL DEF BM!Spec

-----------------------------------------------------------------------------
(* The route lookup server.  A request deals with its addresses in order:   *)
(* the routes are about the first of them, the infos about as many or, when *)
(* one is being looked up, one less.  The infos have the origin of their    *)
(* own request; those in the cache have none.                               *)

Infos == [address : Addresses, from : RL!Names \cup {Direct}, data : RL!Data]
LookupRecords ==
    [pc : {"new", "route", "cache", "whois", "api", "answered", "refused"},
     input : RL!Names \cup Addresses \cup {Direct}, as : BOOLEAN, addresses : Seq(Addresses),
     routes : Seq([address : Addresses, ok : BOOLEAN]), infos : Seq(Infos)]
InfoSteps == {"cache", "whois", "api"}
OriginOf(q) == IF q.input \in RL!Names THEN q.input ELSE Direct

InOrder(q) ==
    /\ Len(q.routes) <= Len(q.addresses)
    /\ \A i \in 1..Len(q.routes) : q.routes[i].address = q.addresses[i]
    /\ q.pc = "route" => Len(q.routes) < Len(q.addresses)
    /\ q.pc = "answered" => Len(q.routes) = Len(q.addresses)
    /\ q.pc \in InfoSteps => q.as /\ Len(q.routes) > 0
InfosFit(q) ==
    /\ Len(q.infos) = Len(q.routes) - (IF q.pc \in InfoSteps THEN 1 ELSE 0)
    /\ \A i \in 1..Len(q.infos) :
         q.infos[i].address = q.addresses[i] /\ q.infos[i].from = OriginOf(q)
Fits(q) ==
    /\ q \in LookupRecords
    /\ q.pc \notin {"new", "refused"} => InOrder(q) /\ (q.as => InfosFit(q))
CacheFits ==
    \A a \in Addresses : cache[a] # NotCached =>
        \E data \in {"full", "empty"} : cache[a] = RL!Info(a, data)

LookupInv ==
    /\ DOMAIN request = Lookups /\ DOMAIN cache = Addresses
    /\ \A r \in Lookups : Fits(request[r])
    /\ CacheFits

LEMMA LookupInit == RL!Init => LookupInv
BY DEF RL!Init, RL!NewRequest, LookupInv, Fits, LookupRecords, CacheFits

(* A request goes on to deal with one more address, or not at all.          *)
LEMMA RouteFits ==
    ASSUME NEW q, Fits(q), q.pc = "route", NEW ok \in BOOLEAN,
           NEW a, a = q.addresses[Len(q.routes) + 1],
           NEW with, with = [q EXCEPT !.routes = Append(@, [address |-> a, ok |-> ok])],
           NEW pc, pc = IF q.as THEN "cache" ELSE RL!Onward(with)
    PROVE  Fits([with EXCEPT !.pc = pc])
<1> DEFINE to == [with EXCEPT !.pc = pc]
           n == Len(q.routes)
<1>1. /\ q \in LookupRecords /\ q.addresses \in Seq(Addresses)
      /\ q.routes \in Seq([address : Addresses, ok : BOOLEAN])
      /\ q.infos \in Seq(Infos) /\ q.as \in BOOLEAN
      /\ InOrder(q) /\ (q.as => InfosFit(q))
  BY DEF Fits, LookupRecords
<1>2. n \in Nat /\ n < Len(q.addresses) /\ Len(q.addresses) \in Nat /\ Len(q.infos) \in Nat
  BY <1>1 DEF InOrder
<1>3. a \in Addresses
  BY <1>1, <1>2
<1>4. /\ with.routes = Append(q.routes, [address |-> a, ok |-> ok])
      /\ with.addresses = q.addresses /\ with \in LookupRecords
  <2>1. PICK routes : routes = Append(q.routes, [address |-> a, ok |-> ok])
    OBVIOUS
  <2>2. routes \in Seq([address : Addresses, ok : BOOLEAN])
    BY <1>1, <1>3, <2>1
  <2>3. with = [q EXCEPT !.routes = routes]
    BY <2>1
  <2> QED BY <1>1, <2>1, <2>2, <2>3 DEF LookupRecords
<1>5. /\ Len(with.routes) = n + 1 /\ with.routes[n + 1].address = q.addresses[n + 1]
      /\ \A i \in 1..n : with.routes[i] = q.routes[i]
  BY <1>1, <1>2, <1>4
<1>6. pc = IF q.as THEN "cache" ELSE IF n + 1 < Len(q.addresses) THEN "route" ELSE "answered"
  BY <1>4, <1>5 DEF RL!Onward
<1>7. /\ to \in LookupRecords /\ to.routes = with.routes /\ to.addresses = q.addresses
      /\ to.infos = q.infos /\ to.as = q.as /\ to.input = q.input /\ to.pc = pc
  BY <1>1, <1>4, <1>6 DEF LookupRecords
<1> HIDE DEF to
<1>8. InOrder(to)
  <2>1. \A i \in 1..(n + 1) : to.routes[i].address = to.addresses[i]
    <3> SUFFICES ASSUME NEW i \in 1..(n + 1) PROVE to.routes[i].address = to.addresses[i]
      OBVIOUS
    <3>1. i = n + 1 \/ i \in 1..n
      BY <1>2
    <3> QED BY <1>1, <1>5, <1>7, <3>1 DEF InOrder
  <2> QED BY <1>2, <1>5, <1>6, <1>7, <2>1 DEF InOrder, InfoSteps
<1>9. ASSUME to.as PROVE InfosFit(to)
  <2>1. Len(q.infos) = n /\ \A i \in 1..Len(q.infos) :
          q.infos[i].address = q.addresses[i] /\ q.infos[i].from = OriginOf(q)
    BY <1>1, <1>2, <1>7, <1>9 DEF InfosFit, InfoSteps
  <2> QED BY <1>2, <1>5, <1>6, <1>7, <1>9, <2>1 DEF InfosFit, InfoSteps, OriginOf
<1> QED BY <1>7, <1>8, <1>9 DEF Fits, to

LEMMA ReportFits ==
    ASSUME NEW q, Fits(q), q.pc \in InfoSteps,
           NEW info \in Infos, info.address = q.addresses[Len(q.routes)],
           NEW done, done = [q EXCEPT !.infos = Append(@, [info EXCEPT !.from = OriginOf(q)])]
    PROVE  Fits([done EXCEPT !.pc = RL!Onward(done)])
<1> DEFINE to == [done EXCEPT !.pc = RL!Onward(done)]
           n == Len(q.routes)
           mine == [info EXCEPT !.from = OriginOf(q)]
<1>1. /\ q \in LookupRecords /\ q.addresses \in Seq(Addresses)
      /\ q.routes \in Seq([address : Addresses, ok : BOOLEAN])
      /\ q.infos \in Seq(Infos) /\ q.as = TRUE /\ n > 0
      /\ InOrder(q) /\ InfosFit(q)
  <2>1. q \in LookupRecords /\ q.pc \notin {"new", "refused"}
    BY DEF Fits, InfoSteps
  <2>2. InOrder(q) /\ (q.as => InfosFit(q))
    BY <2>1 DEF Fits
  <2>3. q.as /\ n > 0 /\ q.as \in BOOLEAN
    BY <2>1, <2>2 DEF InOrder, LookupRecords
  <2> QED BY <2>1, <2>2, <2>3 DEF LookupRecords
<1>2. n \in Nat /\ n <= Len(q.addresses) /\ Len(q.addresses) \in Nat /\ Len(q.infos) = n - 1
  BY <1>1 DEF InOrder, InfosFit, InfoSteps
<1>3. OriginOf(q) \in RL!Names \cup {Direct}
  BY DEF OriginOf
<1>4. mine \in Infos /\ mine.address = q.addresses[n] /\ mine.from = OriginOf(q)
  BY <1>3 DEF Infos
<1> HIDE DEF mine
<1>5. /\ done.routes = q.routes /\ done.addresses = q.addresses
      /\ done.infos = Append(q.infos, mine) /\ done \in LookupRecords
  <2>1. PICK infos : infos = Append(q.infos, mine)
    OBVIOUS
  <2>2. infos \in Seq(Infos)
    BY <1>1, <1>4, <2>1
  <2>3. done = [q EXCEPT !.infos = infos]
    BY <2>1 DEF mine
  <2> QED BY <1>1, <2>1, <2>2, <2>3 DEF LookupRecords
<1>6. /\ Len(done.infos) = n /\ done.infos[n] = mine
      /\ \A i \in 1..(n - 1) : done.infos[i] = q.infos[i]
  BY <1>1, <1>2, <1>4, <1>5
<1>7. RL!Onward(done) = IF n < Len(q.addresses) THEN "route" ELSE "answered"
  BY <1>5 DEF RL!Onward
<1>8. /\ to \in LookupRecords /\ to.routes = q.routes /\ to.addresses = q.addresses
      /\ to.infos = done.infos /\ to.as = q.as /\ to.input = q.input
      /\ to.pc = IF n < Len(q.addresses) THEN "route" ELSE "answered"
  BY <1>1, <1>5, <1>7 DEF LookupRecords
<1> HIDE DEF to
<1>9. InOrder(to)
  BY <1>1, <1>2, <1>8 DEF InOrder, InfoSteps
<1>10. InfosFit(to)
  <2>1. OriginOf(to) = OriginOf(q)
    BY <1>8 DEF OriginOf
  <2>2. \A i \in 1..n : to.infos[i].address = to.addresses[i] /\ to.infos[i].from = OriginOf(q)
    <3> SUFFICES ASSUME NEW i \in 1..n
                 PROVE  to.infos[i].address = to.addresses[i] /\ to.infos[i].from = OriginOf(q)
      OBVIOUS
    <3>1. i = n \/ i \in 1..(n - 1)
      BY <1>2
    <3> QED BY <1>1, <1>2, <1>4, <1>6, <1>8, <3>1 DEF InfosFit
  <2> QED BY <1>6, <1>8, <2>1, <2>2 DEF InfosFit, InfoSteps
<1> QED BY <1>8, <1>9, <1>10 DEF Fits, to

LEMMA LookupNext == LookupInv /\ [RL!Next]_(RL!vars) => LookupInv'
<1> SUFFICES ASSUME LookupInv, [RL!Next]_(RL!vars) PROVE LookupInv'
  OBVIOUS
<1> USE DEF RL!At
(* A step of r that leaves the cache alone, or puts into it what fits. *)
<1>1. ASSUME NEW r \in Lookups, NEW q, Fits(q), request' = [request EXCEPT ![r] = q],
             \/ UNCHANGED cache
             \/ \E a \in Addresses, data \in {"full", "empty"} :
                  cache' = [cache EXCEPT ![a] = RL!Info(a, data)]
      PROVE  LookupInv'
  <2>1. DOMAIN request' = Lookups /\ \A s \in Lookups : Fits(request'[s])
    BY <1>1 DEF LookupInv
  <2>2. DOMAIN cache' = Addresses /\ CacheFits'
    BY <1>1 DEF LookupInv, CacheFits
  <2> QED BY <2>1, <2>2 DEF LookupInv
<1>2. ASSUME NEW r \in Lookups, NEW pc, RL!Goes(r, pc), UNCHANGED cache,
             Fits([request[r] EXCEPT !.pc = pc])
      PROVE  LookupInv'
  BY <1>1, <1>2 DEF RL!Goes
<1>3. ASSUME NEW r \in Lookups, NEW input \in RL!Names \cup Addresses, NEW as \in BOOLEAN,
             RL!Ask(r, input, as)
      PROVE  LookupInv'
  <2> DEFINE to == [RL!NewRequest EXCEPT !.pc = "route", !.input = input, !.as = as,
                      !.addresses = IF input \in RL!Names THEN Domains[input] ELSE <<input>>]
  <2>1. CASE request' = [request EXCEPT ![r] = to]
    <3>1. /\ to.addresses \in Seq(Addresses) /\ Len(to.addresses) > 0
      <4>1. CASE input \in RL!Names
        <5>1. Domains[input] \in Seq(Addresses) /\ Domains[input] # <<>>
          BY <4>1, RouteLookupAssumption DEF RL!ConstantsOK
        <5> QED BY <4>1, <5>1 DEF RL!NewRequest
      <4>2. CASE input \notin RL!Names
        BY <4>2 DEF RL!NewRequest
      <4> QED BY <4>1, <4>2
    <3>2. /\ to.pc = "route" /\ to.input = input /\ to.as = as
          /\ to.routes = <<>> /\ to.infos = <<>> /\ to \in LookupRecords
      <4>1. PICK addresses : addresses = IF input \in RL!Names THEN Domains[input] ELSE <<input>>
        OBVIOUS
      <4>2. to = [RL!NewRequest EXCEPT !.pc = "route", !.input = input, !.as = as,
                                       !.addresses = addresses]
        BY <4>1
      <4>3. /\ RL!NewRequest \in LookupRecords
            /\ RL!NewRequest.routes = <<>> /\ RL!NewRequest.infos = <<>>
        BY DEF RL!NewRequest, LookupRecords
      <4>4. addresses \in Seq(Addresses)
        BY <3>1, <4>2, <4>3 DEF LookupRecords
      <4> HIDE DEF to
      <4> QED BY <4>2, <4>3, <4>4 DEF LookupRecords
    <3> HIDE DEF to
    <3>3. Fits(to)
      BY <3>1, <3>2 DEF Fits, InOrder, InfosFit, InfoSteps
    <3> QED BY <1>1, <1>3, <2>1, <3>3 DEF RL!Ask
  <2>2. CASE RL!Goes(r, "refused")
    <3>1. Fits([request[r] EXCEPT !.pc = "refused"])
      BY DEF LookupInv, Fits, LookupRecords
    <3> QED BY <1>2, <1>3, <2>2, <3>1 DEF RL!Ask
  <2> QED BY <1>3, <2>1, <2>2 DEF RL!Ask
<1>4. ASSUME NEW r \in Lookups, RL!GetRoute(r) PROVE LookupInv'
  <2> DEFINE with(ok) == [request[r] EXCEPT
                            !.routes = Append(@, [address |-> RL!Address(r), ok |-> ok])]
             to(ok) == [with(ok) EXCEPT
                          !.pc = IF request[r].as THEN "cache" ELSE RL!Onward(with(ok))]
  <2>1. Fits(request[r]) /\ request[r].pc = "route" /\ UNCHANGED cache
    BY <1>4 DEF LookupInv, RL!GetRoute
  <2>2. RL!Address(r) = request[r].addresses[Len(request[r].routes) + 1]
    BY <2>1 DEF RL!Address, RL!Position
  <2>3. \A ok \in BOOLEAN : Fits(to(ok))
    BY <2>1, <2>2, RouteFits
  <2>4. CASE \E ok \in BOOLEAN : request' = [request EXCEPT ![r] = to(ok)]
    <3> HIDE DEF to
    <3> QED BY <1>1, <2>1, <2>3, <2>4
  <2>5. CASE RL!Goes(r, "refused")
    <3>1. Fits([request[r] EXCEPT !.pc = "refused"])
      BY DEF LookupInv, Fits, LookupRecords
    <3> QED BY <1>2, <2>1, <2>5, <3>1
  <2> QED BY <1>4, <2>4, <2>5 DEF RL!GetRoute
(* The answer about the address at hand is given. *)
<1>5. ASSUME NEW r \in Lookups, request[r].pc \in InfoSteps, NEW info, RL!Reports(r, info),
             info \in Infos /\ info.address = RL!Address(r),
             \/ UNCHANGED cache
             \/ \E a \in Addresses, data \in {"full", "empty"} :
                  cache' = [cache EXCEPT ![a] = RL!Info(a, data)]
      PROVE  LookupInv'
  <2> DEFINE done == [request[r] EXCEPT
                        !.infos = Append(@, [info EXCEPT !.from = OriginOf(request[r])])]
             to == [done EXCEPT !.pc = RL!Onward(done)]
  <2>1. Fits(request[r])
    BY DEF LookupInv
  <2>2. RL!Address(r) = request[r].addresses[Len(request[r].routes)]
    <3>1. request[r].routes \in Seq([address : Addresses, ok : BOOLEAN])
      BY <2>1 DEF Fits, LookupRecords
    <3>2. request[r].pc # "route" /\ Len(request[r].routes) \in Nat
      BY <1>5, <3>1 DEF InfoSteps
    <3>3. RL!Position(r) = Len(request[r].routes)
      BY <3>2 DEF RL!Position
    <3> QED BY <3>3 DEF RL!Address
  <2>3. Fits(to)
    BY <1>5, <2>1, <2>2, ReportFits
  <2>4. request' = [request EXCEPT ![r] = to]
    BY <1>5 DEF RL!Reports, RL!Origin, OriginOf
  <2> HIDE DEF to
  <2> QED BY <1>1, <1>5, <2>3, <2>4
<1>6. ASSUME NEW r \in Lookups, request[r].pc \in InfoSteps
      PROVE  /\ RL!Address(r) \in Addresses
             /\ \A pc \in InfoSteps : Fits([request[r] EXCEPT !.pc = pc])
  <2> DEFINE q == request[r]
  <2>1. q \in LookupRecords /\ q.pc \notin {"new", "refused"}
    BY <1>6 DEF LookupInv, Fits, InfoSteps
  <2>2. Fits(q)
    BY DEF LookupInv
  <2>3. InOrder(q) /\ (q.as => InfosFit(q))
    BY <2>1, <2>2 DEF Fits
  <2>4. /\ q.addresses \in Seq(Addresses)
        /\ q.routes \in Seq([address : Addresses, ok : BOOLEAN])
    BY <2>1 DEF LookupRecords
  <2>5. RL!Position(r) \in 1..Len(q.addresses)
    <3>1. /\ request[r].pc # "route" /\ Len(q.routes) \in Nat /\ Len(q.addresses) \in Nat
          /\ Len(q.routes) > 0 /\ Len(q.routes) <= Len(q.addresses)
      BY <1>6, <2>3, <2>4 DEF InOrder, InfoSteps
    <3>2. RL!Position(r) = Len(q.routes)
      BY <3>1 DEF RL!Position
    <3> QED BY <3>1, <3>2
  <2>6. ASSUME NEW pc \in InfoSteps PROVE Fits([q EXCEPT !.pc = pc])
    <3> DEFINE to == [q EXCEPT !.pc = pc]
    <3>1. /\ to \in LookupRecords /\ to.pc = pc /\ to.routes = q.routes /\ to.infos = q.infos
          /\ to.addresses = q.addresses /\ to.as = q.as /\ to.input = q.input
      BY <2>1, <2>6 DEF LookupRecords, InfoSteps
    <3> HIDE DEF to
    <3>2. InOrder(to)
      BY <1>6, <2>3, <2>6, <3>1 DEF InOrder, InfoSteps
    <3>3. to.as => InfosFit(to)
      BY <1>6, <2>3, <2>6, <3>1 DEF InfosFit, OriginOf
    <3> QED BY <3>1, <3>2, <3>3 DEF Fits, to
  <2> QED BY <2>4, <2>5, <2>6 DEF RL!Address
<1>7. ASSUME NEW a \in Addresses, NEW data \in RL!Data
      PROVE  RL!Info(a, data) \in Infos /\ RL!Info(a, data).address = a
  BY DEF RL!Info, Infos
<1>8. ASSUME NEW r \in Lookups, RL!ReadCache(r) PROVE LookupInv'
  <2>1. request[r].pc \in InfoSteps /\ UNCHANGED cache
    BY <1>8 DEF RL!ReadCache, InfoSteps
  <2>2. CASE cache[RL!Address(r)] = NotCached
    BY <1>2, <1>6, <1>8, <2>1, <2>2 DEF RL!ReadCache, InfoSteps
  <2>3. CASE cache[RL!Address(r)] # NotCached
    <3>1. PICK data \in {"full", "empty"} : cache[RL!Address(r)] = RL!Info(RL!Address(r), data)
      BY <1>6, <2>1, <2>3 DEF LookupInv, CacheFits
    <3>2. /\ cache[RL!Address(r)] \in Infos
          /\ cache[RL!Address(r)].address = RL!Address(r)
      BY <1>6, <1>7, <2>1, <3>1 DEF RL!Data
    <3>3. RL!Reports(r, cache[RL!Address(r)])
      BY <1>8, <2>3 DEF RL!ReadCache
    <3> QED BY <1>5, <2>1, <3>2, <3>3
  <2> QED BY <2>2, <2>3
<1>9. ASSUME NEW r \in Lookups, request[r].pc \in InfoSteps, NEW data \in {"full", "empty"},
             RL!Save(r, RL!Info(RL!Address(r), data))
      PROVE  LookupInv'
  <2>1. /\ RL!Info(RL!Address(r), data) \in Infos
        /\ RL!Info(RL!Address(r), data).address = RL!Address(r)
    BY <1>6, <1>7, <1>9 DEF RL!Data
  <2> QED BY <1>5, <1>6, <1>9, <2>1 DEF RL!Save
<1>10. ASSUME NEW r \in Lookups, RL!Whois(r) PROVE LookupInv'
  <2>1. request[r].pc \in InfoSteps
    BY <1>10 DEF RL!Whois, InfoSteps
  <2>2. CASE \E data \in {"full", "empty"} : RL!Save(r, RL!Info(RL!Address(r), data))
    BY <1>9, <2>1, <2>2
  <2>3. CASE RL!Goes(r, "api") /\ UNCHANGED cache
    BY <1>2, <1>6, <2>1, <2>3 DEF InfoSteps
  <2> QED BY <1>10, <2>2, <2>3 DEF RL!Whois
<1>11. ASSUME NEW r \in Lookups, RL!Api(r) PROVE LookupInv'
  <2>1. request[r].pc \in InfoSteps
    BY <1>11 DEF RL!Api, InfoSteps
  <2>2. CASE RL!Save(r, RL!Info(RL!Address(r), "full"))
    BY <1>9, <2>1, <2>2
  <2>3. CASE RL!Reports(r, RL!Info(RL!Address(r), "error")) /\ UNCHANGED cache
    <3>1. /\ RL!Info(RL!Address(r), "error") \in Infos
          /\ RL!Info(RL!Address(r), "error").address = RL!Address(r)
      BY <1>6, <1>7, <2>1 DEF RL!Data
    <3> QED BY <1>5, <2>1, <2>3, <3>1
  <2> QED BY <1>11, <2>2, <2>3 DEF RL!Api
<1>12. CASE UNCHANGED RL!vars
  BY <1>12 DEF RL!vars, LookupInv, CacheFits
<1> QED BY <1>3, <1>4, <1>8, <1>10, <1>11, <1>12 DEF RL!Next

LEMMA SequenceIsFunction ==
    ASSUME NEW S, NEW t \in Seq(S)
    PROVE  t = [i \in 1..Len(t) |-> t[i]]
OBVIOUS

(* AnswersFit for any requests, names and addresses, whatever of the         *)
(* lookups fails and in whatever order the requests read and fill the cache. *)
THEOREM AnswersFitCorrect == RL!Spec => []AnswersFit
<1>1. LookupInv => AnswersFit
  <2> SUFFICES ASSUME LookupInv PROVE AnswersFit
    OBVIOUS
  <2>1. ASSUME NEW r \in Lookups, RL!At(r, "answered")
        PROVE  /\ [i \in DOMAIN request[r].routes |-> request[r].routes[i].address]
                    = request[r].addresses
               /\ request[r].as =>
                    request[r].infos = [i \in DOMAIN request[r].addresses |->
                      [address |-> request[r].addresses[i], from |-> RL!Origin(r),
                       data |-> request[r].infos[i].data]]
    <3> DEFINE q == request[r]
               n == Len(q.addresses)
    <3>1. Fits(q) /\ q.pc = "answered"
      BY <2>1 DEF LookupInv, RL!At
    <3>2. /\ InOrder(q) /\ (q.as => InfosFit(q))
          /\ q.addresses \in Seq(Addresses) /\ q.infos \in Seq(Infos)
          /\ q.routes \in Seq([address : Addresses, ok : BOOLEAN])
      BY <3>1 DEF Fits, LookupRecords
    <3>3. Len(q.routes) = n /\ n \in Nat
      BY <3>1, <3>2 DEF InOrder
    <3>4. DOMAIN q.routes = 1..n /\ DOMAIN q.addresses = 1..n
      BY <3>2, <3>3
    <3>5. [i \in DOMAIN q.routes |-> q.routes[i].address] = q.addresses
      <4>1. \A i \in 1..n : q.routes[i].address = q.addresses[i]
        BY <3>2, <3>3 DEF InOrder
      <4>2. q.addresses = [i \in 1..n |-> q.addresses[i]]
        BY <3>2, SequenceIsFunction
      <4> QED BY <3>4, <4>1, <4>2
    <3>6. ASSUME q.as
          PROVE  q.infos = [i \in DOMAIN q.addresses |->
                              [address |-> q.addresses[i], from |-> RL!Origin(r),
                               data |-> q.infos[i].data]]
      <4>1. Len(q.infos) = n /\ DOMAIN q.infos = 1..n
        BY <3>1, <3>2, <3>3, <3>6 DEF InfosFit, InfoSteps
      <4>2. ASSUME NEW i \in 1..n
            PROVE  q.infos[i] = [address |-> q.addresses[i], from |-> RL!Origin(r),
                                 data |-> q.infos[i].data]
        <5>1. q.infos[i] \in Infos
          BY <3>2, <4>1
        <5>2. q.infos[i].address = q.addresses[i] /\ q.infos[i].from = RL!Origin(r)
          BY <3>2, <3>6, <4>1 DEF InfosFit, RL!Origin, OriginOf
        <5> QED BY <5>1, <5>2 DEF Infos
      <4>3. q.infos = [i \in 1..n |-> q.infos[i]]
        BY <3>2, <4>1, SequenceIsFunction
      <4> QED BY <3>4, <4>2, <4>3
    <3> QED BY <3>5, <3>6
  <2>2. ASSUME NEW a \in Addresses, cache[a] # NotCached
        PROVE  cache[a].address = a /\ cache[a].from = Direct /\ cache[a].data # "error"
    BY <2>2 DEF LookupInv, CacheFits, RL!Info
  <2> QED BY <2>1, <2>2 DEF AnswersFit, RL!AnswersFit
<1> QED BY <1>1, LookupInit, LookupNext, PTL DEF RL!Spec

-----------------------------------------------------------------------------
(* The programs rest while one of them runs: whatever is proved of each of  *)
(* the three specifications holds of the behaviours that are checked.       *)
THEOREM ToolsStandAlone == ToolsSpec => Spec /\ BM!Spec /\ RL!Spec
<1>1. ToolsInit => Init /\ BM!Init /\ RL!Init
  BY DEF ToolsInit
<1>2. [ToolsNext]_all => [Next]_vars /\ [BM!Next]_(BM!vars) /\ [RL!Next]_(RL!vars)
  <2> SUFFICES ASSUME [ToolsNext]_all
               PROVE  [Next]_vars /\ [BM!Next]_(BM!vars) /\ [RL!Next]_(RL!vars)
    OBVIOUS
  <2>1. UNCHANGED bird_vars <=> UNCHANGED BM!vars
    BY DEF bird_vars, BM!vars
  <2>2. UNCHANGED lookup_vars <=> UNCHANGED RL!vars
    BY DEF lookup_vars, RL!vars
  <2>3. UNCHANGED all => UNCHANGED vars /\ UNCHANGED bird_vars /\ UNCHANGED lookup_vars
    BY DEF all
  <2>4. ASSUME ToolsNext PROVE [Next]_vars /\ [BM!Next]_(BM!vars) /\ [RL!Next]_(RL!vars)
    BY <2>1, <2>2, <2>4 DEF ToolsNext
  <2> QED BY <2>1, <2>2, <2>3, <2>4
<1> QED BY <1>1, <1>2, PTL DEF ToolsSpec, Spec, BM!Spec, RL!Spec
=============================================================================
