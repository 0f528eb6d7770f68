------------------------- MODULE Forwarding_proofs -------------------------
(***************************************************************************)
(* Theorems about Forwarding, for every size of buffers and segments, any  *)
(* policies, records and histories: what is written to the target is what  *)
(* was read, cut as promised, and decoy and response timer come at their   *)
(* time.                                                                   *)
(*                                                                         *)
(* Typed is the ground: types, an untouched session before it begins, and  *)
(* how far reading and writing are apart at each point of StreamForward.   *)
(* On it stand, one by one, the order of the bytes (InOrderOnce), what the *)
(* fragmenter has counted (Cutting), what the inspection has seen           *)
(* (Inspecting), the decoy (Decoying), the ring (Ringing) and the answers   *)
(* (Answering).                                                            *)
(***************************************************************************)
EXTENDS Forwarding, SequenceTheorems, WellFoundedInduction, TLAPS

Fresh ==
    stage = "handshake" =>
        /\ policy = NoPolicy
        /\ forward = [pc |-> "idle", read |-> 0, written |-> 0]
        /\ inspection = [buffered |-> 0, done |-> FALSE, candidate |-> FALSE, probing |-> FALSE]
        /\ fragmenter = NewFragmenter
        /\ wire = <<>> /\ decoys = <<>> /\ captured = <<>> /\ ring = <<>>
        /\ reverse = [pc |-> "idle", read |-> 0, written |-> 0]
        /\ conn = [client |-> "open", target |-> "open"]
        /\ waiter = "off"

Progress ==
    /\ forward.written <= forward.read /\ forward.read <= client.sent
    /\ forward.pc \in {"idle", "read", "ended"} => forward.written = forward.read
    /\ forward.pc \in {"inject", "write", "fragment"} => forward.written < forward.read

Typed == TypeOK /\ Fresh /\ Progress

LEMMA Sizes ==
    /\ ReadSize \in Nat \ {0} /\ TlsBufferSize \in Nat \ {0} /\ HeaderSize \in Nat \ {0}
    /\ FragmentSize \in Nat \ {0} /\ RingSize \in Nat \ {0} /\ InitialFragSize \in Nat
    /\ MaxBytes \in Nat /\ MaxAnswers \in Nat /\ MaxCaptures \in Nat
BY SizesAssumption

(* Kept takes a sequence to one that is no longer than the ring. *)
LEMMA KeptType ==
    ASSUME NEW S, NEW s \in Seq(S)
    PROVE  Kept(s) \in Seq(S)
<1>1. CASE Len(s) > RingSize
  <2>1. SubSeq(s, Len(s) - RingSize + 1, Len(s)) \in Seq(S)
    BY <1>1, Sizes, SubSeqProperties
  <2> QED BY <1>1, <2>1 DEF Kept
<1>2. CASE ~(Len(s) > RingSize)
  BY <1>2 DEF Kept
<1> QED BY <1>1, <1>2

(* Lookup finds a match if there is one.  Matching is a set of indexes, so *)
(* it has a least element.                                                 *)
LEMMA LeastMatch ==
    ASSUME ring \in Seq({"mine", "stale", "other"}), Matching # {}
    PROVE  \E i \in Matching : \A j \in Matching : i <= j
<1>1. Matching \subseteq Nat
  BY DEF Matching
<1>2. IsWellFoundedOn(OpToRel(<, Nat), Nat)
  BY NatLessThanWellFounded
<1>3. PICK i \in Matching : \A j \in Matching : ~(<<j, i>> \in OpToRel(<, Nat))
  BY <1>1, <1>2, WFMin
<1>4. \A j \in Matching : ~(j < i)
  BY <1>1, <1>3 DEF OpToRel
<1> QED BY <1>1, <1>4

LEMMA LookupMatches ==
    ASSUME ring \in Seq({"mine", "stale", "other"}), Matching # {}
    PROVE  /\ Lookup \in {"mine", "stale"}
           /\ \E i \in DOMAIN ring : Lookup = ring[i]
<1>1. PICK i \in Matching : \A j \in Matching : i <= j
  BY LeastMatch
<1>2. Lookup = ring[CHOOSE k \in Matching : \A j \in Matching : k <= j]
  BY DEF Lookup
<1> QED BY <1>1, <1>2 DEF Matching

(* The length of the chunk to be cut off: positive, and within all limits. *)
Chunk == Least({FragmentSize, InitialFragSize - fragmenter.sent, forward.read - forward.written})

LEMMA ChunkSize ==
    ASSUME Typed, forward.pc = "fragment", ShouldFragment
    PROVE  /\ Chunk \in Nat \ {0}
           /\ Chunk <= FragmentSize
           /\ Chunk <= InitialFragSize - fragmenter.sent
           /\ Chunk <= forward.read - forward.written
<1> DEFINE a == FragmentSize
           b == InitialFragSize - fragmenter.sent
           c == forward.read - forward.written
           S == {a, b, c}
<1>1. a \in Nat \ {0} /\ b \in Nat \ {0} /\ c \in Nat \ {0}
  BY Sizes DEF Typed, TypeOK, Progress, ShouldFragment
<1>2. Chunk = CHOOSE m \in S : \A n \in S : m <= n
  BY DEF Chunk, Least
<1> HIDE DEF a, b, c
<1>3. \E m \in S : \A n \in S : m <= n
  <2>1. CASE a <= b /\ a <= c
    BY <1>1, <2>1
  <2>2. CASE b <= a /\ b <= c
    BY <1>1, <2>2
  <2>3. CASE c <= a /\ c <= b
    BY <1>1, <2>3
  <2> QED BY <1>1, <2>1, <2>2, <2>3
<1>4. Chunk \in S /\ \A n \in S : Chunk <= n
  BY <1>2, <1>3
<1>5. Chunk <= a /\ Chunk <= b /\ Chunk <= c /\ Chunk \in {a, b, c}
  BY <1>4
<1>6. Chunk \in Nat \ {0}
  BY <1>1, <1>5
<1> QED BY <1>5, <1>6 DEF a, b, c

-----------------------------------------------------------------------------
(* Types and progress *)

LEMMA TypedInit == Init => Typed
<1> SUFFICES ASSUME Init PROVE Typed
  OBVIOUS
<1>1. /\ NoPolicy \in Policies \cup {NoPolicy} /\ NoRecord \in Records \cup {NoRecord}
      /\ <<>> \in Seq(Segments) /\ <<>> \in Seq([at : Nat, entry : {"mine", "stale", "other"}])
      /\ <<>> \in Seq({"mine", "stale", "other"})
  OBVIOUS
<1>2. /\ forward \in [pc : {"idle", "read", "inject", "write", "fragment", "ended", "failed"},
                      read : Nat, written : Nat]
      /\ inspection \in [buffered : 0..TlsBufferSize, done : BOOLEAN, candidate : BOOLEAN,
                         probing : BOOLEAN]
  BY Sizes DEF Init
<1>3. /\ client \in [sent : 0..MaxBytes, end : {"open", "finished", "gone"}]
      /\ target \in [sent : 0..MaxAnswers, end : {"open", "finished", "gone"}]
      /\ fragmenter \in [enabled : BOOLEAN, sent : 0..InitialFragSize]
  BY Sizes DEF Init, NewFragmenter
<1>4. TypeOK
  BY <1>1, <1>2, <1>3 DEF Init, TypeOK
<1> QED BY <1>4 DEF Init, Typed, Fresh, Progress

(* Writing the next n bytes. *)
LEMMA WrittenTyped ==
    ASSUME Typed, NEW n \in Nat \ {0}, n <= forward.read - forward.written,
           forward.pc \in {"write", "fragment"}, Written(n),
           fragmenter' \in [enabled : BOOLEAN, sent : 0..InitialFragSize]
    PROVE  Typed'
<1> USE DEF Typed
<1> DEFINE last == forward.written + n = forward.read
<1>1. wire' \in Seq(Segments)
  BY DEF Written, TypeOK, Segments
<1>2. /\ forward' \in [pc : {"idle", "read", "inject", "write", "fragment", "ended", "failed"},
                       read : Nat, written : Nat]
      /\ forward'.read = forward.read /\ forward'.written = forward.written + n
      /\ last => forward'.pc = "read"
      /\ ~last => forward'.pc = forward.pc
  <2>1. forward \in [pc : {"idle", "read", "inject", "write", "fragment", "ended", "failed"},
                     read : Nat, written : Nat]
    BY DEF TypeOK
  <2>2. CASE last
    <3>1. forward' = [forward EXCEPT !.written = @ + n, !.pc = "read"]
      BY <2>2 DEF Written
    <3> QED BY <2>1, <2>2, <3>1
  <2>3. CASE ~last
    <3>1. forward' = [forward EXCEPT !.written = forward.written + n, !.pc = forward.pc]
      BY <2>3 DEF Written
    <3>2. /\ forward'.pc = forward.pc /\ forward'.read = forward.read
          /\ forward'.written = forward.written + n
      BY <2>1, <3>1
    <3>3. forward.written + n \in Nat
      BY <2>1
    <3>4. forward' \in [pc : {"idle", "read", "inject", "write", "fragment", "ended", "failed"},
                        read : Nat, written : Nat]
      BY <2>1, <3>1, <3>3
    <3> QED BY <2>3, <3>2, <3>4
  <2> QED BY <2>2, <2>3
<1>3. inspection' \in [buffered : 0..TlsBufferSize, done : BOOLEAN, candidate : BOOLEAN,
                       probing : BOOLEAN]
  BY DEF Written, TypeOK
<1>4. waiter' \in {"off", "waiting", "ended", "closed"}
  BY DEF Written, TypeOK
<1>5. stage' = stage /\ stage # "handshake"
  BY DEF Written, Fresh
<1>6. Progress'
  <2>1. /\ client' = client /\ forward.written \in Nat /\ forward.read \in Nat
        /\ client.sent \in Nat
    BY DEF Written, TypeOK
  <2> QED BY <1>2, <2>1 DEF Progress
<1>7. TypeOK'
  BY <1>1, <1>2, <1>3, <1>4 DEF Written, TypeOK
<1> QED BY <1>5, <1>6, <1>7 DEF Fresh

(* Reading n bytes. *)
ForwardRecords ==
    [pc : {"idle", "read", "inject", "write", "fragment", "ended", "failed"},
     read : Nat, written : Nat]
InspectionRecords ==
    [buffered : 0..TlsBufferSize, done : BOOLEAN, candidate : BOOLEAN, probing : BOOLEAN]

LEMMA InspectedFields ==
    ASSUME Typed, NEW n \in Nat
    PROVE  /\ Inspected(n) \in InspectionRecords
           /\ Inspected(n).buffered = IF Buffers(n) THEN inspection.buffered + n
                                                    ELSE inspection.buffered
           /\ Inspected(n).done <=>
                \/ inspection.done \/ ~Buffers(n) \/ Complete(n)
                \/ inspection.buffered + n >= HeaderSize /\ ~record.tls
           /\ Inspected(n).candidate <=> Complete(n) /\ record.decodes /\ policy.probes
           /\ Inspected(n).probing = inspection.probing
<1> DEFINE buffered == IF Buffers(n) THEN inspection.buffered + n ELSE inspection.buffered
           done == \/ inspection.done \/ ~Buffers(n) \/ Complete(n)
                   \/ inspection.buffered + n >= HeaderSize /\ ~record.tls
           candidate == Complete(n) /\ record.decodes /\ policy.probes
<1>1. inspection \in InspectionRecords
  BY DEF Typed, TypeOK, InspectionRecords
<1>2. buffered \in 0..TlsBufferSize
  BY <1>1, Sizes DEF Buffers, InspectionRecords
<1>3. done \in BOOLEAN /\ candidate \in BOOLEAN
  OBVIOUS
<1>4. Inspected(n) = [inspection EXCEPT !.buffered = buffered, !.done = done,
                                        !.candidate = candidate]
  BY DEF Inspected
<1> HIDE DEF buffered, done, candidate
<1>5. /\ Inspected(n) \in InspectionRecords
      /\ Inspected(n).buffered = buffered /\ Inspected(n).done = done
      /\ Inspected(n).candidate = candidate /\ Inspected(n).probing = inspection.probing
  BY <1>1, <1>2, <1>3, <1>4 DEF InspectionRecords
<1> QED BY <1>5 DEF buffered, done, candidate

LEMMA ReadFields ==
    ASSUME Typed, NEW n \in Nat \ {0}, Read(n)
    PROVE  /\ forward' \in ForwardRecords
           /\ forward'.read = forward.read + n /\ forward'.written = forward.written
           /\ forward'.pc \in {"inject", "fragment", "write"}
           /\ forward'.pc = "inject" <=> Injects(n)
           /\ forward'.pc = "write" /\ ~Injects(n) => ~(policy.fragments /\ ShouldFragment)
           /\ inspection' = Inspected(n)
<1> DEFINE next == IF Injects(n) THEN "inject"
                   ELSE IF policy.fragments /\ ShouldFragment THEN "fragment" ELSE "write"
<1>1. forward \in ForwardRecords
  BY DEF Typed, TypeOK, ForwardRecords
<1>2. /\ next \in {"inject", "fragment", "write"}
      /\ next = "inject" <=> Injects(n)
      /\ next = "write" /\ ~Injects(n) => ~(policy.fragments /\ ShouldFragment)
  OBVIOUS
<1>3. forward' = [forward EXCEPT !.read = forward.read + n, !.pc = next]
  BY DEF Read
<1>4. inspection' = Inspected(n)
  BY DEF Read
<1> HIDE DEF next
<1>5. /\ forward'.read = forward.read + n /\ forward'.written = forward.written
      /\ forward'.pc = next
  BY <1>1, <1>3 DEF ForwardRecords
<1>6. forward.read + n \in Nat
  BY <1>1 DEF ForwardRecords
<1>7. forward' \in ForwardRecords
  BY <1>1, <1>2, <1>3, <1>6 DEF ForwardRecords
<1> QED BY <1>2, <1>4, <1>5, <1>7

LEMMA TypedNext == Typed /\ [Next]_vars => Typed'
<1> SUFFICES ASSUME Typed, [Next]_vars PROVE Typed'
  OBVIOUS
<1> USE DEF Typed
<1>1. ASSUME NEW p \in Policies, Begin(p) PROVE Typed'
  <2>1. /\ captured' \in Seq({"stale", "other"})
        /\ captured' \in Seq({"mine", "stale", "other"})
    <3>1. captured' \in (IF p.decoys THEN Histories ELSE {<<>>})
      BY <1>1 DEF Begin
    <3>2. captured' \in Histories \/ captured' = <<>>
      BY <3>1
    <3>3. captured' \in Seq({"stale", "other"})
      <4>1. <<>> \in Seq({"stale", "other"})
        OBVIOUS
      <4> QED BY <3>2, <4>1, HistoriesAssumption
    <3>4. \A s \in Seq({"stale", "other"}) : s \in Seq({"mine", "stale", "other"})
      OBVIOUS
    <3> QED BY <3>3, <3>4
  <2>2. ring' \in Seq({"mine", "stale", "other"})
    BY <1>1, <2>1, KeptType DEF Begin
  <2>3. forward = [pc |-> "idle", read |-> 0, written |-> 0]
    BY <1>1 DEF Begin, Fresh
  <2>4. /\ forward' = [pc |-> "read", read |-> 0, written |-> 0]
        /\ forward' \in ForwardRecords
    BY <1>1, <2>3 DEF Begin, ForwardRecords
  <2>5. reverse' \in [pc : {"idle", "read", "write", "ended"}, read : Nat, written : Nat]
    BY <1>1 DEF Begin, TypeOK
  <2>6. /\ stage' = "streams" /\ policy' \in Policies /\ record' \in Records
        /\ client' \in [sent : 0..MaxBytes, end : {"open", "finished", "gone"}]
        /\ target' \in [sent : 0..MaxAnswers, end : {"open", "finished", "gone"}]
    BY <1>1 DEF Begin
  <2>7. TypeOK'
    BY <1>1, <2>1, <2>2, <2>4, <2>5, <2>6 DEF Begin, TypeOK, ForwardRecords
  <2>8. Progress'
    BY <2>4, <2>6, Sizes DEF Progress
  <2> QED BY <2>6, <2>7, <2>8 DEF Fresh
<1>2. ASSUME NEW end \in {"finished", "gone"}, ClientEnds(end) PROVE Typed'
  <2>1. TypeOK'
    BY <1>2 DEF ClientEnds, TypeOK
  <2>2. Fresh'
    BY <1>2 DEF ClientEnds, Fresh
  <2>3. Progress'
    BY <1>2 DEF ClientEnds, Progress
  <2> QED BY <2>1, <2>2, <2>3
<1>3. ASSUME NEW end \in {"finished", "gone"}, TargetEnds(end) PROVE Typed'
  <2>1. TypeOK'
    <3>1. target' \in [sent : 0..MaxAnswers, end : {"open", "finished", "gone"}]
      BY <1>3 DEF TargetEnds, TypeOK
    <3> QED BY <1>3, <3>1 DEF TargetEnds, TypeOK
  <2>2. Fresh'
    BY <1>3 DEF TargetEnds, Fresh
  <2>3. Progress'
    BY <1>3 DEF TargetEnds, Progress
  <2> QED BY <2>1, <2>2, <2>3
<1>4. ASSUME NEW e \in {"mine", "other"}, Capture(e) PROVE Typed'
  <2>1. /\ captured' = Append(captured, e)
        /\ ring' = Kept(Append(ring, e))
    BY <1>4 DEF Capture, Appended
  <2>2. /\ Append(captured, e) \in Seq({"mine", "stale", "other"})
        /\ Append(ring, e) \in Seq({"mine", "stale", "other"})
    BY DEF TypeOK
  <2>3. ring' \in Seq({"mine", "stale", "other"})
    BY <2>1, <2>2, KeptType
  <2>4. TypeOK'
    BY <1>4, <2>1, <2>2, <2>3 DEF Capture, TypeOK, streams
  <2>5. Fresh'
    BY <1>4 DEF Capture, Fresh
  <2>6. Progress'
    BY <1>4 DEF Capture, Progress, streams
  <2> QED BY <2>4, <2>5, <2>6
<1>5. ASSUME NEW n \in 1..MaxBytes, Read(n) PROVE Typed'
  <2>1. n \in Nat \ {0} /\ n \in Nat
    BY Sizes
  <2>2. inspection' \in InspectionRecords
    BY <1>5, <2>1, ReadFields, InspectedFields
  <2>3. TypeOK'
    <3>1. forward' \in ForwardRecords
      BY <1>5, <2>1, ReadFields
    <3> QED BY <1>5, <2>2, <3>1 DEF Read, TypeOK, ForwardRecords, InspectionRecords
  <2>4. forward.pc = "read" /\ stage' = stage /\ client' = client /\ n <= client.sent - forward.read
    BY <1>5 DEF Read
  <2>5. forward.read \in Nat /\ forward.written \in Nat /\ client.sent \in Nat
    BY DEF TypeOK
  <2>6. Progress'
    BY <1>5, <2>1, <2>4, <2>5, ReadFields DEF Progress
  <2> QED BY <2>3, <2>4, <2>6 DEF Fresh
<1>6. CASE ReadEnds
  <2>1. TypeOK'
    <3>1. /\ forward' \in ForwardRecords
          /\ conn' \in [client : {"open", "closed"}, target : {"open", "closed"}]
      BY <1>6 DEF ReadEnds, TypeOK, ForwardRecords
    <3> QED BY <1>6, <3>1 DEF ReadEnds, TypeOK, ForwardRecords
  <2>2. Fresh'
    BY <1>6 DEF ReadEnds, Fresh
  <2>3. Progress'
    BY <1>6 DEF ReadEnds, Progress
  <2> QED BY <2>1, <2>2, <2>3
<1>7. CASE Inject
  <2>1. decoys' \in Seq([at : Nat, entry : {"mine", "stale", "other"}])
    <3>1. CASE UNCHANGED decoys
      BY <3>1 DEF TypeOK
    <3>2. CASE decoys' = Append(decoys, [at |-> forward.written, entry |-> Lookup]) /\ Matching # {}
      <4>1. ring \in Seq({"mine", "stale", "other"}) /\ forward.written \in Nat
        BY DEF TypeOK
      <4>2. Lookup \in {"mine", "stale"}
        BY <3>2, <4>1, LookupMatches
      <4>3. [at |-> forward.written, entry |-> Lookup] \in [at : Nat, entry : {"mine", "stale", "other"}]
        BY <4>1, <4>2
      <4> QED BY <3>2, <4>3 DEF TypeOK
    <3> QED BY <1>7, <3>1, <3>2 DEF Inject
  <2>2. TypeOK'
    <3>1. forward' \in ForwardRecords
      BY <1>7 DEF Inject, TypeOK, ForwardRecords
    <3> QED BY <1>7, <2>1, <3>1 DEF Inject, TypeOK, ForwardRecords
  <2>3. Fresh'
    BY <1>7 DEF Inject, Fresh
  <2>4. Progress'
    BY <1>7 DEF Inject, Progress, TypeOK
  <2> QED BY <2>2, <2>3, <2>4
<1>8. CASE Write
  <2>1. forward.read - forward.written \in Nat \ {0}
    BY <1>8 DEF Write, Progress, TypeOK
  <2>2. /\ Written(forward.read - forward.written) /\ forward.pc \in {"write", "fragment"}
        /\ forward.read - forward.written <= forward.read - forward.written
        /\ fragmenter' \in [enabled : BOOLEAN, sent : 0..InitialFragSize]
    BY <1>8 DEF Write, TypeOK
  <2> QED BY <2>1, <2>2, WrittenTyped
<1>9. CASE WriteChunk
  <2>1. /\ Written(Chunk) /\ forward.pc = "fragment" /\ ShouldFragment
        /\ fragmenter' = [fragmenter EXCEPT !.sent = @ + Chunk]
    BY <1>9 DEF WriteChunk, Chunk
  <2>2. fragmenter' \in [enabled : BOOLEAN, sent : 0..InitialFragSize]
    <3> DEFINE n == Chunk
    <3>1. n \in Nat \ {0} /\ n <= InitialFragSize - fragmenter.sent
      BY <2>1, ChunkSize
    <3>2. fragmenter' = [fragmenter EXCEPT !.sent = @ + n]
      BY <2>1
    <3> HIDE DEF n
    <3>3. fragmenter \in [enabled : BOOLEAN, sent : 0..InitialFragSize]
      BY DEF TypeOK
    <3>4. fragmenter.sent + n \in 0..InitialFragSize
      BY <3>1, <3>3, Sizes
    <3> QED BY <3>2, <3>3, <3>4
  <2>3. Chunk \in Nat \ {0} /\ Chunk <= forward.read - forward.written
    BY <2>1, ChunkSize
  <2> QED BY <2>1, <2>2, <2>3, WrittenTyped
<1>10. CASE WriteRest
  <2>1. forward.read - forward.written \in Nat \ {0}
    BY <1>10 DEF WriteRest, Progress, TypeOK
  <2>2. fragmenter' \in [enabled : BOOLEAN, sent : 0..InitialFragSize]
    BY <1>10 DEF WriteRest, TypeOK
  <2>3. /\ Written(forward.read - forward.written) /\ forward.pc \in {"write", "fragment"}
        /\ forward.read - forward.written <= forward.read - forward.written
    BY <1>10 DEF WriteRest, TypeOK
  <2> QED BY <2>1, <2>2, <2>3, WrittenTyped
<1>11. CASE WriteFails
  <2>1. TypeOK'
    <3>1. /\ forward' \in ForwardRecords
          /\ conn' \in [client : {"open", "closed"}, target : {"open", "closed"}]
      BY <1>11 DEF WriteFails, TypeOK, ForwardRecords
    <3> QED BY <1>11, <3>1 DEF WriteFails, TypeOK, ForwardRecords
  <2>2. Fresh'
    BY <1>11 DEF WriteFails, Fresh
  <2>3. Progress'
    BY <1>11 DEF WriteFails, Progress
  <2> QED BY <2>1, <2>2, <2>3
<1>12. ASSUME NEW n \in 1..MaxAnswers, Answer(n) PROVE Typed'
  <2>1. TypeOK'
    <3>1. reverse' \in [pc : {"idle", "read", "write", "ended"}, read : Nat, written : Nat]
      <4>1. reverse.read + n \in Nat
        BY Sizes DEF TypeOK
      <4> QED BY <1>12, <4>1 DEF Answer, TypeOK
    <3> QED BY <1>12, <3>1 DEF Answer, streams, TypeOK
  <2>2. Fresh'
    BY <1>12 DEF Answer, streams, Fresh
  <2>3. Progress'
    BY <1>12 DEF Answer, streams, Progress
  <2> QED BY <2>1, <2>2, <2>3
<1>13. CASE AnswersEnd
  <2>1. TypeOK'
    <3>1. reverse' \in [pc : {"idle", "read", "write", "ended"}, read : Nat, written : Nat]
      BY <1>13 DEF AnswersEnd, streams, TypeOK
    <3> QED BY <1>13, <3>1 DEF AnswersEnd, streams, TypeOK
  <2>2. Fresh'
    BY <1>13 DEF AnswersEnd, streams, Fresh
  <2>3. Progress'
    BY <1>13 DEF AnswersEnd, streams, Progress
  <2> QED BY <2>1, <2>2, <2>3
<1>14. CASE GiveBack
  <2>1. TypeOK'
    <3>1. reverse' \in [pc : {"idle", "read", "write", "ended"}, read : Nat, written : Nat]
      BY <1>14 DEF GiveBack, streams, TypeOK
    <3> QED BY <1>14, <3>1 DEF GiveBack, streams, TypeOK
  <2>2. Fresh'
    BY <1>14 DEF GiveBack, streams, Fresh
  <2>3. Progress'
    BY <1>14 DEF GiveBack, streams, Progress
  <2> QED BY <2>1, <2>2, <2>3
<1>15. CASE Finish
  <2>1. TypeOK'
    BY <1>15 DEF Finish, TypeOK
  <2>2. Fresh'
    BY <1>15 DEF Finish, Fresh
  <2>3. Progress'
    BY <1>15 DEF Finish, Progress
  <2> QED BY <2>1, <2>2, <2>3
<1>16. CASE WaiterEnds \/ WaiterCloses
  <2>1. TypeOK'
    BY <1>16 DEF WaiterEnds, WaiterCloses, streams, TypeOK
  <2>2. Fresh'
    BY <1>16 DEF WaiterEnds, WaiterCloses, streams, Fresh
  <2>3. Progress'
    BY <1>16 DEF WaiterEnds, WaiterCloses, streams, Progress
  <2> QED BY <2>1, <2>2, <2>3
<1>17. CASE UNCHANGED vars
  <2>1. TypeOK'
    BY <1>17 DEF vars, streams, TypeOK
  <2>2. Fresh'
    BY <1>17 DEF vars, streams, Fresh
  <2>3. Progress'
    BY <1>17 DEF vars, streams, Progress
  <2> QED BY <2>1, <2>2, <2>3
<1> QED
  BY <1>1, <1>2, <1>3, <1>4, <1>5, <1>6, <1>7, <1>8, <1>9, <1>10, <1>11, <1>12, <1>13,
     <1>14, <1>15, <1>16, <1>17
     DEF Next, Running, StreamForward, StreamReverse, Waiter, Peers

(* Every reachable state is typed; among others the buffer of the inspection *)
(* is never overrun, and the fragmenter never counts past its limit.         *)
THEOREM TypeCorrect == Spec => []TypeOK
<1>1. Typed => TypeOK
  BY DEF Typed
<1> QED BY <1>1, TypedInit, TypedNext, PTL DEF Spec

-----------------------------------------------------------------------------
(* What a step is to StreamForward: it begins, reads, injects, writes the  *)
(* next n bytes in one of three ways, or nothing that is asked of below.    *)
Wrote(n) ==
    /\ n \in Nat \ {0} /\ n <= forward.read - forward.written
    /\ forward.pc \in {"write", "fragment"}
    /\ Written(n)
    /\ \/ forward.pc = "write" /\ fragmenter' = fragmenter
       \/ /\ forward.pc = "fragment" /\ ShouldFragment
          /\ n <= FragmentSize /\ n <= InitialFragSize - fragmenter.sent
          /\ fragmenter' = [fragmenter EXCEPT !.sent = fragmenter.sent + n]
       \/ /\ forward.pc = "fragment" /\ ~ShouldFragment
          /\ fragmenter' = [fragmenter EXCEPT !.enabled = FALSE]

Still ==
    /\ policy' = policy /\ record' = record /\ inspection' = inspection
    /\ fragmenter' = fragmenter /\ wire' = wire /\ decoys' = decoys
    /\ client'.sent = client.sent
    /\ forward'.read = forward.read /\ forward'.written = forward.written
    /\ forward'.pc = forward.pc \/ forward'.pc \in {"ended", "failed"}
    /\ waiter' = waiter \/ waiter = "waiting"

LEMMA Steps ==
    ASSUME Typed, [Next]_vars
    PROVE  \/ \E p \in Policies : Begin(p)
           \/ \E n \in Nat \ {0} : Read(n)
           \/ Inject
           \/ \E n \in Nat \ {0} : Wrote(n)
           \/ Still
<1>1. ASSUME NEW end \in {"finished", "gone"}, ClientEnds(end) PROVE Still
  BY <1>1 DEF ClientEnds, Still, Typed, TypeOK
<1>2. ASSUME NEW end \in {"finished", "gone"}, TargetEnds(end) PROVE Still
  BY <1>2 DEF TargetEnds, Still
<1>3. ASSUME NEW e \in {"mine", "other"}, Capture(e) PROVE Still
  BY <1>3 DEF Capture, Still, streams
<1>4. ASSUME NEW n \in 1..MaxBytes, Read(n) PROVE \E m \in Nat \ {0} : Read(m)
  <2>1. n \in Nat \ {0}
    BY Sizes
  <2> QED BY <1>4, <2>1
<1>5. CASE ReadEnds
  BY <1>5 DEF ReadEnds, Still, Typed, TypeOK
<1>6. CASE Write
  <2>1. forward.read - forward.written \in Nat \ {0}
    BY <1>6 DEF Write, Typed, Progress, TypeOK
  <2>2. Wrote(forward.read - forward.written)
    BY <1>6, <2>1 DEF Write, Wrote
  <2> QED BY <2>1, <2>2
<1>7. CASE WriteChunk
  <2>1. /\ Written(Chunk) /\ forward.pc = "fragment" /\ ShouldFragment
        /\ fragmenter' = [fragmenter EXCEPT !.sent = fragmenter.sent + Chunk]
    BY <1>7 DEF WriteChunk, Chunk
  <2>2. /\ Chunk \in Nat \ {0} /\ Chunk <= FragmentSize
        /\ Chunk <= InitialFragSize - fragmenter.sent /\ Chunk <= forward.read - forward.written
    BY <2>1, ChunkSize
  <2>3. Wrote(Chunk)
    BY <2>1, <2>2 DEF Wrote
  <2> QED BY <2>2, <2>3
<1>8. CASE WriteRest
  <2>1. forward.read - forward.written \in Nat \ {0}
    BY <1>8 DEF WriteRest, Typed, Progress, TypeOK
  <2>2. Wrote(forward.read - forward.written)
    BY <1>8, <2>1 DEF WriteRest, Wrote
  <2> QED BY <2>1, <2>2
<1>9. CASE WriteFails
  BY <1>9 DEF WriteFails, Still, Typed, TypeOK
<1>10. ASSUME NEW n \in 1..MaxAnswers, Answer(n) PROVE Still
  BY <1>10 DEF Answer, Still, streams
<1>11. CASE AnswersEnd \/ GiveBack
  BY <1>11 DEF AnswersEnd, GiveBack, Still, streams
<1>12. CASE Finish
  BY <1>12 DEF Finish, Still
<1>13. CASE WaiterEnds \/ WaiterCloses
  BY <1>13 DEF WaiterEnds, WaiterCloses, Still, streams
<1>14. CASE UNCHANGED vars
  BY <1>14 DEF vars, streams, Still
<1> QED
  BY <1>1, <1>2, <1>3, <1>4, <1>5, <1>6, <1>7, <1>8, <1>9, <1>10, <1>11, <1>12, <1>13, <1>14
     DEF Next, Running, StreamForward, StreamReverse, Waiter, Peers

(* Writing moves the written count, appends one segment and, at the end of *)
(* the data at hand, turns to reading.                                      *)
LEMMA WroteFields ==
    ASSUME Typed, NEW n \in Nat \ {0}, Wrote(n)
    PROVE  /\ wire' = Append(wire, [from |-> forward.written, to |-> forward.written + n])
           /\ forward'.read = forward.read /\ forward'.written = forward.written + n
           /\ forward'.pc \in {"read", forward.pc}
           /\ policy' = policy /\ record' = record /\ client' = client /\ decoys' = decoys
           /\ inspection'.buffered = inspection.buffered /\ inspection'.done = inspection.done
           /\ inspection'.candidate => inspection.candidate
           /\ inspection.probing => inspection'.probing
           /\ waiter' = waiter \/ (/\ forward.written + n = forward.read
                                   /\ inspection.candidate /\ ~inspection.probing
                                   /\ inspection'.probing /\ waiter' = "waiting")
<1> DEFINE last == forward.written + n = forward.read
           starts == last /\ inspection.candidate /\ ~inspection.probing
<1>1. /\ wire' = Append(wire, [from |-> forward.written, to |-> forward.written + n])
      /\ forward' = [forward EXCEPT !.written = forward.written + n,
                                    !.pc = IF last THEN "read" ELSE forward.pc]
      /\ inspection' = [inspection EXCEPT !.candidate = inspection.candidate /\ ~last,
                                          !.probing = inspection.probing \/ starts]
      /\ waiter' = (IF starts THEN "waiting" ELSE waiter)
      /\ policy' = policy /\ record' = record /\ client' = client /\ decoys' = decoys
  BY DEF Wrote, Written
<1>2. forward \in ForwardRecords /\ inspection \in InspectionRecords
  BY DEF Typed, TypeOK, ForwardRecords, InspectionRecords
<1>3. /\ forward'.read = forward.read /\ forward'.written = forward.written + n
      /\ forward'.pc = (IF last THEN "read" ELSE forward.pc)
  BY <1>1, <1>2 DEF ForwardRecords
<1>4. /\ inspection'.buffered = inspection.buffered /\ inspection'.done = inspection.done
      /\ inspection'.candidate = (inspection.candidate /\ ~last)
      /\ inspection'.probing = (inspection.probing \/ starts)
  BY <1>1, <1>2 DEF InspectionRecords
<1> HIDE DEF starts, last
<1>5. forward'.pc \in {"read", forward.pc}
  BY <1>3
<1>6. /\ inspection'.candidate => inspection.candidate
      /\ inspection.probing => inspection'.probing
      /\ starts => inspection'.probing
  BY <1>4
<1>7. waiter' = waiter \/ (starts /\ waiter' = "waiting")
  BY <1>1
<1> QED BY <1>1, <1>3, <1>4, <1>5, <1>6, <1>7 DEF starts, last

-----------------------------------------------------------------------------
(* The order of the bytes *)

LEMMA OrderNext == Typed /\ InOrderOnce /\ [Next]_vars => InOrderOnce'
<1> SUFFICES ASSUME Typed, InOrderOnce, [Next]_vars PROVE InOrderOnce'
  OBVIOUS
<1>0. /\ wire \in Seq(Segments) /\ forward.written \in Nat /\ forward.read \in Nat
      /\ client.sent \in Nat
  BY DEF Typed, TypeOK
<1>1. ASSUME NEW p \in Policies, Begin(p) PROVE InOrderOnce'
  <2>1. wire' = <<>> /\ forward'.written = 0 /\ forward'.read = 0 /\ client'.sent \in Nat
    BY <1>1 DEF Begin, Typed, Fresh
  <2> QED BY <2>1 DEF InOrderOnce
<1>2. ASSUME NEW n \in Nat \ {0}, Read(n) PROVE InOrderOnce'
  <2>1. wire' = wire /\ client' = client /\ n <= client.sent - forward.read
    BY <1>2 DEF Read
  <2>2. forward'.read = forward.read + n /\ forward'.written = forward.written
    BY <1>2, ReadFields
  <2> QED BY <1>0, <2>1, <2>2 DEF InOrderOnce
<1>3. CASE Inject
  <2>1. /\ wire' = wire /\ client' = client
        /\ forward'.read = forward.read /\ forward'.written = forward.written
    BY <1>3 DEF Inject, Typed, TypeOK
  <2> QED BY <2>1 DEF InOrderOnce
<1>4. ASSUME NEW n \in Nat \ {0}, Wrote(n) PROVE InOrderOnce'
  <2> DEFINE segment == [from |-> forward.written, to |-> forward.written + n]
  <2>1. /\ wire' = Append(wire, segment) /\ client' = client
        /\ forward'.read = forward.read /\ forward'.written = forward.written + n
    BY <1>4, WroteFields
  <2>2. forward.written + n <= forward.read
    BY <1>0, <1>4 DEF Wrote
  <2>3. segment.from = forward.written /\ segment.to = forward.written + n
    OBVIOUS
  <2> HIDE DEF segment
  <2>4. /\ Len(wire') = Len(wire) + 1 /\ wire'[Len(wire) + 1] = segment
        /\ \A i \in 1..Len(wire) : wire'[i] = wire[i]
        /\ Len(wire) \in Nat /\ DOMAIN wire = 1..Len(wire) /\ DOMAIN wire' = 1..(Len(wire) + 1)
        /\ wire' # <<>>
    BY <1>0, <2>1, AppendProperties
  <2>5. wire = <<>> <=> Len(wire) = 0
    BY <1>0
  <2>6. wire'[1].from = 0
    BY <1>0, <2>3, <2>4, <2>5 DEF InOrderOnce
  <2>7. \A i \in DOMAIN wire' : wire'[i].from < wire'[i].to
    BY <1>0, <2>3, <2>4 DEF InOrderOnce
  <2>8. \A i \in 1..(Len(wire') - 1) : wire'[i + 1].from = wire'[i].to
    <3> SUFFICES ASSUME NEW i \in 1..(Len(wire') - 1) PROVE wire'[i + 1].from = wire'[i].to
      OBVIOUS
    <3>1. CASE i = Len(wire)
      BY <2>3, <2>4, <2>5, <3>1 DEF InOrderOnce
    <3>2. CASE i # Len(wire)
      <4>1. i \in 1..(Len(wire) - 1) /\ i + 1 \in 1..Len(wire)
        <5>1. Len(wire') - 1 = Len(wire) /\ Len(wire) \in Nat
          BY <2>4
        <5>2. i \in 1..Len(wire)
          BY <5>1
        <5> QED BY <3>2, <5>1, <5>2
      <4> QED BY <2>4, <4>1 DEF InOrderOnce
    <3> QED BY <3>1, <3>2
  <2>9. forward'.written = wire'[Len(wire')].to
    BY <2>1, <2>3, <2>4
  <2> QED BY <1>0, <2>1, <2>2, <2>4, <2>6, <2>7, <2>8, <2>9 DEF InOrderOnce
<1>5. CASE Still
  BY <1>5 DEF Still, InOrderOnce
<1> QED BY <1>1, <1>2, <1>3, <1>4, <1>5, Steps

(* Whatever the sizes of reads, chunks and limit, the target is given each  *)
(* byte once and in order.                                                  *)
THEOREM InOrderOnceCorrect == Spec => []InOrderOnce
<1>1. Init => InOrderOnce
  BY DEF Init, InOrderOnce
<1> QED BY <1>1, TypedInit, TypedNext, OrderNext, PTL DEF Spec

-----------------------------------------------------------------------------
(* The first bytes.  Until the limit is reached the fragmenter has counted  *)
(* exactly what is on the wire, and nothing goes around it; the count can    *)
(* pass from one call of WriteFragmented to the next because of this.       *)
Cutting ==
    policy.fragments =>
        /\ ~policy.decoys /\ forward.pc # "inject"
        /\ fragmenter.sent < InitialFragSize =>
             fragmenter.enabled /\ fragmenter.sent = forward.written
        /\ fragmenter.sent = InitialFragSize => InitialFragSize <= forward.written
        /\ forward.pc = "write" => ~ShouldFragment

LEMMA CuttingNext ==
    Typed /\ Cutting /\ FirstBytesCut /\ [Next]_vars => Cutting' /\ FirstBytesCut'
<1> SUFFICES ASSUME Typed, Cutting, FirstBytesCut, [Next]_vars
             PROVE  Cutting' /\ FirstBytesCut'
  OBVIOUS
<1>0. /\ wire \in Seq(Segments) /\ forward \in ForwardRecords
      /\ fragmenter \in [enabled : BOOLEAN, sent : 0..InitialFragSize]
      /\ InitialFragSize \in Nat /\ FragmentSize \in Nat
  BY Sizes DEF Typed, TypeOK, ForwardRecords
<1>1. ASSUME NEW p \in Policies, Begin(p) PROVE Cutting' /\ FirstBytesCut'
  <2>1. /\ wire' = <<>> /\ policy' = p /\ fragmenter' = NewFragmenter
        /\ forward'.pc = "read" /\ forward'.written = 0
    BY <1>1 DEF Begin, Typed, Fresh
  <2>2. ~(p.fragments /\ p.decoys)
    BY PoliciesAssumption
  <2> QED BY <1>0, <2>1, <2>2 DEF Cutting, FirstBytesCut, NewFragmenter
<1>2. ASSUME NEW n \in Nat \ {0}, Read(n) PROVE Cutting' /\ FirstBytesCut'
  <2>1. wire' = wire /\ policy' = policy /\ fragmenter' = fragmenter
    BY <1>2 DEF Read
  <2>2. /\ forward'.written = forward.written
        /\ forward'.pc = "inject" => policy.decoys
        /\ forward'.pc = "write" /\ forward'.pc # "inject" =>
             ~(policy.fragments /\ ShouldFragment)
    BY <1>2, ReadFields DEF Injects
  <2> QED BY <2>1, <2>2 DEF Cutting, FirstBytesCut, ShouldFragment
<1>3. CASE Inject
  <2>1. /\ wire' = wire /\ policy' = policy /\ forward.pc = "inject"
    BY <1>3 DEF Inject
  <2>2. ~policy.fragments
    BY <2>1 DEF Cutting
  <2> QED BY <2>1, <2>2 DEF Cutting, FirstBytesCut
<1>4. ASSUME NEW n \in Nat \ {0}, Wrote(n) PROVE Cutting' /\ FirstBytesCut'
  <2> DEFINE segment == [from |-> forward.written, to |-> forward.written + n]
  <2>1. /\ wire' = Append(wire, segment) /\ policy' = policy
        /\ forward'.written = forward.written + n /\ forward'.pc \in {"read", forward.pc}
        /\ forward.pc \in {"write", "fragment"}
    BY <1>4, WroteFields DEF Wrote
  <2>2. CASE ~policy.fragments
    BY <2>1, <2>2 DEF Cutting, FirstBytesCut
  <2>3. CASE policy.fragments /\ fragmenter.sent < InitialFragSize
    <3>1. /\ fragmenter.enabled /\ fragmenter.sent = forward.written
          /\ ShouldFragment /\ forward.pc = "fragment"
      BY <2>1, <2>3 DEF Cutting, ShouldFragment
    <3>2. /\ n <= FragmentSize /\ n <= InitialFragSize - fragmenter.sent
          /\ fragmenter' = [fragmenter EXCEPT !.sent = fragmenter.sent + n]
      BY <1>4, <3>1 DEF Wrote
    <3>3. fragmenter'.enabled /\ fragmenter'.sent = forward'.written
      BY <1>0, <2>1, <3>1, <3>2
    <3>4. forward'.written <= InitialFragSize /\ forward'.pc \in {"read", "fragment"}
      BY <1>0, <2>1, <3>1, <3>2 DEF ForwardRecords
    <3>5. Cutting'
      BY <1>0, <2>1, <2>3, <3>3, <3>4 DEF Cutting
    <3>6. segment.to <= InitialFragSize /\ segment.to - segment.from <= FragmentSize
      BY <1>0, <3>1, <3>2 DEF ForwardRecords
    <3>7. FirstBytesCut'
      <4> HIDE DEF segment
      <4>1. /\ DOMAIN wire' = 1..(Len(wire) + 1) /\ wire'[Len(wire) + 1] = segment
            /\ \A i \in 1..Len(wire) : wire'[i] = wire[i]
            /\ Len(wire) \in Nat /\ DOMAIN wire = 1..Len(wire)
        BY <1>0, <2>1, AppendProperties
      <4> QED BY <2>1, <2>3, <3>6, <4>1 DEF FirstBytesCut
    <3> QED BY <3>5, <3>7
  <2>4. CASE policy.fragments /\ ~(fragmenter.sent < InitialFragSize)
    <3>1. fragmenter.sent = InitialFragSize /\ InitialFragSize <= forward.written
      BY <1>0, <2>4 DEF Cutting
    <3>2. ~ShouldFragment
      BY <2>4 DEF ShouldFragment
    <3>3. /\ fragmenter' = fragmenter
             \/ fragmenter' = [fragmenter EXCEPT !.enabled = FALSE]
      BY <1>4, <3>2 DEF Wrote
    <3>4. fragmenter'.sent = InitialFragSize
      BY <1>0, <3>1, <3>3
    <3>5. InitialFragSize <= forward'.written /\ forward'.pc # "inject"
      BY <1>0, <2>1, <3>1 DEF ForwardRecords
    <3>6. Cutting'
      BY <1>0, <2>1, <2>4, <3>4, <3>5 DEF Cutting, ShouldFragment
    <3>7. ~(segment.from < InitialFragSize)
      BY <1>0, <3>1 DEF ForwardRecords
    <3>8. FirstBytesCut'
      <4> HIDE DEF segment
      <4>1. /\ DOMAIN wire' = 1..(Len(wire) + 1) /\ wire'[Len(wire) + 1] = segment
            /\ \A i \in 1..Len(wire) : wire'[i] = wire[i]
            /\ Len(wire) \in Nat /\ DOMAIN wire = 1..Len(wire)
        BY <1>0, <2>1, AppendProperties
      <4> QED BY <2>1, <2>4, <3>7, <4>1 DEF FirstBytesCut
    <3> QED BY <3>6, <3>8
  <2> QED BY <2>2, <2>3, <2>4
<1>5. CASE Still
  BY <1>5 DEF Still, Cutting, FirstBytesCut, ShouldFragment
<1> QED BY <1>1, <1>2, <1>3, <1>4, <1>5, Steps

(* With dpi "fragment" the first bytes travel in short segments, for every  *)
(* limit and segment size, however the client's bytes are read.             *)
THEOREM FirstBytesCutCorrect == Spec => []FirstBytesCut
<1>1. Init => Cutting /\ FirstBytesCut
  BY DEF Init, Cutting, FirstBytesCut, NoPolicy
<1> QED BY <1>1, TypedInit, TypedNext, CuttingNext, PTL DEF Spec

-----------------------------------------------------------------------------
(* The inspection.  As long as it goes on, tlsBuffer holds everything that  *)
(* was read and the ClientHello is not complete.                            *)
Inspecting ==
    /\ ~inspection.done =>
         inspection.buffered = forward.read
         /\ (record.tls => inspection.buffered < record.length)
    /\ inspection.candidate =>
         /\ policy.probes /\ record.tls /\ record.decodes /\ inspection.done
         /\ record.length <= forward.read

LEMMA InspectingNext ==
    Typed /\ Inspecting /\ TimerAfterHello /\ [Next]_vars => Inspecting' /\ TimerAfterHello'
<1> SUFFICES ASSUME Typed, Inspecting, TimerAfterHello, [Next]_vars
             PROVE  Inspecting' /\ TimerAfterHello'
  OBVIOUS
<1>0. /\ forward \in ForwardRecords /\ inspection \in InspectionRecords
      /\ record.length \in Nat /\ record.length >= HeaderSize /\ HeaderSize \in Nat \ {0}
  BY Sizes, RecordsAssumption
     DEF Typed, TypeOK, ForwardRecords, InspectionRecords, NoRecord
<1>1. ASSUME NEW p \in Policies, Begin(p) PROVE Inspecting' /\ TimerAfterHello'
  <2>1. /\ inspection' = [buffered |-> 0, done |-> FALSE, candidate |-> FALSE, probing |-> FALSE]
        /\ forward'.read = 0 /\ waiter' = "off" /\ record' \in Records
    BY <1>1 DEF Begin, Typed, Fresh
  <2>2. record'.length \in Nat /\ record'.length >= HeaderSize
    BY <2>1, RecordsAssumption
  <2> QED BY <1>0, <2>1, <2>2 DEF Inspecting, TimerAfterHello
<1>2. ASSUME NEW n \in Nat \ {0}, Read(n) PROVE Inspecting' /\ TimerAfterHello'
  <2>1. /\ policy' = policy /\ record' = record /\ waiter' = waiter
        /\ forward'.read = forward.read + n /\ forward'.written = forward.written
        /\ inspection' = Inspected(n)
    BY <1>2, ReadFields DEF Read
  <2>2. /\ inspection'.buffered = IF Buffers(n) THEN inspection.buffered + n
                                                ELSE inspection.buffered
        /\ inspection'.done <=>
             \/ inspection.done \/ ~Buffers(n) \/ Complete(n)
             \/ inspection.buffered + n >= HeaderSize /\ ~record.tls
        /\ inspection'.candidate <=> Complete(n) /\ record.decodes /\ policy.probes
        /\ inspection'.probing = inspection.probing
    BY <2>1, InspectedFields
  <2>3. ASSUME ~inspection'.done
        PROVE  /\ inspection'.buffered = forward'.read
               /\ record'.tls => inspection'.buffered < record'.length
    <3>1. ~inspection.done /\ Buffers(n) /\ ~Complete(n)
      BY <2>2, <2>3
    <3>2. inspection'.buffered = forward.read + n
      BY <2>2, <3>1 DEF Inspecting
    <3>3. record.tls => inspection.buffered + n < record.length
      BY <1>0, <3>1 DEF Complete, InspectionRecords
    <3> QED BY <2>1, <2>2, <3>1, <3>2, <3>3
  <2>4. ASSUME inspection'.candidate
        PROVE  /\ policy'.probes /\ record'.tls /\ record'.decodes /\ inspection'.done
               /\ record'.length <= forward'.read
    <3>1. Complete(n) /\ record.decodes /\ policy.probes /\ inspection'.done
      BY <2>2, <2>4
    <3>2. record.tls /\ ~inspection.done /\ inspection.buffered + n >= record.length
      BY <3>1 DEF Complete, Buffers
    <3>3. record.length <= forward.read + n
      BY <1>0, <3>2 DEF Inspecting, ForwardRecords
    <3> QED BY <2>1, <3>1, <3>2, <3>3
  <2>5. Inspecting'
    BY <2>3, <2>4 DEF Inspecting
  <2>6. TimerAfterHello'
    BY <2>1, <2>2 DEF TimerAfterHello
  <2> QED BY <2>5, <2>6
<1>3. CASE Inject
  <2>1. /\ policy' = policy /\ record' = record /\ waiter' = waiter
        /\ forward'.read = forward.read /\ forward'.written = forward.written
        /\ inspection' = inspection
    BY <1>0, <1>3 DEF Inject, ForwardRecords
  <2> QED BY <2>1 DEF Inspecting, TimerAfterHello
<1>4. ASSUME NEW n \in Nat \ {0}, Wrote(n) PROVE Inspecting' /\ TimerAfterHello'
  <2>1. /\ forward'.read = forward.read /\ forward'.written = forward.written + n
        /\ policy' = policy /\ record' = record
        /\ inspection'.buffered = inspection.buffered /\ inspection'.done = inspection.done
        /\ inspection'.candidate => inspection.candidate
        /\ inspection.probing => inspection'.probing
    BY <1>4, WroteFields
  <2>2. Inspecting'
    BY <2>1 DEF Inspecting
  <2>3. CASE waiter' = waiter
    BY <1>0, <2>1, <2>2, <2>3 DEF TimerAfterHello, ForwardRecords
  <2>4. CASE /\ forward.written + n = forward.read /\ inspection.candidate
             /\ inspection'.probing
    BY <2>1, <2>4 DEF TimerAfterHello, Inspecting
  <2> QED BY <1>4, <2>2, <2>3, <2>4, WroteFields
<1>5. CASE Still
  BY <1>5 DEF Still, Inspecting, TimerAfterHello
<1> QED BY <1>1, <1>2, <1>3, <1>4, <1>5, Steps

LEMMA InspectingInit == Init => Inspecting /\ TimerAfterHello
BY DEF Init, Inspecting, TimerAfterHello, NoRecord

(* The response timer starts only after the whole ClientHello is on the     *)
(* wire, in whatever pieces it was read and written.                        *)
THEOREM TimerAfterHelloCorrect == Spec => []TimerAfterHello
BY InspectingInit, TypedInit, TypedNext, InspectingNext, PTL DEF Spec

-----------------------------------------------------------------------------
(* The decoy.  It is sent in the read that completes the ClientHello, and   *)
(* the inspection is over with that read.                                   *)
Decoying ==
    /\ decoys # <<>> => inspection.done
    /\ forward.pc = "inject" =>
         decoys = <<>> /\ policy.decoys /\ inspection.done /\ forward.written < record.length

LEMMA DecoyingNext ==
    Typed /\ Inspecting /\ Decoying /\ DecoyInTime /\ [Next]_vars => Decoying' /\ DecoyInTime'
<1> SUFFICES ASSUME Typed, Inspecting, Decoying, DecoyInTime, [Next]_vars
             PROVE  Decoying' /\ DecoyInTime'
  OBVIOUS
<1>0. /\ forward \in ForwardRecords /\ inspection \in InspectionRecords
      /\ decoys \in Seq([at : Nat, entry : {"mine", "stale", "other"}])
  BY DEF Typed, TypeOK, ForwardRecords, InspectionRecords
<1>1. ASSUME NEW p \in Policies, Begin(p) PROVE Decoying' /\ DecoyInTime'
  <2>1. decoys' = <<>> /\ forward'.pc = "read"
    BY <1>0, <1>1 DEF Begin, Typed, Fresh
  <2> QED BY <2>1 DEF Decoying, DecoyInTime
<1>2. ASSUME NEW n \in Nat \ {0}, Read(n) PROVE Decoying' /\ DecoyInTime'
  <2>1. /\ policy' = policy /\ record' = record /\ decoys' = decoys
        /\ forward'.written = forward.written /\ forward.pc = "read"
        /\ inspection' = Inspected(n)
        /\ forward'.pc = "inject" <=> Injects(n)
    BY <1>2, ReadFields DEF Read
  <2>2. /\ inspection.done => inspection'.done
        /\ Complete(n) => inspection'.done
    BY <2>1, InspectedFields
  <2>3. ASSUME Injects(n)
        PROVE  /\ decoys = <<>> /\ policy.decoys /\ inspection'.done
               /\ forward.written < record.length
    <3>1. Complete(n) /\ policy.decoys
      BY <2>3 DEF Injects
    <3>2. ~inspection.done /\ record.tls
      BY <3>1 DEF Complete, Buffers
    <3>3. inspection.buffered = forward.read /\ inspection.buffered < record.length
      BY <3>2 DEF Inspecting
    <3>4. forward.written = forward.read
      BY <2>1 DEF Typed, Progress
    <3> QED BY <2>2, <3>1, <3>2, <3>3, <3>4 DEF Decoying
  <2>4. Decoying'
    BY <2>1, <2>2, <2>3 DEF Decoying
  <2>5. DecoyInTime'
    <3>1. CASE Injects(n)
      <4>1. decoys' = <<>>
        BY <2>1, <2>3, <3>1
      <4> QED BY <4>1 DEF DecoyInTime
    <3>2. CASE ~Injects(n)
      BY <2>1, <3>2 DEF DecoyInTime
    <3> QED BY <3>1, <3>2
  <2> QED BY <2>4, <2>5
<1>3. CASE Inject
  <2>1. /\ policy' = policy /\ record' = record /\ inspection' = inspection
        /\ forward'.pc = "write" /\ forward'.written = forward.written
        /\ forward.pc = "inject"
    BY <1>0, <1>3 DEF Inject, ForwardRecords
  <2>2. decoys = <<>> /\ policy.decoys /\ inspection.done /\ forward.written < record.length
    BY <2>1 DEF Decoying
  <2>3. Decoying'
    BY <2>1, <2>2 DEF Decoying
  <2>4. decoys' = <<>> \/ decoys' = <<[at |-> forward.written, entry |-> Lookup]>>
    BY <1>3, <2>2 DEF Inject
  <2>5. /\ Len(decoys') <= 1
        /\ \A i \in DOMAIN decoys' : decoys'[i].at = forward.written
    <3>1. CASE decoys' = <<>>
      BY <3>1
    <3>2. CASE decoys' = <<[at |-> forward.written, entry |-> Lookup]>>
      <4> DEFINE decoy == [at |-> forward.written, entry |-> Lookup]
      <4>1. decoy.at = forward.written
        OBVIOUS
      <4> HIDE DEF decoy
      <4>2. decoys' = <<decoy>>
        BY <3>2 DEF decoy
      <4>3. Len(decoys') = 1 /\ DOMAIN decoys' = 1..1 /\ decoys'[1] = decoy
        BY <4>2
      <4> QED BY <4>1, <4>3
    <3> QED BY <2>4, <3>1, <3>2
  <2>6. DecoyInTime'
    BY <2>1, <2>2, <2>5 DEF DecoyInTime
  <2> QED BY <2>3, <2>6
<1>4. ASSUME NEW n \in Nat \ {0}, Wrote(n) PROVE Decoying' /\ DecoyInTime'
  <2>1. /\ policy' = policy /\ record' = record /\ decoys' = decoys
        /\ inspection'.done = inspection.done
        /\ forward'.pc # "inject"
    BY <1>4, WroteFields DEF Wrote
  <2> QED BY <2>1 DEF Decoying, DecoyInTime
<1>5. CASE Still
  BY <1>5 DEF Still, Decoying, DecoyInTime
<1> QED BY <1>1, <1>2, <1>3, <1>4, <1>5, Steps

(* A decoy precedes the end of the ClientHello and is not repeated, for     *)
(* every way the ClientHello is split over reads.                           *)
THEOREM DecoyInTimeCorrect == Spec => []DecoyInTime
<1>1. Init => Decoying /\ DecoyInTime
  BY DEF Init, Decoying, DecoyInTime
<1> QED
  BY <1>1, TypedInit, TypedNext, InspectingInit, InspectingNext, DecoyingNext, PTL DEF Spec

-----------------------------------------------------------------------------
(* The ring.  Keeping the last entries one by one is keeping the last of    *)
(* all, and an entry that is kept is a recent one.                          *)
LEMMA KeptElement ==
    ASSUME NEW S, NEW s \in Seq(S), NEW k \in DOMAIN Kept(s)
    PROVE  \E j \in DOMAIN s : j > Len(s) - RingSize /\ s[j] = Kept(s)[k]
<1>0. RingSize \in Nat \ {0} /\ Len(s) \in Nat /\ DOMAIN s = 1..Len(s)
  BY Sizes
<1>1. CASE Len(s) > RingSize
  <2> DEFINE m == Len(s) - RingSize + 1
  <2>1. m \in 1..Len(s) /\ Kept(s) = SubSeq(s, m, Len(s))
    BY <1>0, <1>1 DEF Kept
  <2>2. /\ Len(SubSeq(s, m, Len(s))) = Len(s) - m + 1
        /\ SubSeq(s, m, Len(s)) \in Seq(S)
        /\ \A i \in 1..(Len(s) - m + 1) : SubSeq(s, m, Len(s))[i] = s[m + i - 1]
    BY <1>0, <2>1, SubSeqProperties
  <2>3. k \in 1..(Len(s) - m + 1)
    BY <2>1, <2>2
  <2>4. m + k - 1 \in 1..Len(s) /\ m + k - 1 > Len(s) - RingSize
    BY <1>0, <1>1, <2>3
  <2> QED BY <1>0, <2>1, <2>2, <2>3, <2>4
<1>2. CASE ~(Len(s) > RingSize)
  BY <1>0, <1>2 DEF Kept
<1> QED BY <1>1, <1>2

LEMMA KeptAppend ==
    ASSUME NEW S, NEW s \in Seq(S), NEW e \in S
    PROVE  Kept(Append(Kept(s), e)) = Kept(Append(s, e))
<1> DEFINE L == Len(s)
           R == RingSize
<1>0. R \in Nat \ {0} /\ L \in Nat
  BY Sizes
<1>1. CASE L > R
  <2> DEFINE k == Kept(s)
             m == L - R + 1
             a == Append(k, e)
             b == Append(s, e)
  <2>1. k = SubSeq(s, m, L) /\ m \in 1..L
    BY <1>0, <1>1 DEF Kept
  <2>2. /\ Len(k) = R /\ k \in Seq(S)
        /\ \A i \in 1..R : k[i] = s[m + i - 1]
    BY <1>0, <2>1, SubSeqProperties
  <2> HIDE DEF k
  <2>3. /\ Len(a) = R + 1 /\ a \in Seq(S) /\ a[R + 1] = e
        /\ \A i \in 1..R : a[i] = k[i]
    BY <1>0, <2>2, AppendProperties
  <2>4. /\ Len(b) = L + 1 /\ b \in Seq(S) /\ b[L + 1] = e
        /\ \A i \in 1..L : b[i] = s[i]
    BY <1>0, AppendProperties
  <2>5. \A i \in 1..R : a[2 + i - 1] = b[m + 1 + i - 1]
    <3> SUFFICES ASSUME NEW i \in 1..R PROVE a[2 + i - 1] = b[m + 1 + i - 1]
      OBVIOUS
    <3>0. 2 + i - 1 = i + 1 /\ m + 1 + i - 1 = m + i
      BY <1>0
    <3>1. CASE i = R
      <4>1. m + i = L + 1
        BY <1>0, <3>1
      <4> QED BY <2>3, <2>4, <3>0, <3>1, <4>1
    <3>2. CASE i # R
      <4>1. i + 1 \in 1..R /\ m + i \in 1..L /\ m + (i + 1) - 1 = m + i
        BY <1>0, <1>1, <3>2
      <4>2. a[i + 1] = s[m + i]
        BY <2>2, <2>3, <4>1
      <4> QED BY <2>4, <3>0, <4>1, <4>2
    <3> QED BY <3>1, <3>2
  <2> HIDE DEF a, b
  <2>6. Kept(a) = SubSeq(a, 2, R + 1) /\ Kept(b) = SubSeq(b, m + 1, L + 1)
    <3>1. Len(a) > R /\ Len(a) - R + 1 = 2
      BY <1>0, <2>3
    <3>2. Len(b) > R /\ Len(b) - R + 1 = m + 1
      BY <1>0, <1>1, <2>4
    <3> QED BY <2>3, <2>4, <3>1, <3>2 DEF Kept
  <2>7. /\ SubSeq(a, 2, R + 1) \in Seq(S) /\ Len(SubSeq(a, 2, R + 1)) = R
        /\ \A i \in 1..R : SubSeq(a, 2, R + 1)[i] = a[2 + i - 1]
    <3>1. 2 \in 1..(Len(a) + 1) /\ R + 1 \in 1..Len(a) /\ 2 <= (R + 1) + 1
          /\ (R + 1) - 2 + 1 = R
      BY <1>0, <2>3
    <3> QED BY <2>3, <3>1, SubSeqProperties
  <2>8. /\ SubSeq(b, m + 1, L + 1) \in Seq(S) /\ Len(SubSeq(b, m + 1, L + 1)) = R
        /\ \A i \in 1..R : SubSeq(b, m + 1, L + 1)[i] = b[m + 1 + i - 1]
    <3>1. m + 1 \in 1..(Len(b) + 1) /\ L + 1 \in 1..Len(b) /\ m + 1 <= (L + 1) + 1
          /\ (L + 1) - (m + 1) + 1 = R
      BY <1>0, <1>1, <2>4
    <3> QED BY <2>4, <3>1, SubSeqProperties
  <2>9. SubSeq(a, 2, R + 1) = SubSeq(b, m + 1, L + 1)
    <3> DEFINE x == SubSeq(a, 2, R + 1)
               y == SubSeq(b, m + 1, L + 1)
    <3>1. /\ x \in Seq(S) /\ y \in Seq(S) /\ Len(x) = R /\ Len(y) = R
          /\ \A i \in 1..R : x[i] = y[i]
      BY <2>5, <2>7, <2>8
    <3> HIDE DEF x, y
    <3>2. x = y
      BY <3>1, SeqEqual
    <3> QED BY <3>2 DEF x, y
  <2> QED BY <2>6, <2>9 DEF a, b, k
<1>2. CASE ~(L > R)
  BY <1>2 DEF Kept
<1> QED BY <1>1, <1>2

Ringing == ring = Kept(captured)

LEMMA RingingNext ==
    Typed /\ Ringing /\ DecoyNumbersMatch /\ [Next]_vars => Ringing' /\ DecoyNumbersMatch'
<1> SUFFICES ASSUME Typed, Ringing, DecoyNumbersMatch, [Next]_vars
             PROVE  Ringing' /\ DecoyNumbersMatch'
  OBVIOUS
<1>0. /\ captured \in Seq({"mine", "stale", "other"}) /\ ring \in Seq({"mine", "stale", "other"})
      /\ decoys \in Seq([at : Nat, entry : {"mine", "stale", "other"}])
  BY DEF Typed, TypeOK
<1>1. ASSUME NEW p \in Policies, Begin(p) PROVE Ringing' /\ DecoyNumbersMatch'
  <2>1. ring' = Kept(captured') /\ decoys' = <<>>
    BY <1>1 DEF Begin, Typed, Fresh
  <2> QED BY <2>1 DEF Ringing, DecoyNumbersMatch
<1>2. ASSUME NEW e \in {"mine", "other"}, Capture(e) PROVE Ringing' /\ DecoyNumbersMatch'
  <2>1. /\ captured' = Append(captured, e) /\ ring' = Kept(Append(ring, e))
        /\ decoys = <<>> /\ decoys' = decoys
    BY <1>2 DEF Capture, Appended, streams
  <2>2. Kept(Append(Kept(captured), e)) = Kept(Append(captured, e))
    BY <1>0, KeptAppend
  <2> QED BY <2>1, <2>2 DEF Ringing, DecoyNumbersMatch
<1>3. CASE Inject
  <2>1. ring' = ring /\ captured' = captured
    BY <1>3 DEF Inject
  <2>2. CASE decoys' = decoys
    BY <2>1, <2>2 DEF Ringing, DecoyNumbersMatch, Recent
  <2>3. CASE /\ Matching # {}
             /\ decoys' = Append(decoys, [at |-> forward.written, entry |-> Lookup])
    <3> DEFINE decoy == [at |-> forward.written, entry |-> Lookup]
    <3>1. Lookup \in {"mine", "stale"} /\ \E k \in DOMAIN ring : Lookup = ring[k]
      BY <1>0, <2>3, LookupMatches
    <3>2. PICK k \in DOMAIN Kept(captured) : Lookup = Kept(captured)[k]
      BY <3>1 DEF Ringing
    <3>3. \E j \in DOMAIN captured :
            j > Len(captured) - RingSize /\ captured[j] = Kept(captured)[k]
      BY <1>0, KeptElement
    <3>4. \E j \in Recent : captured[j] = decoy.entry /\ captured[j] # "other"
      BY <3>1, <3>2, <3>3 DEF Recent
    <3> HIDE DEF decoy
    <3>5. /\ DOMAIN decoys' = 1..(Len(decoys) + 1) /\ DOMAIN decoys = 1..Len(decoys)
          /\ decoys'[Len(decoys) + 1] = decoy
          /\ \A i \in 1..Len(decoys) : decoys'[i] = decoys[i]
          /\ Len(decoys) \in Nat
      <4>1. decoys' = Append(decoys, decoy)
        BY <2>3 DEF decoy
      <4> QED BY <1>0, <4>1
    <3>6. ASSUME NEW i \in DOMAIN decoys'
          PROVE  \E j \in Recent : captured[j] = decoys'[i].entry /\ captured[j] # "other"
      <4>1. CASE i = Len(decoys) + 1
        BY <3>4, <3>5, <4>1
      <4>2. CASE i # Len(decoys) + 1
        <5>1. i \in DOMAIN decoys /\ decoys'[i] = decoys[i]
          BY <3>5, <4>2
        <5> QED BY <5>1 DEF DecoyNumbersMatch
      <4> QED BY <4>1, <4>2
    <3>7. Recent' = Recent
      BY <2>1 DEF Recent
    <3> QED BY <2>1, <3>6, <3>7 DEF Ringing, DecoyNumbersMatch
  <2> QED BY <1>3, <2>2, <2>3 DEF Inject
<1>4. ASSUME UNCHANGED <<decoys, captured, ring>> PROVE Ringing' /\ DecoyNumbersMatch'
  BY <1>4 DEF Ringing, DecoyNumbersMatch, Recent
<1>5. ASSUME NEW end, ClientEnds(end) \/ TargetEnds(end) PROVE UNCHANGED <<decoys, captured, ring>>
  BY <1>5 DEF ClientEnds, TargetEnds
<1>6. ASSUME NEW n, Read(n) \/ Answer(n) PROVE UNCHANGED <<decoys, captured, ring>>
  BY <1>6 DEF Read, Answer, streams
<1>7. CASE ReadEnds \/ WriteFails
  BY <1>4, <1>7 DEF ReadEnds, WriteFails
<1>8. CASE Write \/ WriteChunk \/ WriteRest
  BY <1>4, <1>8 DEF Write, WriteChunk, WriteRest, Written
<1>9. CASE AnswersEnd \/ GiveBack \/ Finish
  BY <1>4, <1>9 DEF AnswersEnd, GiveBack, Finish, streams
<1>10. CASE WaiterEnds \/ WaiterCloses
  BY <1>4, <1>10 DEF WaiterEnds, WaiterCloses, streams
<1>11. CASE UNCHANGED vars
  BY <1>4, <1>11 DEF vars, streams
<1> QED
  BY <1>1, <1>2, <1>3, <1>4, <1>5, <1>6, <1>7, <1>8, <1>9, <1>10, <1>11
     DEF Next, Running, StreamForward, StreamReverse, Waiter, Peers

(* For every size of the ring and everything captured before, a decoy has   *)
(* the numbers of a recent connection between the same ports.               *)
THEOREM DecoyNumbersMatchCorrect == Spec => []DecoyNumbersMatch
<1>1. Init => Ringing /\ DecoyNumbersMatch
  BY Sizes DEF Init, Ringing, DecoyNumbersMatch, Kept
<1> QED BY <1>1, TypedInit, TypedNext, RingingNext, PTL DEF Spec

-----------------------------------------------------------------------------
(* The answers.  As long as the session is up, the proxy closes the target  *)
(* only for a reason the client knows of or a failed write tells of, so that *)
(* StreamReverse stops short of the last answer only with an excuse.        *)
Excuse == client.end # "open" \/ target.end = "gone" \/ forward.pc = "failed" \/ waiter = "closed"

Answering ==
    /\ reverse.pc \notin {"write", "ended"} => reverse.written = reverse.read
    /\ reverse.pc = "ended" =>
         Excuse \/ (target.end = "finished" /\ reverse.written = target.sent)
    /\ stage = "streams" /\ conn.target = "closed" => Excuse
    /\ stage = "streams" /\ conn.client = "closed" => waiter = "closed"
    /\ stage = "over" => reverse.pc = "ended"

LEMMA ExcuseStays ==
    Typed /\ TimerAfterHello /\ Excuse /\ [Next]_vars => Excuse' \/ stage = "handshake"
<1> SUFFICES ASSUME Typed, TimerAfterHello, Excuse, [Next]_vars, stage # "handshake"
             PROVE  Excuse'
  OBVIOUS
<1> USE DEF Excuse
<1>1. ASSUME NEW end \in {"finished", "gone"}, ClientEnds(end) \/ TargetEnds(end) PROVE Excuse'
  BY <1>1 DEF ClientEnds, TargetEnds, Typed, TypeOK
<1>2. ASSUME NEW n \in Nat \ {0}, Read(n) PROVE Excuse'
  BY <1>2 DEF Read
<1>4. CASE Write \/ WriteChunk \/ WriteRest
  <2>1. /\ client' = client /\ target' = target
        /\ forward.pc # "failed"
        /\ waiter' = waiter \/ ~inspection.probing
    BY <1>4 DEF Write, WriteChunk, WriteRest, Written
  <2>2. waiter = "closed" => inspection.probing
    BY DEF TimerAfterHello
  <2> QED BY <2>1, <2>2
<1>5. CASE ReadEnds \/ Inject
  BY <1>5 DEF ReadEnds, Inject
<1>6. CASE WriteFails
  BY <1>6 DEF WriteFails, Typed, TypeOK
<1>7. CASE AnswersEnd \/ GiveBack \/ Finish
  BY <1>7 DEF AnswersEnd, GiveBack, Finish, streams
<1>8. CASE WaiterEnds \/ WaiterCloses
  BY <1>8 DEF WaiterEnds, WaiterCloses, streams
<1>9. ASSUME NEW e, Capture(e) PROVE Excuse'
  BY <1>9 DEF Capture, streams
<1>10. ASSUME NEW n, Answer(n) PROVE Excuse'
  BY <1>10 DEF Answer, streams
<1>11. CASE UNCHANGED vars
  BY <1>11 DEF vars, streams
<1>12. ASSUME NEW n \in 1..MaxBytes, Read(n) PROVE Excuse'
  BY <1>2, <1>12, Sizes
<1>13. ASSUME NEW p, Begin(p) PROVE FALSE
  BY <1>13 DEF Begin
<1> QED
  BY <1>1, <1>4, <1>5, <1>6, <1>7, <1>8, <1>9, <1>10, <1>11, <1>12, <1>13
     DEF Next, Running, StreamForward, StreamReverse, Waiter, Peers

LEMMA AnsweringNext ==
    Typed /\ TimerAfterHello /\ Answering /\ [Next]_vars => Answering'
<1> SUFFICES ASSUME Typed, TimerAfterHello, Answering, [Next]_vars PROVE Answering'
  OBVIOUS
<1>0. /\ stage # "handshake" /\ Excuse => Excuse'
      /\ stage = "handshake" => reverse.pc = "idle" /\ forward.pc = "idle" /\ waiter = "off"
      /\ reverse \in [pc : {"idle", "read", "write", "ended"}, read : Nat, written : Nat]
      /\ forward \in ForwardRecords
      /\ conn \in [client : {"open", "closed"}, target : {"open", "closed"}]
      /\ client \in [sent : 0..MaxBytes, end : {"open", "finished", "gone"}]
      /\ target \in [sent : 0..MaxAnswers, end : {"open", "finished", "gone"}]
      /\ stage \in {"handshake", "streams", "over"}
  BY ExcuseStays DEF Typed, TypeOK, Fresh, ForwardRecords
<1>1. ASSUME NEW p \in Policies, Begin(p) PROVE Answering'
  <2>1. /\ stage' = "streams" /\ reverse'.pc = "read" /\ reverse'.read = 0 /\ reverse'.written = 0
        /\ conn'.client = "open" /\ conn'.target = "open"
    BY <1>1 DEF Begin, Typed, Fresh
  <2> QED BY <2>1 DEF Answering
<1>2. ASSUME stage' = stage, conn' = conn, reverse' = reverse, waiter' = waiter,
             target' = target \/ (target'.end # target.end /\ target.end = "open")
                              \/ target'.end = "gone"
      PROVE  Answering'
  <2>1. reverse.pc = "ended" => Excuse' \/ (target'.end = "finished" /\ reverse.written = target'.sent)
    <3>1. CASE reverse.pc = "ended" /\ Excuse
      BY <1>0, <3>1
    <3>2. CASE reverse.pc = "ended" /\ target.end = "finished" /\ reverse.written = target.sent
      BY <1>2, <3>2 DEF Excuse
    <3> QED BY <3>1, <3>2 DEF Answering
  <2> QED BY <1>0, <1>2, <2>1 DEF Answering
<1>3. ASSUME NEW end \in {"finished", "gone"}, ClientEnds(end) \/ TargetEnds(end) PROVE Answering'
  <2>1. CASE ClientEnds(end)
    BY <1>2, <2>1 DEF ClientEnds
  <2>2. CASE TargetEnds(end)
    <3>1. target.end \in {"open", "finished"} /\ target.end # end /\ target'.end = end
      BY <1>0, <2>2 DEF TargetEnds
    <3> QED BY <1>2, <2>2, <3>1 DEF TargetEnds
  <2> QED BY <1>3, <2>1, <2>2
<1>4. ASSUME NEW e, Capture(e) PROVE Answering'
  BY <1>2, <1>4 DEF Capture, streams
<1>5. ASSUME NEW n, Read(n) PROVE Answering'
  BY <1>2, <1>5 DEF Read
<1>6. CASE Inject
  BY <1>2, <1>6 DEF Inject
<1>7. CASE Write \/ WriteChunk \/ WriteRest
  <2>1. /\ stage' = stage /\ conn' = conn /\ reverse' = reverse /\ target' = target
        /\ waiter' = waiter \/ ~inspection.probing
    BY <1>7 DEF Write, WriteChunk, WriteRest, Written
  <2>2. waiter # "off" => inspection.probing
    BY DEF TimerAfterHello
  <2>3. CASE waiter' = waiter
    BY <1>2, <2>1, <2>3
  <2>4. CASE waiter = "off"
    BY <1>0, <2>1, <2>4 DEF Answering
  <2> QED BY <2>1, <2>2, <2>3, <2>4
<1>8. CASE ReadEnds \/ WriteFails
  <2>1. /\ stage' = stage /\ reverse' = reverse /\ target' = target /\ client' = client
        /\ waiter' = waiter /\ conn'.client = conn.client
    BY <1>0, <1>8 DEF ReadEnds, WriteFails
  <2>2. stage = "streams" => Excuse'
    <3>1. CASE ReadEnds
      BY <2>1, <3>1 DEF ReadEnds, Answering, Excuse
    <3>2. CASE WriteFails
      <4>1. forward'.pc = "failed"
        BY <1>0, <3>2 DEF WriteFails, ForwardRecords
      <4> QED BY <4>1 DEF Excuse
    <3> QED BY <1>8, <3>1, <3>2
  <2> QED BY <1>0, <2>1, <2>2 DEF Answering
<1>9. ASSUME NEW n \in 1..MaxAnswers, Answer(n) PROVE Answering'
  <2>1. /\ stage' = stage /\ conn' = conn /\ waiter' = waiter
        /\ reverse.pc = "read" /\ reverse'.pc = "write"
    BY <1>0, <1>9 DEF Answer, streams
  <2> QED BY <1>0, <2>1 DEF Answering
<1>10. CASE AnswersEnd
  <2>1. /\ stage' = stage /\ conn' = conn /\ waiter' = waiter /\ target' = target
        /\ reverse.pc = "read" /\ reverse'.pc = "ended" /\ reverse'.written = reverse.written
        /\ \/ conn.target = "closed" \/ target.end = "gone"
           \/ target.end = "finished" /\ reverse.read = target.sent
    BY <1>0, <1>10 DEF AnswersEnd, streams
  <2>2. stage = "streams"
    BY <1>0, <2>1 DEF Answering
  <2>3. Excuse \/ (target.end = "finished" /\ reverse.written = target.sent)
    BY <2>1, <2>2 DEF Answering, Excuse
  <2> QED BY <1>0, <2>1, <2>2, <2>3 DEF Answering
<1>11. CASE GiveBack
  <2>1. /\ stage' = stage /\ conn' = conn /\ waiter' = waiter /\ target' = target
        /\ reverse.pc = "write"
    BY <1>11 DEF GiveBack, streams
  <2>2. stage = "streams"
    BY <1>0, <2>1 DEF Answering
  <2>3. CASE reverse' = [reverse EXCEPT !.pc = "read", !.written = reverse.read]
    <3>1. reverse'.pc = "read" /\ reverse'.written = reverse'.read
      BY <1>0, <2>3
    <3> QED BY <1>0, <2>1, <2>2, <3>1 DEF Answering
  <2>4. CASE /\ conn.client = "closed" \/ client.end = "gone"
             /\ reverse' = [reverse EXCEPT !.pc = "ended"]
    <3>1. Excuse /\ reverse'.pc = "ended"
      BY <1>0, <2>2, <2>4 DEF Answering, Excuse
    <3> QED BY <1>0, <2>1, <2>2, <3>1 DEF Answering
  <2> QED BY <1>11, <2>3, <2>4 DEF GiveBack
<1>12. CASE Finish
  <2>1. /\ stage = "streams" /\ stage' = "over" /\ reverse' = reverse /\ target' = target
        /\ reverse.pc = "ended"
    BY <1>12 DEF Finish
  <2> QED BY <1>0, <2>1 DEF Answering
<1>13. CASE WaiterEnds
  BY <1>0, <1>13 DEF WaiterEnds, streams, Answering
<1>14. CASE WaiterCloses
  <2>1. /\ stage' = stage /\ reverse' = reverse /\ waiter' = "closed" /\ Excuse'
    BY <1>14 DEF WaiterCloses, Excuse
  <2> QED BY <2>1 DEF Answering
<1>15. CASE UNCHANGED vars
  BY <1>2, <1>15 DEF vars, streams
<1> QED
  BY <1>1, <1>3, <1>4, <1>5, <1>6, <1>7, <1>8, <1>9, <1>10, <1>11, <1>12, <1>13, <1>14, <1>15
     DEF Next, Running, StreamForward, StreamReverse, Waiter, Peers

(* A client that listens to the end has all of the answers, however the two *)
(* streams and the waiting goroutine are scheduled.                         *)
THEOREM AnswersDeliveredCorrect == Spec => []AnswersDelivered
<1>1. Init => Answering
  BY DEF Init, Answering
<1>2. Answering => AnswersDelivered
  BY DEF Answering, Excuse, AnswersDelivered
<1> QED
  BY <1>1, <1>2, TypedInit, TypedNext, InspectingInit, InspectingNext, AnsweringNext, PTL DEF Spec
=============================================================================
