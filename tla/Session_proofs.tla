--------------------------- MODULE Session_proofs ---------------------------
(***************************************************************************)
(* A session, for any streams of client and upstreams, any configuration,  *)
(* learned upstream and lists.  The handshake is a walk through its steps: *)
(* what is dialed and open, what is left of the streams and which policy   *)
(* the dial goes by depend on the step alone.                              *)
(*                                                                         *)
(* The second half is about the decoy: what is written of a ClientHello is *)
(* read, renamed and written again, for messages of any length.            *)
(***************************************************************************)
EXTENDS Session, Forwarding_proofs

-----------------------------------------------------------------------------
(* What each step knows.                                                   *)
Pc == hs_session.pc
Undialed == {"greeting", "request", "dial", "streams"}
Dialing == {"negotiate", "authenticate", "connect"}
Connected == {"reply", "established"}

SessionFields == {"pc", "config", "filters", "host", "port", "known", "policy", "learnt"}
Shape ==
    /\ DOMAIN hs_session = SessionFields
    /\ Pc \in Undialed \cup Dialing \cup Connected \cup {"fallback", "over"}

ConnectionsFit ==
    /\ Pc \in Undialed => dials = <<>> /\ opened = {}
    /\ Pc = "fallback" => dials = <<"direct">> /\ opened = {}
    /\ Pc \in Dialing \cup Connected =>
         /\ dials = <<HS!Tried>> \/ dials = <<"direct", HS!Tried>>
         /\ opened = {HS!Tried}
    /\ Pc = "over" => opened = {}

(* The policy of the session, as it was when the dial began.               *)
Route == HS!PolicyFor(HS!Loaded(hs_session.config), hs_session.host, hs_session.known)
DialsFit ==
    /\ Pc = "dial" \/ dials # <<>> =>
         /\ hs_session.config \in Configs /\ HS!Valid(HS!Loaded(hs_session.config))
         /\ hs_session.filters \in Filters /\ hs_session.host \in Seq(STRING)
    /\ Pc \in Dialing \cup {"dial", "fallback"} => hs_session.policy = Route
    /\ Pc = "fallback" => Route.egress # "socks5" /\ HS!HasFallback(Route)
    /\ dials # <<>> =>
         \/ Route.egress = "socks5" /\ dials = <<Route.upstream>>
         \/ Route.egress # "socks5" /\ dials = <<"direct">>
         \/ Route.egress # "socks5" /\ HS!HasFallback(Route) /\ dials = <<"direct", Route.fallback>>
    /\ hs_session.learnt # "" =>
         /\ Pc \in Connected \cup {"over"} /\ Len(dials) = 2
         /\ Route.egress # "socks5" /\ HS!HasFallback(Route)
         /\ hs_session.learnt = Route.fallback
         /\ HS!CanLearn(hs_session.filters, hs_session.host)

(* What is left of a stream of which i bytes have been taken.              *)
Left(s, i) == [bytes |-> SubSeq(s.bytes, i + 1, Len(s.bytes)), payload |-> s.payload]
AllTaken(stream) == Len(stream.bytes) = stream.payload
Upstreams == UNION {UpstreamStreams[u] : u \in DOMAIN UpstreamStreams}

ClientFits ==
    /\ Pc = "greeting" => hs_client \in ClientStreams
    /\ Pc = "request" =>
         \E s \in ClientStreams : \E i \in 0..Len(s.bytes) :
             HS!IsGreeting(SubSeq(s.bytes, 1, i)) /\ hs_client = Left(s, i)
    /\ Pc \in Dialing \cup Connected \cup {"dial", "fallback"} => AllTaken(hs_client)

UpstreamFits ==
    /\ Pc \in Undialed \cup {"fallback"} => hs_upstream = HS!NoStream
    /\ Pc = "negotiate" => hs_upstream \in Upstreams
    /\ Pc = "authenticate" =>
         \E s \in Upstreams :
             Len(s.bytes) >= 2 /\ SubSeq(s.bytes, 1, 2) = <<"5", "2">> /\ hs_upstream = Left(s, 2)
    /\ Pc = "connect" =>
         \E s \in Upstreams : \E i \in 0..Len(s.bytes) :
             HS!IsAgreement(SubSeq(s.bytes, 1, i)) /\ hs_upstream = Left(s, i)
    /\ Pc \in Connected => AllTaken(hs_upstream)
    /\ Pc \in Undialed \cup Connected \cup {"fallback"} => deadline = FALSE

HandshakeInv == Shape /\ ConnectionsFit /\ DialsFit /\ ClientFits /\ UpstreamFits

-----------------------------------------------------------------------------
(* Numbers and streams.                                                    *)
LEMMA ValueType == ASSUME NEW byte PROVE HS!Value(byte) \in Nat
BY DEF HS!Value, HS!Many

LEMMA LeftFacts ==
    ASSUME NEW s \in HS!Streams, NEW i \in 0..Len(s.bytes)
    PROVE  /\ Left(s, i).payload = s.payload /\ Left(s, i).bytes \in Seq(STRING)
           /\ Len(Left(s, i).bytes) = Len(s.bytes) - i
           /\ \A k \in 1..(Len(s.bytes) - i) : Left(s, i).bytes[k] = s.bytes[i + k]
           /\ Left(s, 0) = s
<1>1. s.bytes \in Seq(STRING) /\ Len(s.bytes) \in Nat /\ s = [bytes |-> s.bytes, payload |-> s.payload]
  BY DEF HS!Streams
<1>2. \A k \in (i + 1)..Len(s.bytes) : s.bytes[k] \in STRING
  BY <1>1
<1>3. /\ SubSeq(s.bytes, i + 1, Len(s.bytes)) \in Seq(STRING)
      /\ Len(SubSeq(s.bytes, i + 1, Len(s.bytes))) = Len(s.bytes) - i
      /\ \A k \in 1..(Len(s.bytes) - i) : SubSeq(s.bytes, i + 1, Len(s.bytes))[k] = s.bytes[i + k]
  <2>1. i + 1 \in Int /\ Len(s.bytes) \in Int
    BY <1>1
  <2>2. /\ SubSeq(s.bytes, i + 1, Len(s.bytes)) \in Seq(STRING)
        /\ Len(SubSeq(s.bytes, i + 1, Len(s.bytes)))
             = IF i + 1 <= Len(s.bytes) THEN Len(s.bytes) - (i + 1) + 1 ELSE 0
        /\ \A k \in 1..(Len(s.bytes) - (i + 1) + 1) :
             SubSeq(s.bytes, i + 1, Len(s.bytes))[k] = s.bytes[i + 1 + k - 1]
    BY <1>2, <2>1, SubSeqProperties
  <2> QED BY <1>1, <2>2
<1>4. SubSeq(s.bytes, 0 + 1, Len(s.bytes)) = s.bytes
  BY <1>1, SubSeqFull
<1> QED BY <1>1, <1>3, <1>4 DEF Left

(* Taking n bytes of what is left; they are the next n of the stream.      *)
LEMMA TakenFacts ==
    ASSUME NEW s \in HS!Streams, NEW i \in 0..Len(s.bytes),
           NEW n \in 0..(Len(s.bytes) - i)
    PROVE  /\ HS!Taken(Left(s, i), n) = Left(s, i + n)
           /\ SubSeq(Left(s, i).bytes, 1, n) = SubSeq(s.bytes, i + 1, i + n)
           /\ i + n \in 0..Len(s.bytes)
<1> DEFINE b == Left(s, i).bytes
<1>1. s.bytes \in Seq(STRING) /\ Len(s.bytes) \in Nat /\ i + n \in 0..Len(s.bytes)
  BY DEF HS!Streams
<1>2. /\ b \in Seq(STRING) /\ Len(b) = Len(s.bytes) - i
      /\ \A k \in 1..(Len(s.bytes) - i) : b[k] = s.bytes[i + k]
  BY LeftFacts
<1>3. /\ Left(s, i + n).bytes \in Seq(STRING) /\ Len(Left(s, i + n).bytes) = Len(s.bytes) - (i + n)
      /\ \A k \in 1..(Len(s.bytes) - (i + n)) : Left(s, i + n).bytes[k] = s.bytes[i + n + k]
  BY <1>1, LeftFacts
<1> HIDE DEF b
<1>4. ASSUME NEW t \in Seq(STRING), NEW m \in 0..Len(t), NEW l \in m..Len(t)
      PROVE  /\ SubSeq(t, m + 1, l) \in Seq(STRING) /\ Len(SubSeq(t, m + 1, l)) = l - m
             /\ \A k \in 1..(l - m) : SubSeq(t, m + 1, l)[k] = t[m + k]
  <2>1. m + 1 \in Int /\ l \in Int /\ m \in Nat /\ l \in Nat /\ l <= Len(t)
    BY <1>4
  <2>2. \A k \in (m + 1)..l : t[k] \in STRING
    BY <1>4, <2>1
  <2>3. /\ SubSeq(t, m + 1, l) \in Seq(STRING)
        /\ Len(SubSeq(t, m + 1, l)) = IF m + 1 <= l THEN l - (m + 1) + 1 ELSE 0
        /\ \A k \in 1..(l - (m + 1) + 1) : SubSeq(t, m + 1, l)[k] = t[m + 1 + k - 1]
    BY <2>1, <2>2, SubSeqProperties
  <2> QED BY <1>4, <2>1, <2>3
<1>5. ASSUME NEW t \in Seq(STRING), NEW u \in Seq(STRING), Len(t) = Len(u),
             \A k \in 1..Len(t) : t[k] = u[k]
      PROVE  t = u
  BY <1>5
<1>6. SubSeq(b, n + 1, Len(b)) = Left(s, i + n).bytes
  <2>1. n \in 0..Len(b) /\ Len(b) \in n..Len(b)
    BY <1>1, <1>2
  <2>2. /\ SubSeq(b, n + 1, Len(b)) \in Seq(STRING) /\ Len(SubSeq(b, n + 1, Len(b))) = Len(b) - n
        /\ \A k \in 1..(Len(b) - n) : SubSeq(b, n + 1, Len(b))[k] = b[n + k]
    BY <1>2, <1>4, <2>1
  <2>3. ASSUME NEW k \in 1..(Len(b) - n)
        PROVE  b[n + k] = s.bytes[i + (n + k)]
    <3>1. PICK m : m = n + k
      OBVIOUS
    <3>2. m \in 1..(Len(s.bytes) - i)
      BY <1>1, <1>2, <3>1
    <3> QED BY <1>2, <3>1, <3>2
  <2>4. \A k \in 1..(Len(b) - n) : SubSeq(b, n + 1, Len(b))[k] = Left(s, i + n).bytes[k]
    BY <1>1, <1>2, <1>3, <2>2, <2>3
  <2> QED BY <1>1, <1>2, <1>3, <1>5, <2>2, <2>4
<1>7. SubSeq(b, 1, n) = SubSeq(s.bytes, i + 1, i + n)
  <2>1. /\ SubSeq(b, 0 + 1, n) \in Seq(STRING) /\ Len(SubSeq(b, 0 + 1, n)) = n - 0
        /\ \A k \in 1..(n - 0) : SubSeq(b, 0 + 1, n)[k] = b[0 + k]
    <3>1. 0 \in 0..Len(b) /\ n \in 0..Len(b)
      BY <1>1, <1>2
    <3> QED BY <1>2, <1>4, <3>1
  <2>2. /\ SubSeq(s.bytes, i + 1, i + n) \in Seq(STRING)
        /\ Len(SubSeq(s.bytes, i + 1, i + n)) = i + n - i
        /\ \A k \in 1..(i + n - i) : SubSeq(s.bytes, i + 1, i + n)[k] = s.bytes[i + k]
    <3>1. i + n \in i..Len(s.bytes)
      BY <1>1
    <3> QED BY <1>1, <1>4, <3>1
  <2>3. \A k \in 1..n : SubSeq(b, 1, n)[k] = SubSeq(s.bytes, i + 1, i + n)[k]
    BY <1>1, <1>2, <2>1, <2>2
  <2>4. Len(SubSeq(b, 1, n)) = n /\ Len(SubSeq(s.bytes, i + 1, i + n)) = n
    BY <1>1, <2>1, <2>2
  <2>5. SubSeq(b, 1, n) \in Seq(STRING) /\ SubSeq(s.bytes, i + 1, i + n) \in Seq(STRING)
    BY <2>1, <2>2
  <2> QED BY <1>5, <2>3, <2>4, <2>5
<1>8. HS!Taken(Left(s, i), n) = Left(s, i + n)
  <2>1. Left(s, i) = [bytes |-> b, payload |-> s.payload]
    BY DEF Left, b
  <2>2. Left(s, i).bytes = b
    BY DEF b
  <2>3. HS!Taken(Left(s, i), n) = [Left(s, i) EXCEPT !.bytes = SubSeq(b, n + 1, Len(b))]
    BY <2>2 DEF HS!Taken
  <2> QED BY <1>6, <2>1, <2>3 DEF Left
<1> QED BY <1>1, <1>7, <1>8 DEF b

-----------------------------------------------------------------------------
(* Which strategy decides: what the lists match is what they are meant to   *)
(* list, and of the strategies that list a host there is a first.           *)
LEMMA SameSequence ==
    ASSUME NEW S, NEW t \in Seq(S), NEW u \in Seq(S), Len(t) = Len(u),
           \A k \in 1..Len(t) : t[k] = u[k]
    PROVE  t = u
OBVIOUS

LEMMA OneDial == ASSUME NEW b PROVE Append(<<>>, b) = <<b>>
OBVIOUS

LEMMA TwoDials == ASSUME NEW a, NEW b PROVE Append(<<a>>, b) = <<a, b>>
<1> DEFINE S == {a, b}
<1>1. /\ <<a>> \in Seq(S) /\ Len(<<a>>) = 1 /\ <<a>>[1] = a
      /\ <<a, b>> \in Seq(S) /\ Len(<<a, b>>) = 2 /\ <<a, b>>[1] = a /\ <<a, b>>[2] = b
  OBVIOUS
<1>2. /\ Append(<<a>>, b) \in Seq(S) /\ Len(Append(<<a>>, b)) = 2
      /\ Append(<<a>>, b)[1] = a /\ Append(<<a>>, b)[2] = b
  BY <1>1
<1>3. PICK t : t = Append(<<a>>, b)
  OBVIOUS
<1>4. PICK u : u = <<a, b>>
  OBVIOUS
<1> HIDE DEF S
<1>5. t \in Seq(S) /\ u \in Seq(S) /\ Len(t) = 2 /\ Len(u) = 2 /\ t[1] = u[1] /\ t[2] = u[2]
  BY <1>1, <1>2, <1>3, <1>4
<1>6. t = u
  BY <1>5, SameSequence
<1> QED BY <1>3, <1>4, <1>6

LEMMA PartFacts ==
    ASSUME NEW S, NEW t \in Seq(S), NEW m \in 1..(Len(t) + 1), NEW l \in (m - 1)..Len(t)
    PROVE  /\ SubSeq(t, m, l) \in Seq(S) /\ Len(SubSeq(t, m, l)) = l - m + 1
           /\ \A k \in 1..(l - m + 1) : SubSeq(t, m, l)[k] = t[m + k - 1]
<1>1. m \in Int /\ l \in Int /\ m >= 1 /\ l <= Len(t) /\ l >= m - 1
  OBVIOUS
<1>2. \A k \in m..l : t[k] \in S
  BY <1>1
<1>3. /\ SubSeq(t, m, l) \in Seq(S)
      /\ Len(SubSeq(t, m, l)) = IF m <= l THEN l - m + 1 ELSE 0
      /\ \A k \in 1..(l - m + 1) : SubSeq(t, m, l)[k] = t[m + k - 1]
  BY <1>1, <1>2, SubSeqProperties
<1> QED BY <1>1, <1>3

LEMMA SuffixFacts ==
    ASSUME NEW S, NEW s \in Seq(S), NEW t \in Seq(S)
    PROVE  HS!IsSuffix(s, t) <=>
             /\ Len(s) <= Len(t)
             /\ \A j \in 1..Len(s) : s[j] = t[Len(t) - Len(s) + j]
<1> DEFINE r == HS!Reverse(s)
           q == HS!Reverse(t)
           n == Len(s)
           m == Len(t)
<1>1. n \in Nat /\ m \in Nat
  OBVIOUS
<1>2. /\ r \in Seq(S) /\ Len(r) = n /\ \A j \in 1..n : r[j] = s[n - j + 1]
      /\ q \in Seq(S) /\ Len(q) = m /\ \A j \in 1..m : q[j] = t[m - j + 1]
  BY <1>1 DEF HS!Reverse
<1>3. HS!IsSuffix(s, t) <=> n <= m /\ SubSeq(r, 1, n) = SubSeq(q, 1, n)
  BY <1>2 DEF HS!IsSuffix, HS!IsPrefix
<1> HIDE DEF r, q
<1>4. ASSUME n <= m
      PROVE  SubSeq(r, 1, n) = SubSeq(q, 1, n) <=> \A j \in 1..n : s[n - j + 1] = t[m - j + 1]
  <2>1. /\ SubSeq(r, 1, n) \in Seq(S) /\ Len(SubSeq(r, 1, n)) = n - 1 + 1
        /\ \A k \in 1..(n - 1 + 1) : SubSeq(r, 1, n)[k] = r[1 + k - 1]
    <3>1. 1 \in 1..(Len(r) + 1) /\ n \in (1 - 1)..Len(r)
      BY <1>1, <1>2
    <3> QED BY <1>2, <3>1, PartFacts
  <2>2. /\ SubSeq(q, 1, n) \in Seq(S) /\ Len(SubSeq(q, 1, n)) = n - 1 + 1
        /\ \A k \in 1..(n - 1 + 1) : SubSeq(q, 1, n)[k] = q[1 + k - 1]
    <3>1. 1 \in 1..(Len(q) + 1) /\ n \in (1 - 1)..Len(q)
      BY <1>1, <1>2, <1>4
    <3> QED BY <1>2, <3>1, PartFacts
  <2>3. \A k \in 1..n : SubSeq(r, 1, n)[k] = s[n - k + 1] /\ SubSeq(q, 1, n)[k] = t[m - k + 1]
    BY <1>1, <1>2, <1>4, <2>1, <2>2
  <2>4. Len(SubSeq(r, 1, n)) = n /\ Len(SubSeq(q, 1, n)) = n
    BY <1>1, <2>1, <2>2
  <2>5. (\A k \in 1..n : SubSeq(r, 1, n)[k] = SubSeq(q, 1, n)[k]) => SubSeq(r, 1, n) = SubSeq(q, 1, n)
    BY <2>1, <2>2, <2>4, SameSequence
  <2> QED BY <2>3, <2>5
<1>5. ASSUME n <= m
      PROVE  (\A j \in 1..n : s[n - j + 1] = t[m - j + 1]) <=> (\A j \in 1..n : s[j] = t[m - n + j])
  <2>1. ASSUME \A j \in 1..n : s[n - j + 1] = t[m - j + 1], NEW j \in 1..n
        PROVE  s[j] = t[m - n + j]
    <3>1. n - j + 1 \in 1..n /\ n - (n - j + 1) + 1 = j /\ m - (n - j + 1) + 1 = m - n + j
      BY <1>1
    <3> QED BY <2>1, <3>1
  <2>2. ASSUME \A j \in 1..n : s[j] = t[m - n + j], NEW j \in 1..n
        PROVE  s[n - j + 1] = t[m - j + 1]
    <3>1. n - j + 1 \in 1..n /\ m - n + (n - j + 1) = m - j + 1
      BY <1>1
    <3> QED BY <2>2, <3>1
  <2> QED BY <2>1, <2>2
<1> QED BY <1>3, <1>4, <1>5

LEMMA WiderSequence == ASSUME NEW A, NEW B, A \subseteq B, NEW t \in Seq(A) PROVE t \in Seq(B)
OBVIOUS

(* PolicyFor's regular expression and the documentation mean the same.     *)
LEMMA EntryMeans ==
    ASSUME NEW S, NEW entry, entry.labels \in Seq(S), entry.labels # <<>>, NEW host \in Seq(S)
    PROVE  HS!EntryMatches(entry, host) <=> HS!Names(entry, host)
<1> DEFINE n == Len(entry.labels)
           m == Len(host)
<1>1. n \in Nat /\ n > 0 /\ m \in Nat
  BY EmptySeq
<1>2. ASSUME HS!EntryMatches(entry, host) PROVE HS!Names(entry, host)
  <2>1. CASE host = entry.labels
    <3>1. SubSeq(host, 1, m) = entry.labels /\ 1 \in 1..m
      BY <1>1, <2>1, SubSeqFull
    <3> QED BY <3>1 DEF HS!Names
  <2>2. CASE entry.suffix /\ HS!IsSuffix(entry.labels, host)
             /\ \A i \in 1..(m - n) : host[i] # ""
    <3>1. n <= m /\ \A j \in 1..n : entry.labels[j] = host[m - n + j]
      BY <2>2, SuffixFacts
    <3>2. PICK k \in 1..m : k = m - n + 1
      <4>1. n <= m
        BY <3>1
      <4> HIDE DEF n, m
      <4>2. m - n + 1 \in 1..m
        BY <1>1, <4>1
      <4> QED BY <4>2
    <3>3. /\ SubSeq(host, k, m) \in Seq(S) /\ Len(SubSeq(host, k, m)) = m - k + 1
          /\ \A j \in 1..(m - k + 1) : SubSeq(host, k, m)[j] = host[k + j - 1]
      <4>1. k \in 1..(m + 1) /\ m \in (k - 1)..m
        BY <1>1
      <4> QED BY <4>1, PartFacts
    <3>4. m - k + 1 = n /\ k - 1 = m - n /\ \A j \in 1..n : k + j - 1 = m - n + j
      BY <1>1, <3>2
    <3>5. SubSeq(host, k, m) = entry.labels
      <4>1. Len(SubSeq(host, k, m)) = n
        BY <3>3, <3>4
      <4>2. \A j \in 1..n : SubSeq(host, k, m)[j] = entry.labels[j]
        BY <3>1, <3>3, <3>4
      <4> QED BY <3>3, <4>1, <4>2, SameSequence
    <3>6. \A i \in 1..(k - 1) : host[i] # ""
      BY <2>2, <3>4
    <3> QED BY <2>2, <3>5, <3>6 DEF HS!Names
  <2> QED BY <1>2, <2>1, <2>2 DEF HS!EntryMatches
<1>3. ASSUME HS!Names(entry, host) PROVE HS!EntryMatches(entry, host)
  <2>1. PICK k \in 1..m :
            /\ SubSeq(host, k, m) = entry.labels
            /\ k = 1 \/ (entry.suffix /\ \A i \in 1..(k - 1) : host[i] # "")
    BY <1>3 DEF HS!Names
  <2>2. CASE k = 1
    <3>1. host = entry.labels
      BY <2>1, <2>2, SubSeqFull
    <3> QED BY <3>1 DEF HS!EntryMatches
  <2>3. CASE k # 1
    <3>1. entry.suffix /\ \A i \in 1..(k - 1) : host[i] # ""
      BY <2>1, <2>3
    <3>2. /\ Len(SubSeq(host, k, m)) = m - k + 1
          /\ \A j \in 1..(m - k + 1) : SubSeq(host, k, m)[j] = host[k + j - 1]
      <4>1. k \in 1..(m + 1) /\ m \in (k - 1)..m
        BY <1>1
      <4> QED BY <4>1, PartFacts
    <3>3. n = m - k + 1
      BY <2>1, <3>2
    <3>4. n <= m /\ m - n = k - 1 /\ \A j \in 1..n : m - n + j = k + j - 1
      <4> HIDE DEF n, m
      <4> QED BY <1>1, <3>3
    <3>5. HS!IsSuffix(entry.labels, host)
      <4>1. \A j \in 1..n : entry.labels[j] = host[m - n + j]
        BY <2>1, <3>2, <3>3, <3>4
      <4> QED BY <3>4, <4>1, SuffixFacts
    <3> QED BY <3>1, <3>4, <3>5 DEF HS!EntryMatches
  <2> QED BY <2>2, <2>3
<1> QED BY <1>2, <1>3

LEMMA Lowered ==
    ASSUME NEW host \in Seq(STRING)
    PROVE  /\ HS!Normalized(host) = HS!Lower(host)
           /\ \E S : STRING \subseteq S /\ HS!Lower(host) \in Seq(S)
<1>1. PICK n \in Nat : n = Len(host) /\ DOMAIN host = 1..n
  OBVIOUS
<1>2. PICK S : S = STRING \cup {LowerCase[host[i]] : i \in 1..n}
  OBVIOUS
<1>3. PICK lower : lower = [i \in 1..n |-> LowerCase[host[i]]]
  OBVIOUS
<1>4. lower \in Seq(S) /\ Len(lower) = n /\ \A i \in 1..n : lower[i] = LowerCase[host[i]]
  BY <1>2, <1>3
<1>5. (lower # <<>> <=> n > 0) /\ (host # <<>> <=> n > 0)
  BY <1>1, <1>4, EmptySeq
<1>6. HS!Normalized(host) =
        IF lower # <<>> /\ lower[n] = "" THEN SubSeq(lower, 1, n - 1) ELSE lower
  BY <1>1, <1>3, <1>4 DEF HS!Normalized, HS!Last, HS!Front
<1>7. HS!FinalDot(host) <=> lower # <<>> /\ lower[n] = ""
  <2>1. CASE n > 0
    <3>1. lower[n] = LowerCase[host[n]]
      BY <1>4, <2>1
    <3> QED BY <1>1, <1>5, <2>1, <3>1 DEF HS!FinalDot
  <2>2. CASE ~(n > 0)
    BY <1>5, <2>2 DEF HS!FinalDot
  <2> QED BY <2>1, <2>2
<1>8. CASE HS!FinalDot(host)
  <2>1. n > 0 /\ HS!Normalized(host) = SubSeq(lower, 1, n - 1)
    BY <1>5, <1>6, <1>7, <1>8
  <2>2. /\ SubSeq(lower, 1, n - 1) \in Seq(S) /\ Len(SubSeq(lower, 1, n - 1)) = n - 1 - 1 + 1
        /\ \A k \in 1..(n - 1 - 1 + 1) : SubSeq(lower, 1, n - 1)[k] = lower[1 + k - 1]
    <3>1. 1 \in 1..(Len(lower) + 1) /\ n - 1 \in (1 - 1)..Len(lower)
      BY <1>1, <1>4, <2>1
    <3> QED BY <1>4, <3>1, PartFacts
  <2>3. HS!Lower(host) = [i \in 1..(n - 1) |-> LowerCase[host[i]]]
    BY <1>1, <1>8 DEF HS!Lower
  <2>4. /\ HS!Lower(host) \in Seq(S) /\ Len(HS!Lower(host)) = n - 1
        /\ \A k \in 1..(n - 1) : HS!Lower(host)[k] = LowerCase[host[k]]
    <3>1. n - 1 \in Nat /\ \A k \in 1..(n - 1) : k \in 1..n
      BY <1>1, <2>1
    <3> QED BY <1>2, <2>3, <3>1
  <2>5. n - 1 - 1 + 1 = n - 1 /\ \A k \in 1..(n - 1) : 1 + k - 1 = k /\ k \in 1..n
    BY <1>1
  <2>6. \A k \in 1..(n - 1) : SubSeq(lower, 1, n - 1)[k] = LowerCase[host[k]]
    BY <1>4, <2>2, <2>5
  <2>7. SubSeq(lower, 1, n - 1) = HS!Lower(host)
    BY <2>2, <2>4, <2>5, <2>6, SameSequence
  <2> QED BY <1>2, <2>1, <2>4, <2>7
<1>9. CASE ~HS!FinalDot(host)
  <2>1. HS!Normalized(host) = lower
    BY <1>6, <1>7, <1>9
  <2>2. HS!Lower(host) = lower
    BY <1>1, <1>3, <1>9 DEF HS!Lower
  <2> QED BY <1>2, <1>4, <2>1, <2>2
<1> QED BY <1>8, <1>9

LEMMA ListMeans ==
    ASSUME NEW list \in HS!Lists, NEW host \in Seq(STRING)
    PROVE  HS!RecordsMatch(list, host) <=> HS!Listed(list, host)
<1>1. PICK S : STRING \subseteq S /\ HS!Lower(host) \in Seq(S)
  BY Lowered
<1>2. ASSUME NEW entry \in list
      PROVE  HS!EntryMatches(entry, HS!Lower(host)) <=> HS!Names(entry, HS!Lower(host))
  <2>1. entry \in [labels : Seq(STRING) \ {<<>>}, suffix : BOOLEAN]
    BY DEF HS!Lists
  <2>2. entry.labels \in Seq(STRING) /\ entry.labels # <<>>
    BY <2>1
  <2>3. entry.labels \in Seq(S)
    BY <1>1, <2>2, WiderSequence
  <2> QED BY <1>1, <2>2, <2>3, EntryMeans
<1> QED BY <1>2, Lowered DEF HS!RecordsMatch, HS!Listed

LEMMA FirstExists ==
    ASSUME NEW T \in SUBSET Nat, T # {}
    PROVE  \E i \in T : \A j \in T : i <= j
<1>1. IsWellFoundedOn(OpToRel(<, Nat), Nat)
  BY NatLessThanWellFounded
<1>2. PICK i \in T : \A j \in T : ~(<<j, i>> \in OpToRel(<, Nat))
  BY <1>1, WFMin
<1>3. \A j \in T : ~(j < i)
  BY <1>2 DEF OpToRel
<1> QED BY <1>3

(* What PolicyFor makes of the configuration LoadConfig has completed is    *)
(* what the configuration as written decides.                              *)
LEMMA RouteDecided ==
    ASSUME NEW c \in Configs, NEW host \in Seq(STRING), NEW known, HS!Valid(HS!Loaded(c)),
           NEW rule, rule = HS!Decision(c, host),
           NEW route, route = HS!PolicyFor(HS!Loaded(c), host, known),
           NEW learned \in BOOLEAN, learned <=> known \in c.upstreams /\ rule.fallback # "none"
    PROVE  /\ rule.static => route.egress = "socks5" /\ route.upstream = rule.upstream
           /\ ~rule.static /\ learned => route.egress = "socks5" /\ route.upstream = known
           /\ ~rule.static /\ ~learned =>
                route.egress # "socks5" /\ route.fallback = rule.fallback
<1> DEFINE l == HS!Loaded(c)
           base == HS!Configured(l, host)
           listing == {i \in DOMAIN c.strategies : HS!Listed(c.strategies[i].list, host)}
<1>1. c \in [upstreams : SUBSET DOMAIN UpstreamStreams, detection : STRING,
             default : HS!DefaultPolicies, strategies : Seq(HS!WrittenStrategies)]
  BY HandshakeAssumption DEF HS!ConstantsOK
<1>2. /\ l.upstreams = c.upstreams /\ l.detection = c.detection
      /\ l.default.egress = HS!Or(c.default.egress, "direct")
      /\ l.default.upstream = c.default.upstream /\ l.default.fallback = c.default.fallback
      /\ DOMAIN l.strategies = DOMAIN c.strategies
      /\ \A i \in DOMAIN c.strategies : l.strategies[i] = HS!NormalizedStrategy(c, c.strategies[i])
  BY <1>1 DEF HS!Loaded, HS!DefaultPolicies
<1>3. ASSUME NEW i \in DOMAIN c.strategies
      PROVE  LET s == c.strategies[i]
                 t == l.strategies[i]
             IN  /\ t.list = s.list /\ t.upstream = HS!StaticUpstream(s)
                 /\ t.fallback = HS!Or(s.fallback, c.detection)
                 /\ t.egress = "socks5" <=> HS!Static(s)
                 /\ HS!RecordsMatch(t.list, host) <=> HS!Listed(s.list, host)
  <2>1. c.strategies[i] \in HS!WrittenStrategies
    BY <1>1
  <2>2. /\ HS!NormalizedStrategy(c, c.strategies[i]).list = c.strategies[i].list
        /\ HS!NormalizedStrategy(c, c.strategies[i]).upstream = HS!StaticUpstream(c.strategies[i])
        /\ HS!NormalizedStrategy(c, c.strategies[i]).fallback
             = HS!Or(c.strategies[i].fallback, c.detection)
        /\ HS!NormalizedStrategy(c, c.strategies[i]).egress = "socks5" <=> HS!Static(c.strategies[i])
    BY <2>1 DEF HS!NormalizedStrategy, HS!WrittenStrategies, HS!Or, HS!StaticUpstream, HS!Static
  <2>3. c.strategies[i].list \in HS!Lists
    BY <2>1 DEF HS!WrittenStrategies
  <2> QED BY <1>2, <2>2, <2>3, ListMeans
<1> HIDE DEF l
<1>4. listing = {i \in DOMAIN l.strategies : HS!RecordsMatch(l.strategies[i].list, host)}
  BY <1>2, <1>3
<1>5. /\ base.egress = "socks5" <=> rule.static
      /\ rule.static => base.upstream = rule.upstream
      /\ base.fallback = rule.fallback
  <2>1. CASE listing = {}
    <3>1. rule = [static |-> c.default.egress = "socks5", upstream |-> c.default.upstream,
                  fallback |-> HS!Or(c.default.fallback, c.detection)]
      BY <2>1 DEF HS!Decision, HS!Or
    <3>2. base = HS!Resolved("default", [l.default EXCEPT !.fallback = HS!Or(@, l.detection)])
      BY <1>4, <2>1 DEF HS!Configured
    <3>3. /\ base.egress = l.default.egress /\ base.upstream = l.default.upstream
          /\ base.fallback = HS!Or(l.default.fallback, l.detection)
      BY <3>2 DEF HS!Resolved
    <3>4. /\ rule.static = (c.default.egress = "socks5")
          /\ rule.upstream = c.default.upstream
          /\ rule.fallback = HS!Or(c.default.fallback, c.detection)
      BY <3>1
    <3> HIDE DEF base
    <3>5. base.egress = "socks5" <=> rule.static
      BY <1>2, <3>3, <3>4 DEF HS!Or
    <3> QED BY <1>2, <3>3, <3>4, <3>5
  <2>2. CASE listing # {}
    <3> DEFINE first == CHOOSE i \in listing : \A j \in listing : i <= j
    <3>1. first \in listing
      <4>1. listing \in SUBSET Nat
        BY <1>1
      <4> HIDE DEF listing
      <4>2. \E i \in listing : \A j \in listing : i <= j
        BY <2>2, <4>1, FirstExists
      <4> QED BY <4>2
    <3>2. rule = [static |-> HS!Static(c.strategies[first]),
                  upstream |-> HS!StaticUpstream(c.strategies[first]),
                  fallback |-> HS!Or(c.strategies[first].fallback, c.detection)]
      BY <2>2 DEF HS!Decision, HS!Or
    <3>3. base = HS!Resolved(l.strategies[first].name, l.strategies[first])
      BY <1>4, <2>2 DEF HS!Configured
    <3> HIDE DEF first
    <3>4. first \in DOMAIN c.strategies
      BY <3>1
    <3>5. /\ l.strategies[first].upstream = HS!StaticUpstream(c.strategies[first])
          /\ l.strategies[first].fallback = HS!Or(c.strategies[first].fallback, c.detection)
          /\ l.strategies[first].egress = "socks5" <=> HS!Static(c.strategies[first])
      BY <1>3, <3>4
    <3>6. /\ base.egress = l.strategies[first].egress
          /\ base.upstream = l.strategies[first].upstream
          /\ base.fallback = l.strategies[first].fallback
      BY <3>3 DEF HS!Resolved
    <3>7. /\ rule.static = HS!Static(c.strategies[first])
          /\ rule.upstream = HS!StaticUpstream(c.strategies[first])
          /\ rule.fallback = HS!Or(c.strategies[first].fallback, c.detection)
      BY <3>2
    <3>8. base.egress = "socks5" <=> rule.static
      BY <3>5, <3>6, <3>7
    <3> HIDE DEF base
    <3> QED BY <3>5, <3>6, <3>7, <3>8
  <2> QED BY <2>1, <2>2
<1>6. DOMAIN base = {"name", "egress", "dpi", "upstream", "fallback"}
  BY DEF HS!Configured, HS!Resolved
<1>7. route = IF known \in l.upstreams /\ base.egress # "socks5" /\ base.fallback # "none"
               THEN [base EXCEPT !.name = "learned-domain", !.egress = "socks5", !.dpi = "none",
                                 !.upstream = known]
               ELSE base
  BY DEF HS!PolicyFor, l
<1> HIDE DEF base
<1> QED BY <1>2, <1>5, <1>6, <1>7

-----------------------------------------------------------------------------
(* A step to another point of the handshake leaves the rest as it was.     *)
LEMMA GoesFacts ==
    ASSUME Shape, NEW pc, HS!Goes(pc)
    PROVE  /\ hs_session'.pc = pc /\ DOMAIN hs_session' = SessionFields
           /\ hs_session'.config = hs_session.config /\ hs_session'.filters = hs_session.filters
           /\ hs_session'.host = hs_session.host /\ hs_session'.known = hs_session.known
           /\ hs_session'.policy = hs_session.policy /\ hs_session'.learnt = hs_session.learnt
BY DEF Shape, SessionFields, HS!Goes

LEMMA RouteUnchanged ==
    ASSUME hs_session'.config = hs_session.config, hs_session'.host = hs_session.host,
           hs_session'.known = hs_session.known
    PROVE  Route' = Route
BY DEF Route

(* What was read of the configuration is what it has to be.                *)
LEMMA ReadRequestFacts ==
    ASSUME Shape, HS!ReadRequest, HS!RequestRead, HS!RequestedHost # HS!AnyAddress
    PROVE  /\ hs_session'.pc = "dial" /\ DOMAIN hs_session' = SessionFields
           /\ hs_session'.config \in Configs /\ HS!Valid(HS!Loaded(hs_session'.config))
           /\ hs_session'.filters \in Filters /\ hs_session'.host = HS!RequestedHost
           /\ hs_session'.learnt = hs_session.learnt
           /\ hs_session'.policy = Route'
           /\ hs_client' = HS!Taken(hs_client, HS!AddressEnd + 2)
<1>1. PICK file \in {c \in Configs : HS!Valid(HS!Loaded(c))},
           known \in LearnedUpstreams, filters \in Filters :
        hs_session' = [hs_session EXCEPT
                         !.pc = "dial", !.config = file, !.filters = filters,
                         !.host = HS!RequestedHost, !.port = HS!RequestedPort, !.known = known,
                         !.policy = HS!PolicyFor(HS!Loaded(file), HS!RequestedHost, known)]
  BY DEF HS!ReadRequest
<1>2. /\ hs_session'.pc = "dial" /\ DOMAIN hs_session' = SessionFields
      /\ hs_session'.config = file /\ hs_session'.filters = filters
      /\ hs_session'.host = HS!RequestedHost /\ hs_session'.known = known
      /\ hs_session'.learnt = hs_session.learnt
      /\ hs_session'.policy = HS!PolicyFor(HS!Loaded(file), HS!RequestedHost, known)
  BY <1>1 DEF Shape, SessionFields
<1>3. hs_session'.policy = Route'
  BY <1>2 DEF Route
<1>4. hs_client' = HS!Taken(hs_client, HS!AddressEnd + 2)
  BY DEF HS!ReadRequest
<1> QED BY <1>1, <1>2, <1>3, <1>4

(* Connect, when the upstream has accepted.                                *)
LEMMA ConnectFacts ==
    ASSUME Shape, HS!Connect, HS!ConnectRead
    PROVE  /\ hs_session'.pc = "reply" /\ DOMAIN hs_session' = SessionFields
           /\ hs_session'.config = hs_session.config /\ hs_session'.filters = hs_session.filters
           /\ hs_session'.host = hs_session.host /\ hs_session'.known = hs_session.known
           /\ IF HS!IsFallback
              THEN hs_session'.learnt = IF HS!CanLearn(hs_session.filters, hs_session.host)
                                        THEN HS!Tried ELSE ""
              ELSE hs_session'.learnt = hs_session.learnt
           /\ hs_upstream' = HS!Taken(hs_upstream, HS!AnswerEnd) /\ deadline' = FALSE
           /\ UNCHANGED <<hs_client, dials, opened>>
<1>1. /\ hs_session' = IF HS!IsFallback THEN HS!FellBack ELSE [hs_session EXCEPT !.pc = "reply"]
      /\ hs_upstream' = HS!Taken(hs_upstream, HS!AnswerEnd) /\ deadline' = FALSE
      /\ UNCHANGED <<hs_client, dials, opened>>
  BY DEF HS!Connect
<1>2. CASE HS!IsFallback
  BY <1>1, <1>2 DEF HS!FellBack, Shape, SessionFields
<1>3. CASE ~HS!IsFallback
  BY <1>1, <1>3 DEF Shape, SessionFields
<1> QED BY <1>1, <1>2, <1>3

LEMMA HandOverFacts ==
    ASSUME HS!HandOver
    PROVE  /\ hs_session'.pc = "streams" /\ DOMAIN hs_session' = SessionFields
           /\ hs_session'.learnt = ""
BY DEF HS!HandOver, HS!NewSession, SessionFields

LEMMA DialFailsFacts ==
    ASSUME Shape, HS!DialFails
    PROVE  /\ hs_session'.pc = "over" /\ DOMAIN hs_session' = SessionFields
           /\ hs_session'.config = hs_session.config /\ hs_session'.filters = hs_session.filters
           /\ hs_session'.host = hs_session.host /\ hs_session'.known = hs_session.known
           /\ hs_session'.learnt = hs_session.learnt
           /\ opened' = opened \ {HS!Tried}
           /\ UNCHANGED <<hs_client, hs_upstream, dials, deadline>>
BY GoesFacts DEF HS!DialFails

(* Which connections there are, step by step.                              *)
LEMMA ConnectionsStep ==
    ASSUME Shape, ConnectionsFit, HS!Next
    PROVE  Shape' /\ ConnectionsFit'
<1> USE DEF Pc, Undialed, Dialing, Connected
<1>1. CASE HS!AuthRequest
  <2>1. Pc = "greeting" /\ UNCHANGED <<dials, opened>>
    BY <1>1 DEF HS!AuthRequest
  <2>2. PICK pc \in {"request", "over"} : HS!Goes(pc)
    BY <1>1 DEF HS!AuthRequest
  <2> QED BY <2>1, <2>2, GoesFacts DEF Shape, ConnectionsFit
<1>2. CASE HS!ReadRequest
  <2>1. Pc = "request" /\ UNCHANGED <<dials, opened>>
    BY <1>2 DEF HS!ReadRequest
  <2>2. hs_session'.pc \in {"dial", "over"} /\ DOMAIN hs_session' = SessionFields
    <3>1. CASE HS!RequestRead /\ HS!RequestedHost # HS!AnyAddress
      BY <1>2, <3>1, ReadRequestFacts
    <3>2. CASE ~(HS!RequestRead /\ HS!RequestedHost # HS!AnyAddress)
      <4>1. HS!Goes("over")
        BY <1>2, <3>2 DEF HS!ReadRequest
      <4> QED BY <4>1, GoesFacts
    <3> QED BY <3>1, <3>2
  <2> QED BY <2>1, <2>2 DEF Shape, ConnectionsFit
<1>3. CASE HS!DialDirect
  <2>1. Pc = "dial" /\ dials = <<>> /\ opened = {} /\ dials' = Append(dials, "direct")
    BY <1>3 DEF HS!DialDirect, ConnectionsFit
  <2>2. dials' = <<"direct">> /\ Len(dials') = 1 /\ dials'[Len(dials')] = "direct"
    BY <2>1
  <2>3. CASE opened' = opened \cup {"direct"} /\ HS!Goes("reply")
    <3>1. hs_session'.pc = "reply" /\ DOMAIN hs_session' = SessionFields
      BY <2>3, GoesFacts
    <3> QED BY <2>1, <2>2, <2>3, <3>1 DEF Shape, ConnectionsFit, HS!Tried
  <2>4. CASE /\ UNCHANGED opened
             /\ HS!Goes(IF HS!HasFallback(hs_session.policy) THEN "fallback" ELSE "over")
    <3>1. hs_session'.pc \in {"fallback", "over"} /\ DOMAIN hs_session' = SessionFields
      BY <2>4, GoesFacts
    <3> QED BY <2>1, <2>2, <2>4, <3>1 DEF Shape, ConnectionsFit
  <2> QED BY <1>3, <2>3, <2>4 DEF HS!DialDirect
<1>4. CASE HS!DialUpstream
  <2>1. PICK to : to = HS!Dialed
    OBVIOUS
  <2>2. /\ dials = <<>> \/ dials = <<"direct">>
        /\ opened = {} /\ dials' = Append(dials, to)
    BY <1>4, <2>1 DEF HS!DialUpstream, HS!DialsUpstream, ConnectionsFit
  <2>3. (dials' = <<to>> \/ dials' = <<"direct", to>>) /\ dials'[Len(dials')] = to
    <3>1. CASE dials = <<>>
      BY <2>2, <3>1
    <3>2. CASE dials = <<"direct">>
      <4>1. dials' = <<"direct", to>>
        BY <2>2, <3>2, TwoDials
      <4>2. Len(<<"direct", to>>) = 2 /\ <<"direct", to>>[2] = to
        OBVIOUS
      <4> QED BY <4>1, <4>2
    <3> QED BY <2>2, <3>1, <3>2
  <2>4. CASE opened' = opened \cup {to} /\ HS!Goes("negotiate")
    <3>1. hs_session'.pc = "negotiate" /\ DOMAIN hs_session' = SessionFields
      BY <2>4, GoesFacts
    <3> QED BY <2>2, <2>3, <2>4, <3>1 DEF Shape, ConnectionsFit, HS!Tried
  <2>5. CASE HS!Goes("over") /\ UNCHANGED opened
    <3>1. hs_session'.pc = "over" /\ DOMAIN hs_session' = SessionFields
      BY <2>5, GoesFacts
    <3> QED BY <2>2, <2>3, <2>5, <3>1 DEF Shape, ConnectionsFit
  <2> QED BY <1>4, <2>1, <2>4, <2>5 DEF HS!DialUpstream
<1>5. ASSUME Pc \in Dialing, HS!DialFails
      PROVE  Shape' /\ ConnectionsFit'
  <2>1. opened = {HS!Tried}
    BY <1>5 DEF ConnectionsFit
  <2> QED BY <1>5, <2>1, DialFailsFacts DEF Shape, ConnectionsFit
<1>6. ASSUME Pc \in Dialing \cup {"reply"}, UNCHANGED <<dials, opened>>,
             DOMAIN hs_session' = SessionFields,
             hs_session'.pc \in Dialing \cup Connected
      PROVE  Shape' /\ ConnectionsFit'
  BY <1>6 DEF Shape, ConnectionsFit, HS!Tried
<1>7. CASE HS!Negotiate
  <2>1. Pc = "negotiate"
    BY <1>7 DEF HS!Negotiate
  <2>2. CASE HS!DialFails
    BY <1>5, <2>1, <2>2
  <2>3. CASE ~HS!DialFails
    <3>1. PICK pc \in {"authenticate", "connect"} : HS!Goes(pc) /\ UNCHANGED <<dials, opened>>
      BY <1>7, <2>3 DEF HS!Negotiate
    <3> QED BY <1>6, <2>1, <3>1, GoesFacts
  <2> QED BY <2>2, <2>3
<1>8. CASE HS!Authenticate
  <2>1. Pc = "authenticate"
    BY <1>8 DEF HS!Authenticate
  <2>2. CASE HS!DialFails
    BY <1>5, <2>1, <2>2
  <2>3. CASE ~HS!DialFails
    <3>1. HS!Goes("connect") /\ UNCHANGED <<dials, opened>>
      BY <1>8, <2>3 DEF HS!Authenticate
    <3> QED BY <1>6, <2>1, <3>1, GoesFacts
  <2> QED BY <2>2, <2>3
<1>9. CASE HS!Connect
  <2>1. Pc = "connect"
    BY <1>9 DEF HS!Connect
  <2>2. CASE HS!ConnectRead
    BY <1>6, <1>9, <2>1, <2>2, ConnectFacts
  <2>3. CASE ~HS!ConnectRead
    BY <1>5, <1>9, <2>1, <2>3 DEF HS!Connect
  <2> QED BY <2>2, <2>3
<1>10. CASE HS!Reply
  <2>1. Pc = "reply" /\ opened = {HS!Tried} /\ UNCHANGED dials
    BY <1>10 DEF HS!Reply, ConnectionsFit
  <2>2. CASE HS!Goes("established") /\ UNCHANGED opened
    BY <1>6, <2>1, <2>2, GoesFacts
  <2>3. CASE HS!Goes("over") /\ opened' = opened \ {HS!Tried}
    BY <2>1, <2>3, GoesFacts DEF Shape, ConnectionsFit
  <2> QED BY <1>10, <2>2, <2>3 DEF HS!Reply
<1>11. CASE HS!HandOver
  BY <1>11, HandOverFacts DEF HS!HandOver, Shape, ConnectionsFit
<1> QED BY <1>1, <1>2, <1>3, <1>4, <1>7, <1>8, <1>9, <1>10, <1>11 DEF HS!Next, HS!Shake

-----------------------------------------------------------------------------
(* The streams: what the reads have taken is one whole message.            *)
LEMMA StreamType ==
    /\ ClientStreams \subseteq HS!Streams /\ Upstreams \subseteq HS!Streams
    /\ \A s \in ClientStreams : Len(s.bytes) < HS!Many /\ HS!ClientMarked(s)
    /\ \A s \in Upstreams : Len(s.bytes) < HS!Many /\ HS!UpstreamMarked(s)
    /\ \A s \in HS!Streams : s.bytes \in Seq(STRING) /\ Len(s.bytes) \in Nat
<1>1. /\ ClientStreams \subseteq HS!Streams
      /\ \A s \in ClientStreams : Len(s.bytes) < HS!Many /\ HS!ClientMarked(s)
      /\ \A u \in DOMAIN UpstreamStreams : \A s \in UpstreamStreams[u] :
           s \in HS!Streams /\ Len(s.bytes) < HS!Many /\ HS!UpstreamMarked(s)
  BY HandshakeAssumption DEF HS!ConstantsOK
<1>2. ASSUME NEW s \in Upstreams
      PROVE  s \in HS!Streams /\ Len(s.bytes) < HS!Many /\ HS!UpstreamMarked(s)
  BY <1>1 DEF Upstreams
<1>3. ASSUME NEW s \in HS!Streams PROVE s.bytes \in Seq(STRING) /\ Len(s.bytes) \in Nat
  BY DEF HS!Streams
<1> QED BY <1>1, <1>2, <1>3

LEMMA HeadFacts ==
    ASSUME NEW S, NEW t \in Seq(S), NEW n \in 0..Len(t)
    PROVE  /\ SubSeq(t, 1, n) \in Seq(S) /\ Len(SubSeq(t, 1, n)) = n
           /\ \A k \in 1..n : SubSeq(t, 1, n)[k] = t[k]
           /\ \A k \in 0..n : SubSeq(SubSeq(t, 1, n), 1, k) = SubSeq(t, 1, k)
<1>1. ASSUME NEW u \in Seq(S), NEW m \in 0..Len(u)
      PROVE  /\ SubSeq(u, 1, m) \in Seq(S) /\ Len(SubSeq(u, 1, m)) = m
             /\ \A k \in 1..m : SubSeq(u, 1, m)[k] = u[k]
  <2>1. 1 \in 1..(Len(u) + 1) /\ m \in (1 - 1)..Len(u)
    OBVIOUS
  <2>2. /\ SubSeq(u, 1, m) \in Seq(S) /\ Len(SubSeq(u, 1, m)) = m - 1 + 1
        /\ \A k \in 1..(m - 1 + 1) : SubSeq(u, 1, m)[k] = u[1 + k - 1]
    BY <2>1, PartFacts
  <2>3. m - 1 + 1 = m /\ \A k \in 1..m : 1 + k - 1 = k
    OBVIOUS
  <2> QED BY <2>2, <2>3
<1>2. ASSUME NEW k \in 0..n PROVE SubSeq(SubSeq(t, 1, n), 1, k) = SubSeq(t, 1, k)
  <2>1. PICK v : v = SubSeq(t, 1, n)
    OBVIOUS
  <2>2. v \in Seq(S) /\ Len(v) = n /\ \A j \in 1..n : v[j] = t[j]
    BY <1>1, <2>1
  <2>3. k \in 0..Len(v) /\ k \in 0..Len(t) /\ \A j \in 1..k : j \in 1..n
    BY <2>2
  <2>4. /\ SubSeq(v, 1, k) \in Seq(S) /\ Len(SubSeq(v, 1, k)) = k
        /\ \A j \in 1..k : SubSeq(v, 1, k)[j] = v[j]
    BY <1>1, <2>2, <2>3
  <2>5. /\ SubSeq(t, 1, k) \in Seq(S) /\ Len(SubSeq(t, 1, k)) = k
        /\ \A j \in 1..k : SubSeq(t, 1, k)[j] = t[j]
    BY <1>1, <2>3
  <2>6. \A j \in 1..k : SubSeq(v, 1, k)[j] = SubSeq(t, 1, k)[j]
    BY <2>2, <2>3, <2>4, <2>5
  <2>7. SubSeq(v, 1, k) = SubSeq(t, 1, k)
    BY <2>4, <2>5, <2>6, SameSequence
  <2> QED BY <2>1, <2>7
<1> QED BY <1>1, <1>2

LEMMA RequestParsed ==
    ASSUME ClientFits, Pc = "request", HS!RequestRead
    PROVE  /\ HS!RequestedHost \in Seq(STRING)
           /\ AllTaken(HS!Taken(hs_client, HS!AddressEnd + 2))
<1>0. PICK s \in ClientStreams : \E i \in 0..Len(s.bytes) :
        HS!IsGreeting(SubSeq(s.bytes, 1, i)) /\ hs_client = Left(s, i)
  BY DEF ClientFits
<1>1. PICK i \in 0..Len(s.bytes) :
        HS!IsGreeting(SubSeq(s.bytes, 1, i)) /\ hs_client = Left(s, i)
  BY <1>0
<1>2. /\ s \in HS!Streams /\ s.bytes \in Seq(STRING) /\ Len(s.bytes) \in Nat
      /\ Len(s.bytes) < HS!Many /\ HS!ClientMarked(s)
  BY StreamType
<1>3. PICK b : b = hs_client.bytes
  OBVIOUS
<1>4. b \in Seq(STRING) /\ Len(b) = Len(s.bytes) - i
  BY <1>1, <1>2, <1>3, LeftFacts
<1>5. PICK n : n = HS!AddressEnd
  OBVIOUS
<1>6. /\ Len(b) >= 4 /\ Len(b) >= n + 2 /\ SubSeq(b, 1, 3) = <<"5", "1", "0">>
      /\ n = CASE b[4] = "1" -> 8
               [] b[4] = "3" /\ Len(b) >= 5 -> 5 + HS!Value(b[5])
               [] OTHER -> HS!Many
      /\ HS!RequestedHost = SubSeq(b, IF b[4] = "1" THEN 5 ELSE 6, n)
  BY <1>3, <1>5 DEF HS!RequestRead, HS!Has, HS!AddressEnd, HS!RequestedHost
<1>7. \/ b[4] = "1" /\ n = 8
      \/ b[4] = "3" /\ Len(b) >= 5 /\ n = 5 + HS!Value(b[5]) /\ HS!Value(b[5]) \in Nat
  <2>1. n # HS!Many
    BY <1>2, <1>4, <1>6 DEF HS!Many
  <2> QED BY <1>6, <2>1, ValueType
<1>8. HS!RequestedHost \in Seq(STRING)
  <2>1. CASE b[4] = "1"
    <3>1. 5 \in 1..(Len(b) + 1) /\ n \in (5 - 1)..Len(b)
      BY <1>4, <1>6, <1>7, <2>1
    <3> QED BY <1>4, <1>6, <2>1, <3>1, PartFacts
  <2>2. CASE b[4] # "1"
    <3>1. 6 \in 1..(Len(b) + 1) /\ n \in (6 - 1)..Len(b)
      <4>1. PICK v \in Nat : n = 5 + v
        BY <1>7, <2>2
      <4>2. Len(b) \in Nat /\ Len(b) >= n + 2
        BY <1>4, <1>6
      <4> QED BY <4>1, <4>2
    <3> QED BY <1>4, <1>6, <2>2, <3>1, PartFacts
  <2> QED BY <2>1, <2>2
<1>9. PICK l \in 0..Len(b) : l = n + 2 /\ l >= 7
  <2>1. n \in Nat /\ n >= 5
    BY <1>7
  <2>2. Len(b) \in Nat /\ Len(b) >= n + 2
    BY <1>4, <1>6
  <2> QED BY <2>1, <2>2
<1>10. /\ HS!Taken(hs_client, l) = Left(s, i + l) /\ i + l \in 0..Len(s.bytes)
       /\ SubSeq(b, 1, l) = SubSeq(s.bytes, i + 1, i + l)
  BY <1>1, <1>2, <1>3, <1>4, TakenFacts
<1>11. HS!IsRequest(SubSeq(b, 1, l))
  <2>1. PICK m : m = SubSeq(b, 1, l)
    OBVIOUS
  <2>2. /\ Len(m) = l /\ m[4] = b[4] /\ m[5] = b[5] /\ SubSeq(m, 1, 3) = SubSeq(b, 1, 3)
    <3>1. 4 \in 1..l /\ 5 \in 1..l /\ 3 \in 0..l
      BY <1>9
    <3> QED BY <1>4, <2>1, <3>1, HeadFacts
  <2>3. \/ m[4] = "1" /\ Len(m) = 10
        \/ m[4] = "3" /\ Len(m) = 7 + HS!Value(m[5])
    BY <1>7, <1>9, <2>2
  <2>4. Len(m) >= 5
    BY <1>9, <2>2
  <2>5. SubSeq(m, 1, 3) = <<"5", "1", "0">>
    BY <1>6, <2>2
  <2>6. HS!IsRequest(m)
    BY <2>3, <2>4, <2>5 DEF HS!IsRequest
  <2> QED BY <2>1, <2>6
<1>12. s.payload = Len(s.bytes) - (i + l)
  BY <1>1, <1>2, <1>10, <1>11 DEF HS!ClientMarked
<1>13. AllTaken(Left(s, i + l))
  BY <1>2, <1>10, <1>12, LeftFacts DEF AllTaken
<1> QED BY <1>5, <1>8, <1>9, <1>10, <1>13

LEMMA GreetingParsed ==
    ASSUME ClientFits, Pc = "greeting", HS!GreetingRead
    PROVE  \E s \in ClientStreams : \E i \in 0..Len(s.bytes) :
             /\ HS!IsGreeting(SubSeq(s.bytes, 1, i))
             /\ HS!Taken(hs_client, HS!GreetingEnd) = Left(s, i)
<1>1. PICK s \in ClientStreams : s = hs_client
  BY DEF ClientFits
<1>2. s \in HS!Streams /\ s.bytes \in Seq(STRING) /\ Len(s.bytes) \in Nat
  BY StreamType
<1>3. PICK b : b = s.bytes
  OBVIOUS
<1>4. PICK i \in 0..Len(b) : i = HS!GreetingEnd /\ i = 2 + HS!Value(b[2]) /\ i >= 2 /\ b[1] = "5"
  <2>1. HS!GreetingEnd = 2 + HS!Value(b[2]) /\ HS!Value(b[2]) \in Nat
    BY <1>1, <1>3, ValueType DEF HS!GreetingEnd
  <2>2. Len(b) >= HS!GreetingEnd /\ b[1] = "5"
    BY <1>1, <1>3 DEF HS!GreetingRead, HS!Has
  <2> QED BY <1>2, <1>3, <2>1, <2>2
<1>5. HS!IsGreeting(SubSeq(b, 1, i))
  <2>1. Len(SubSeq(b, 1, i)) = i /\ SubSeq(b, 1, i)[1] = b[1] /\ SubSeq(b, 1, i)[2] = b[2]
    <3>1. 1 \in 1..i /\ 2 \in 1..i
      BY <1>4
    <3> QED BY <1>2, <1>3, <3>1, HeadFacts
  <2> QED BY <1>4, <2>1 DEF HS!IsGreeting
<1>6. HS!Taken(hs_client, i) = Left(s, i)
  <2>1. Left(s, 0) = hs_client /\ 0 \in 0..Len(s.bytes)
    BY <1>1, <1>2, LeftFacts
  <2>2. i \in 0..(Len(s.bytes) - 0) /\ 0 + i = i
    BY <1>2, <1>3
  <2>3. HS!Taken(Left(s, 0), i) = Left(s, 0 + i)
    BY <1>2, <2>1, <2>2, TakenFacts
  <2> QED BY <2>1, <2>2, <2>3
<1> QED BY <1>3, <1>4, <1>5, <1>6

(* The same of the upstream: what it agrees to, and its answer.            *)
LEMMA PrefixFacts ==
    ASSUME NEW S, NEW m \in Seq(S), NEW t \in Seq(S)
    PROVE  HS!IsPrefix(m, t) <=> Len(m) <= Len(t) /\ SubSeq(t, 1, Len(m)) = m
<1>1. SubSeq(m, 1, Len(m)) = m
  BY SubSeqFull
<1> QED BY <1>1 DEF HS!IsPrefix

(* The provers do not see that "5" is in STRING. *)
Bytes == STRING \cup {"0", "1", "2", "5"}

LEMMA StartFacts ==
    ASSUME hs_upstream.bytes \in Seq(STRING), NEW m \in Seq(Bytes), HS!Starts(m)
    PROVE  Len(m) <= Len(hs_upstream.bytes) /\ SubSeq(hs_upstream.bytes, 1, Len(m)) = m
<1>1. hs_upstream.bytes \in Seq(Bytes)
  BY WiderSequence DEF Bytes
<1> QED BY <1>1, PrefixFacts DEF HS!Starts

LEMMA TwoBytes ==
    ASSUME NEW a \in Bytes, NEW b \in Bytes
    PROVE  <<a, b>> \in Seq(Bytes) /\ Len(<<a, b>>) = 2 /\ <<a, b>>[1] = a /\ <<a, b>>[2] = b
OBVIOUS

LEMMA ThreeBytes ==
    ASSUME NEW a \in Bytes, NEW b \in Bytes, NEW c \in Bytes
    PROVE  <<a, b, c>> \in Seq(Bytes) /\ Len(<<a, b, c>>) = 3
OBVIOUS

LEMMA FourBytes ==
    ASSUME NEW a \in Bytes, NEW b \in Bytes, NEW c \in Bytes, NEW d \in Bytes
    PROVE  /\ <<a, b, c, d>> \in Seq(Bytes) /\ Len(<<a, b, c, d>>) = 4
           /\ <<a, b, c, d>>[1] = a /\ <<a, b, c, d>>[2] = b
           /\ <<a, b, c, d>>[3] = c /\ <<a, b, c, d>>[4] = d
OBVIOUS

LEMMA Words ==
    /\ <<"5", "0">> \in Seq(Bytes) /\ Len(<<"5", "0">>) = 2
    /\ <<"5", "2">> \in Seq(Bytes) /\ Len(<<"5", "2">>) = 2
    /\ <<"5", "2">>[1] = "5" /\ <<"5", "2">>[2] = "2"
    /\ <<"1", "0">> \in Seq(Bytes) /\ Len(<<"1", "0">>) = 2
    /\ <<"1", "0">>[1] = "1" /\ <<"1", "0">>[2] = "0"
    /\ <<"5", "0", "0">> \in Seq(Bytes) /\ Len(<<"5", "0", "0">>) = 3
<1>1. "0" \in Bytes /\ "1" \in Bytes /\ "2" \in Bytes /\ "5" \in Bytes
  BY DEF Bytes
<1> QED BY <1>1, TwoBytes, ThreeBytes

LEMMA AgreementWord ==
    /\ <<"5", "2", "1", "0">> \in Seq(Bytes) /\ Len(<<"5", "2", "1", "0">>) = 4
    /\ <<"5", "2", "1", "0">>[1] = "5" /\ <<"5", "2", "1", "0">>[2] = "2"
    /\ <<"5", "2", "1", "0">>[3] = "1" /\ <<"5", "2", "1", "0">>[4] = "0"
<1>1. "0" \in Bytes /\ "1" \in Bytes /\ "2" \in Bytes /\ "5" \in Bytes
  BY DEF Bytes
<1> QED BY <1>1, FourBytes

LEMMA AgreementParsed ==
    ASSUME Pc = "negotiate", hs_upstream \in Upstreams, HS!Has(hs_upstream, 2)
    PROVE  /\ HS!Starts(<<"5", "2">>) =>
                \E s \in Upstreams :
                    /\ Len(s.bytes) >= 2 /\ SubSeq(s.bytes, 1, 2) = <<"5", "2">>
                    /\ HS!Taken(hs_upstream, 2) = Left(s, 2)
           /\ HS!Starts(<<"5", "0">>) =>
                \E s \in Upstreams : \E i \in 0..Len(s.bytes) :
                    /\ HS!IsAgreement(SubSeq(s.bytes, 1, i))
                    /\ HS!Taken(hs_upstream, 2) = Left(s, i)
<1>1. PICK s \in Upstreams : s = hs_upstream
  OBVIOUS
<1>2. s \in HS!Streams /\ s.bytes \in Seq(STRING) /\ Len(s.bytes) \in Nat /\ Len(s.bytes) >= 2
  BY <1>1, StreamType DEF HS!Has
<1>3. HS!Taken(s, 2) = Left(s, 2) /\ 2 \in 0..Len(s.bytes)
  <2>1. Left(s, 0) = s /\ 0 \in 0..Len(s.bytes)
    BY <1>2, LeftFacts
  <2>2. 2 \in 0..(Len(s.bytes) - 0) /\ 0 + 2 = 2
    BY <1>2
  <2>3. HS!Taken(Left(s, 0), 2) = Left(s, 0 + 2)
    BY <1>2, <2>1, <2>2, TakenFacts
  <2> QED BY <1>2, <2>1, <2>2, <2>3
<1>4. ASSUME HS!Starts(<<"5", "2">>) PROVE SubSeq(s.bytes, 1, 2) = <<"5", "2">>
  BY <1>1, <1>2, <1>4, StartFacts, Words
<1>5. ASSUME HS!Starts(<<"5", "0">>) PROVE HS!IsAgreement(SubSeq(s.bytes, 1, 2))
  BY <1>1, <1>2, <1>5, StartFacts, Words DEF HS!IsAgreement
<1> QED BY <1>1, <1>2, <1>3, <1>4, <1>5

LEMMA OutcomeParsed ==
    ASSUME NEW s \in Upstreams, Len(s.bytes) >= 2, SubSeq(s.bytes, 1, 2) = <<"5", "2">>,
           hs_upstream = Left(s, 2), HS!Has(hs_upstream, 2), HS!Starts(<<"1", "0">>)
    PROVE  \E i \in 0..Len(s.bytes) :
             /\ HS!IsAgreement(SubSeq(s.bytes, 1, i))
             /\ HS!Taken(hs_upstream, 2) = Left(s, i)
<1>1. s \in HS!Streams /\ s.bytes \in Seq(STRING) /\ Len(s.bytes) \in Nat
  BY StreamType
<1>2. PICK b : b = hs_upstream.bytes
  OBVIOUS
<1>3. 2 \in 0..Len(s.bytes)
  BY <1>1
<1>4. b \in Seq(STRING) /\ Len(b) = Len(s.bytes) - 2 /\ Len(b) >= 2
      /\ \A k \in 1..(Len(s.bytes) - 2) : b[k] = s.bytes[2 + k]
  BY <1>1, <1>2, <1>3, LeftFacts DEF HS!Has
<1>5. 2 \in 0..(Len(s.bytes) - 2) /\ 2 + 2 = 4 /\ 4 \in 0..Len(s.bytes)
  BY <1>1, <1>4
<1>6. HS!Taken(hs_upstream, 2) = Left(s, 4)
  BY <1>1, <1>3, <1>5, TakenFacts
<1>7. SubSeq(b, 1, 2) = <<"1", "0">>
  BY <1>2, <1>4, StartFacts, Words
<1>8. b[1] = "1" /\ b[2] = "0"
  <2>1. 2 \in 0..Len(b)
    BY <1>4
  <2>2. SubSeq(b, 1, 2)[1] = b[1] /\ SubSeq(b, 1, 2)[2] = b[2]
    BY <1>4, <2>1, HeadFacts
  <2> QED BY <1>7, <2>2, Words
<1>9. s.bytes[1] = "5" /\ s.bytes[2] = "2" /\ s.bytes[3] = "1" /\ s.bytes[4] = "0"
  <2>1. SubSeq(s.bytes, 1, 2)[1] = s.bytes[1] /\ SubSeq(s.bytes, 1, 2)[2] = s.bytes[2]
    <3>1. 1 \in 1..2 /\ 2 \in 1..2
      OBVIOUS
    <3> QED BY <1>1, <1>3, <3>1, HeadFacts
  <2>2. b[1] = s.bytes[3] /\ b[2] = s.bytes[4]
    <3>1. 1 \in 1..(Len(s.bytes) - 2) /\ 2 \in 1..(Len(s.bytes) - 2) /\ 2 + 1 = 3 /\ 2 + 2 = 4
      BY <1>1, <1>4
    <3> QED BY <1>4, <3>1
  <2>3. s.bytes[1] = "5" /\ s.bytes[2] = "2"
    BY <2>1, Words
  <2> QED BY <1>8, <2>2, <2>3
<1>10. SubSeq(s.bytes, 1, 4) = <<"5", "2", "1", "0">>
  <2>1. PICK m : m = SubSeq(s.bytes, 1, 4)
    OBVIOUS
  <2>2. m \in Seq(Bytes) /\ Len(m) = 4 /\ \A k \in 1..4 : m[k] = s.bytes[k]
    <3>1. s.bytes \in Seq(Bytes)
      BY <1>1, WiderSequence DEF Bytes
    <3> QED BY <1>5, <2>1, <3>1, HeadFacts
  <2>3. PICK u : u = <<"5", "2", "1", "0">>
    OBVIOUS
  <2>4. /\ u \in Seq(Bytes) /\ Len(u) = 4
        /\ u[1] = "5" /\ u[2] = "2" /\ u[3] = "1" /\ u[4] = "0"
    BY <2>3, AgreementWord
  <2>5. \A k \in 1..Len(m) : m[k] = u[k]
    BY <1>9, <2>2, <2>4
  <2>6. m = u
    BY <2>2, <2>4, <2>5, SameSequence
  <2> QED BY <2>1, <2>3, <2>6
<1> QED BY <1>5, <1>6, <1>10 DEF HS!IsAgreement

LEMMA AnswerParsed ==
    ASSUME NEW s \in Upstreams, NEW i \in 0..Len(s.bytes), HS!IsAgreement(SubSeq(s.bytes, 1, i)),
           hs_upstream = Left(s, i), HS!ConnectRead
    PROVE  AllTaken(HS!Taken(hs_upstream, HS!AnswerEnd))
<1>1. /\ s \in HS!Streams /\ s.bytes \in Seq(STRING) /\ Len(s.bytes) \in Nat
      /\ Len(s.bytes) < HS!Many /\ HS!UpstreamMarked(s)
  BY StreamType
<1>2. PICK b : b = hs_upstream.bytes
  OBVIOUS
<1>3. b \in Seq(STRING) /\ Len(b) = Len(s.bytes) - i
  BY <1>1, <1>2, LeftFacts
<1>4. PICK n : n = HS!AnswerEnd
  OBVIOUS
<1>5. /\ n = CASE b[4] = "1" -> 10
               [] b[4] = "4" -> 22
               [] b[4] = "3" /\ Len(b) >= 5 -> 7 + HS!Value(b[5])
               [] OTHER -> HS!Many
      /\ Len(b) >= 4 /\ Len(b) >= n /\ HS!Starts(<<"5", "0", "0">>)
  BY <1>2, <1>4 DEF HS!ConnectRead, HS!Reads, HS!Has, HS!AnswerEnd
<1>6. \/ b[4] = "1" /\ n = 10
      \/ b[4] = "4" /\ n = 22
      \/ b[4] = "3" /\ n = 7 + HS!Value(b[5]) /\ HS!Value(b[5]) \in Nat
  <2>1. n # HS!Many
    BY <1>1, <1>3, <1>5 DEF HS!Many
  <2> QED BY <1>5, <2>1, ValueType
<1>7. PICK l \in 0..Len(b) : l = n /\ l >= 5
  <2>1. n \in Nat /\ n >= 5
    BY <1>6
  <2> QED BY <1>3, <1>5, <2>1
<1>8. /\ HS!Taken(hs_upstream, l) = Left(s, i + l) /\ i + l \in 0..Len(s.bytes)
      /\ SubSeq(b, 1, l) = SubSeq(s.bytes, i + 1, i + l)
  BY <1>1, <1>2, <1>3, TakenFacts
<1>9. HS!IsAnswer(SubSeq(b, 1, l))
  <2>1. PICK m : m = SubSeq(b, 1, l)
    OBVIOUS
  <2>2. /\ Len(m) = l /\ m[4] = b[4] /\ m[5] = b[5] /\ SubSeq(m, 1, 3) = SubSeq(b, 1, 3)
    <3>1. 4 \in 1..l /\ 5 \in 1..l /\ 3 \in 0..l
      BY <1>7
    <3> QED BY <1>3, <2>1, <3>1, HeadFacts
  <2>3. \/ m[4] = "1" /\ Len(m) = 10
        \/ m[4] = "4" /\ Len(m) = 22
        \/ m[4] = "3" /\ Len(m) = 7 + HS!Value(m[5])
    BY <1>6, <1>7, <2>2
  <2>4. Len(m) >= 5
    BY <1>7, <2>2
  <2>5. SubSeq(m, 1, 3) = <<"5", "0", "0">>
    BY <1>2, <1>3, <1>5, <2>2, StartFacts, Words
  <2>6. HS!IsAnswer(m)
    BY <2>3, <2>4, <2>5 DEF HS!IsAnswer
  <2> QED BY <2>1, <2>6
<1>10. s.payload = Len(s.bytes) - (i + l)
  BY <1>1, <1>8, <1>9 DEF HS!UpstreamMarked
<1>11. AllTaken(Left(s, i + l))
  BY <1>1, <1>8, <1>10, LeftFacts DEF AllTaken
<1> QED BY <1>4, <1>7, <1>8, <1>11

-----------------------------------------------------------------------------
(* What is dialed follows the route, and nothing else is learned.          *)
SameChoice ==
    /\ hs_session'.config = hs_session.config /\ hs_session'.filters = hs_session.filters
    /\ hs_session'.host = hs_session.host /\ hs_session'.known = hs_session.known

LEMMA DialsStep ==
    ASSUME Shape, ConnectionsFit, DialsFit, ClientFits, HS!Next
    PROVE  DialsFit'
<1> USE DEF Pc, Undialed, Dialing, Connected
<1>1. CASE HS!AuthRequest
  <2>1. Pc = "greeting" /\ UNCHANGED dials /\ dials = <<>>
    BY <1>1 DEF HS!AuthRequest, ConnectionsFit
  <2>2. PICK pc \in {"request", "over"} : HS!Goes(pc)
    BY <1>1 DEF HS!AuthRequest
  <2> QED BY <2>1, <2>2, GoesFacts DEF DialsFit
<1>2. CASE HS!ReadRequest
  <2>1. Pc = "request" /\ UNCHANGED dials /\ dials = <<>> /\ hs_session.learnt = ""
    BY <1>2 DEF HS!ReadRequest, ConnectionsFit, DialsFit
  <2>2. CASE HS!RequestRead /\ HS!RequestedHost # HS!AnyAddress
    <3>1. HS!RequestedHost \in Seq(STRING)
      BY <2>1, <2>2, RequestParsed
    <3> QED BY <1>2, <2>1, <2>2, <3>1, ReadRequestFacts DEF DialsFit
  <2>3. CASE ~(HS!RequestRead /\ HS!RequestedHost # HS!AnyAddress)
    <3>1. HS!Goes("over")
      BY <1>2, <2>3 DEF HS!ReadRequest
    <3>2. hs_session'.pc = "over" /\ hs_session'.learnt = "" /\ dials' = <<>>
      BY <2>1, <3>1, GoesFacts
    <3> QED BY <3>2 DEF DialsFit
  <2> QED BY <2>2, <2>3
<1>3. CASE HS!DialDirect
  <2>1. /\ Pc = "dial" /\ dials = <<>> /\ dials' = <<"direct">> /\ hs_session.learnt = ""
        /\ hs_session.policy = Route /\ Route.egress # "socks5"
    <3>1. Pc = "dial" /\ dials = <<>> /\ dials' = Append(dials, "direct")
      BY <1>3 DEF HS!DialDirect, ConnectionsFit
    <3>2. dials' = <<"direct">>
      BY <3>1
    <3> QED BY <1>3, <3>1, <3>2 DEF HS!DialDirect, DialsFit
  <2>2. PICK pc \in {"reply", "fallback", "over"} :
          HS!Goes(pc) /\ (pc = "fallback" => HS!HasFallback(Route))
    BY <1>3, <2>1 DEF HS!DialDirect
  <2>3. /\ hs_session'.pc = pc /\ SameChoice /\ hs_session'.learnt = ""
        /\ hs_session'.policy = Route
    BY <2>1, <2>2, GoesFacts DEF SameChoice
  <2>4. Route' = Route
    BY <2>3, RouteUnchanged DEF SameChoice
  <2> QED BY <2>1, <2>2, <2>3, <2>4 DEF DialsFit, SameChoice
<1>4. CASE HS!DialUpstream
  <2>1. /\ Pc \in {"dial", "fallback"} /\ hs_session.policy = Route /\ hs_session.learnt = ""
        /\ \/ Pc = "dial" /\ Route.egress = "socks5" /\ dials' = <<Route.upstream>>
           \/ /\ Pc = "fallback" /\ Route.egress # "socks5" /\ HS!HasFallback(Route)
              /\ dials' = <<"direct", Route.fallback>>
    <3>1. CASE Pc = "fallback"
      <4>1. /\ hs_session.policy = Route /\ dials = <<"direct">> /\ hs_session.learnt = ""
            /\ Route.egress # "socks5" /\ HS!HasFallback(Route)
        BY <3>1 DEF DialsFit, ConnectionsFit
      <4>2. dials' = Append(<<"direct">>, Route.fallback)
        BY <1>4, <3>1, <4>1 DEF HS!DialUpstream, HS!Dialed
      <4> QED BY <3>1, <4>1, <4>2, TwoDials
    <3>2. CASE Pc # "fallback"
      <4>1. Pc = "dial" /\ hs_session.policy.egress = "socks5"
        BY <1>4, <3>2 DEF HS!DialUpstream, HS!DialsUpstream
      <4>2. hs_session.policy = Route /\ dials = <<>> /\ hs_session.learnt = ""
        BY <4>1 DEF DialsFit, ConnectionsFit
      <4>3. dials' = Append(<<>>, Route.upstream)
        BY <1>4, <4>1, <4>2 DEF HS!DialUpstream, HS!Dialed
      <4>4. dials' = <<Route.upstream>>
        BY <4>3, OneDial
      <4> QED BY <4>1, <4>2, <4>4
    <3> QED BY <3>1, <3>2
  <2>2. PICK pc \in {"negotiate", "over"} : HS!Goes(pc)
    BY <1>4 DEF HS!DialUpstream
  <2>3. /\ hs_session'.pc = pc /\ SameChoice /\ hs_session'.learnt = ""
        /\ hs_session'.policy = Route
    BY <2>1, <2>2, GoesFacts DEF SameChoice
  <2>4. Route' = Route
    BY <2>3, RouteUnchanged DEF SameChoice
  <2>5. Pc = "dial" \/ dials # <<>>
    <3>1. Pc = "fallback" => dials = <<"direct">>
      BY DEF ConnectionsFit
    <3>2. <<"direct">> # <<>>
      OBVIOUS
    <3> QED BY <2>1, <3>1, <3>2
  <2> QED BY <2>1, <2>2, <2>3, <2>4, <2>5 DEF DialsFit, SameChoice
<1>5. ASSUME Pc \in Dialing \cup {"reply"}, UNCHANGED dials, SameChoice,
             hs_session'.learnt = hs_session.learnt,
             \/ hs_session'.pc \in Connected \cup {"over"}
             \/ /\ Pc \in Dialing /\ hs_session'.pc \in Dialing
                /\ hs_session'.policy = hs_session.policy
      PROVE  DialsFit'
  <2>1. Route' = Route
    BY <1>5, RouteUnchanged DEF SameChoice
  <2>2. dials # <<>>
    BY <1>5 DEF ConnectionsFit
  <2>3. hs_session.learnt # "" => Pc \in Connected \cup {"over"}
    BY DEF DialsFit
  <2> QED BY <1>5, <2>1, <2>2, <2>3 DEF DialsFit, SameChoice
<1>6. ASSUME Pc \in Dialing, HS!DialFails PROVE DialsFit'
  BY <1>5, <1>6, DialFailsFacts DEF SameChoice
<1>7. CASE HS!Negotiate
  <2>1. Pc = "negotiate"
    BY <1>7 DEF HS!Negotiate
  <2>2. CASE HS!DialFails
    BY <1>6, <2>1, <2>2
  <2>3. CASE ~HS!DialFails
    <3>1. PICK pc \in {"authenticate", "connect"} : HS!Goes(pc) /\ UNCHANGED dials
      BY <1>7, <2>3 DEF HS!Negotiate
    <3> QED BY <1>5, <2>1, <3>1, GoesFacts DEF SameChoice
  <2> QED BY <2>2, <2>3
<1>8. CASE HS!Authenticate
  <2>1. Pc = "authenticate"
    BY <1>8 DEF HS!Authenticate
  <2>2. CASE HS!DialFails
    BY <1>6, <2>1, <2>2
  <2>3. CASE ~HS!DialFails
    <3>1. HS!Goes("connect") /\ UNCHANGED dials
      BY <1>8, <2>3 DEF HS!Authenticate
    <3> QED BY <1>5, <2>1, <3>1, GoesFacts DEF SameChoice
  <2> QED BY <2>2, <2>3
<1>9. CASE HS!Connect
  <2>1. Pc = "connect"
    BY <1>9 DEF HS!Connect
  <2>2. CASE ~HS!ConnectRead
    BY <1>6, <1>9, <2>1, <2>2 DEF HS!Connect
  <2>3. CASE HS!ConnectRead /\ ~HS!IsFallback
    BY <1>5, <1>9, <2>1, <2>3, ConnectFacts DEF SameChoice
  <2>4. CASE HS!ConnectRead /\ HS!IsFallback
    <3>1. /\ hs_session'.pc = "reply" /\ SameChoice /\ UNCHANGED dials
          /\ hs_session'.learnt = IF HS!CanLearn(hs_session.filters, hs_session.host)
                                  THEN HS!Tried ELSE ""
      BY <1>9, <2>4, ConnectFacts DEF SameChoice
    <3>2. Route' = Route
      BY <3>1, RouteUnchanged DEF SameChoice
    <3>3. dials # <<>> /\ Len(dials) > 1
      BY <2>1, <2>4 DEF ConnectionsFit, HS!IsFallback
    <3>4. Route.egress # "socks5" /\ HS!HasFallback(Route) /\ dials = <<"direct", Route.fallback>>
      <4>1. \/ dials = <<Route.upstream>>
            \/ dials = <<"direct">>
            \/ Route.egress # "socks5" /\ HS!HasFallback(Route) /\ dials = <<"direct", Route.fallback>>
        BY <3>3 DEF DialsFit
      <4>2. dials # <<Route.upstream>> /\ dials # <<"direct">>
        <5>1. ASSUME NEW x PROVE dials # <<x>>
          BY <3>3
        <5> QED BY <5>1
      <4> QED BY <4>1, <4>2
    <3>5. HS!Tried = Route.fallback /\ Len(dials) = 2
      BY <3>4 DEF HS!Tried
    <3>6. /\ hs_session'.config \in Configs /\ HS!Valid(HS!Loaded(hs_session'.config))
          /\ hs_session'.filters \in Filters /\ hs_session'.host \in Seq(STRING)
      <4>1. /\ hs_session.config \in Configs /\ HS!Valid(HS!Loaded(hs_session.config))
            /\ hs_session.filters \in Filters /\ hs_session.host \in Seq(STRING)
        BY <3>3 DEF DialsFit
      <4> QED BY <3>1, <4>1 DEF SameChoice
    <3>7. hs_session'.learnt # "" =>
            /\ hs_session'.learnt = Route.fallback
            /\ HS!CanLearn(hs_session'.filters, hs_session'.host)
      BY <3>1, <3>5 DEF SameChoice
    <3> QED BY <3>1, <3>2, <3>4, <3>5, <3>6, <3>7 DEF DialsFit
  <2> QED BY <2>2, <2>3, <2>4
<1>10. CASE HS!Reply
  <2>1. Pc = "reply" /\ UNCHANGED dials
    BY <1>10 DEF HS!Reply
  <2>2. PICK pc \in {"established", "over"} : HS!Goes(pc)
    BY <1>10 DEF HS!Reply
  <2> QED BY <1>5, <2>1, <2>2, GoesFacts DEF SameChoice
<1>11. CASE HS!HandOver
  BY <1>11, HandOverFacts DEF HS!HandOver, DialsFit
<1> QED BY <1>1, <1>2, <1>3, <1>4, <1>7, <1>8, <1>9, <1>10, <1>11 DEF HS!Next, HS!Shake

(* The client's stream is read up to its payload, then left alone.         *)
LEMMA ClientStep ==
    ASSUME Shape, ClientFits, HS!Next
    PROVE  ClientFits'
<1> USE DEF Pc, Dialing, Connected
<1>1. CASE HS!AuthRequest
  <2>1. Pc = "greeting"
    BY <1>1 DEF HS!AuthRequest
  <2>2. CASE /\ HS!GreetingRead /\ HS!Goes("request")
             /\ hs_client' = HS!Taken(hs_client, HS!GreetingEnd)
    <3>1. \E s \in ClientStreams : \E i \in 0..Len(s.bytes) :
             HS!IsGreeting(SubSeq(s.bytes, 1, i)) /\ hs_client' = Left(s, i)
      BY <2>1, <2>2, GreetingParsed
    <3>2. hs_session'.pc = "request"
      BY <2>2, GoesFacts
    <3> QED BY <3>1, <3>2 DEF ClientFits
  <2>3. CASE HS!Goes("over")
    BY <2>3, GoesFacts DEF ClientFits
  <2> QED BY <1>1, <2>2, <2>3 DEF HS!AuthRequest
<1>2. CASE HS!ReadRequest
  <2>1. Pc = "request"
    BY <1>2 DEF HS!ReadRequest
  <2>2. CASE HS!RequestRead /\ HS!RequestedHost # HS!AnyAddress
    <3>1. hs_session'.pc = "dial" /\ hs_client' = HS!Taken(hs_client, HS!AddressEnd + 2)
      BY <1>2, <2>2, ReadRequestFacts
    <3>2. AllTaken(hs_client')
      BY <2>1, <2>2, <3>1, RequestParsed
    <3> QED BY <3>1, <3>2 DEF ClientFits
  <2>3. CASE ~(HS!RequestRead /\ HS!RequestedHost # HS!AnyAddress)
    <3>1. HS!Goes("over")
      BY <1>2, <2>3 DEF HS!ReadRequest
    <3> QED BY <3>1, GoesFacts DEF ClientFits
  <2> QED BY <2>2, <2>3
<1>3. ASSUME Pc \in Dialing \cup Connected \cup {"dial", "fallback"}, UNCHANGED hs_client,
             hs_session'.pc \notin {"greeting", "request"}
      PROVE  ClientFits'
  <2>1. AllTaken(hs_client)
    BY <1>3 DEF ClientFits
  <2>2. AllTaken(hs_client')
    BY <1>3, <2>1
  <2> QED BY <1>3, <2>2 DEF ClientFits
<1>4. CASE HS!DialDirect
  <2>1. Pc = "dial" /\ UNCHANGED hs_client
    BY <1>4 DEF HS!DialDirect
  <2>2. PICK pc \in {"reply", "fallback", "over"} : HS!Goes(pc)
    BY <1>4 DEF HS!DialDirect
  <2> QED BY <1>3, <2>1, <2>2, GoesFacts
<1>5. CASE HS!DialUpstream
  <2>1. Pc \in {"dial", "fallback"} /\ UNCHANGED hs_client
    BY <1>5 DEF HS!DialUpstream, HS!DialsUpstream
  <2>2. PICK pc \in {"negotiate", "over"} : HS!Goes(pc)
    BY <1>5 DEF HS!DialUpstream
  <2> QED BY <1>3, <2>1, <2>2, GoesFacts
<1>6. CASE HS!Negotiate
  <2>1. Pc = "negotiate" /\ UNCHANGED hs_client
    BY <1>6 DEF HS!Negotiate, HS!DialFails
  <2>2. PICK pc \in {"authenticate", "connect", "over"} : HS!Goes(pc)
    BY <1>6 DEF HS!Negotiate, HS!DialFails
  <2> QED BY <1>3, <2>1, <2>2, GoesFacts
<1>7. CASE HS!Authenticate
  <2>1. Pc = "authenticate" /\ UNCHANGED hs_client
    BY <1>7 DEF HS!Authenticate, HS!DialFails
  <2>2. PICK pc \in {"connect", "over"} : HS!Goes(pc)
    BY <1>7 DEF HS!Authenticate, HS!DialFails
  <2> QED BY <1>3, <2>1, <2>2, GoesFacts
<1>8. CASE HS!Connect
  <2>1. Pc = "connect" /\ UNCHANGED hs_client
    BY <1>8 DEF HS!Connect, HS!DialFails
  <2>2. hs_session'.pc \in {"reply", "over"}
    <3>1. CASE HS!ConnectRead
      BY <1>8, <3>1, ConnectFacts
    <3>2. CASE ~HS!ConnectRead
      BY <1>8, <3>2, DialFailsFacts DEF HS!Connect
    <3> QED BY <3>1, <3>2
  <2> QED BY <1>3, <2>1, <2>2
<1>9. CASE HS!Reply
  <2>1. Pc = "reply" /\ UNCHANGED hs_client
    BY <1>9 DEF HS!Reply
  <2>2. PICK pc \in {"established", "over"} : HS!Goes(pc)
    BY <1>9 DEF HS!Reply
  <2> QED BY <1>3, <2>1, <2>2, GoesFacts
<1>10. CASE HS!HandOver
  BY <1>10, HandOverFacts DEF ClientFits
<1> QED BY <1>1, <1>2, <1>4, <1>5, <1>6, <1>7, <1>8, <1>9, <1>10 DEF HS!Next, HS!Shake

(* The same for the upstream's, which comes with the dial.                 *)
LEMMA UpstreamStep ==
    ASSUME Shape, ConnectionsFit, DialsFit, UpstreamFits, HS!Next
    PROVE  UpstreamFits'
<1> USE DEF Pc, Undialed, Dialing, Connected
<1>1. CASE HS!AuthRequest
  <2>1. /\ Pc = "greeting" /\ hs_upstream = HS!NoStream /\ deadline = FALSE
        /\ UNCHANGED <<hs_upstream, deadline>>
    BY <1>1 DEF HS!AuthRequest, UpstreamFits
  <2>2. PICK pc \in {"request", "over"} : HS!Goes(pc)
    BY <1>1 DEF HS!AuthRequest
  <2> QED BY <2>1, <2>2, GoesFacts DEF UpstreamFits, HS!NoStream
<1>2. CASE HS!ReadRequest
  <2>1. /\ Pc = "request" /\ hs_upstream = HS!NoStream /\ deadline = FALSE
        /\ UNCHANGED <<hs_upstream, deadline>>
    BY <1>2 DEF HS!ReadRequest, UpstreamFits
  <2>2. hs_session'.pc \in {"dial", "over"}
    <3>1. CASE HS!RequestRead /\ HS!RequestedHost # HS!AnyAddress
      BY <1>2, <3>1, ReadRequestFacts
    <3>2. CASE ~(HS!RequestRead /\ HS!RequestedHost # HS!AnyAddress)
      <4>1. HS!Goes("over")
        BY <1>2, <3>2 DEF HS!ReadRequest
      <4> QED BY <4>1, GoesFacts
    <3> QED BY <3>1, <3>2
  <2> QED BY <2>1, <2>2 DEF UpstreamFits, HS!NoStream
<1>3. CASE HS!DialDirect
  <2>1. /\ Pc = "dial" /\ hs_upstream = HS!NoStream /\ deadline = FALSE
        /\ UNCHANGED <<hs_upstream, deadline>>
    BY <1>3 DEF HS!DialDirect, UpstreamFits
  <2>2. PICK pc \in {"reply", "fallback", "over"} : HS!Goes(pc)
    BY <1>3 DEF HS!DialDirect
  <2>3. AllTaken(HS!NoStream)
    BY DEF AllTaken, HS!NoStream
  <2>4. AllTaken(hs_upstream')
    BY <2>1, <2>3
  <2> QED BY <2>1, <2>2, <2>4, GoesFacts DEF UpstreamFits, HS!NoStream
<1>4. CASE HS!DialUpstream
  <2>1. Pc \in {"dial", "fallback"}
    BY <1>4 DEF HS!DialUpstream, HS!DialsUpstream
  <2>2. PICK pc \in {"negotiate", "over"} :
          HS!Goes(pc) /\ (pc = "negotiate" => HS!Dialed \in hs_session.config.upstreams
                                               /\ hs_upstream' \in UpstreamStreams[HS!Dialed])
    BY <1>4 DEF HS!DialUpstream
  <2>3. hs_session.config \in Configs
    <3>1. Pc = "fallback" => dials = <<"direct">>
      BY DEF ConnectionsFit
    <3>2. <<"direct">> # <<>>
      OBVIOUS
    <3> QED BY <2>1, <3>1, <3>2 DEF DialsFit
  <2>4. hs_session.config.upstreams \in SUBSET DOMAIN UpstreamStreams
    BY <2>3, HandshakeAssumption DEF HS!ConstantsOK
  <2>5. pc = "negotiate" => hs_upstream' \in Upstreams
    BY <2>2, <2>4 DEF Upstreams
  <2> QED BY <2>2, <2>5, GoesFacts DEF UpstreamFits
<1>5. ASSUME HS!DialFails PROVE UpstreamFits'
  BY <1>5, DialFailsFacts DEF UpstreamFits
<1>6. CASE HS!Negotiate
  <2>1. Pc = "negotiate" /\ hs_upstream \in Upstreams
    BY <1>6 DEF HS!Negotiate, UpstreamFits
  <2>2. CASE ~HS!DialFails
    <3>1. /\ HS!Has(hs_upstream, 2) /\ (HS!Starts(<<"5", "0">>) \/ HS!Starts(<<"5", "2">>))
          /\ hs_upstream' = HS!Taken(hs_upstream, 2)
          /\ HS!Goes(IF HS!Starts(<<"5", "2">>) THEN "authenticate" ELSE "connect")
      BY <1>6, <2>2 DEF HS!Negotiate, HS!Reads
    <3>2. CASE HS!Starts(<<"5", "2">>)
      <4>1. hs_session'.pc = "authenticate"
        BY <3>1, <3>2, GoesFacts
      <4>2. \E s \in Upstreams :
              Len(s.bytes) >= 2 /\ SubSeq(s.bytes, 1, 2) = <<"5", "2">> /\ hs_upstream' = Left(s, 2)
        BY <2>1, <3>1, <3>2, AgreementParsed
      <4> QED BY <4>1, <4>2 DEF UpstreamFits
    <3>3. CASE ~HS!Starts(<<"5", "2">>)
      <4>1. hs_session'.pc = "connect"
        BY <3>1, <3>3, GoesFacts
      <4>2. \E s \in Upstreams : \E i \in 0..Len(s.bytes) :
              HS!IsAgreement(SubSeq(s.bytes, 1, i)) /\ hs_upstream' = Left(s, i)
        BY <2>1, <3>1, <3>3, AgreementParsed
      <4> QED BY <4>1, <4>2 DEF UpstreamFits
    <3> QED BY <3>2, <3>3
  <2> QED BY <1>5, <2>2
<1>7. CASE HS!Authenticate
  <2>1. CASE ~HS!DialFails
    <3>1. /\ Pc = "authenticate" /\ HS!Has(hs_upstream, 2) /\ HS!Starts(<<"1", "0">>)
          /\ hs_upstream' = HS!Taken(hs_upstream, 2) /\ HS!Goes("connect")
      BY <1>7, <2>1 DEF HS!Authenticate, HS!Reads
    <3>2. PICK s \in Upstreams :
            Len(s.bytes) >= 2 /\ SubSeq(s.bytes, 1, 2) = <<"5", "2">> /\ hs_upstream = Left(s, 2)
      BY <3>1 DEF UpstreamFits
    <3>3. \E i \in 0..Len(s.bytes) :
            HS!IsAgreement(SubSeq(s.bytes, 1, i)) /\ hs_upstream' = Left(s, i)
      BY <3>1, <3>2, OutcomeParsed
    <3>4. hs_session'.pc = "connect"
      BY <3>1, GoesFacts
    <3> QED BY <3>3, <3>4 DEF UpstreamFits
  <2> QED BY <1>5, <2>1
<1>8. CASE HS!Connect
  <2>1. CASE HS!ConnectRead
    <3>1. /\ hs_session'.pc = "reply" /\ deadline' = FALSE
          /\ hs_upstream' = HS!Taken(hs_upstream, HS!AnswerEnd)
      BY <1>8, <2>1, ConnectFacts
    <3>2. PICK s \in Upstreams : \E i \in 0..Len(s.bytes) :
            HS!IsAgreement(SubSeq(s.bytes, 1, i)) /\ hs_upstream = Left(s, i)
      BY <1>8 DEF HS!Connect, UpstreamFits
    <3>3. PICK i \in 0..Len(s.bytes) :
            HS!IsAgreement(SubSeq(s.bytes, 1, i)) /\ hs_upstream = Left(s, i)
      BY <3>2
    <3>4. AllTaken(hs_upstream')
      BY <2>1, <3>1, <3>3, AnswerParsed
    <3> QED BY <3>1, <3>4 DEF UpstreamFits
  <2>2. CASE ~HS!ConnectRead
    BY <1>5, <1>8, <2>2 DEF HS!Connect
  <2> QED BY <2>1, <2>2
<1>9. CASE HS!Reply
  <2>1. /\ Pc = "reply" /\ UNCHANGED <<hs_upstream, deadline>>
        /\ AllTaken(hs_upstream) /\ deadline = FALSE
    BY <1>9 DEF HS!Reply, UpstreamFits
  <2>2. PICK pc \in {"established", "over"} : HS!Goes(pc)
    BY <1>9 DEF HS!Reply
  <2>3. AllTaken(hs_upstream') /\ deadline' = FALSE
    BY <2>1
  <2> QED BY <2>2, <2>3, GoesFacts DEF UpstreamFits
<1>10. CASE HS!HandOver
  <2>1. Pc = "established" /\ UNCHANGED deadline /\ hs_upstream' = HS!NoStream
    BY <1>10 DEF HS!HandOver
  <2>2. deadline' = FALSE
    BY <2>1 DEF UpstreamFits
  <2> QED BY <1>10, <2>1, <2>2, HandOverFacts DEF UpstreamFits, HS!NoStream
<1> QED BY <1>1, <1>2, <1>3, <1>4, <1>6, <1>7, <1>8, <1>9, <1>10 DEF HS!Next, HS!Shake

-----------------------------------------------------------------------------
LEMMA HandshakeInit == ASSUME HS!Init PROVE HandshakeInv
<1>1. /\ hs_session = HS!NewSession /\ dials = <<>> /\ opened = {} /\ deadline = FALSE
      /\ hs_client \in ClientStreams /\ hs_upstream = HS!NoStream
  BY DEF HS!Init
<1>2. /\ Pc = "greeting" /\ DOMAIN hs_session = SessionFields /\ hs_session.learnt = ""
  BY <1>1 DEF HS!NewSession, SessionFields, Pc
<1> QED BY <1>1, <1>2
    DEF HandshakeInv, Shape, ConnectionsFit, DialsFit, ClientFits, UpstreamFits,
        Undialed, Dialing, Connected

LEMMA HandshakeNext == ASSUME HandshakeInv, [HS!Next]_HS!vars PROVE HandshakeInv'
<1>1. CASE HS!Next
  BY <1>1, ConnectionsStep, DialsStep, ClientStep, UpstreamStep DEF HandshakeInv
<1>2. CASE UNCHANGED HS!vars
  <2>1. UNCHANGED <<hs_client, hs_upstream, hs_session, dials, opened, deadline>>
    BY <1>2 DEF HS!vars
  <2>2. Route' = Route
    BY <2>1, RouteUnchanged
  <2>3. Shape' /\ ConnectionsFit'
    BY <2>1 DEF HandshakeInv, Shape, ConnectionsFit, Pc, HS!Tried
  <2>4. DialsFit'
    BY <2>1, <2>2 DEF HandshakeInv, DialsFit, Pc
  <2>5. ClientFits'
    BY <2>1 DEF HandshakeInv, ClientFits, Pc, AllTaken
  <2>6. UpstreamFits'
    BY <2>1 DEF HandshakeInv, UpstreamFits, Pc, AllTaken
  <2> QED BY <2>3, <2>4, <2>5, <2>6 DEF HandshakeInv
<1> QED BY <1>1, <1>2

LEMMA HandshakeSafe == HS!Spec => []HandshakeInv
BY HandshakeInit, HandshakeNext, PTL DEF HS!Spec

(* The policy the streams go on with is one they are made for.             *)
LEMMA StreamPolicyFits == HS!StreamPolicy \in Policies
<1> DEFINE p == HS!StreamPolicy
<1>1. p \in [fragments : BOOLEAN, decoys : BOOLEAN, probes : BOOLEAN]
  BY DEF HS!StreamPolicy
<1>2. ~(p.fragments /\ p.decoys)
  BY DEF HS!StreamPolicy
<1> HIDE DEF p
<1>3. p \in Policies
  BY <1>1, <1>2, StreamPoliciesAssumption
<1> QED BY <1>3 DEF p

(* The session as a whole is a handshake and is two streams: every one of   *)
(* its steps is a step, or none, of each (the goroutine of a client, from   *)
(* Accept to the end of StreamReverse), so what holds of the two holds of   *)
(* it.                                                                      *)
THEOREM SessionImplements == SessionSpec => FairSpec /\ HS!Spec
<1>1. SessionInit => Init /\ HS!Init
  BY DEF SessionInit
<1>2. ASSUME [SessionNext]_all PROVE [Next]_vars /\ [HS!Next]_HS!vars
  <2>1. CASE Shake
    BY <2>1 DEF Shake, HS!Next
  <2>2. CASE Establish
    <3>1. HS!HandOver /\ Begin(HS!StreamPolicy)
      BY <2>2 DEF Establish
    <3>2. \E p \in Policies : Begin(p)
      BY <3>1, StreamPolicyFits
    <3> QED BY <3>1, <3>2 DEF Next, HS!Next
  <2>3. CASE Stream
    <3>1. Running /\ UNCHANGED hs_vars
      BY <2>3 DEF Stream, Rest
    <3> QED BY <3>1 DEF Next, hs_vars, HS!vars
  <2>4. CASE UNCHANGED all
    BY <2>4 DEF all, hs_vars, HS!vars
  <2> QED BY <1>2, <2>1, <2>2, <2>3, <2>4 DEF SessionNext
<1> QED BY <1>1, <1>2, PTL DEF SessionSpec, FairSpec, Spec, HS!Spec

(* So what is proved of the streams alone holds of them behind any          *)
(* handshake: bytes once and in order, cut where the policy that was        *)
(* resolved says so, timer, decoy and answers at their time.                *)
THEOREM StreamsCorrect ==
    SessionSpec => [](/\ TypeOK /\ InOrderOnce /\ FirstBytesCut /\ TimerAfterHello
                      /\ DecoyInTime /\ DecoyNumbersMatch /\ AnswersDelivered)
BY SessionImplements, TypeCorrect, InOrderOnceCorrect, FirstBytesCutCorrect,
   TimerAfterHelloCorrect, DecoyInTimeCorrect, DecoyNumbersMatchCorrect,
   AnswersDeliveredCorrect, PTL DEF FairSpec

(* Whatever client and upstream send, and in whatever forms, the streams    *)
(* are handed over with just the payload left in them and without the       *)
(* deadline of the dial (AuthRequest, ProcessRequest, Dial).                *)
THEOREM HandedOverIntactCorrect == SessionSpec => []HandedOverIntact
<1>1. HandshakeInv => HandedOverIntact
  BY DEF HandshakeInv, ClientFits, UpstreamFits, AllTaken, Pc, Connected, HandedOverIntact,
         HS!HandedOverIntact
<1> QED BY <1>1, HandshakeSafe, SessionImplements, PTL

(* Whichever step fails, no connection stays open, and a session that goes  *)
(* on has the one it dialed last (Dial, ProcessRequest,                     *)
(* connectAfterDirectFailure).                                              *)
THEOREM NoConnectionLeaksCorrect == SessionSpec => []NoConnectionLeaks
<1>1. HandshakeInv => NoConnectionLeaks
  BY DEF HandshakeInv, ConnectionsFit, Pc, Connected, NoConnectionLeaks, HS!NoConnectionLeaks
<1> QED BY <1>1, HandshakeSafe, SessionImplements, PTL

(* For every configuration and host, what is dialed is what the             *)
(* configuration as it is written decides, and what is learned is a         *)
(* fallback that carried a session whose host the lists allow (LoadConfig,  *)
(* PolicyFor, connectAfterDirectFailure).                                   *)
THEOREM RouteHonouredCorrect == SessionSpec => []RouteHonoured
<1>1. ASSUME HandshakeInv PROVE RouteHonoured
  <2> SUFFICES ASSUME dials # <<>> PROVE RouteHonoured
    BY DEF RouteHonoured, HS!RouteHonoured
  <2> DEFINE c == hs_session.config
             host == hs_session.host
             known == hs_session.known
  <2>1. c \in Configs /\ host \in Seq(STRING) /\ HS!Valid(HS!Loaded(c)) /\ hs_session.filters \in Filters
    BY <1>1 DEF HandshakeInv, DialsFit
  <2>2. PICK rule : rule = HS!Decision(c, host)
    OBVIOUS
  <2>3. PICK learned \in BOOLEAN : learned <=> known \in c.upstreams /\ rule.fallback # "none"
    OBVIOUS
  <2>4. /\ rule.static => Route.egress = "socks5" /\ Route.upstream = rule.upstream
        /\ ~rule.static /\ learned => Route.egress = "socks5" /\ Route.upstream = known
        /\ ~rule.static /\ ~learned =>
             Route.egress # "socks5" /\ Route.fallback = rule.fallback
    <3>1. Route = HS!PolicyFor(HS!Loaded(c), host, known)
      BY DEF Route
    <3> HIDE DEF c, host, known
    <3> QED BY <2>1, <2>2, <2>3, <3>1, RouteDecided
  <2>5. \/ Route.egress = "socks5" /\ dials = <<Route.upstream>>
        \/ Route.egress # "socks5" /\ dials = <<"direct">>
        \/ Route.egress # "socks5" /\ HS!HasFallback(Route) /\ dials = <<"direct", Route.fallback>>
    BY <1>1 DEF HandshakeInv, DialsFit
  <2>6. ASSUME hs_session.learnt # ""
        PROVE  /\ ~rule.static /\ ~learned /\ hs_session.learnt = rule.fallback
               /\ Pc \in {"reply", "established", "over"}
               /\ ~HS!Listed(hs_session.filters.deny, host)
               /\ hs_session.filters.open \/ HS!Listed(hs_session.filters.allow, host)
    <3>1. /\ Pc \in Connected \cup {"over"} /\ Route.egress # "socks5"
          /\ hs_session.learnt = Route.fallback /\ HS!CanLearn(hs_session.filters, host)
      BY <1>1, <2>6 DEF HandshakeInv, DialsFit
    <3>2. hs_session.filters \in [open : BOOLEAN, allow : HS!Lists, deny : HS!Lists]
      BY <2>1, HandshakeAssumption DEF HS!ConstantsOK
    <3>3. /\ ~HS!Listed(hs_session.filters.deny, host)
          /\ hs_session.filters.open \/ HS!Listed(hs_session.filters.allow, host)
      BY <2>1, <3>1, <3>2, ListMeans DEF HS!CanLearn
    <3> QED BY <2>4, <3>1, <3>3 DEF Connected
  <2>7. /\ rule.static => dials = <<rule.upstream>>
        /\ ~rule.static /\ learned => dials = <<known>>
        /\ ~rule.static /\ ~learned =>
             \/ dials = <<"direct">>
             \/ dials = <<"direct", rule.fallback>> /\ rule.fallback \notin {"", "none"}
    BY <2>4, <2>5 DEF HS!HasFallback
  <2> QED BY <2>2, <2>3, <2>6, <2>7 DEF RouteHonoured, HS!RouteHonoured, Pc
<1> QED BY <1>1, HandshakeSafe, SessionImplements, PTL

-----------------------------------------------------------------------------
(* The decoy: a ClientHello taken apart is what its client put together,    *)
(* and put together again it is what that client would have written.        *)
(* Numbers for bytes; that they are below 256 nothing here depends on.      *)
Octets == Seq(Nat)

(* The part p stands in s behind its first i bytes.                         *)
At(s, i, p) == i + Len(p) <= Len(s) /\ \A k \in 1..Len(p) : s[i + k] = p[k]

LEMMA Joined ==
    ASSUME NEW S, NEW s \in Seq(S), NEW t \in Seq(S)
    PROVE  /\ s \o t \in Seq(S) /\ Len(s \o t) = Len(s) + Len(t)
           /\ Len(s) \in Nat /\ Len(t) \in Nat
           /\ \A k \in 1..Len(s) : (s \o t)[k] = s[k]
           /\ \A k \in 1..Len(t) : (s \o t)[Len(s) + k] = t[k]
<1>1. /\ s \o t \in Seq(S) /\ Len(s \o t) = Len(s) + Len(t)
      /\ \A i \in 1..Len(s) + Len(t) : (s \o t)[i] = IF i <= Len(s) THEN s[i] ELSE t[i - Len(s)]
  BY ConcatProperties
<1>2. Len(s) \in Nat /\ Len(t) \in Nat
  BY LenProperties
<1>3. \A k \in 1..Len(s) : (s \o t)[k] = s[k]
  BY <1>1, <1>2
<1>4. ASSUME NEW k \in 1..Len(t) PROVE (s \o t)[Len(s) + k] = t[k]
  <2>1. PICK i : i = Len(s) + k
    OBVIOUS
  <2>2. i \in 1..Len(s) + Len(t) /\ ~(i <= Len(s)) /\ i - Len(s) = k
    BY <1>2, <2>1
  <2> QED BY <1>1, <2>1, <2>2
<1> QED BY <1>1, <1>2, <1>3, <1>4

LEMMA BytesJoined ==
    ASSUME NEW p \in Octets, NEW q \in Octets
    PROVE  /\ p \o q \in Octets /\ Len(p \o q) = Len(p) + Len(q)
           /\ Len(p) \in Nat /\ Len(q) \in Nat
BY Joined DEF Octets

LEMMA AtSplit ==
    ASSUME NEW s, NEW i \in Nat, NEW p \in Octets, NEW q \in Octets, Len(s) \in Nat, At(s, i, p \o q)
    PROVE  At(s, i, p) /\ At(s, i + Len(p), q)
<1>1. /\ Len(p \o q) = Len(p) + Len(q) /\ Len(p) \in Nat /\ Len(q) \in Nat
      /\ \A k \in 1..Len(p) : (p \o q)[k] = p[k]
      /\ \A k \in 1..Len(q) : (p \o q)[Len(p) + k] = q[k]
  BY Joined DEF Octets
<1>2. /\ i + (Len(p) + Len(q)) <= Len(s)
      /\ \A k \in 1..(Len(p) + Len(q)) : s[i + k] = (p \o q)[k]
  BY <1>1 DEF At
<1>3. \A k \in 1..Len(p) : s[i + k] = p[k]
  BY <1>1, <1>2
<1>4. ASSUME NEW k \in 1..Len(q) PROVE s[i + Len(p) + k] = q[k]
  <2>1. PICK j : j = Len(p) + k
    OBVIOUS
  <2>2. j \in 1..(Len(p) + Len(q)) /\ i + Len(p) + k = i + j
    BY <1>1, <2>1
  <2> QED BY <1>1, <1>2, <2>1, <2>2
<1>5. i + Len(p) <= Len(s) /\ i + Len(p) + Len(q) <= Len(s)
  BY <1>1, <1>2
<1> QED BY <1>3, <1>4, <1>5 DEF At

LEMMA AtPart ==
    ASSUME NEW s, NEW i \in Nat, NEW p \in Octets, Len(s) \in Nat, At(s, i, p)
    PROVE  SubSeq(s, i + 1, i + Len(p)) = p
<1>1. Len(p) \in Nat
  BY LenProperties DEF Octets
<1>2. ASSUME NEW j \in (i + 1)..(i + Len(p)) PROVE s[j] \in Nat
  <2>1. PICK k \in 1..Len(p) : j = i + k
    <3>1. j - i \in 1..Len(p) /\ j = i + (j - i)
      BY <1>1
    <3> QED BY <3>1
  <2> QED BY <2>1, ElementOfSeq DEF At, Octets
<1>3. /\ SubSeq(s, i + 1, i + Len(p)) \in Seq(Nat)
      /\ Len(SubSeq(s, i + 1, i + Len(p)))
           = IF i + 1 <= i + Len(p) THEN i + Len(p) - (i + 1) + 1 ELSE 0
      /\ \A k \in 1..(i + Len(p) - (i + 1) + 1) :
           SubSeq(s, i + 1, i + Len(p))[k] = s[i + 1 + k - 1]
  <2>1. i + 1 \in Int /\ i + Len(p) \in Int
    BY <1>1
  <2> QED BY <1>2, <2>1, SubSeqProperties
<1>4. Len(SubSeq(s, i + 1, i + Len(p))) = Len(p)
  BY <1>1, <1>3
<1>5. ASSUME NEW k \in 1..Len(p) PROVE SubSeq(s, i + 1, i + Len(p))[k] = p[k]
  <2>1. k \in 1..(i + Len(p) - (i + 1) + 1) /\ i + 1 + k - 1 = i + k
    BY <1>1
  <2> QED BY <1>3, <2>1 DEF At
<1> QED BY <1>3, <1>4, <1>5, SeqEqual DEF Octets

LEMMA AtInside ==
    ASSUME NEW s, NEW i \in Nat, NEW p, NEW j \in Nat, NEW q,
           Len(s) \in Nat, Len(p) \in Nat, Len(q) \in Nat, At(s, i, p), At(p, j, q)
    PROVE  At(s, i + j, q)
<1>1. i + j + Len(q) <= Len(s)
  BY DEF At
<1>2. ASSUME NEW k \in 1..Len(q) PROVE s[i + j + k] = q[k]
  <2>1. PICK l : l = j + k
    OBVIOUS
  <2>2. l \in 1..Len(p) /\ i + j + k = i + l
    BY <2>1 DEF At
  <2> QED BY <2>1, <2>2 DEF At
<1> QED BY <1>1, <1>2 DEF At

LEMMA AtStart ==
    ASSUME NEW p \in Octets, NEW q \in Octets
    PROVE  At(p, 0, p) /\ At(p \o q, 0, p) /\ At(p \o q, Len(p), q)
BY Joined DEF At, Octets

LEMMA AtByte ==
    ASSUME NEW s, NEW i \in Nat, NEW x, At(s, i, <<x>>)
    PROVE  s[i + 1] = x
BY DEF At

LEMMA AtTwo ==
    ASSUME NEW s, NEW i \in Nat, NEW n \in Nat, At(s, i, CH!Two(n))
    PROVE  CH!Number(s, i + 1) = n
<1>1. s[i + 1] = n \div 256 /\ s[i + 1 + 1] = n % 256
  BY DEF At, CH!Two
<1>2. (n \div 256) * 256 + (n % 256) = n
  OBVIOUS
<1> QED BY <1>1, <1>2 DEF CH!Number

-----------------------------------------------------------------------------
(* Induction over sets of numbers.                                          *)
LEMMA SetInduction ==
    ASSUME NEW T, 0 \in T, \A n \in Nat : n \in T => n + 1 \in T
    PROVE  Nat \subseteq T
<1> SUFFICES ASSUME Nat \ T # {} PROVE FALSE
  OBVIOUS
<1>1. PICK m \in Nat \ T : \A k \in Nat \ T : m <= k
  BY FirstExists
<1>2. m # 0 /\ m - 1 \in Nat
  BY <1>1
<1> QED BY <1>1, <1>2

(* FlattenSeq joins one element after the other.                            *)
JoinsUpTo(F, parts, m) ==
    /\ F \in [0..m -> Octets]
    /\ F[0] = <<>>
    /\ \A n \in 1..m : F[n] = F[n - 1] \o parts[n]
Joins(F, parts) == JoinsUpTo(F, parts, Len(parts))

LEMMA JoinsExist ==
    ASSUME NEW parts \in Seq(Octets)
    PROVE  \E F : Joins(F, parts)
<1> DEFINE T == {m \in Nat : m <= Len(parts) => \E F : JoinsUpTo(F, parts, m)}
<1>1. Len(parts) \in Nat /\ \A n \in 1..Len(parts) : parts[n] \in Octets
  BY LenProperties, ElementOfSeq
<1>2. 0 \in T
  <2> DEFINE F == [n \in 0..0 |-> <<>>]
  <2>1. <<>> \in Octets
    BY EmptySeq DEF Octets
  <2>2. JoinsUpTo(F, parts, 0)
    BY <2>1 DEF JoinsUpTo
  <2> HIDE DEF F
  <2> QED BY <2>2
<1>3. ASSUME NEW m \in Nat, m \in T PROVE m + 1 \in T
  <2>0. SUFFICES ASSUME m + 1 <= Len(parts) PROVE \E F : JoinsUpTo(F, parts, m + 1)
    OBVIOUS
  <2>1. PICK F : JoinsUpTo(F, parts, m)
    <3>1. m <= Len(parts)
      BY <1>1, <2>0
    <3> QED BY <1>3, <3>1
  <2>2. F[m] \o parts[m + 1] \in Octets
    <3>1. F[m] \in Octets /\ parts[m + 1] \in Octets
      BY <1>1, <2>0, <2>1 DEF JoinsUpTo
    <3> QED BY <3>1, Joined DEF Octets
  <2> DEFINE G == [n \in 0..(m + 1) |-> IF n = m + 1 THEN F[m] \o parts[m + 1] ELSE F[n]]
  <2>3. G \in [0..(m + 1) -> Octets] /\ G[0] = <<>>
    BY <2>1, <2>2 DEF JoinsUpTo
  <2>4. ASSUME NEW n \in 1..(m + 1) PROVE G[n] = G[n - 1] \o parts[n]
    <3>1. CASE n = m + 1
      BY <3>1
    <3>2. CASE n # m + 1
      <4>1. n \in 1..m /\ G[n] = F[n] /\ G[n - 1] = F[n - 1]
        BY <3>2
      <4> QED BY <2>1, <4>1 DEF JoinsUpTo
    <3> QED BY <3>1, <3>2
  <2> HIDE DEF G
  <2>5. JoinsUpTo(G, parts, m + 1)
    BY <2>3, <2>4 DEF JoinsUpTo
  <2> QED BY <2>5
<1> HIDE DEF T
<1>4. Len(parts) \in T
  BY <1>1, <1>2, <1>3, SetInduction
<1> USE DEF T
<1>5. \E F : JoinsUpTo(F, parts, Len(parts))
  BY <1>1, <1>4
<1> QED BY <1>5 DEF Joins

LEMMA Flattened ==
    ASSUME NEW parts \in Seq(Octets)
    PROVE  \E F : Joins(F, parts) /\ CH!FlattenSeq(parts) = F[Len(parts)]
<1>1. PICK F : Joins(F, parts)
  BY JoinsExist
<1>2. PICK N \in Nat : N = Len(parts)
  BY LenProperties
<1> USE DEF JoinsUpTo
<1>3. CASE N = 0
  <2>1. parts = <<>>
    BY <1>2, <1>3, EmptySeq
  <2> QED BY <1>1, <1>2, <1>3, <2>1 DEF Joins, CH!FlattenSeq
<1>4. CASE N # 0
  <2> DEFINE f == [n \in 1..N |-> F[n]]
             g == CHOOSE h : h = [i \in 1..N |-> IF i = 1 THEN parts[i] ELSE h[i - 1] \o parts[i]]
  <2>1. F[1] = parts[1]
    <3>1. 1 \in 1..N /\ 1 \in 1..Len(parts)
      BY <1>2, <1>4
    <3>2. F[1] = <<>> \o parts[1] /\ parts[1] \in Octets
      BY <1>1, <3>1, ElementOfSeq DEF Joins
    <3> QED BY <3>2, ConcatEmptySeq DEF Octets
  <2>2. f = [i \in 1..N |-> IF i = 1 THEN parts[i] ELSE f[i - 1] \o parts[i]]
    <3>1. ASSUME NEW i \in 1..N PROVE f[i] = IF i = 1 THEN parts[i] ELSE f[i - 1] \o parts[i]
      <4>1. CASE i = 1
        BY <2>1, <4>1
      <4>2. CASE i # 1
        <5>1. i - 1 \in 1..N /\ f[i] = F[i] /\ f[i - 1] = F[i - 1]
          BY <4>2
        <5> QED BY <1>1, <1>2, <4>2, <5>1 DEF Joins
      <4> QED BY <4>1, <4>2
    <3> QED BY <3>1
  <2>3. g = [i \in 1..N |-> IF i = 1 THEN parts[i] ELSE g[i - 1] \o parts[i]]
    BY <2>2
  <2>4. CH!FlattenSeq(parts) = g[N]
    BY <1>2, <1>4 DEF CH!FlattenSeq
  <2> HIDE DEF g
  <2> DEFINE T == {n \in Nat : n \in 1..N => g[n] = F[n]}
  <2>5. 0 \in T
    OBVIOUS
  <2>6. ASSUME NEW n \in Nat, n \in T PROVE n + 1 \in T
    <3> SUFFICES ASSUME n + 1 \in 1..N PROVE g[n + 1] = F[n + 1]
      OBVIOUS
    <3>1. CASE n = 0
      BY <2>1, <2>3, <3>1
    <3>2. CASE n # 0
      <4>1. PICK i \in 1..N : i = n + 1
        OBVIOUS
      <4>2. n \in 1..N /\ i # 1 /\ i - 1 = n
        BY <3>2, <4>1
      <4>3. g[i] = g[n] \o parts[i]
        BY <2>3, <4>2
      <4>4. F[i] = F[n] \o parts[i]
        BY <1>1, <1>2, <4>2 DEF Joins
      <4> QED BY <2>6, <4>1, <4>2, <4>3, <4>4
    <3> QED BY <3>1, <3>2
  <2> HIDE DEF T
  <2>7. N \in T
    BY <2>5, <2>6, SetInduction
  <2>8. g[N] = F[N]
    BY <1>4, <2>7 DEF T
  <2> QED BY <1>1, <1>2, <2>4, <2>8
<1> QED BY <1>3, <1>4

(* What has been joined stands where it was joined.                         *)
LEMMA JoinedParts ==
    ASSUME NEW parts \in Seq(Octets), NEW F, Joins(F, parts)
    PROVE  \A k \in 1..Len(parts) :
             /\ At(F[Len(parts)], Len(F[k - 1]), parts[k])
             /\ Len(F[k]) = Len(F[k - 1]) + Len(parts[k])
             /\ Len(F[k - 1]) \in Nat /\ Len(parts[k]) \in Nat
<1>1. /\ Len(parts) \in Nat
      /\ \A k \in 1..Len(parts) : parts[k] \in Octets
      /\ \A k \in 0..Len(parts) : F[k] \in Octets
      /\ \A k \in 1..Len(parts) : F[k - 1] \in Octets /\ F[k] = F[k - 1] \o parts[k]
  <2>1. Len(parts) \in Nat
    BY LenProperties
  <2>2. \A k \in 1..Len(parts) : k - 1 \in 0..Len(parts)
    BY <2>1
  <2> QED BY <2>1, <2>2, ElementOfSeq DEF Joins, JoinsUpTo
<1>2. ASSUME NEW k \in 1..Len(parts)
      PROVE  /\ Len(F[k]) = Len(F[k - 1]) + Len(parts[k])
             /\ Len(F[k - 1]) \in Nat /\ Len(parts[k]) \in Nat
  <2>1. F[k - 1] \in Octets /\ parts[k] \in Octets /\ F[k] = F[k - 1] \o parts[k]
    BY <1>1
  <2>2. /\ Len(F[k - 1] \o parts[k]) = Len(F[k - 1]) + Len(parts[k])
        /\ Len(F[k - 1]) \in Nat /\ Len(parts[k]) \in Nat
    BY <2>1, Joined DEF Octets
  <2> QED BY <2>1, <2>2
<1> DEFINE T == {n \in Nat : n <= Len(parts) =>
                    \A k \in 1..n : At(F[n], Len(F[k - 1]), parts[k])}
<1>3. 0 \in T
  OBVIOUS
<1>4. ASSUME NEW n \in Nat, n \in T PROVE n + 1 \in T
  <2> SUFFICES ASSUME n + 1 <= Len(parts), NEW k \in 1..(n + 1)
               PROVE  At(F[n + 1], Len(F[k - 1]), parts[k])
    OBVIOUS
  <2>1. n + 1 \in 1..Len(parts) /\ n \in 0..Len(parts) /\ n + 1 - 1 = n /\ k \in 1..Len(parts)
    BY <1>1
  <2>2. F[n + 1] = F[n] \o parts[n + 1] /\ F[n] \in Octets /\ parts[n + 1] \in Octets
    <3>1. PICK i \in 1..Len(parts) : i = n + 1
      BY <2>1
    <3>2. i - 1 = n
      BY <3>1
    <3>3. F[i] = F[n] \o parts[i] /\ F[n] \in Octets /\ parts[i] \in Octets
      BY <1>1, <2>1, <3>2
    <3> QED BY <3>1, <3>3
  <2>3. CASE k = n + 1
    BY <2>1, <2>2, <2>3, AtStart
  <2>4. CASE k # n + 1
    <3>1. k \in 1..n /\ n <= Len(parts)
      BY <2>1, <2>4
    <3>2. At(F[n], Len(F[k - 1]), parts[k])
      BY <1>4, <3>1
    <3>3. At(F[n + 1], 0, F[n])
      BY <2>2, AtStart
    <3>4. Len(F[n + 1]) \in Nat /\ Len(F[n]) \in Nat
      BY <1>1, <2>1, LenProperties DEF Octets
    <3>5. At(F[n + 1], 0 + Len(F[k - 1]), parts[k])
      BY <1>2, <2>1, <3>2, <3>3, <3>4, AtInside
    <3> QED BY <1>2, <2>1, <3>5
  <2> QED BY <2>3, <2>4
<1> HIDE DEF T
<1>5. Len(parts) \in T
  BY <1>1, <1>3, <1>4, SetInduction
<1>6. \A k \in 1..Len(parts) : At(F[Len(parts)], Len(F[k - 1]), parts[k])
  BY <1>1, <1>5 DEF T
<1> QED BY <1>2, <1>6

-----------------------------------------------------------------------------
(* What Extensions makes of the data from at on, given what it makes of the *)
(* data behind the extension that starts there.                             *)
Parsed(E, data, end, at) ==
    IF at > end \/ at + 3 > Len(data) THEN [ok |-> TRUE, list |-> <<>>]
    ELSE LET next == at + 4 + CH!Number(data, at + 2) IN
         IF next - 1 > Len(data) \/ ~E[next].ok THEN CH!Failed
         ELSE [ok |-> TRUE,
               list |-> <<[type |-> CH!Number(data, at),
                           data |-> SubSeq(data, at + 4, next - 1)]>> \o E[next].list]
Parses(E, data, end, from) ==
    /\ E = [at \in 1..(Len(data) + 1) |-> E[at]]
    /\ \A at \in from..(Len(data) + 1) : E[at] = Parsed(E, data, end, at)

LEMMA NumberType ==
    ASSUME NEW data \in Octets, NEW i \in 1..Len(data), i + 1 \in 1..Len(data)
    PROVE  CH!Number(data, i) \in Nat
<1>1. data[i] \in Nat /\ data[i + 1] \in Nat
  BY ElementOfSeq DEF Octets
<1> QED BY <1>1 DEF CH!Number

LEMMA ExtensionsDefined ==
    ASSUME NEW data \in Octets, NEW end
    PROVE  \A at \in 1..(Len(data) + 1) :
             CH!Extensions(data, end)[at] = Parsed(CH!Extensions(data, end), data, end, at)
<1>1. PICK N \in Nat : N = Len(data)
  BY LenProperties DEF Octets
<1> DEFINE T == {k \in Nat : k <= N + 1 => \E E : Parses(E, data, end, N + 2 - k)}
<1>2. 0 \in T
  <2> DEFINE E == [at \in 1..(Len(data) + 1) |-> 0]
  <2>1. E = [at \in 1..(Len(data) + 1) |-> E[at]]
    OBVIOUS
  <2>2. \A at \in (N + 2 - 0)..(Len(data) + 1) : E[at] = Parsed(E, data, end, at)
    BY <1>1
  <2> HIDE DEF E
  <2>3. Parses(E, data, end, N + 2 - 0)
    BY <2>1, <2>2 DEF Parses
  <2> QED BY <2>3
<1>3. ASSUME NEW k \in Nat, k \in T PROVE k + 1 \in T
  <2>0. SUFFICES ASSUME k + 1 <= N + 1 PROVE \E E : Parses(E, data, end, N + 2 - (k + 1))
    OBVIOUS
  <2>1. PICK E : Parses(E, data, end, N + 2 - k)
    BY <1>3, <2>0
  <2>2. PICK new \in 1..(N + 1) : new = N + 1 - k
    BY <2>0
  <2> DEFINE G == [at \in 1..(Len(data) + 1) |-> IF at = new THEN Parsed(E, data, end, new) ELSE E[at]]
  <2>3. G = [at \in 1..(Len(data) + 1) |-> G[at]]
    OBVIOUS
  <2>4. \A at \in 1..(N + 1) : at # new => G[at] = E[at]
    BY <1>1
  <2>5. G[new] = Parsed(E, data, end, new)
    BY <1>1
  <2> HIDE DEF G
  <2>6. ASSUME NEW at \in new..(N + 1) PROVE Parsed(G, data, end, at) = Parsed(E, data, end, at)
    <3>1. CASE at > end \/ at + 3 > Len(data)
      BY <3>1 DEF Parsed
    <3>2. CASE ~(at > end \/ at + 3 > Len(data))
      <4>1. CH!Number(data, at + 2) \in Nat
        <5>1. at + 2 \in 1..Len(data) /\ at + 2 + 1 \in 1..Len(data)
          BY <1>1, <3>2
        <5> QED BY <5>1, NumberType
      <4>2. PICK next \in Nat : next = at + 4 + CH!Number(data, at + 2)
        BY <4>1
      <4>3. CASE next - 1 > Len(data)
        BY <3>2, <4>2, <4>3 DEF Parsed
      <4>4. CASE ~(next - 1 > Len(data))
        <5>1. next \in 1..(N + 1) /\ next # new
          BY <1>1, <4>1, <4>2, <4>4
        <5>2. G[next] = E[next]
          BY <2>4, <5>1
        <5> QED BY <3>2, <4>2, <5>2 DEF Parsed
      <4> QED BY <4>3, <4>4
    <3> QED BY <3>1, <3>2
  <2>7. ASSUME NEW at \in new..(N + 1) PROVE G[at] = Parsed(G, data, end, at)
    <3>1. CASE at = new
      BY <2>5, <2>6, <3>1
    <3>2. CASE at # new
      <4>1. at \in (N + 2 - k)..(Len(data) + 1) /\ at \in 1..(N + 1)
        BY <1>1, <2>2, <3>2
      <4> QED BY <2>1, <2>4, <2>6, <3>2, <4>1 DEF Parses
    <3> QED BY <3>1, <3>2
  <2>8. Parses(G, data, end, new)
    BY <1>1, <2>3, <2>7 DEF Parses
  <2>9. new = N + 2 - (k + 1)
    BY <2>2
  <2> QED BY <2>8, <2>9
<1>4. N + 1 \in T
  <2> HIDE DEF T
  <2> QED BY <1>2, <1>3, SetInduction
<1>5. \E E : Parses(E, data, end, N + 2 - (N + 1))
  BY <1>4
<1>6. PICK E : Parses(E, data, end, 1)
  <2>1. N + 2 - (N + 1) = 1
    OBVIOUS
  <2> QED BY <1>5, <2>1
<1>7. E = [at \in 1..(Len(data) + 1) |-> Parsed(E, data, end, at)]
  BY <1>6 DEF Parses
<1> DEFINE C == CHOOSE F : F = [at \in 1..(Len(data) + 1) |-> Parsed(F, data, end, at)]
<1>8. C = [at \in 1..(Len(data) + 1) |-> Parsed(C, data, end, at)]
  BY <1>7
<1>9. CH!Extensions(data, end) = C
  BY DEF CH!Extensions, Parsed
<1> HIDE DEF C
<1> QED BY <1>8, <1>9

(* An extension as a client writes it, and as it is taken apart.            *)
Entries == [type : Nat, data : Octets]

LEMMA ShortType ==
    ASSUME NEW a \in Nat, NEW b \in Nat
    PROVE  <<a>> \in Octets /\ Len(<<a>>) = 1 /\ <<a, b>> \in Octets /\ Len(<<a, b>>) = 2
BY DEF Octets

LEMMA TwoType == ASSUME NEW n \in Nat PROVE CH!Two(n) \in Octets /\ Len(CH!Two(n)) = 2
<1>1. n \div 256 \in Nat /\ n % 256 \in Nat
  OBVIOUS
<1> QED BY <1>1 DEF CH!Two, Octets

LEMMA VectorType ==
    ASSUME NEW data \in Octets
    PROVE  /\ CH!Vector2(data) = CH!Two(Len(data)) \o data
           /\ CH!Vector2(data) \in Octets /\ Len(CH!Vector2(data)) = 2 + Len(data)
           /\ CH!Vector1(data) = <<Len(data)>> \o data
           /\ CH!Vector1(data) \in Octets /\ Len(CH!Vector1(data)) = 1 + Len(data)
<1>1. Len(data) \in Nat
  BY LenProperties DEF Octets
<1>2. CH!Vector2(data) = CH!Two(Len(data)) \o data
  BY DEF CH!Vector2, CH!Two
<1>3. CH!Two(Len(data)) \in Octets /\ Len(CH!Two(Len(data))) = 2
  BY <1>1, TwoType
<1>4. CH!Two(Len(data)) \o data \in Octets /\ Len(CH!Two(Len(data)) \o data) = 2 + Len(data)
  BY <1>3, BytesJoined
<1>5. <<Len(data)>> \in Octets /\ Len(<<Len(data)>>) = 1
  BY <1>1 DEF Octets
<1>6. <<Len(data)>> \o data \in Octets /\ Len(<<Len(data)>> \o data) = 1 + Len(data)
  BY <1>5, BytesJoined
<1> QED BY <1>2, <1>4, <1>6 DEF CH!Vector1

LEMMA ExtensionOctets ==
    ASSUME NEW x \in Entries
    PROVE  /\ CH!Extension(x) = CH!Two(x.type) \o CH!Vector2(x.data)
           /\ CH!Extension(x) \in Octets /\ Len(CH!Extension(x)) = 4 + Len(x.data)
           /\ x.type \in Nat /\ x.data \in Octets /\ Len(x.data) \in Nat
<1>1. x.type \in Nat /\ x.data \in Octets
  BY DEF Entries
<1>2. Len(x.data) \in Nat
  BY <1>1, LenProperties DEF Octets
<1>3. CH!Vector2(x.data) \in Octets /\ Len(CH!Vector2(x.data)) = 2 + Len(x.data)
  BY <1>1, VectorType
<1>4. CH!Extension(x) = CH!Two(x.type) \o CH!Vector2(x.data)
  BY DEF CH!Extension, CH!Two
<1>5. /\ CH!Two(x.type) \o CH!Vector2(x.data) \in Octets
      /\ Len(CH!Two(x.type) \o CH!Vector2(x.data)) = 2 + (2 + Len(x.data))
  <2>1. CH!Two(x.type) \in Octets /\ Len(CH!Two(x.type)) = 2
    BY <1>1, TwoType
  <2>2. Len(CH!Two(x.type) \o CH!Vector2(x.data)) = Len(CH!Two(x.type)) + Len(CH!Vector2(x.data))
    BY <1>3, <2>1, BytesJoined
  <2> QED BY <1>3, <2>1, <2>2, BytesJoined
<1> QED BY <1>1, <1>2, <1>4, <1>5

LEMMA ExtensionRead ==
    ASSUME NEW s \in Octets, NEW i \in Nat, NEW x \in Entries, At(s, i, CH!Extension(x))
    PROVE  /\ CH!Number(s, i + 1) = x.type
           /\ CH!Number(s, i + 3) = Len(x.data)
           /\ SubSeq(s, i + 5, i + 4 + Len(x.data)) = x.data
           /\ i + 4 + Len(x.data) <= Len(s)
<1>1. /\ CH!Extension(x) = CH!Two(x.type) \o CH!Vector2(x.data)
      /\ Len(CH!Extension(x)) = 4 + Len(x.data)
      /\ x.type \in Nat /\ x.data \in Octets /\ Len(x.data) \in Nat
  BY ExtensionOctets
<1>2. /\ CH!Vector2(x.data) = CH!Two(Len(x.data)) \o x.data
      /\ CH!Vector2(x.data) \in Octets
  BY <1>1, VectorType
<1>3. Len(s) \in Nat
  BY LenProperties DEF Octets
<1>4. CH!Two(x.type) \in Octets /\ Len(CH!Two(x.type)) = 2
  BY <1>1, TwoType
<1>5. CH!Two(Len(x.data)) \in Octets /\ Len(CH!Two(Len(x.data))) = 2
  BY <1>1, TwoType
<1>6. At(s, i, CH!Two(x.type)) /\ At(s, i + 2, CH!Vector2(x.data))
  BY <1>1, <1>2, <1>3, <1>4, AtSplit
<1>7. At(s, i + 2, CH!Two(Len(x.data))) /\ At(s, i + 2 + 2, x.data)
  <2>1. i + 2 \in Nat
    OBVIOUS
  <2> QED BY <1>1, <1>2, <1>3, <1>5, <1>6, <2>1, AtSplit
<1>8. CH!Number(s, i + 1) = x.type
  BY <1>1, <1>6, AtTwo
<1>9. CH!Number(s, i + 2 + 1) = Len(x.data)
  <2>1. i + 2 \in Nat
    OBVIOUS
  <2> QED BY <1>1, <1>7, <2>1, AtTwo
<1>10. SubSeq(s, i + 4 + 1, i + 4 + Len(x.data)) = x.data
  <2>1. i + 4 \in Nat /\ i + 2 + 2 = i + 4
    OBVIOUS
  <2> QED BY <1>1, <1>3, <1>7, <2>1, AtPart
<1>11. i + 4 + Len(x.data) <= Len(s)
  <2>1. i + (4 + Len(x.data)) <= Len(s)
    BY <1>1 DEF At
  <2>2. PICK d \in Nat, m \in Nat : d = Len(x.data) /\ m = Len(s)
    BY <1>1, <1>3
  <2>3. i + (4 + d) <= m
    BY <2>1, <2>2
  <2>4. i + 4 + d <= m
    BY <2>3
  <2> QED BY <2>2, <2>4
<1>12. i + 2 + 1 = i + 3 /\ i + 4 + 1 = i + 5
  OBVIOUS
<1> QED BY <1>8, <1>9, <1>10, <1>11, <1>12

(* Every extension a client writes is found again, and nothing else.        *)
LEMMA ExtensionsRead ==
    ASSUME NEW list \in Seq(Entries), NEW data \in Octets, NEW e \in Nat,
           NEW parts, parts = [i \in DOMAIN list |-> CH!Extension(list[i])],
           At(data, e, CH!FlattenSeq(parts)), Len(data) = e + Len(CH!FlattenSeq(parts))
    PROVE  CH!Extensions(data, Len(data))[e + 1] = [ok |-> TRUE, list |-> list]
<1>1. PICK n \in Nat : n = Len(list) /\ DOMAIN list = 1..n
  BY LenProperties
<1>2. \A i \in 1..n : list[i] \in Entries
  BY <1>1, ElementOfSeq
<1>3. /\ parts \in Seq(Octets) /\ Len(parts) = n
      /\ \A i \in 1..n : parts[i] = CH!Extension(list[i])
  <2>1. \A i \in 1..n : CH!Extension(list[i]) \in Octets
    BY <1>2, ExtensionOctets
  <2>2. parts \in [1..n -> Octets]
    BY <1>1, <2>1
  <2> QED BY <1>1, <2>2
<1>4. PICK F : Joins(F, parts) /\ CH!FlattenSeq(parts) = F[n]
  BY <1>3, Flattened
<1>5. \A k \in 1..n :
         /\ At(F[n], Len(F[k - 1]), parts[k])
         /\ Len(F[k]) = Len(F[k - 1]) + Len(parts[k])
         /\ Len(F[k - 1]) \in Nat /\ Len(parts[k]) \in Nat
  BY <1>3, <1>4, JoinedParts
<1>6. F[0] = <<>> /\ F[n] \in Octets /\ Len(F[n]) \in Nat
  <2>1. F \in [0..n -> Octets] /\ F[0] = <<>>
    BY <1>3, <1>4 DEF Joins, JoinsUpTo
  <2>2. n \in 0..n
    OBVIOUS
  <2>3. F[n] \in Octets
    BY <2>1, <2>2
  <2> QED BY <2>1, <2>3, LenProperties DEF Octets
<1> DEFINE E == CH!Extensions(data, Len(data))
<1>7. \A at \in 1..(Len(data) + 1) : E[at] = Parsed(E, data, Len(data), at)
  BY ExtensionsDefined
<1>8. At(data, e, F[n]) /\ Len(data) = e + Len(F[n]) /\ Len(data) \in Nat
  BY <1>4, <1>6
<1> HIDE DEF E
<1> DEFINE Reads(j) == E[e + Len(F[n - j]) + 1] = [ok |-> TRUE, list |-> SubSeq(list, n - j + 1, n)]
<1> DEFINE T == {j \in Nat : j <= n => Reads(j)}
<1> HIDE DEF Reads
<1>9. 0 \in T
  <2>1. PICK at \in 1..(Len(data) + 1) : at = e + Len(F[n]) + 1
    <3>1. PICK d \in Nat : d = Len(F[n])
      BY <1>6
    <3>2. e + d + 1 \in 1..(Len(data) + 1)
      BY <1>8, <3>1
    <3> QED BY <3>1, <3>2
  <2>2. E[at] = [ok |-> TRUE, list |-> <<>>]
    <3>1. at > Len(data)
      BY <1>6, <1>8, <2>1
    <3> QED BY <1>7, <3>1 DEF Parsed
  <2>3. SubSeq(list, n + 1, n) = <<>>
    BY <1>1, SubSeqEmpty
  <2>4. n - 0 = n
    OBVIOUS
  <2>5. Reads(0)
    BY <2>1, <2>2, <2>3, <2>4 DEF Reads
  <2> QED BY <2>5
<1>10. ASSUME NEW j \in Nat, j \in T PROVE j + 1 \in T
  <2>1. ASSUME j + 1 <= n PROVE Reads(j + 1)
    <3>1. PICK k \in 1..n : k = n - j /\ k - 1 = n - (j + 1) /\ k = n - (j + 1) + 1
      <4>1. n - j \in 1..n /\ (n - j) - 1 = n - (j + 1) /\ n - j = n - (j + 1) + 1
        BY <2>1
      <4> QED BY <4>1
    <3>2. E[e + Len(F[k]) + 1] = [ok |-> TRUE, list |-> SubSeq(list, k + 1, n)]
      BY <1>10, <2>1, <3>1 DEF Reads
    <3>3. PICK x \in Entries : x = list[k] /\ parts[k] = CH!Extension(x)
      BY <1>2, <1>3
    <3>4. Len(F[k - 1]) \in Nat /\ Len(F[k]) = Len(F[k - 1]) + Len(parts[k]) /\ Len(parts[k]) \in Nat
      BY <1>5
    <3>5. PICK d \in Nat : d = Len(x.data) /\ Len(parts[k]) = 4 + d
      BY <3>3, ExtensionOctets
    <3>6. PICK i \in Nat : i = e + Len(F[k - 1])
      BY <3>4
    <3>7. At(data, i, CH!Extension(x))
      <4>1. At(F[n], Len(F[k - 1]), CH!Extension(x))
        BY <1>5, <3>3
      <4> QED BY <1>6, <1>8, <3>3, <3>4, <3>6, <4>1, AtInside
    <3>8. /\ CH!Number(data, i + 1) = x.type /\ CH!Number(data, i + 3) = d
          /\ SubSeq(data, i + 5, i + 4 + d) = x.data
          /\ i + 4 + d <= Len(data)
      BY <3>5, <3>7, ExtensionRead
    <3>9. PICK at \in 1..(Len(data) + 1) : at = i + 1
      <4>1. i + 1 \in 1..(Len(data) + 1)
        BY <1>8, <3>8
      <4> QED BY <4>1
    <3>10. PICK next : next = at + 4 + CH!Number(data, at + 2)
      OBVIOUS
    <3>11. /\ at + 2 = i + 3 /\ at + 4 = i + 5
           /\ next = i + 5 + d /\ next - 1 = i + 4 + d
           /\ next = e + Len(F[k]) + 1
      <4>1. at + 2 = i + 3 /\ at + 4 = i + 5
        BY <3>9
      <4>2. next = i + 5 + d
        BY <3>8, <3>10, <4>1
      <4>3. PICK from \in Nat : from = Len(F[k - 1])
        BY <3>4
      <4>4. Len(F[k]) = from + (4 + d) /\ i = e + from
        BY <3>4, <3>5, <3>6, <4>3
      <4>5. next = e + Len(F[k]) + 1
        BY <4>2, <4>4
      <4>6. next - 1 = i + 4 + d
        BY <4>2
      <4> QED BY <4>1, <4>2, <4>5, <4>6
    <3>12. ~(at > Len(data) \/ at + 3 > Len(data)) /\ ~(next - 1 > Len(data))
      <4>1. PICK m \in Nat : m = Len(data)
        BY <1>8
      <4>2. i + 4 + d <= m
        BY <3>8, <4>1
      <4>3. ~(i + 1 > m) /\ ~(i + 1 + 3 > m)
        BY <4>2
      <4>4. ~(next - 1 > m)
        BY <3>11, <4>2
      <4> QED BY <3>9, <4>1, <4>3, <4>4
    <3>13. E[next].ok /\ E[next].list = SubSeq(list, k + 1, n)
      <4>1. E[next] = [ok |-> TRUE, list |-> SubSeq(list, k + 1, n)]
        BY <3>2, <3>11
      <4> QED BY <4>1
    <3>14. E[at] = [ok |-> TRUE, list |-> <<x>> \o SubSeq(list, k + 1, n)]
      <4>1. E[at] = Parsed(E, data, Len(data), at)
        BY <1>7
      <4>2. E[at] = [ok |-> TRUE,
                     list |-> <<[type |-> CH!Number(data, at),
                                 data |-> SubSeq(data, at + 4, next - 1)]>> \o E[next].list]
        BY <3>10, <3>12, <3>13, <4>1 DEF Parsed
      <4>3. x = [type |-> CH!Number(data, at), data |-> SubSeq(data, at + 4, next - 1)]
        <5>1. x = [type |-> x.type, data |-> x.data]
          BY DEF Entries
        <5> QED BY <3>8, <3>9, <3>11, <5>1
      <4> QED BY <3>13, <4>2, <4>3
    <3>15. SubSeq(list, k, n) = <<x>> \o SubSeq(list, k + 1, n)
      <4>1. k \in 1..Len(list) /\ n \in k..Len(list)
        BY <1>1
      <4> QED BY <3>3, <4>1, SubSeqRecursiveFirst
    <3>16. E[e + Len(F[n - (j + 1)]) + 1]
             = [ok |-> TRUE, list |-> SubSeq(list, n - (j + 1) + 1, n)]
      BY <3>1, <3>6, <3>9, <3>14, <3>15
    <3> QED BY <3>16 DEF Reads
  <2> QED BY <2>1
<1> HIDE DEF T
<1>11. n \in T
  BY <1>9, <1>10, SetInduction
<1>12. E[e + Len(F[n - n]) + 1] = [ok |-> TRUE, list |-> SubSeq(list, n - n + 1, n)]
  BY <1>11 DEF T, Reads
<1>13. n - n = 0 /\ n - n + 1 = 1 /\ Len(F[0]) = 0
  BY <1>6
<1>14. SubSeq(list, 1, n) = list
  BY <1>1, SubSeqFull
<1>15. E[e + 0 + 1] = [ok |-> TRUE, list |-> list]
  BY <1>12, <1>13, <1>14
<1> QED BY <1>15 DEF E

LEMMA PartAt ==
    ASSUME NEW s \in Octets, NEW a \in Nat, NEW b \in Nat, a <= b, b <= Len(s)
    PROVE  /\ SubSeq(s, a + 1, b) \in Octets /\ Len(SubSeq(s, a + 1, b)) = b - a
           /\ At(s, a, SubSeq(s, a + 1, b))
<1>1. Len(s) \in Nat /\ \A i \in 1..Len(s) : s[i] \in Nat
  BY LenProperties, ElementOfSeq DEF Octets
<1>2. \A i \in (a + 1)..b : s[i] \in Nat
  BY <1>1
<1>3. /\ SubSeq(s, a + 1, b) \in Seq(Nat)
      /\ Len(SubSeq(s, a + 1, b)) = IF a + 1 <= b THEN b - (a + 1) + 1 ELSE 0
      /\ \A i \in 1..(b - (a + 1) + 1) : SubSeq(s, a + 1, b)[i] = s[a + 1 + i - 1]
  BY <1>2, SubSeqProperties
<1>4. Len(SubSeq(s, a + 1, b)) = b - a
  BY <1>3
<1>5. ASSUME NEW k \in 1..(b - a) PROVE s[a + k] = SubSeq(s, a + 1, b)[k]
  <2>1. k \in 1..(b - (a + 1) + 1) /\ a + 1 + k - 1 = a + k
    OBVIOUS
  <2> QED BY <1>3, <2>1
<1>6. a + (b - a) <= Len(s)
  BY <1>1
<1> QED BY <1>3, <1>4, <1>5, <1>6 DEF At, Octets

(* The suites are taken two bytes at a time and joined again.               *)
LEMMA PairsJoined ==
    ASSUME NEW s \in Octets, NEW q \in Nat, Len(s) = 2 * q,
           NEW pairs, pairs = [i \in 1..q |-> SubSeq(s, 2 * i - 1, 2 * i)]
    PROVE  CH!FlattenSeq(pairs) = s
<1>1. ASSUME NEW i \in 1..q PROVE SubSeq(s, 2 * i - 1, 2 * i) \in Octets
  <2>1. PICK a \in Nat, b \in Nat : a = 2 * i - 2 /\ b = 2 * i /\ a + 1 = 2 * i - 1
    <3>1. 2 * i - 2 \in Nat /\ 2 * i \in Nat /\ (2 * i - 2) + 1 = 2 * i - 1
      OBVIOUS
    <3> QED BY <3>1
  <2>2. a <= b /\ b <= Len(s)
    BY <2>1
  <2> QED BY <2>1, <2>2, PartAt
<1>2. pairs \in Seq(Octets) /\ Len(pairs) = q
  <2>1. pairs \in [1..q -> Octets]
    BY <1>1
  <2> QED BY <2>1
<1>3. PICK F : Joins(F, pairs) /\ CH!FlattenSeq(pairs) = F[q]
  BY <1>2, Flattened
<1> DEFINE T == {n \in Nat : n <= q => F[n] = SubSeq(s, 1, 2 * n)}
<1>4. 0 \in T
  <2>1. F[0] = <<>>
    BY <1>3 DEF Joins, JoinsUpTo
  <2>2. SubSeq(s, 1, 0) = <<>>
    BY SubSeqEmpty
  <2>3. 2 * 0 = 0
    OBVIOUS
  <2> QED BY <2>1, <2>2, <2>3
<1>5. ASSUME NEW n \in Nat, n \in T PROVE n + 1 \in T
  <2>0. SUFFICES ASSUME n + 1 <= q PROVE F[n + 1] = SubSeq(s, 1, 2 * (n + 1))
    OBVIOUS
  <2>1. F[n] = SubSeq(s, 1, 2 * n)
    BY <1>5, <2>0
  <2>2. PICK i \in 1..q : i = n + 1 /\ i - 1 = n
    BY <2>0
  <2>3. F[i] = F[n] \o pairs[i]
    <3>1. F[i] = F[i - 1] \o pairs[i]
      BY <1>2, <1>3 DEF Joins, JoinsUpTo
    <3> QED BY <2>2, <3>1
  <2>4. PICK m \in Nat, l \in Nat : m = 2 * n /\ l = 2 * i /\ m + 1 = 2 * i - 1 /\ l = 2 * (n + 1)
    <3>1. 2 * n \in Nat /\ 2 * i \in Nat /\ 2 * n + 1 = 2 * i - 1 /\ 2 * i = 2 * (n + 1)
      BY <2>2
    <3> QED BY <3>1
  <2>5. pairs[i] = SubSeq(s, m + 1, l)
    BY <2>4
  <2>6. SubSeq(s, 1, m) \o SubSeq(s, m + 1, l) = SubSeq(s, 1, l)
    <3>1. Len(s) \in Nat /\ m \in 0..l /\ l <= Len(s)
      BY <2>2, <2>4
    <3>2. 1 \in 1..Len(s) + 1 /\ m \in (1 - 1)..Len(s) /\ l \in m..Len(s)
      BY <3>1
    <3> QED BY <3>2, ConcatAdjacentSubSeq DEF Octets
  <2> QED BY <2>1, <2>2, <2>3, <2>4, <2>5, <2>6
<1> HIDE DEF T
<1>6. q \in T
  BY <1>4, <1>5, SetInduction
<1>7. F[q] = SubSeq(s, 1, Len(s))
  BY <1>6 DEF T
<1>8. SubSeq(s, 1, Len(s)) = s
  BY SubSeqFull DEF Octets
<1> QED BY <1>3, <1>7, <1>8

(* The bytes s are the six parts one behind the other.                      *)
Stand(s, a, b, c, d, e, f) ==
    /\ s \in Octets
    /\ Len(s) = Len(a) + Len(b) + Len(c) + Len(d) + Len(e) + Len(f)
    /\ At(s, 0, a) /\ At(s, Len(a), b) /\ At(s, Len(a) + Len(b), c)
    /\ At(s, Len(a) + Len(b) + Len(c), d)
    /\ At(s, Len(a) + Len(b) + Len(c) + Len(d), e)
    /\ At(s, Len(a) + Len(b) + Len(c) + Len(d) + Len(e), f)

LEMMA SixParts ==
    ASSUME NEW a \in Octets, NEW b \in Octets, NEW c \in Octets,
           NEW d \in Octets, NEW e \in Octets, NEW f \in Octets
    PROVE  Stand(a \o b \o c \o d \o e \o f, a, b, c, d, e, f)
<1> DEFINE s == a \o b \o c \o d \o e \o f
           s2 == a \o b
           s3 == s2 \o c
           s4 == s3 \o d
           s5 == s4 \o e
<1>1. s2 \in Octets /\ Len(s2) = Len(a) + Len(b) /\ Len(a) \in Nat /\ Len(b) \in Nat
  BY BytesJoined
<1>2. s = s5 \o f
  OBVIOUS
<1> HIDE DEF s, s2
<1>3. s3 \in Octets /\ Len(s3) = Len(s2) + Len(c) /\ Len(c) \in Nat
  BY <1>1, BytesJoined
<1> HIDE DEF s3
<1>4. s4 \in Octets /\ Len(s4) = Len(s3) + Len(d) /\ Len(d) \in Nat
  BY <1>3, BytesJoined
<1> HIDE DEF s4
<1>5. s5 \in Octets /\ Len(s5) = Len(s4) + Len(e) /\ Len(e) \in Nat
  BY <1>4, BytesJoined
<1> HIDE DEF s5
<1>6. s \in Octets /\ Len(s) = Len(s5) + Len(f) /\ Len(f) \in Nat
  BY <1>2, <1>5, BytesJoined
<1>7. Len(s) \in Nat
  BY <1>6, LenProperties DEF Octets
<1>8. At(s, 0, s5) /\ At(s, Len(s5), f)
  BY <1>2, <1>5, AtStart
<1>9. At(s, 0, s4) /\ At(s, 0 + Len(s4), e)
  BY <1>4, <1>7, <1>8, AtSplit DEF s5
<1>10. At(s, 0, s3) /\ At(s, 0 + Len(s3), d)
  BY <1>3, <1>7, <1>9, AtSplit DEF s4
<1>11. At(s, 0, s2) /\ At(s, 0 + Len(s2), c)
  BY <1>1, <1>7, <1>10, AtSplit DEF s3
<1>12. At(s, 0, a) /\ At(s, 0 + Len(a), b)
  BY <1>7, <1>11, AtSplit DEF s2
<1>13. /\ 0 + Len(s4) = Len(s4) /\ 0 + Len(s3) = Len(s3) /\ 0 + Len(s2) = Len(s2)
       /\ 0 + Len(a) = Len(a)
  BY <1>1, <1>3, <1>4
<1>14. Stand(s, a, b, c, d, e, f)
  BY <1>1, <1>3, <1>4, <1>5, <1>6, <1>8, <1>9, <1>10, <1>11, <1>12, <1>13 DEF Stand
<1> QED BY <1>14 DEF s

(* What is behind a length of one byte, and of two.                         *)
LEMMA Vector1Read ==
    ASSUME NEW s \in Octets, NEW i \in Nat, NEW data \in Octets, At(s, i, CH!Vector1(data))
    PROVE  /\ s[i + 1] = Len(data) /\ SubSeq(s, i + 2, i + 1 + Len(data)) = data
           /\ At(s, i + 1, data)
<1>1. Len(data) \in Nat /\ Len(s) \in Nat
  BY LenProperties DEF Octets
<1>2. PICK head \in Octets : head = <<Len(data)>> /\ Len(head) = 1
  <2>1. <<Len(data)>> \in Octets /\ Len(<<Len(data)>>) = 1
    BY <1>1, ShortType
  <2> QED BY <2>1
<1>3. At(s, i, head) /\ At(s, i + 1, data)
  <2>1. At(s, i, head \o data)
    BY <1>2, VectorType
  <2> QED BY <1>1, <1>2, <2>1, AtSplit
<1>4. SubSeq(s, i + 1 + 1, i + 1 + Len(data)) = data
  BY <1>1, <1>3, AtPart
<1>5. i + 1 + 1 = i + 2
  OBVIOUS
<1> QED BY <1>2, <1>3, <1>4, <1>5, AtByte

LEMMA Vector2Read ==
    ASSUME NEW s \in Octets, NEW i \in Nat, NEW data \in Octets, At(s, i, CH!Vector2(data))
    PROVE  CH!Number(s, i + 1) = Len(data) /\ At(s, i + 2, data)
<1>1. Len(data) \in Nat /\ Len(s) \in Nat
  BY LenProperties DEF Octets
<1>2. /\ CH!Vector2(data) = CH!Two(Len(data)) \o data
      /\ CH!Two(Len(data)) \in Octets /\ Len(CH!Two(Len(data))) = 2
  BY <1>1, TwoType, VectorType
<1>3. At(s, i, CH!Two(Len(data))) /\ At(s, i + 2, data)
  BY <1>1, <1>2, AtSplit
<1> QED BY <1>1, <1>3, AtTwo

-----------------------------------------------------------------------------
(* A message as a client writes it, and as it is taken apart.               *)
Joints(list) == CH!FlattenSeq([i \in DOMAIN list |-> CH!Extension(list[i])])
Body(session, suites, methods, list) ==
    <<3, 3>> \o CH!Random \o CH!Vector1(session) \o CH!Vector2(suites) \o CH!Vector1(methods)
      \o CH!Vector2(Joints(list))
Pairs(suites) == [i \in 1..(Len(suites) \div 2) |-> SubSeq(suites, 2 * i - 1, 2 * i)]
Fields(session, suites, methods, list) ==
    [ok |-> TRUE, version |-> <<3, 3>>, random |-> CH!Random, session |-> session,
     suites |-> Pairs(suites), methods |-> methods, extensions |-> list]

LEMMA RandomType == CH!Random \in Octets /\ Len(CH!Random) = RandomSize /\ RandomSize \in Nat
BY ClientHelloAssumption DEF CH!ConstantsOK, CH!Random, Octets

LEMMA JointsType == ASSUME NEW list \in Seq(Entries) PROVE Joints(list) \in Octets
<1> DEFINE parts == [i \in DOMAIN list |-> CH!Extension(list[i])]
<1>1. PICK n \in Nat : n = Len(list) /\ DOMAIN list = 1..n
  BY LenProperties
<1>2. \A i \in 1..n : CH!Extension(list[i]) \in Octets
  BY <1>1, ElementOfSeq, ExtensionOctets
<1>3. parts \in [1..n -> Octets]
  BY <1>1, <1>2
<1>4. parts \in Seq(Octets) /\ Len(parts) = n
  BY <1>3
<1> HIDE DEF parts
<1>5. PICK F : Joins(F, parts) /\ CH!FlattenSeq(parts) = F[n]
  BY <1>4, Flattened
<1>6. F \in [0..n -> Octets] /\ n \in 0..n
  BY <1>4, <1>5 DEF Joins, JoinsUpTo
<1> QED BY <1>5, <1>6 DEF Joints, parts

LEMMA BodyType ==
    ASSUME NEW session \in Octets, NEW suites \in Octets, NEW methods \in Octets, NEW list \in Seq(Entries)
    PROVE  Body(session, suites, methods, list) \in Octets
<1>1. /\ <<3, 3>> \in Octets /\ CH!Random \in Octets /\ CH!Vector1(session) \in Octets
      /\ CH!Vector2(suites) \in Octets /\ CH!Vector1(methods) \in Octets
      /\ CH!Vector2(Joints(list)) \in Octets
  <2>1. <<3, 3>> \in Octets
    BY DEF Octets
  <2> QED BY <2>1, RandomType, VectorType, JointsType
<1> QED BY <1>1, SixParts DEF Body, Stand

(* What DecodeMessage makes of a message whose parts start there.           *)
MessageAt(data, session, suites, methods, extensions) ==
    LET count == CH!Number(data, suites) \div 2
        list == IF extensions > Len(data) THEN [ok |-> TRUE, list |-> <<>>]
                ELSE CH!Extensions(data, extensions + 1 + CH!Number(data, extensions))[extensions + 2]
    IN
    IF \/ session > Len(data) \/ suites + 1 > Len(data) \/ methods > Len(data)
       \/ extensions - 1 > Len(data) \/ extensions = Len(data) \/ ~list.ok
    THEN CH!Failed
    ELSE [ok |-> TRUE,
          version |-> SubSeq(data, 1, 2),
          random |-> SubSeq(data, 3, 2 + RandomSize),
          session |-> SubSeq(data, session + 1, suites - 1),
          suites |-> CH!SuitesAt(data, suites, count),
          methods |-> SubSeq(data, methods + 1, extensions - 1),
          extensions |-> list.list]

LEMMA MessageParts ==
    ASSUME NEW data
    PROVE  \E p, u, v, w :
             /\ p = 2 + RandomSize + 1 /\ u = p + data[p] + 1
             /\ v = u + 2 + 2 * (CH!Number(data, u) \div 2) /\ w = v + data[v] + 1
             /\ CH!DecodeMessage(data) = MessageAt(data, p, u, v, w)
<1> DEFINE p == 2 + RandomSize + 1
           u == p + data[p] + 1
           v == u + 2 + 2 * (CH!Number(data, u) \div 2)
           w == v + data[v] + 1
<1>1. CH!DecodeMessage(data) = MessageAt(data, p, u, v, w)
  BY DEF CH!DecodeMessage, MessageAt
<1>2. /\ p = 2 + RandomSize + 1 /\ u = p + data[p] + 1
      /\ v = u + 2 + 2 * (CH!Number(data, u) \div 2) /\ w = v + data[v] + 1
  OBVIOUS
<1> HIDE DEF p, u, v, w
<1> QED BY <1>1, <1>2

(* DecodeMessage finds every part a client wrote, and no other.             *)
LEMMA MessageRead ==
    ASSUME NEW session \in Octets, NEW suites \in Octets, NEW methods \in Octets,
           NEW list \in Seq(Entries), Len(suites) % 2 = 0,
           NEW data, data = Body(session, suites, methods, list)
    PROVE  CH!DecodeMessage(data) = Fields(session, suites, methods, list)
<1> DEFINE x == Joints(list)
<1>1. x \in Octets
  BY JointsType
<1> HIDE DEF x
<1>2. PICK R \in Nat, s \in Nat, q \in Nat, m \in Nat, l \in Nat :
         /\ R = RandomSize /\ s = Len(session) /\ 2 * q = Len(suites)
         /\ m = Len(methods) /\ l = Len(x)
  <2>1. Len(session) \in Nat /\ Len(suites) \in Nat /\ Len(methods) \in Nat /\ Len(x) \in Nat
    BY <1>1, LenProperties DEF Octets
  <2>2. PICK q \in Nat : 2 * q = Len(suites)
    <3>1. Len(suites) \div 2 \in Nat /\ 2 * (Len(suites) \div 2) = Len(suites)
      BY <2>1
    <3> QED BY <3>1
  <2> QED BY <2>1, <2>2, RandomType
<1>3. /\ data \in Octets /\ Len(data) = 2 + R + (1 + s) + (2 + 2 * q) + (1 + m) + (2 + l)
      /\ At(data, 0, <<3, 3>>) /\ At(data, 2, CH!Random) /\ At(data, 2 + R, CH!Vector1(session))
      /\ At(data, 2 + R + (1 + s), CH!Vector2(suites))
      /\ At(data, 2 + R + (1 + s) + (2 + 2 * q), CH!Vector1(methods))
      /\ At(data, 2 + R + (1 + s) + (2 + 2 * q) + (1 + m), CH!Vector2(x))
  <2>1. PICK a \in Octets : a = <<3, 3>> /\ Len(a) = 2
    <3>1. <<3, 3>> \in Octets /\ Len(<<3, 3>>) = 2
      BY ShortType
    <3> QED BY <3>1
  <2>2. PICK b \in Octets : b = CH!Random /\ Len(b) = R
    BY <1>2, RandomType
  <2>3. PICK c \in Octets : c = CH!Vector1(session) /\ Len(c) = 1 + s
    BY <1>2, VectorType
  <2>4. PICK d \in Octets : d = CH!Vector2(suites) /\ Len(d) = 2 + 2 * q
    BY <1>2, VectorType
  <2>5. PICK e \in Octets : e = CH!Vector1(methods) /\ Len(e) = 1 + m
    BY <1>2, VectorType
  <2>6. PICK f \in Octets : f = CH!Vector2(x) /\ Len(f) = 2 + l
    BY <1>1, <1>2, VectorType
  <2>7. Stand(a \o b \o c \o d \o e \o f, a, b, c, d, e, f)
    BY SixParts
  <2>8. data = a \o b \o c \o d \o e \o f
    BY <2>1, <2>2, <2>3, <2>4, <2>5, <2>6 DEF Body, x
  <2>9. Stand(data, a, b, c, d, e, f)
    BY <2>7, <2>8
  <2> HIDE DEF x
  <2> QED BY <2>1, <2>2, <2>3, <2>4, <2>5, <2>6, <2>9 DEF Stand
<1>4. PICK N \in Nat : N = Len(data) /\ N = R + s + 2 * q + m + l + 8
  BY <1>3
<1>5. SubSeq(data, 1, 2) = <<3, 3>>
  <2>1. PICK a \in Octets : a = <<3, 3>> /\ Len(a) = 2
    <3>1. <<3, 3>> \in Octets /\ Len(<<3, 3>>) = 2
      BY ShortType
    <3> QED BY <3>1
  <2>2. SubSeq(data, 0 + 1, 0 + 2) = a
    BY <1>3, <1>4, <2>1, AtPart
  <2> QED BY <2>1, <2>2
<1>6. SubSeq(data, 3, 2 + R) = CH!Random
  <2>1. PICK i \in Nat : i = 2
    OBVIOUS
  <2>2. PICK b \in Octets : b = CH!Random /\ Len(b) = R /\ At(data, i, b)
    BY <1>2, <1>3, <2>1, RandomType
  <2>3. SubSeq(data, i + 1, i + R) = b
    BY <1>4, <2>2, AtPart
  <2>4. i + 1 = 3 /\ i + R = 2 + R
    BY <2>1
  <2> QED BY <2>2, <2>3, <2>4
<1> DEFINE p == R + 3
           u == p + s + 1
           v == u + 2 + 2 * q
           w == v + m + 1
<1>7. p \in Nat /\ u \in Nat /\ v \in Nat /\ w \in Nat
  OBVIOUS
<1>8. data[p] = s /\ SubSeq(data, p + 1, u - 1) = session
  <2>1. PICK i \in Nat : i = 2 + R /\ At(data, i, CH!Vector1(session))
    <3>1. 2 + R \in Nat
      OBVIOUS
    <3> QED BY <1>3, <3>1
  <2>2. data[i + 1] = Len(session) /\ SubSeq(data, i + 2, i + 1 + Len(session)) = session
    BY <1>3, <2>1, Vector1Read
  <2>3. i + 1 = p /\ i + 2 = p + 1 /\ i + 1 + s = u - 1
    BY <2>1
  <2> QED BY <1>2, <2>2, <2>3
<1>9. CH!Number(data, u) = 2 * q /\ At(data, u + 1, suites)
  <2>1. PICK i \in Nat : i = 2 + R + (1 + s) /\ At(data, i, CH!Vector2(suites))
    <3>1. 2 + R + (1 + s) \in Nat
      OBVIOUS
    <3> QED BY <1>3, <3>1
  <2>2. CH!Number(data, i + 1) = Len(suites) /\ At(data, i + 2, suites)
    BY <1>3, <2>1, Vector2Read
  <2>3. i + 1 = u /\ i + 2 = u + 1
    BY <2>1
  <2> QED BY <1>2, <2>2, <2>3
<1>10. data[v] = m /\ SubSeq(data, v + 1, w - 1) = methods
  <2>1. PICK i \in Nat : i = 2 + R + (1 + s) + (2 + 2 * q) /\ At(data, i, CH!Vector1(methods))
    <3>1. 2 + R + (1 + s) + (2 + 2 * q) \in Nat
      OBVIOUS
    <3> QED BY <1>3, <3>1
  <2>2. data[i + 1] = Len(methods) /\ SubSeq(data, i + 2, i + 1 + Len(methods)) = methods
    BY <1>3, <2>1, Vector1Read
  <2>3. i + 1 = v /\ i + 2 = v + 1 /\ i + 1 + m = w - 1
    BY <2>1
  <2> QED BY <1>2, <2>2, <2>3
<1>11. CH!Number(data, w) = l /\ At(data, w + 1, x)
  <2>1. PICK i \in Nat : i = 2 + R + (1 + s) + (2 + 2 * q) + (1 + m) /\ At(data, i, CH!Vector2(x))
    <3>1. 2 + R + (1 + s) + (2 + 2 * q) + (1 + m) \in Nat
      OBVIOUS
    <3> QED BY <1>3, <3>1
  <2>2. CH!Number(data, i + 1) = l /\ At(data, i + 2, x)
    BY <1>1, <1>2, <1>3, <2>1, Vector2Read
  <2>3. i + 1 = w /\ i + 2 = w + 1
    BY <2>1
  <2> QED BY <2>2, <2>3
<1>12. CH!SuitesAt(data, u, q) = Pairs(suites)
  <2>1. Len(suites) \div 2 = q
    BY <1>2
  <2>2. ASSUME NEW i \in 1..q
        PROVE  SubSeq(data, u + 2 * i, u + 2 * i + 1) = SubSeq(suites, 2 * i - 1, 2 * i)
    <3>1. PICK a \in Nat, b \in Nat : a = 2 * i - 2 /\ b = 2 * i /\ a + 1 = 2 * i - 1 /\ b - a = 2
      <4>1. 2 * i - 2 \in Nat /\ 2 * i \in Nat /\ (2 * i - 2) + 1 = 2 * i - 1 /\ 2 * i - (2 * i - 2) = 2
        OBVIOUS
      <4> QED BY <4>1
    <3>2. a <= b /\ b <= Len(suites)
      BY <1>2, <3>1
    <3>3. PICK pair \in Octets :
             pair = SubSeq(suites, a + 1, b) /\ Len(pair) = 2 /\ At(suites, a, pair)
      <4>1. /\ SubSeq(suites, a + 1, b) \in Octets /\ Len(SubSeq(suites, a + 1, b)) = b - a
            /\ At(suites, a, SubSeq(suites, a + 1, b))
        BY <3>2, PartAt
      <4> QED BY <3>1, <4>1
    <3>4. Len(suites) \in Nat /\ u + 1 \in Nat
      BY <1>2
    <3>5. PICK k \in Nat : k = u + 1 /\ At(data, k, suites)
      BY <1>9, <3>4
    <3>6. PICK j \in Nat : j = u + 1 + a /\ At(data, j, pair)
      <4>1. At(data, k + a, pair)
        <5>1. Len(pair) \in Nat /\ Len(data) \in Nat /\ Len(suites) \in Nat
          BY <1>4, <3>3, <3>4
        <5> QED BY <3>3, <3>5, <5>1, AtInside
      <4>2. k + a \in Nat
        OBVIOUS
      <4> QED BY <3>5, <4>1, <4>2
    <3>7. SubSeq(data, j + 1, j + 2) = pair
      BY <1>4, <3>3, <3>6, AtPart
    <3>8. j + 1 = u + 2 * i /\ j + 2 = u + 2 * i + 1
      BY <3>1, <3>6
    <3> QED BY <3>1, <3>3, <3>7, <3>8
  <2> QED BY <2>1, <2>2 DEF Pairs, CH!SuitesAt
<1>13. CH!Extensions(data, N)[w + 2] = [ok |-> TRUE, list |-> list]
  <2>1. PICK e \in Nat : e = w + 1
    BY <1>7
  <2>2. At(data, e, x) /\ Len(data) = e + Len(x)
    BY <1>2, <1>4, <1>11, <2>1
  <2>3. CH!Extensions(data, Len(data))[e + 1] = [ok |-> TRUE, list |-> list]
    BY <1>3, <2>2, ExtensionsRead DEF x, Joints
  <2>4. e + 1 = w + 2
    BY <2>1
  <2> QED BY <1>4, <2>3, <2>4
<1>14. /\ ~(p > N) /\ ~(u + 1 > N) /\ ~(v > N) /\ ~(w - 1 > N) /\ w # N /\ ~(w > N)
       /\ w + 1 + l = N
  BY <1>4
<1>15. CH!Number(data, u) \div 2 = q
  BY <1>9
<1>16. /\ p = 2 + RandomSize + 1 /\ u = p + data[p] + 1 /\ v = u + 2 + 2 * q
       /\ w = v + data[v] + 1 /\ N = w + 1 + CH!Number(data, w)
  <2>1. p = 2 + RandomSize + 1
    BY <1>2
  <2>2. u = p + data[p] + 1 /\ w = v + data[v] + 1
    BY <1>8, <1>10
  <2>3. N = w + 1 + CH!Number(data, w)
    BY <1>11, <1>14
  <2> QED BY <2>1, <2>2, <2>3
<1> HIDE DEF p, u, v, w
<1>17. CH!DecodeMessage(data) =
         [ok |-> TRUE,
          version |-> SubSeq(data, 1, 2),
          random |-> SubSeq(data, 3, 2 + RandomSize),
          session |-> SubSeq(data, p + 1, u - 1),
          suites |-> CH!SuitesAt(data, u, q),
          methods |-> SubSeq(data, v + 1, w - 1),
          extensions |-> list]
  <2>1. CH!Extensions(data, w + 1 + CH!Number(data, w))[w + 2] = [ok |-> TRUE, list |-> list]
    BY <1>13, <1>16
  <2>2. PICK p1, u1, v1, w1 :
           /\ p1 = 2 + RandomSize + 1 /\ u1 = p1 + data[p1] + 1
           /\ v1 = u1 + 2 + 2 * (CH!Number(data, u1) \div 2) /\ w1 = v1 + data[v1] + 1
           /\ CH!DecodeMessage(data) = MessageAt(data, p1, u1, v1, w1)
    BY MessageParts
  <2>3. p1 = p
    BY <1>16, <2>2
  <2>4. u1 = u
    BY <1>16, <2>2, <2>3
  <2>5. v1 = v
    BY <1>15, <1>16, <2>2, <2>4
  <2>6. w1 = w
    BY <1>16, <2>2, <2>5
  <2>7. CH!DecodeMessage(data) = MessageAt(data, p, u, v, w)
    BY <2>2, <2>3, <2>4, <2>5, <2>6
  <2> DEFINE L == IF w > Len(data) THEN [ok |-> TRUE, list |-> <<>>]
                 ELSE CH!Extensions(data, w + 1 + CH!Number(data, w))[w + 2]
  <2>8. L = [ok |-> TRUE, list |-> list]
    BY <1>4, <1>14, <2>1
  <2>9. MessageAt(data, p, u, v, w) =
          IF \/ p > Len(data) \/ u + 1 > Len(data) \/ v > Len(data)
             \/ w - 1 > Len(data) \/ w = Len(data) \/ ~L.ok
          THEN CH!Failed
          ELSE [ok |-> TRUE,
                version |-> SubSeq(data, 1, 2),
                random |-> SubSeq(data, 3, 2 + RandomSize),
                session |-> SubSeq(data, p + 1, u - 1),
                suites |-> CH!SuitesAt(data, u, CH!Number(data, u) \div 2),
                methods |-> SubSeq(data, v + 1, w - 1),
                extensions |-> L.list]
    BY DEF MessageAt
  <2> HIDE DEF L
  <2>10. L.ok /\ L.list = list
    BY <2>8
  <2> QED BY <1>4, <1>14, <1>15, <2>7, <2>9, <2>10
<1> QED BY <1>2, <1>5, <1>6, <1>8, <1>10, <1>12, <1>17 DEF Fields

-----------------------------------------------------------------------------
(* The record around a message.                                             *)
Record(m) == <<22, 3, 1>> \o CH!Vector2(<<1>> \o CH!Vector3(m))

LEMMA ThreeDigits ==
    ASSUME NEW n \in Nat
    PROVE  /\ (n % 65536) \div 256 = (n \div 256) % 256 /\ (n % 65536) % 256 = n % 256
           /\ (n \div 65536) * 65536 + (((n \div 256) % 256) * 256 + (n % 256)) = n
           /\ n \div 65536 \in Nat /\ (n \div 256) % 256 \in Nat /\ n % 256 \in Nat
OBVIOUS

LEMMA TripleType ==
    ASSUME NEW a \in Nat, NEW b \in Nat, NEW c \in Nat
    PROVE  /\ <<a, b, c>> \in Octets /\ Len(<<a, b, c>>) = 3
           /\ <<a, b, c>>[1] = a /\ <<a, b, c>>[2] = b /\ <<a, b, c>>[3] = c
BY DEF Octets

LEMMA Vector3Type ==
    ASSUME NEW m \in Octets
    PROVE  /\ CH!Vector3(m) = CH!Three(Len(m)) \o m
           /\ CH!Vector3(m) \in Octets /\ Len(CH!Vector3(m)) = 3 + Len(m)
           /\ CH!Three(Len(m)) \in Octets /\ Len(CH!Three(Len(m))) = 3
<1>1. PICK n \in Nat : n = Len(m)
  BY LenProperties DEF Octets
<1>2. PICK head \in Octets : head = CH!Three(n) /\ Len(head) = 3
  <2>1. CH!Three(n) \in Octets /\ Len(CH!Three(n)) = 3
    BY ThreeDigits, TripleType DEF CH!Three
  <2> QED BY <2>1
<1>3. CH!Vector3(m) = head \o m
  BY <1>1, <1>2 DEF CH!Vector3, CH!Three
<1>4. head \o m \in Octets /\ Len(head \o m) = 3 + n
  BY <1>1, <1>2, BytesJoined
<1> QED BY <1>1, <1>2, <1>3, <1>4

(* What DecodeTLS sees of the record data around m.                         *)
Frames(data, m) ==
    /\ data \in Octets /\ Len(data) = 9 + Len(m)
    /\ data[1] = 22 /\ SubSeq(data, 2, 3) = <<3, 1>>
    /\ CH!Number(data, 4) = 4 + Len(m) /\ data[6] = 1
    /\ data[7] * 65536 + CH!Number(data, 8) = Len(m)
    /\ CH!From(data, 10) = m

LEMMA RecordRead ==
    ASSUME NEW m \in Octets
    PROVE  Frames(Record(m), m)
<1>0. PICK data : data = Record(m)
  OBVIOUS
<1>1. PICK n \in Nat : n = Len(m)
  BY LenProperties DEF Octets
<1>2. PICK top \in Octets : top = <<22, 3, 1>> /\ Len(top) = 3
  <2>1. <<22, 3, 1>> \in Octets /\ Len(<<22, 3, 1>>) = 3
    BY DEF Octets
  <2> QED BY <2>1
<1>3. PICK kind \in Octets : kind = <<1>> /\ Len(kind) = 1
  <2>1. <<1>> \in Octets /\ Len(<<1>>) = 1
    BY ShortType
  <2> QED BY <2>1
<1>4. PICK size \in Octets :
         size = CH!Three(n) /\ Len(size) = 3 /\ CH!Vector3(m) = size \o m
  BY <1>1, Vector3Type
<1>5. size \o m \in Octets /\ Len(size \o m) = 3 + n
  BY <1>1, <1>4, BytesJoined
<1>6. PICK inner \in Octets : inner = kind \o (size \o m) /\ Len(inner) = 4 + n
  <2>1. PICK rest \in Octets : rest = size \o m /\ Len(rest) = 3 + n
    BY <1>5
  <2>2. kind \o rest \in Octets /\ Len(kind \o rest) = 1 + (3 + n)
    BY <1>3, <2>1, BytesJoined
  <2>3. 1 + (3 + n) = 4 + n
    OBVIOUS
  <2> QED BY <2>1, <2>2, <2>3
<1>7. PICK outer \in Octets : outer = CH!Vector2(inner) /\ Len(outer) = 6 + n
  <2>1. CH!Vector2(inner) \in Octets /\ Len(CH!Vector2(inner)) = 2 + Len(inner)
    BY VectorType
  <2>2. 2 + (4 + n) = 6 + n
    OBVIOUS
  <2> QED BY <1>6, <2>1, <2>2
<1>8. data = top \o outer
  BY <1>0, <1>2, <1>3, <1>4, <1>6, <1>7 DEF Record
<1>9. data \in Octets /\ Len(data) = 9 + n
  BY <1>2, <1>7, <1>8, BytesJoined
<1>10. At(data, 0, top) /\ At(data, 3, outer)
  BY <1>2, <1>8, AtStart
<1>11. CH!Number(data, 4) = 4 + n /\ At(data, 5, inner)
  <2>1. PICK i \in Nat : i = 3 /\ At(data, i, CH!Vector2(inner))
    BY <1>7, <1>10
  <2>2. CH!Number(data, i + 1) = Len(inner) /\ At(data, i + 2, inner)
    BY <1>9, <2>1, Vector2Read
  <2>3. i + 1 = 4 /\ i + 2 = 5
    BY <2>1
  <2> QED BY <1>6, <2>2, <2>3
<1>12. At(data, 5, kind) /\ At(data, 6, size) /\ At(data, 9, m)
  <2>1. Len(data) \in Nat
    BY <1>9
  <2>2. PICK i \in Nat : i = 5
    OBVIOUS
  <2>3. At(data, i, kind) /\ At(data, i + 1, size \o m)
    BY <1>3, <1>5, <1>6, <1>11, <2>1, <2>2, AtSplit
  <2>4. PICK j \in Nat : j = 6 /\ At(data, j, size \o m)
    BY <2>2, <2>3
  <2>5. At(data, j, size) /\ At(data, j + 3, m)
    <3>1. At(data, j, size) /\ At(data, j + Len(size), m)
      BY <2>1, <2>4, AtSplit
    <3> QED BY <1>4, <3>1
  <2>6. j + 3 = 9
    BY <2>4
  <2> QED BY <2>2, <2>3, <2>4, <2>5, <2>6
<1>13. data[1] = 22 /\ data[2] = 3 /\ data[3] = 1
  <2>1. \A k \in 1..3 : data[0 + k] = top[k]
    BY <1>2, <1>10 DEF At
  <2>2. data[0 + 1] = top[1] /\ data[0 + 2] = top[2] /\ data[0 + 3] = top[3]
    BY <2>1
  <2> QED BY <1>2, <2>2
<1>14. data[6] = 1
  <2>1. \A k \in 1..1 : data[5 + k] = kind[k]
    BY <1>3, <1>12 DEF At
  <2>2. data[5 + 1] = kind[1]
    BY <2>1
  <2> QED BY <1>3, <2>2
<1>15. data[7] = n \div 65536 /\ data[8] = (n \div 256) % 256 /\ data[9] = n % 256
  <2>1. \A k \in 1..3 : data[6 + k] = size[k]
    BY <1>4, <1>12 DEF At
  <2>2. data[6 + 1] = size[1] /\ data[6 + 2] = size[2] /\ data[6 + 3] = size[3]
    BY <2>1
  <2>3. size[1] = n \div 65536 /\ size[2] = (n \div 256) % 256 /\ size[3] = n % 256
    BY <1>4, ThreeDigits, TripleType DEF CH!Three
  <2> QED BY <2>2, <2>3
<1>16. data[7] * 65536 + CH!Number(data, 8) = n
  <2>1. CH!Number(data, 8) = ((n \div 256) % 256) * 256 + (n % 256)
    BY <1>15 DEF CH!Number
  <2> QED BY <1>15, <2>1, ThreeDigits
<1>17. SubSeq(data, 2, 3) = <<3, 1>>
  <2>1. \A i \in 2..3 : data[i] \in Nat
    BY <1>13
  <2>2. /\ SubSeq(data, 2, 3) \in Seq(Nat) /\ Len(SubSeq(data, 2, 3)) = 2
        /\ \A i \in 1..2 : SubSeq(data, 2, 3)[i] = data[2 + i - 1]
    BY <2>1, SubSeqProperties
  <2>3. \A i \in 1..2 : SubSeq(data, 2, 3)[i] = <<3, 1>>[i]
    BY <1>13, <2>2
  <2>4. <<3, 1>> \in Seq(Nat) /\ Len(<<3, 1>>) = 2
    OBVIOUS
  <2> QED BY <2>2, <2>3, <2>4, SeqEqual
<1>18. CH!From(data, 10) = m
  <2>1. PICK i \in Nat : i = 9
    OBVIOUS
  <2>2. SubSeq(data, i + 1, i + Len(m)) = m
    BY <1>9, <1>12, <2>1, AtPart
  <2> QED BY <1>1, <1>9, <2>1, <2>2 DEF CH!From
<1> QED BY <1>0, <1>1, <1>9, <1>11, <1>13, <1>14, <1>16, <1>17, <1>18 DEF Frames

(* What DecodeTLS makes of a record that has the message in it.             *)
Taken(message) == [ok |-> TRUE, version |-> <<3, 1>>, message |-> message]

LEMMA Decoded ==
    ASSUME NEW session \in Octets, NEW suites \in Octets, NEW methods \in Octets,
           NEW list \in Seq(Entries), Len(suites) % 2 = 0
    PROVE  CH!DecodeTLS(Record(Body(session, suites, methods, list)))
             = Taken(Fields(session, suites, methods, list))
<1>1. PICK m \in Octets : m = Body(session, suites, methods, list)
  BY BodyType
<1>2. CH!DecodeMessage(m) = Fields(session, suites, methods, list)
  BY <1>1, MessageRead
<1>3. PICK data : data = Record(m)
  OBVIOUS
<1>4. PICK n \in Nat : n = Len(m)
  BY LenProperties DEF Octets
<1>5. /\ Len(data) = 9 + n
      /\ data[1] = 22 /\ SubSeq(data, 2, 3) = <<3, 1>>
      /\ CH!Number(data, 4) = 4 + n /\ data[6] = 1
      /\ data[7] * 65536 + CH!Number(data, 8) = n
      /\ CH!From(data, 10) = m
  <2>1. Frames(data, m)
    BY <1>3, RecordRead
  <2> QED BY <1>4, <2>1 DEF Frames
<1>6. ~(Len(data) < 9) /\ ~(Len(data) < 5 + CH!Number(data, 4))
  BY <1>5
<1>7. ~(Len(data) < 9 + data[7] * 65536 + CH!Number(data, 8))
  <2>1. 9 + data[7] * 65536 + CH!Number(data, 8) = 9 + n
    <3>1. data[7] \in Nat /\ CH!Number(data, 8) \in Nat
      <4>1. data \in Octets
        BY <1>3, RecordRead DEF Frames
      <4>2. 7 \in 1..Len(data) /\ 8 \in 1..Len(data) /\ 8 + 1 \in 1..Len(data)
        BY <1>5
      <4>3. data[7] \in Nat
        BY <4>1, <4>2, ElementOfSeq DEF Octets
      <4> QED BY <4>1, <4>2, <4>3, NumberType
    <3> QED BY <1>5, <3>1
  <2> QED BY <1>5, <2>1
<1>8. Fields(session, suites, methods, list).ok
  BY DEF Fields
<1>9. CH!DecodeTLS(data) = [ok |-> TRUE, version |-> <<3, 1>>, message |-> Fields(session, suites, methods, list)]
  <2>1. CH!DecodeTLS(data) =
          IF \/ Len(data) < 9 \/ data[1] # 22 \/ Len(data) < 5 + CH!Number(data, 4)
             \/ data[6] # 1 \/ Len(data) < 9 + data[7] * 65536 + CH!Number(data, 8)
          THEN CH!Failed
          ELSE IF CH!DecodeMessage(CH!From(data, 10)).ok
               THEN [ok |-> TRUE, version |-> SubSeq(data, 2, 3),
                     message |-> CH!DecodeMessage(CH!From(data, 10))]
               ELSE CH!Failed
    BY DEF CH!DecodeTLS, CH!Handshake, CH!ClientHelloType
  <2>2. CH!DecodeMessage(CH!From(data, 10)) = Fields(session, suites, methods, list)
    BY <1>2, <1>5
  <2>3. CH!DecodeTLS(data) = [ok |-> TRUE, version |-> SubSeq(data, 2, 3),
                              message |-> CH!DecodeMessage(CH!From(data, 10))]
    <3>1. CH!DecodeMessage(CH!From(data, 10)).ok
      BY <1>8, <2>2
    <3>2. data[1] = 22 /\ data[6] = 1
      BY <1>5
    <3> QED BY <1>6, <1>7, <2>1, <3>1, <3>2
  <2>4. SubSeq(data, 2, 3) = <<3, 1>>
    BY <1>5
  <2> QED BY <2>2, <2>3, <2>4, Zenon
<1> QED BY <1>1, <1>3, <1>9 DEF Taken

LEMMA Associative ==
    ASSUME NEW a \in Octets, NEW b \in Octets, NEW c \in Octets
    PROVE  (a \o b) \o c = a \o (b \o c)
BY ConcatAssociative DEF Octets

(* A length may be joined to its data first, or to what is before it.       *)
Regroups(a, b, c, d, e, f, g, h) ==
    a \o b \o c \o d \o e \o f \o g \o h = a \o b \o (c \o d) \o e \o (f \o g) \o h

LEMMA Grouped ==
    ASSUME NEW a \in Octets, NEW b \in Octets, NEW c \in Octets, NEW d \in Octets,
           NEW e \in Octets, NEW f \in Octets, NEW g \in Octets, NEW h \in Octets
    PROVE  Regroups(a, b, c, d, e, f, g, h)
<1>1. \A x, y, z \in Octets : (x \o y) \o z = x \o (y \o z)
  BY Associative
<1>2. a \o b \in Octets /\ c \o d \in Octets
  BY BytesJoined
<1>3. ((a \o b) \o c) \o d = (a \o b) \o (c \o d)
  <2>1. PICK p \in Octets : p = a \o b
    BY <1>2
  <2>2. (p \o c) \o d = p \o (c \o d)
    BY <1>1
  <2> QED BY <2>1, <2>2
<1>4. a \o b \o (c \o d) \in Octets
  BY <1>2, BytesJoined
<1>5. a \o b \o (c \o d) \o e \in Octets
  BY <1>4, BytesJoined
<1>6. (a \o b \o (c \o d) \o e) \o f \o g = (a \o b \o (c \o d) \o e) \o (f \o g)
  BY <1>1, <1>5
<1> QED BY <1>3, <1>6 DEF Regroups

(* EncodeTLS writes what a client would have written.                       *)
LEMMA MessageWritten ==
    ASSUME NEW session \in Octets, NEW suites \in Octets, NEW methods \in Octets,
           NEW list \in Seq(Entries), Len(suites) % 2 = 0
    PROVE  CH!EncodeMessage(Fields(session, suites, methods, list))
             = Body(session, suites, methods, list)
<1> DEFINE f == Fields(session, suites, methods, list)
<1>1. PICK a \in Octets : a = <<3, 3>>
  BY ShortType
<1>2. PICK b \in Octets : b = CH!Random
  BY RandomType
<1>3. PICK n \in Octets : n = <<Len(session)>> /\ CH!Vector1(session) = n \o session
  <2>1. Len(session) \in Nat
    BY LenProperties DEF Octets
  <2>2. <<Len(session)>> \in Octets
    BY <2>1, ShortType
  <2> QED BY <2>2, VectorType
<1>4. PICK c \in Octets : c = CH!Vector2(suites)
  BY VectorType
<1>5. PICK m \in Octets : m = <<Len(methods)>> /\ CH!Vector1(methods) = m \o methods
  <2>1. Len(methods) \in Nat
    BY LenProperties DEF Octets
  <2>2. <<Len(methods)>> \in Octets
    BY <2>1, ShortType
  <2> QED BY <2>2, VectorType
<1>6. PICK x \in Octets : x = CH!Vector2(Joints(list))
  BY JointsType, VectorType
<1>7. CH!WithLength(CH!FlattenSeq(f.suites)) = c
  <2>1. PICK q \in Nat : q = Len(suites) \div 2 /\ Len(suites) = 2 * q
    <3>1. Len(suites) \in Nat
      BY LenProperties DEF Octets
    <3>2. Len(suites) \div 2 \in Nat /\ Len(suites) = 2 * (Len(suites) \div 2)
      BY <3>1
    <3> QED BY <3>2
  <2>2. f.suites = [i \in 1..q |-> SubSeq(suites, 2 * i - 1, 2 * i)]
    BY <2>1 DEF Fields, Pairs
  <2>3. CH!FlattenSeq(f.suites) = suites
    BY <2>1, <2>2, PairsJoined
  <2>4. CH!WithLength(suites) = c
    BY <1>4, VectorType DEF CH!WithLength
  <2> QED BY <2>3, <2>4
<1>8. CH!WithLength(CH!EncodeExtensions(f.extensions)) = x
  <2>1. PICK l \in Nat : DOMAIN list = 1..l /\ \A i \in 1..l : list[i] \in Entries
    BY LenProperties, ElementOfSeq
  <2>2. ASSUME NEW i \in 1..l
        PROVE  CH!Two(list[i].type) \o CH!WithLength(list[i].data) = CH!Extension(list[i])
    <3>1. PICK y \in Entries : y = list[i]
      BY <2>1
    <3>2. CH!Extension(y) = CH!Two(y.type) \o CH!Vector2(y.data) /\ y.data \in Octets
      BY ExtensionOctets
    <3>3. CH!WithLength(y.data) = CH!Vector2(y.data)
      BY <3>2, VectorType DEF CH!WithLength
    <3> QED BY <3>1, <3>2, <3>3
  <2>3. [i \in DOMAIN list |-> CH!Two(list[i].type) \o CH!WithLength(list[i].data)]
          = [i \in DOMAIN list |-> CH!Extension(list[i])]
    BY <2>1, <2>2
  <2>4. CH!EncodeExtensions(list) = Joints(list)
    BY <2>3 DEF CH!EncodeExtensions, Joints
  <2>5. CH!WithLength(Joints(list)) = x
    BY <1>6, JointsType, VectorType DEF CH!WithLength
  <2>6. f.extensions = list
    BY DEF Fields
  <2> QED BY <2>4, <2>5, <2>6
<1>9. CH!EncodeMessage(f) = a \o b \o n \o session \o c \o m \o methods \o x
  <2>1. f.version = a /\ f.random = b /\ f.session = session /\ f.methods = methods
    BY <1>1, <1>2 DEF Fields
  <2> HIDE DEF f
  <2> QED BY <1>3, <1>5, <1>7, <1>8, <2>1 DEF CH!EncodeMessage
<1>10. Body(session, suites, methods, list) = a \o b \o (n \o session) \o c \o (m \o methods) \o x
  BY <1>1, <1>2, <1>3, <1>4, <1>5, <1>6 DEF Body
<1>11. Regroups(a, b, n, session, c, m, methods, x)
  BY Grouped
<1> HIDE DEF f
<1>14. CH!EncodeMessage(f) = Body(session, suites, methods, list)
  BY <1>9, <1>10, <1>11 DEF Regroups
<1> QED BY <1>14 DEF f

LEMMA OneByteBefore == <<22>> \o <<3, 1>> = <<22, 3, 1>>
<1>1. PICK p \in Octets : p = <<22>> /\ Len(p) = 1 /\ p[1] = 22
  <2>1. <<22>> \in Octets /\ Len(<<22>>) = 1 /\ <<22>>[1] = 22
    BY ShortType
  <2> QED BY <2>1
<1>2. PICK q \in Octets : q = <<3, 1>> /\ Len(q) = 2 /\ q[1] = 3 /\ q[2] = 1
  <2>1. <<3, 1>> \in Octets /\ Len(<<3, 1>>) = 2 /\ <<3, 1>>[1] = 3 /\ <<3, 1>>[2] = 1
    BY ShortType
  <2> QED BY <2>1
<1>3. PICK t \in Octets : t = <<22, 3, 1>> /\ Len(t) = 3 /\ t[1] = 22 /\ t[2] = 3 /\ t[3] = 1
  <2>1. /\ <<22, 3, 1>> \in Octets /\ Len(<<22, 3, 1>>) = 3
        /\ <<22, 3, 1>>[1] = 22 /\ <<22, 3, 1>>[2] = 3 /\ <<22, 3, 1>>[3] = 1
    BY TripleType
  <2> QED BY <2>1
<1>4. /\ \A k \in 1..Len(p) : (p \o q)[k] = p[k]
      /\ \A k \in 1..Len(q) : (p \o q)[Len(p) + k] = q[k]
      /\ p \o q \in Octets /\ Len(p \o q) = Len(p) + Len(q)
  BY Joined, BytesJoined DEF Octets
<1>5. (p \o q)[1] = 22 /\ (p \o q)[2] = 3 /\ (p \o q)[3] = 1 /\ Len(p \o q) = 3
  <2>1. (p \o q)[1] = p[1] /\ (p \o q)[1 + 1] = q[1] /\ (p \o q)[1 + 2] = q[2]
    BY <1>1, <1>2, <1>4
  <2> QED BY <1>1, <1>2, <1>4, <2>1
<1>6. ASSUME NEW k \in 1..3 PROVE (p \o q)[k] = t[k]
  <2>1. k = 1 \/ k = 2 \/ k = 3
    OBVIOUS
  <2> QED BY <1>3, <1>5, <2>1
<1>7. p \o q = t
  BY <1>3, <1>4, <1>5, <1>6, SeqEqual DEF Octets
<1> QED BY <1>1, <1>2, <1>3, <1>7

LEMMA Encoded ==
    ASSUME NEW session \in Octets, NEW suites \in Octets, NEW methods \in Octets,
           NEW list \in Seq(Entries), Len(suites) % 2 = 0
    PROVE  CH!EncodeTLS(Taken(Fields(session, suites, methods, list)))
             = Record(Body(session, suites, methods, list))
<1>0. PICK r : /\ r = Taken(Fields(session, suites, methods, list)) /\ r.version = <<3, 1>>
              /\ r.message = Fields(session, suites, methods, list)
  <2>1. PICK r : r = Taken(Fields(session, suites, methods, list))
    OBVIOUS
  <2>2. r.version = <<3, 1>> /\ r.message = Fields(session, suites, methods, list)
    BY <2>1 DEF Taken
  <2> QED BY <2>1, <2>2
<1>1. PICK m \in Octets : m = Body(session, suites, methods, list)
  BY BodyType
<1>2. CH!EncodeMessage(r.message) = m
  BY <1>0, <1>1, MessageWritten
<1>3. PICK kind \in Octets : kind = <<1>>
  BY ShortType
<1>4. PICK size \in Octets : size = CH!Three(Len(m)) /\ CH!Vector3(m) = size \o m
  BY Vector3Type
<1>5. kind \o size \o m = kind \o CH!Vector3(m)
  <2>1. (kind \o size) \o m = kind \o (size \o m)
    BY <1>3, <1>4, Associative, Zenon
  <2> QED BY <1>4, <2>1
<1>6. PICK inner \in Octets : inner = kind \o CH!Vector3(m)
  BY Vector3Type, BytesJoined
<1>7. CH!WithLength(inner) = CH!Vector2(inner)
  BY VectorType DEF CH!WithLength
<1>8. CH!EncodeTLS(r) = <<22>> \o <<3, 1>> \o CH!WithLength(kind \o size \o m)
  BY <1>0, <1>2, <1>3, <1>4 DEF CH!EncodeTLS, CH!Handshake, CH!ClientHelloType
<1>9. CH!EncodeTLS(r) = <<22, 3, 1>> \o CH!Vector2(inner)
  BY <1>5, <1>6, <1>7, <1>8, OneByteBefore
<1> QED BY <1>0, <1>1, <1>3, <1>6, <1>9 DEF Record

-----------------------------------------------------------------------------
(* The server name between the other extensions.                            *)
Around(before, x, after) == before \o <<x>> \o after

Surrounds(s, before, x, after) ==
    /\ Len(s) = Len(before) + 1 + Len(after)
    /\ Len(before) \in Nat /\ Len(after) \in Nat
    /\ \A i \in 1..Len(before) : s[i] = before[i]
    /\ s[Len(before) + 1] = x
    /\ \A i \in 1..Len(after) : s[Len(before) + 1 + i] = after[i]

LEMMA AroundFacts ==
    ASSUME NEW S, NEW before \in Seq(S), NEW x \in S, NEW after \in Seq(S)
    PROVE  /\ Around(before, x, after) \in Seq(S)
           /\ Surrounds(Around(before, x, after), before, x, after)
<1>1. PICK one \in Seq(S) : one = <<x>> /\ Len(one) = 1 /\ one[1] = x
  <2>1. <<x>> \in Seq(S) /\ Len(<<x>>) = 1 /\ <<x>>[1] = x
    OBVIOUS
  <2> QED BY <2>1
<1>2. PICK n \in Nat, m \in Nat : n = Len(before) /\ m = Len(after)
  BY LenProperties
<1>3. PICK s \in Seq(S) :
         /\ s = before \o one /\ Len(s) = n + 1
         /\ \A i \in 1..n : s[i] = before[i]
         /\ \A i \in 1..1 : s[n + i] = one[i]
  <2>1. /\ before \o one \in Seq(S) /\ Len(before \o one) = Len(before) + Len(one)
        /\ \A k \in 1..Len(before) : (before \o one)[k] = before[k]
        /\ \A k \in 1..Len(one) : (before \o one)[Len(before) + k] = one[k]
    BY Joined
  <2> QED BY <1>1, <1>2, <2>1
<1>4. s[n + 1] = x
  BY <1>1, <1>3
<1>5. /\ s \o after \in Seq(S) /\ Len(s \o after) = n + 1 + m
      /\ \A k \in 1..(n + 1) : (s \o after)[k] = s[k]
      /\ \A k \in 1..m : (s \o after)[n + 1 + k] = after[k]
  <2>1. /\ s \o after \in Seq(S) /\ Len(s \o after) = Len(s) + Len(after)
        /\ \A k \in 1..Len(s) : (s \o after)[k] = s[k]
        /\ \A k \in 1..Len(after) : (s \o after)[Len(s) + k] = after[k]
    BY Joined
  <2> QED BY <1>2, <1>3, <2>1
<1>6. \A i \in 1..n : (s \o after)[i] = before[i]
  BY <1>3, <1>5
<1>7. (s \o after)[n + 1] = x
  <2>1. n + 1 \in 1..(n + 1)
    OBVIOUS
  <2> QED BY <1>4, <1>5, <2>1
<1>8. Around(before, x, after) = s \o after
  BY <1>1, <1>3 DEF Around
<1> QED BY <1>2, <1>5, <1>6, <1>7, <1>8 DEF Surrounds

LEMMA Exchanged ==
    ASSUME NEW S, NEW before \in Seq(S), NEW x \in S, NEW y \in S, NEW after \in Seq(S),
           NEW k, k = Len(before) + 1
    PROVE  [Around(before, x, after) EXCEPT ![k] = y] = Around(before, y, after)
<1>1. PICK n \in Nat, m \in Nat : n = Len(before) /\ m = Len(after)
  BY LenProperties
<1>2. PICK s \in Seq(S) :
         /\ s = Around(before, x, after) /\ Len(s) = n + 1 + m
         /\ \A i \in 1..n : s[i] = before[i]
         /\ \A i \in 1..m : s[n + 1 + i] = after[i]
  <2>1. PICK s \in Seq(S) : s = Around(before, x, after) /\ Surrounds(s, before, x, after)
    BY AroundFacts
  <2> QED BY <1>1, <2>1 DEF Surrounds
<1>3. PICK t \in Seq(S) :
         /\ t = Around(before, y, after) /\ Len(t) = n + 1 + m
         /\ \A i \in 1..n : t[i] = before[i]
         /\ t[n + 1] = y
         /\ \A i \in 1..m : t[n + 1 + i] = after[i]
  <2>1. PICK t \in Seq(S) : t = Around(before, y, after) /\ Surrounds(t, before, y, after)
    BY AroundFacts
  <2> QED BY <1>1, <2>1 DEF Surrounds
<1>4. k \in 1..Len(s) /\ k = n + 1
  BY <1>1, <1>2
<1>5. PICK u \in Seq(S) :
         /\ u = [s EXCEPT ![k] = y] /\ Len(u) = n + 1 + m
         /\ \A i \in 1..Len(s) : u[i] = IF i = k THEN y ELSE s[i]
  <2>1. [s EXCEPT ![k] = y] \in Seq(S) /\ Len([s EXCEPT ![k] = y]) = Len(s)
    BY <1>4, ExceptSeq
  <2>2. \A i \in 1..Len(s) : [s EXCEPT ![k] = y][i] = IF i = k THEN y ELSE s[i]
    BY <1>4, ExceptSeq
  <2>3. PICK u : u = [s EXCEPT ![k] = y]
    OBVIOUS
  <2> QED BY <1>2, <2>1, <2>2, <2>3
<1>6. ASSUME NEW i \in 1..(n + 1 + m) PROVE u[i] = t[i]
  <2>1. CASE i <= n
    <3>1. i \in 1..n /\ i # k /\ i \in 1..Len(s)
      BY <1>2, <1>4, <2>1
    <3> QED BY <1>2, <1>3, <1>5, <3>1
  <2>2. CASE i = n + 1
    <3>1. i = k /\ i \in 1..Len(s)
      BY <1>2, <1>4, <2>2
    <3> QED BY <1>3, <1>5, <2>2, <3>1
  <2>3. CASE i > n + 1
    <3>1. PICK j \in 1..m : i = n + 1 + j
      <4>1. i - (n + 1) \in 1..m /\ i = n + 1 + (i - (n + 1))
        BY <2>3
      <4> QED BY <4>1
    <3>2. i # k /\ i \in 1..Len(s)
      BY <1>2, <1>4, <2>3
    <3>3. u[i] = s[i]
      BY <1>5, <3>2
    <3>4. s[i] = after[j] /\ t[i] = after[j]
      BY <1>2, <1>3, <3>1
    <3> QED BY <3>3, <3>4
  <2> QED BY <2>1, <2>2, <2>3
<1>7. u = t
  BY <1>3, <1>5, <1>6, SeqEqual
<1> QED BY <1>2, <1>3, <1>5, <1>7

LEMMA NameExtensionType ==
    ASSUME NEW name \in Octets
    PROVE  /\ CH!NameExtension(name) \in Entries /\ CH!NameExtension(name).type = 0
           /\ CH!NameExtension(name) = [type |-> 0, data |-> CH!EncodeSNI(name)]
           /\ CH!Vector2(name) \in Octets
           /\ <<0>> \o CH!Vector2(name) \in Octets /\ Len(<<0>> \o CH!Vector2(name)) = 3 + Len(name)
<1>1. PICK n \in Nat : n = Len(name)
  BY LenProperties DEF Octets
<1>2. PICK inner \in Octets : inner = CH!Vector2(name) /\ Len(inner) = 2 + n
  BY <1>1, VectorType
<1>3. PICK zero \in Octets : zero = <<0>> /\ Len(zero) = 1
  <2>1. <<0>> \in Octets /\ Len(<<0>>) = 1
    BY ShortType
  <2> QED BY <2>1
<1>4. PICK entry \in Octets : entry = zero \o inner /\ Len(entry) = 3 + n
  <2>1. zero \o inner \in Octets /\ Len(zero \o inner) = Len(zero) + Len(inner)
    BY BytesJoined
  <2>2. 1 + (2 + n) = 3 + n
    OBVIOUS
  <2> QED BY <1>2, <1>3, <2>1, <2>2
<1>5. CH!Vector2(entry) \in Octets
  BY VectorType
<1>6. CH!NameExtension(name) = [type |-> 0, data |-> CH!Vector2(entry)]
  BY <1>2, <1>3, <1>4 DEF CH!NameExtension
<1>7. CH!EncodeSNI(name) = CH!Vector2(entry)
  <2>1. CH!WithLength(name) = inner
    BY <1>2, VectorType DEF CH!WithLength
  <2>2. CH!WithLength(entry) = CH!Vector2(entry)
    BY VectorType DEF CH!WithLength
  <2> QED BY <1>3, <1>4, <2>1, <2>2 DEF CH!EncodeSNI
<1>8. CH!NameExtension(name) \in Entries /\ CH!NameExtension(name).type = 0
  BY <1>5, <1>6 DEF Entries
<1> QED BY <1>1, <1>2, <1>3, <1>4, <1>6, <1>7, <1>8

(* FindSNI finds the name, and ReplaceSNI puts another in its place.        *)
LEMMA NameReplaced ==
    ASSUME NEW before \in Seq(Entries), NEW after \in Seq(Entries),
           NEW name \in Octets, name # <<>>, NEW other \in Octets,
           \A i \in DOMAIN before : before[i].type # 0,
           NEW session, NEW suites, NEW methods, NEW m,
           m = Fields(session, suites, methods, Around(before, CH!NameExtension(name), after))
    PROVE  /\ CH!FindSNI(m) = name
           /\ CH!ReplaceSNI(m, other)
                = Fields(session, suites, methods, Around(before, CH!NameExtension(other), after))
<1>1. PICK x \in Entries, y \in Entries :
         /\ x = CH!NameExtension(name) /\ x.type = 0
         /\ y = CH!NameExtension(other) /\ y = [type |-> 0, data |-> CH!EncodeSNI(other)]
  BY NameExtensionType
<1>2. PICK n \in Nat : n = Len(before) /\ DOMAIN before = 1..n
  BY LenProperties
<1>3. PICK list \in Seq(Entries) :
         /\ list = Around(before, x, after) /\ list[n + 1] = x
         /\ \A i \in 1..n : list[i] = before[i]
         /\ DOMAIN list = 1..Len(list) /\ Len(list) \in Nat /\ n + 1 <= Len(list)
  <2>1. /\ Around(before, x, after) \in Seq(Entries)
        /\ Len(Around(before, x, after)) = n + 1 + Len(after) /\ Len(after) \in Nat
        /\ \A i \in 1..n : Around(before, x, after)[i] = before[i]
        /\ Around(before, x, after)[n + 1] = x
    <3>1. PICK s : s = Around(before, x, after) /\ s \in Seq(Entries) /\ Surrounds(s, before, x, after)
      BY AroundFacts
    <3> QED BY <1>2, <3>1 DEF Surrounds
  <2>2. PICK list \in Seq(Entries) : list = Around(before, x, after)
    BY <2>1
  <2>3. DOMAIN list = 1..Len(list) /\ Len(list) \in Nat
    BY LenProperties
  <2> QED BY <2>1, <2>2, <2>3
<1>4. m.extensions = list
  BY <1>1, <1>3 DEF Fields
<1>5. CH!NamesAt(m) # {} /\ CH!FirstName(m) = n + 1
  <2>1. PICK k \in DOMAIN list : k = n + 1
    BY <1>3
  <2>2. k \in CH!NamesAt(m)
    BY <1>1, <1>3, <1>4, <2>1 DEF CH!NamesAt, CH!ServerName
  <2>3. ASSUME NEW j \in CH!NamesAt(m) PROVE k <= j
    <3>1. j \in 1..Len(list) /\ list[j].type = 0
      BY <1>3, <1>4 DEF CH!NamesAt, CH!ServerName
    <3>2. ~(j \in 1..n)
      BY <1>2, <1>3, <3>1
    <3> QED BY <1>3, <2>1, <3>1, <3>2
  <2>4. ASSUME NEW i \in CH!NamesAt(m), \A j \in CH!NamesAt(m) : i <= j PROVE i = k
    <3>1. i \in 1..Len(list)
      BY <1>3, <1>4 DEF CH!NamesAt
    <3>2. i <= k /\ k <= i
      BY <2>2, <2>3, <2>4
    <3> QED BY <1>3, <2>1, <3>1, <3>2
  <2>5. CH!FirstName(m) = k
    BY <2>2, <2>3, <2>4 DEF CH!FirstName
  <2> QED BY <2>1, <2>2, <2>5
<1>6. CH!FindSNI(m) = name
  <2>1. PICK l \in Nat : l = Len(name)
    BY LenProperties DEF Octets
  <2>2. PICK entry \in Octets : entry = <<0>> \o CH!Vector2(name) /\ Len(entry) = 3 + l
    BY <2>1, NameExtensionType
  <2>3. PICK data \in Octets : data = CH!Vector2(entry) /\ Len(data) = 5 + l
    <3>1. CH!Vector2(entry) \in Octets /\ Len(CH!Vector2(entry)) = 2 + Len(entry)
      BY VectorType
    <3>2. 2 + (3 + l) = 5 + l
      OBVIOUS
    <3> QED BY <2>2, <3>1, <3>2
  <2>4. x.data = data
    BY <1>1, <2>2, <2>3 DEF CH!NameExtension
  <2>5. At(data, 0, CH!Vector2(entry))
    BY <2>3, AtStart
  <2>6. CH!Number(data, 1) = 3 + l /\ At(data, 2, entry)
    <3>1. PICK i \in Nat : i = 0
      OBVIOUS
    <3>2. CH!Number(data, i + 1) = Len(entry) /\ At(data, i + 2, entry)
      BY <2>5, <3>1, Vector2Read
    <3> QED BY <2>2, <3>1, <3>2
  <2>7. At(data, 5, name)
    <3>1. PICK zero \in Octets : zero = <<0>> /\ Len(zero) = 1
      <4>1. <<0>> \in Octets /\ Len(<<0>>) = 1
        BY ShortType
      <4> QED BY <4>1
    <3>2. PICK size \in Octets : size = CH!Two(l) /\ Len(size) = 2
      BY TwoType
    <3>3. PICK inner \in Octets : inner = size \o name /\ inner = CH!Vector2(name)
      BY <2>1, <3>2, VectorType
    <3>4. Len(data) \in Nat
      BY <2>3
    <3>5. PICK i \in Nat : i = 2 /\ At(data, i, zero \o inner)
      BY <2>2, <2>6, <3>1, <3>3
    <3>6. At(data, i + Len(zero), inner)
      BY <3>4, <3>5, AtSplit
    <3>7. PICK j \in Nat : j = 3 /\ At(data, j, size \o name)
      BY <3>1, <3>3, <3>5, <3>6
    <3>8. At(data, j + Len(size), name)
      BY <3>4, <3>7, AtSplit
    <3> QED BY <3>2, <3>7, <3>8
  <2>8. SubSeq(data, 6, 5 + l) = name
    <3>1. PICK i \in Nat : i = 5
      OBVIOUS
    <3>2. SubSeq(data, i + 1, i + Len(name)) = name
      BY <2>3, <2>7, <3>1, AtPart
    <3> QED BY <2>1, <3>1, <3>2
  <2>9. ~(Len(data) < 2 \/ Len(data) < 2 + CH!Number(data, 1)) /\ 2 + CH!Number(data, 1) = 5 + l
    BY <2>3, <2>6
  <2>10. m.extensions[CH!FirstName(m)].data = data
    BY <1>3, <1>4, <1>5, <2>4
  <2> QED BY <1>5, <2>8, <2>9, <2>10 DEF CH!FindSNI
<1>7. CH!ReplaceSNI(m, other)
        = Fields(session, suites, methods, Around(before, y, after))
  <2>1. PICK k : k = n + 1 /\ k = CH!FirstName(m)
    BY <1>5
  <2>2. [list EXCEPT ![k] = y] = Around(before, y, after)
    <3>1. [Around(before, x, after) EXCEPT ![k] = y] = Around(before, y, after)
      BY <1>2, <2>1, Exchanged
    <3> QED BY <1>3, <3>1
  <2>3. CH!ReplaceSNI(m, other) = [m EXCEPT !.extensions = [@ EXCEPT ![k] = y]]
    BY <1>1, <1>5, <2>1 DEF CH!ReplaceSNI, CH!ServerName
  <2>4. CH!ReplaceSNI(m, other) = [m EXCEPT !.extensions = Around(before, y, after)]
    BY <1>4, <2>2, <2>3
  <2> QED BY <2>4 DEF Fields
<1> QED BY <1>1, <1>6, <1>7

LEMMA LastReplaced ==
    ASSUME NEW name \in Octets, name # <<>>
    PROVE  /\ CH!DecoyName(name) = [name EXCEPT ![Len(name)] = CH!LetterX]
           /\ CH!DecoyName(name) \in Octets
<1>1. PICK n \in Nat : n = Len(name) /\ n > 0
  <2>1. Len(name) \in Nat /\ Len(name) # 0
    BY EmptySeq, LenProperties DEF Octets
  <2> QED BY <2>1
<1>2. PICK front \in Octets :
         /\ front = CH!Front(name) /\ Len(front) = n - 1
         /\ \A i \in 1..(n - 1) : front[i] = name[i]
  <2>1. PICK z \in Nat, e \in Nat : z = 0 /\ e = n - 1
    BY <1>1
  <2>2. /\ SubSeq(name, z + 1, e) \in Octets /\ Len(SubSeq(name, z + 1, e)) = e - z
        /\ At(name, z, SubSeq(name, z + 1, e))
    BY <1>1, <2>1, PartAt
  <2>3. PICK front \in Octets : front = SubSeq(name, 1, n - 1) /\ Len(front) = n - 1 /\ At(name, 0, front)
    <3>1. PICK front \in Octets : front = SubSeq(name, z + 1, e) /\ Len(front) = e - z /\ At(name, z, front)
      BY <2>2
    <3>2. z + 1 = 1 /\ e - z = n - 1
      BY <2>1
    <3> QED BY <2>1, <3>1, <3>2
  <2>4. \A i \in 1..(n - 1) : name[0 + i] = front[i]
    BY <2>3 DEF At
  <2>5. \A i \in 1..(n - 1) : 0 + i = i
    OBVIOUS
  <2>6. CH!Front(name) = front
    BY <1>1, <2>3 DEF CH!Front
  <2> QED BY <2>3, <2>4, <2>5, <2>6
<1>3. PICK last \in Octets : last = <<120>> /\ Len(last) = 1 /\ last[1] = 120
  <2>1. <<120>> \in Octets /\ Len(<<120>>) = 1 /\ <<120>>[1] = 120
    BY ShortType
  <2> QED BY <2>1
<1>4. PICK s \in Octets :
         /\ s = front \o last /\ Len(s) = n
         /\ \A i \in 1..(n - 1) : s[i] = front[i]
         /\ s[n] = 120
  <2>1. /\ front \o last \in Octets /\ Len(front \o last) = Len(front) + Len(last)
        /\ \A k \in 1..Len(front) : (front \o last)[k] = front[k]
        /\ \A k \in 1..Len(last) : (front \o last)[Len(front) + k] = last[k]
    BY Joined, BytesJoined DEF Octets
  <2>2. PICK s : s = front \o last
    OBVIOUS
  <2>3. Len(s) = n /\ \A i \in 1..(n - 1) : s[i] = front[i]
    BY <1>1, <1>2, <1>3, <2>1, <2>2
  <2>4. s[(n - 1) + 1] = 120
    BY <1>2, <1>3, <2>1, <2>2
  <2>5. (n - 1) + 1 = n
    OBVIOUS
  <2> QED BY <2>1, <2>2, <2>3, <2>4, <2>5
<1>5. PICK u \in Octets :
         /\ u = [name EXCEPT ![n] = 120] /\ Len(u) = n
         /\ \A i \in 1..n : u[i] = IF i = n THEN 120 ELSE name[i]
  <2>1. n \in 1..Len(name)
    BY <1>1
  <2>2. /\ [name EXCEPT ![n] = 120] \in Seq(Nat) /\ Len([name EXCEPT ![n] = 120]) = Len(name)
        /\ \A j \in 1..Len(name) : [name EXCEPT ![n] = 120][j] = IF j = n THEN 120 ELSE name[j]
    BY <2>1, ExceptSeq DEF Octets
  <2>3. PICK u : u = [name EXCEPT ![n] = 120]
    OBVIOUS
  <2> QED BY <1>1, <2>2, <2>3 DEF Octets
<1>6. ASSUME NEW i \in 1..n PROVE s[i] = u[i]
  <2>1. CASE i = n
    BY <1>4, <1>5, <2>1
  <2>2. CASE i # n
    <3>1. i \in 1..(n - 1)
      BY <2>2
    <3> QED BY <1>2, <1>4, <1>5, <2>2, <3>1
  <2> QED BY <2>1, <2>2
<1>7. s = u
  BY <1>4, <1>5, <1>6, SeqEqual DEF Octets
<1>8. CH!DecoyName(name) = s
  BY <1>2, <1>3, <1>4 DEF CH!DecoyName, CH!LetterX
<1> QED BY <1>1, <1>5, <1>7, <1>8 DEF CH!LetterX

LEMMA HelloFacts ==
    ASSUME NEW h, CH!IsHello(h)
    PROVE  /\ h.session \in Octets /\ h.suites \in Octets /\ h.methods \in Octets
           /\ h.name \in Octets /\ h.name # <<>>
           /\ h.before \in Seq(Entries) /\ h.after \in Seq(Entries)
           /\ \A i \in DOMAIN h.before : h.before[i].type # 0
           /\ Len(h.session) <= 32 /\ Len(h.suites) % 2 = 0
<1>1. CH!Byte \subseteq Nat /\ CH!ExtensionType \subseteq Nat
  BY DEF CH!Byte, CH!ExtensionType
<1>2. \A data \in Seq(CH!Byte) : data \in Octets
  BY <1>1, WiderSequence DEF Octets
<1>3. [type : CH!ExtensionType, data : Seq(CH!Byte)] \subseteq Entries
  <2> SUFFICES ASSUME NEW x \in [type : CH!ExtensionType, data : Seq(CH!Byte)] PROVE x \in Entries
    OBVIOUS
  <2>1. x.type \in Nat /\ x.data \in Octets
    BY <1>1, <1>2
  <2> QED BY <2>1 DEF Entries
<1>4. \A list \in Seq([type : CH!ExtensionType, data : Seq(CH!Byte)]) : list \in Seq(Entries)
  BY <1>3, WiderSequence
<1>5. /\ h.session \in Seq(CH!Byte) /\ h.suites \in Seq(CH!Byte)
      /\ h.methods \in Seq(CH!Byte) /\ h.name \in Seq(CH!Byte)
  <2>1. \A data \in {h.session, h.suites, h.methods, h.name} : data \in Seq(CH!Byte)
    BY DEF CH!IsHello
  <2> QED BY <2>1
<1>6. /\ h.before \in Seq([type : CH!ExtensionType, data : Seq(CH!Byte)])
      /\ h.after \in Seq([type : CH!ExtensionType, data : Seq(CH!Byte)])
  <2>1. \A list \in {h.before, h.after} : list \in Seq([type : CH!ExtensionType, data : Seq(CH!Byte)])
    BY DEF CH!IsHello
  <2> QED BY <2>1
<1>7. /\ h.name # <<>> /\ \A i \in DOMAIN h.before : h.before[i].type # 0
      /\ Len(h.session) <= 32 /\ Len(h.suites) % 2 = 0
  BY DEF CH!IsHello
<1> QED BY <1>2, <1>4, <1>5, <1>6, <1>7

(* What a client says is a message in a record.                             *)
Told(h, name) ==
    Record(Body(h.session, h.suites, h.methods, Around(h.before, CH!NameExtension(name), h.after)))

LEMMA SaidTold == ASSUME NEW h PROVE CH!Said(h) = Told(h, h.name)
BY DEF CH!Said, CH!Message, CH!Offered, Told, Record, Body, Around, Joints

LEMMA RenamedTold ==
    ASSUME NEW h, CH!IsHello(h)
    PROVE  CH!Said([h EXCEPT !.name[Len(h.name)] = CH!LetterX]) = Told(h, CH!DecoyName(h.name))
<1> DEFINE g == [h EXCEPT !.name[Len(h.name)] = CH!LetterX]
<1>1. /\ g.session = h.session /\ g.suites = h.suites /\ g.methods = h.methods
      /\ g.before = h.before /\ g.after = h.after
      /\ g.name = [h.name EXCEPT ![Len(h.name)] = CH!LetterX]
  <2>1. DOMAIN h = {"session", "suites", "methods", "before", "name", "after"}
    BY DEF CH!IsHello
  <2> QED BY <2>1
<1>2. g.name = CH!DecoyName(h.name)
  BY <1>1, HelloFacts, LastReplaced
<1> HIDE DEF g
<1>3. CH!Said(g) = Told(g, g.name)
  BY SaidTold
<1>4. Told(g, g.name) = Told(h, CH!DecoyName(h.name))
  BY <1>1, <1>2 DEF Told
<1> QED BY <1>3, <1>4 DEF g

LEMMA DecoyRight ==
    ASSUME NEW h, CH!IsHello(h)
    PROVE  CH!DecoyOf(CH!Said(h)) = CH!Said([h EXCEPT !.name[Len(h.name)] = CH!LetterX])
<1> DEFINE list == Around(h.before, CH!NameExtension(h.name), h.after)
           new == Around(h.before, CH!NameExtension(CH!DecoyName(h.name)), h.after)
           m == Fields(h.session, h.suites, h.methods, list)
           taken == CH!DecodeTLS(CH!Said(h))
<1>1. /\ h.session \in Octets /\ h.suites \in Octets /\ h.methods \in Octets
      /\ h.name \in Octets /\ h.name # <<>> /\ CH!DecoyName(h.name) \in Octets
      /\ h.before \in Seq(Entries) /\ h.after \in Seq(Entries)
      /\ \A i \in DOMAIN h.before : h.before[i].type # 0
      /\ Len(h.session) <= 32 /\ Len(h.suites) % 2 = 0
  BY HelloFacts, LastReplaced
<1>2. list \in Seq(Entries) /\ new \in Seq(Entries)
  BY <1>1, NameExtensionType, AroundFacts
<1> HIDE DEF list, new
<1>3. taken = Taken(m)
  <2>1. CH!Said(h) = Record(Body(h.session, h.suites, h.methods, list))
    BY SaidTold DEF Told, list
  <2>2. CH!DecodeTLS(Record(Body(h.session, h.suites, h.methods, list)))
          = Taken(m)
    BY <1>1, <1>2, Decoded
  <2> QED BY <2>1, <2>2
<1>4. /\ CH!FindSNI(m) = h.name
      /\ CH!ReplaceSNI(m, CH!DecoyName(h.name)) = Fields(h.session, h.suites, h.methods, new)
  BY <1>1, NameReplaced DEF list, new
<1>5. CH!Encodes(m)
  BY <1>1 DEF CH!Encodes, Fields
<1> HIDE DEF m, taken
<1>6. taken.ok /\ taken.message = m
  BY <1>3 DEF Taken
<1> DEFINE changed == [taken EXCEPT !.message = CH!ReplaceSNI(@, CH!DecoyName(CH!FindSNI(taken.message)))]
<1>7. changed = Taken(Fields(h.session, h.suites, h.methods, new))
  <2>1. CH!ReplaceSNI(taken.message, CH!DecoyName(CH!FindSNI(taken.message)))
          = Fields(h.session, h.suites, h.methods, new)
    BY <1>4, <1>6
  <2>2. PICK other : other = Fields(h.session, h.suites, h.methods, new)
    OBVIOUS
  <2>3. changed = [Taken(m) EXCEPT !.message = other]
    BY <1>3, <2>1, <2>2, Zenon
  <2>4. [Taken(m) EXCEPT !.message = other] = Taken(other)
    <3>1. PICK t : t = Taken(m)
      OBVIOUS
    <3>2. t = [ok |-> TRUE, version |-> <<3, 1>>, message |-> m]
      BY <3>1 DEF Taken
    <3>3. PICK u : u = [t EXCEPT !.message = other]
      OBVIOUS
    <3>4. u = [ok |-> TRUE, version |-> <<3, 1>>, message |-> other]
      BY <3>2, <3>3
    <3> QED BY <3>1, <3>3, <3>4 DEF Taken
  <2> QED BY <2>2, <2>3, <2>4, Zenon
<1>8. CH!DecoyOf(CH!Said(h)) = CH!EncodeTLS(changed)
  BY <1>1, <1>4, <1>5, <1>6 DEF CH!DecoyOf, taken
<1> HIDE DEF changed
<1>9. CH!EncodeTLS(changed) = Record(Body(h.session, h.suites, h.methods, new))
  BY <1>1, <1>2, <1>7, Encoded
<1>10. Record(Body(h.session, h.suites, h.methods, new)) = Told(h, CH!DecoyName(h.name))
  BY DEF Told, new
<1> QED BY <1>8, <1>9, <1>10, RenamedTold

-----------------------------------------------------------------------------
(* The decoy being sent is one of a ClientHello.                            *)
Imitating ==
    \/ imitations = <<>>
    \/ \E h \in Hellos : imitations = <<[hello |-> h, packet |-> CH!DecoyOf(CH!Said(h))]>>

LEMMA ImitatingNext == Imitating /\ [SessionNext]_all => Imitating'
<1> SUFFICES ASSUME Imitating, [SessionNext]_all PROVE Imitating'
  OBVIOUS
<1>1. CASE Shake \/ Establish \/ UNCHANGED all
  <2>1. UNCHANGED imitations
    BY <1>1 DEF Shake, Establish, all
  <2> QED BY <2>1 DEF Imitating
<1>2. CASE Stream
  <2>1. CH!Imitate \/ CH!Sent
    BY <1>2 DEF Stream, Rest
  <2> QED BY <2>1 DEF CH!Imitate, CH!Sent, Imitating
<1> QED BY <1>1, <1>2 DEF SessionNext

(* Whatever ClientHello a client sends in one record, the decoy is byte for *)
(* byte what that client would have written for the changed name            *)
(* (DecodeTLS, FindSNI, ReplaceSNI, EncodeTLS, injectFakePacket).           *)
THEOREM DecoyImitatesCorrect == SessionSpec => []DecoyImitates
<1>1. SessionInit => Imitating
  BY DEF SessionInit, CH!Init, Imitating
<1>2. ASSUME Imitating PROVE DecoyImitates
  <2> SUFFICES ASSUME NEW i \in DOMAIN imitations
               PROVE  imitations[i].packet
                        = CH!Said([imitations[i].hello EXCEPT !.name[Len(imitations[i].hello.name)] = CH!LetterX])
    BY DEF DecoyImitates, CH!DecoyImitates
  <2>1. imitations # <<>>
    OBVIOUS
  <2>2. PICK h \in Hellos : imitations = <<[hello |-> h, packet |-> CH!DecoyOf(CH!Said(h))]>>
    BY <1>2, <2>1 DEF Imitating
  <2>3. imitations[i].hello = h /\ imitations[i].packet = CH!DecoyOf(CH!Said(h))
    BY <2>2
  <2>4. CH!IsHello(h)
    BY ClientHelloAssumption DEF CH!ConstantsOK
  <2> QED BY <2>3, <2>4, DecoyRight
<1> QED BY <1>1, <1>2, ImitatingNext, PTL DEF SessionSpec
=============================================================================
