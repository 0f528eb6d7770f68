---------------------------- MODULE ClientHello ----------------------------
(***************************************************************************)
(* The decoy's content: a TLS record with a ClientHello is taken apart,    *)
(* its server name replaced, and put together again (internal/libtls:      *)
(* DecodeTLS, FindSNI, ReplaceSNI, EncodeTLS; injectFakePacket in          *)
(* cmd/socks5.go).                                                         *)
(*                                                                         *)
(* Bytes are 0..255, all lengths are encoded as on the wire; only the      *)
(* random of 32 bytes may be shorter.                                      *)
(***************************************************************************)
EXTENDS Integers, Sequences, FiniteSets, SequencesExt

CONSTANTS
    RandomSize,  \* 32
    Hellos       \* what clients say: [session, suites, methods, before, name, after]

VARIABLE imitations    \* the decoy being sent, if any: [hello, packet]

vars == <<imitations>>

Two(n) == <<n \div 256, n % 256>>
Three(n) == <<n \div 65536, (n \div 256) % 256, n % 256>>
Number(data, i) == data[i] * 256 + data[i + 1]
From(data, i) == SubSeq(data, i, Len(data))

Handshake == 22
ClientHelloType == 1
ServerName == 0
LetterX == 120

Failed == [ok |-> FALSE]

-----------------------------------------------------------------------------
(* DecodeTLS.  A length that goes beyond the data is an error; extensions   *)
(* end where their length says or where no header fits any more.            *)
Extensions(data, end) ==
    LET E[at \in 1..(Len(data) + 1)] ==
          IF at > end \/ at + 3 > Len(data) THEN [ok |-> TRUE, list |-> <<>>]
          ELSE LET next == at + 4 + Number(data, at + 2) IN
               IF next - 1 > Len(data) \/ ~E[next].ok THEN Failed
               ELSE [ok |-> TRUE,
                     list |-> <<[type |-> Number(data, at),
                                 data |-> SubSeq(data, at + 4, next - 1)]>> \o E[next].list]
    IN  E

(* count suites, two bytes each, behind their length. *)
SuitesAt(data, at, count) == [i \in 1..count |-> SubSeq(data, at + 2 * i, at + 2 * i + 1)]

(* The message, from its version on. *)
DecodeMessage(data) ==
    LET session == 2 + RandomSize + 1
        suites == session + data[session] + 1
        count == Number(data, suites) \div 2
        methods == suites + 2 + 2 * count
        extensions == methods + data[methods] + 1
        list == IF extensions > Len(data) THEN [ok |-> TRUE, list |-> <<>>]
                ELSE Extensions(data, extensions + 1 + Number(data, extensions))[extensions + 2]
    IN
    IF \/ session > Len(data) \/ suites + 1 > Len(data) \/ methods > Len(data)
       \/ extensions - 1 > Len(data) \/ extensions = Len(data) \/ ~list.ok
    THEN Failed
    ELSE [ok |-> TRUE,
          version |-> SubSeq(data, 1, 2),
          random |-> SubSeq(data, 3, 2 + RandomSize),
          session |-> SubSeq(data, session + 1, suites - 1),
          suites |-> SuitesAt(data, suites, count),
          methods |-> SubSeq(data, methods + 1, extensions - 1),
          extensions |-> list.list]

DecodeTLS(data) ==
    IF \/ Len(data) < 9 \/ data[1] # Handshake \/ Len(data) < 5 + Number(data, 4)
       \/ data[6] # ClientHelloType \/ Len(data) < 9 + data[7] * 65536 + Number(data, 8)
    THEN Failed
    ELSE LET message == DecodeMessage(From(data, 10))
         IN  IF message.ok
             THEN [ok |-> TRUE, version |-> SubSeq(data, 2, 3), message |-> message]
             ELSE Failed

-----------------------------------------------------------------------------
(* EncodeTLS.  All lengths are those of what is there.  Of the lengths that *)
(* are refused only one can come out of DecodeTLS: a long session.          *)
Encodes(m) == Len(m.session) <= 32
WithLength(data) == Two(Len(data)) \o data
EncodeExtensions(list) == FlattenSeq([i \in DOMAIN list |-> Two(list[i].type) \o WithLength(list[i].data)])
EncodeMessage(m) ==
    m.version \o m.random
      \o <<Len(m.session)>> \o m.session
      \o WithLength(FlattenSeq(m.suites))
      \o <<Len(m.methods)>> \o m.methods
      \o WithLength(EncodeExtensions(m.extensions))
EncodeTLS(record) ==
    LET message == EncodeMessage(record.message)
        handshake == <<ClientHelloType>> \o Three(Len(message)) \o message
    IN  <<Handshake>> \o record.version \o WithLength(handshake)

-----------------------------------------------------------------------------
(* The first extension of type server_name; its list is taken for one name. *)
NamesAt(m) == {i \in DOMAIN m.extensions : m.extensions[i].type = ServerName}
FirstName(m) == CHOOSE i \in NamesAt(m) : \A j \in NamesAt(m) : i <= j
FindSNI(m) ==
    IF NamesAt(m) = {} THEN <<>>
    ELSE LET data == m.extensions[FirstName(m)].data
         IN  IF Len(data) < 2 \/ Len(data) < 2 + Number(data, 1) THEN <<>>
             ELSE SubSeq(data, 6, 2 + Number(data, 1))

(* The form a regression could give EncodeSNI; nothing uses it. *)
EncodeSNIShortList(name) == Two(Len(name)) \o <<0>> \o WithLength(name)
EncodeSNI(name) == WithLength(<<0>> \o WithLength(name))
ReplaceSNI(m, name) ==
    LET extension == [type |-> ServerName, data |-> EncodeSNI(name)]
    IN  IF NamesAt(m) = {} THEN [m EXCEPT !.extensions = Append(@, extension)]
        ELSE [m EXCEPT !.extensions = [@ EXCEPT ![FirstName(m)] = extension]]

DecoyName(name) == Front(name) \o <<LetterX>>

(* The bytes of the packet injectFakePacket makes of a record, if any. *)
DecoyOf(data) ==
    LET record == DecodeTLS(data) IN
    IF ~record.ok \/ FindSNI(record.message) = <<>> \/ ~Encodes(record.message) THEN <<>>
    ELSE EncodeTLS([record EXCEPT !.message = ReplaceSNI(@, DecoyName(FindSNI(record.message)))])

-----------------------------------------------------------------------------
(* What a client writes (external, as RFC 8446 lays it out): the server     *)
(* name stands between its other extensions, before and after.              *)
Vector1(data) == <<Len(data)>> \o data
Vector2(data) == <<Len(data) \div 256, Len(data) % 256>> \o data
Vector3(data) == <<Len(data) \div 65536, (Len(data) \div 256) % 256, Len(data) % 256>> \o data
Extension(x) == <<x.type \div 256, x.type % 256>> \o Vector2(x.data)
NameExtension(name) == [type |-> 0, data |-> Vector2(<<0>> \o Vector2(name))]
Offered(h) == h.before \o <<NameExtension(h.name)>> \o h.after
Random == [i \in 1..RandomSize |-> i]
Message(h) ==
    LET offered == Offered(h)
    IN  <<3, 3>> \o Random \o Vector1(h.session) \o Vector2(h.suites) \o Vector1(h.methods)
          \o Vector2(FlattenSeq([i \in DOMAIN offered |-> Extension(offered[i])]))
Said(h) == <<22, 3, 1>> \o Vector2(<<1>> \o Vector3(Message(h)))

Byte == 0..255
ExtensionType == 0..65535

(* A ClientHello in one record.  What follows the name may even hold another *)
(* one, which TLS forbids; only what comes before it may not.                *)
IsHello(h) ==
    /\ DOMAIN h = {"session", "suites", "methods", "before", "name", "after"}
    /\ \A data \in {h.session, h.suites, h.methods, h.name} : data \in Seq(Byte)
    /\ Len(h.session) <= 32 /\ Len(h.methods) <= 255
    /\ Len(h.suites) % 2 = 0
    /\ h.name # <<>>
    /\ \A list \in {h.before, h.after} : list \in Seq([type : ExtensionType, data : Seq(Byte)])
    /\ \A i \in DOMAIN h.before : h.before[i].type # 0
    /\ Len(Said(h)) <= 5 + 16384

ConstantsOK == RandomSize \in Nat /\ \A h \in Hellos : IsHello(h)

Init == imitations = <<>>

(* injectFakePacket up to the packet. *)
Imitate ==
    \E h \in Hellos :
        imitations' = <<[hello |-> h, packet |-> DecoyOf(Said(h))]>>
Sent == imitations' = <<>>

-----------------------------------------------------------------------------
(* Taken apart and put together again with another name, a ClientHello is   *)
(* what its client would have written for that name, byte for byte and of   *)
(* the same length: no part is lost, moved or given a wrong length.         *)
DecoyImitates ==
    \A i \in DOMAIN imitations :
        LET h == imitations[i].hello
        IN  imitations[i].packet = Said([h EXCEPT !.name[Len(h.name)] = LetterX])
=============================================================================
