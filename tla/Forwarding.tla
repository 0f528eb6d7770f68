----------------------------- MODULE Forwarding -----------------------------
(***************************************************************************)
(* The two streams of an established session (cmd/socks5.go): the          *)
(* goroutine of StreamForward, which looks for a TLS ClientHello in the    *)
(* first bytes, cuts them (Fragmenter) or has a decoy injected before      *)
(* them; StreamReverse, with whose end the session ends; the goroutine     *)
(* that waits for the first response; and the ring of captured handshakes  *)
(* (capture.go) that tells a decoy where the connection's sequence starts. *)
(*                                                                         *)
(* The bytes of the client are numbered; a stream is how far it has got.   *)
(* When a byte arrives is when it may be read: a read takes any number.    *)
(* What the client sends first is a record of some length, ClientHello or  *)
(* not.  FallbackSession has what the waiting goroutine does after its     *)
(* timer; here it ends with or without closing the session.                *)
(***************************************************************************)
EXTENDS Integers, Sequences, FiniteSets, SequencesExt

CONSTANTS
    ReadSize,         \* the buffer of StreamForward
    TlsBufferSize,    \* the capacity of tlsBuffer
    HeaderSize,       \* of a TLS record: 5
    FragmentSize,     \* fragmentSize
    InitialFragSize,  \* initialFragSize
    RingSize,         \* entries that RingSessionBuffer keeps
    Policies,         \* what the handshake comes with: whether the first bytes are cut,
                      \* a decoy may be injected, silence leads to a probe
    Records,          \* what the client may send first: [tls, length, decodes, named]
    Histories,        \* connections captured earlier: sequences of "stale" and "other"
    MaxBytes,         \* bound: bytes a client sends
    MaxAnswers,       \* bound: answers of a target
    MaxCaptures       \* bound: connections captured up to the decoy

ASSUME SizesAssumption ==
    /\ {ReadSize, TlsBufferSize, HeaderSize, FragmentSize, RingSize} \subseteq Nat \ {0}
    /\ InitialFragSize \in Nat
    /\ {MaxBytes, MaxAnswers, MaxCaptures} \subseteq Nat
ASSUME PoliciesAssumption ==    \* a policy has one dpi
    /\ Policies \subseteq [fragments : BOOLEAN, decoys : BOOLEAN, probes : BOOLEAN]
    /\ \A p \in Policies : ~(p.fragments /\ p.decoys)
ASSUME RecordsAssumption ==
    /\ Records \subseteq [tls : BOOLEAN, length : Nat, decodes : BOOLEAN, named : BOOLEAN]
    /\ \A r \in Records : r.length >= HeaderSize
ASSUME HistoriesAssumption == Histories \subseteq Seq({"stale", "other"})

VARIABLES
    stage,      \* "handshake", "streams" or "over"
    policy, record,
    client,     \* the client: all it will send, and whether it is there, has finished or left
    target,     \* the same of the target and its answers
    conn,       \* clientConn and targetConn: open until the proxy closes them
    forward,    \* StreamForward: where it is, bytes read, bytes written
    inspection, \* bytes in tlsBuffer, inspectionDone, candidate found, probeStarted
    fragmenter,
    wire,       \* what was written to the target, segment by segment
    decoys,     \* the decoys sent: bytes on the wire before it, entry it was made with
    reverse,    \* StreamReverse: where it is, answers read, answers given to the client
    waiter,     \* monitorBlockCandidate
    responded,  \* firstResponse is closed
    captured, ring

streams == <<client, target, conn, forward, inspection, fragmenter, wire, decoys>>
vars == <<stage, policy, record, streams, reverse, waiter, responded, captured, ring>>

-----------------------------------------------------------------------------
(* RingSessionBuffer.  "mine" is the entry of this connection, "stale" one  *)
(* of an earlier connection between the same ports.  Next to some           *)
(* definitions stands the form a regression could give them; no action uses *)
(* it.                                                                      *)
KeptFirst(entries) == IF Len(entries) > RingSize THEN SubSeq(entries, 1, RingSize) ELSE entries

Kept(entries) ==
    IF Len(entries) > RingSize THEN SubSeq(entries, Len(entries) - RingSize + 1, Len(entries))
    ELSE entries
Appended(entries, e) == Kept(Append(entries, e))

Matching == {i \in DOMAIN ring : ring[i] \in {"mine", "stale"}}
Lookup == ring[CHOOSE i \in Matching : \A j \in Matching : i <= j]

(* Fragmenter *)
NewFragmenter == [enabled |-> TRUE, sent |-> 0]
ShouldFragment == fragmenter.enabled /\ fragmenter.sent < InitialFragSize

Least(S) == CHOOSE m \in S : \A n \in S : m <= n

NoPolicy == [fragments |-> FALSE, decoys |-> FALSE, probes |-> FALSE]
NoRecord == [tls |-> FALSE, length |-> HeaderSize, decodes |-> FALSE, named |-> FALSE]

Init ==
    /\ stage = "handshake"
    /\ policy = NoPolicy
    /\ record = NoRecord
    /\ client = [sent |-> 0, end |-> "open"]
    /\ target = [sent |-> 0, end |-> "open"]
    /\ conn = [client |-> "open", target |-> "open"]
    /\ forward = [pc |-> "idle", read |-> 0, written |-> 0]
    /\ inspection = [buffered |-> 0, done |-> FALSE, candidate |-> FALSE, probing |-> FALSE]
    /\ fragmenter = NewFragmenter
    /\ wire = <<>>
    /\ decoys = <<>>
    /\ reverse = [pc |-> "idle", read |-> 0, written |-> 0]
    /\ waiter = "off"
    /\ responded = FALSE
    /\ captured = <<>>
    /\ ring = <<>>

(* ProcessRequest has returned; the capture has seen older connections. *)
Begin(p) ==
    /\ stage = "handshake"
    /\ stage' = "streams"
    /\ policy' = p
    /\ record' \in Records
    /\ client' \in [sent : 0..MaxBytes, end : {"open"}]
    /\ target' \in [sent : 0..MaxAnswers, end : {"open"}]
    /\ forward' = [forward EXCEPT !.pc = "read"]
    /\ reverse' = [reverse EXCEPT !.pc = "read"]
    /\ captured' \in (IF p.decoys THEN Histories ELSE {<<>>})
    /\ ring' = Kept(captured')
    /\ UNCHANGED <<conn, inspection, fragmenter, wire, decoys,
                   waiter, responded>>

-----------------------------------------------------------------------------
(* Client and target.  "finished" is half closed, all is sent: it still reads. *)
ClientEnds(end) ==
    /\ stage = "streams" /\ client.end # "gone" /\ client.end # end
    /\ client' = [client EXCEPT !.end = end]
    /\ UNCHANGED <<stage, policy, record, target, conn, forward, inspection, fragmenter, wire,
                   decoys, reverse, waiter, responded, captured, ring>>

TargetEnds(end) ==
    /\ stage = "streams" /\ target.end # "gone" /\ target.end # end
    /\ target' = [target EXCEPT !.end = end]
    /\ UNCHANGED <<stage, policy, record, client, conn, forward, inspection, fragmenter, wire,
                   decoys, reverse, waiter, responded, captured, ring>>

(* setupCapture and TrackSessions: a SYN/ACK was seen, this session's once. *)
Capture(e) ==
    /\ stage = "streams" /\ policy.decoys
    /\ Len(captured) < MaxCaptures /\ decoys = <<>>
    /\ e = "mine" => \A i \in DOMAIN captured : captured[i] # "mine"
    /\ captured' = Append(captured, e)
    /\ ring' = Appended(ring, e)
    /\ UNCHANGED <<stage, policy, record, streams, reverse, waiter, responded>>

-----------------------------------------------------------------------------
(* StreamForward.  What has been read and not written is the data at hand. *)

(* The record is complete in tlsBuffer once n more bytes are in it. *)
BuffersAlways(n) == inspection.buffered + n <= TlsBufferSize
Buffers(n) == ~inspection.done /\ inspection.buffered + n <= TlsBufferSize
CompleteByHeader(n) ==
    Buffers(n) /\ inspection.buffered + n >= HeaderSize /\ record.tls

Complete(n) ==
    /\ Buffers(n)
    /\ inspection.buffered + n >= HeaderSize
    /\ record.tls /\ inspection.buffered + n >= record.length
Inspected(n) ==
    [inspection EXCEPT
        !.buffered = IF Buffers(n) THEN @ + n ELSE @,
        !.done = \/ @ \/ ~Buffers(n) \/ Complete(n)
                 \/ inspection.buffered + n >= HeaderSize /\ ~record.tls,
        !.candidate = Complete(n) /\ record.decodes /\ policy.probes]

Injects(n) == Complete(n) /\ record.decodes /\ record.named /\ policy.decoys

Read(n) ==
    /\ forward.pc = "read"
    /\ conn.client = "open" /\ client.end # "gone"
    /\ n <= ReadSize /\ n <= client.sent - forward.read
    /\ inspection' = Inspected(n)
    /\ forward' = [forward EXCEPT
                     !.read = @ + n,
                     !.pc = IF Injects(n) THEN "inject"
                            ELSE IF policy.fragments /\ ShouldFragment
                            THEN "fragment" ELSE "write"]
    /\ UNCHANGED <<stage, policy, record, client, target, conn, fragmenter, wire, decoys,
                   reverse, waiter, responded, captured, ring>>

ReadEndsWithoutClose ==
    /\ forward.pc = "read"
    /\ \/ conn.client = "closed" \/ client.end = "gone"
       \/ client.end = "finished" /\ forward.read = client.sent
    /\ forward' = [forward EXCEPT !.pc = "ended"]
    /\ UNCHANGED <<stage, policy, record, client, target, conn, inspection, fragmenter, wire,
                   decoys, reverse, waiter, responded, captured, ring>>

(* The end of the stream, or an error; targetConn is closed on the way out. *)
ReadEnds ==
    /\ forward.pc = "read"
    /\ \/ conn.client = "closed" \/ client.end = "gone"
       \/ client.end = "finished" /\ forward.read = client.sent
    /\ forward' = [forward EXCEPT !.pc = "ended"]
    /\ conn' = [conn EXCEPT !.target = "closed"]
    /\ UNCHANGED <<stage, policy, record, client, target, inspection, fragmenter, wire, decoys,
                   reverse, waiter, responded, captured, ring>>

(* injectFakePacket, after the pause that lets the capture catch up.  The   *)
(* packet may also fail to be made.                                         *)
Inject ==
    /\ forward.pc = "inject"
    /\ \/ /\ Matching # {}
          /\ decoys' = Append(decoys, [at |-> forward.written, entry |-> Lookup])
       \/ UNCHANGED decoys
    /\ forward' = [forward EXCEPT !.pc = "write"]
    /\ UNCHANGED <<stage, policy, record, client, target, conn, inspection, fragmenter, wire,
                   reverse, waiter, responded, captured, ring>>

Writable == conn.target = "open" /\ target.end # "gone"

(* The next n bytes go out; after the last of the data at hand the waiter   *)
(* is started, once, and the next read is due.                              *)
Written(n) ==
    LET last == forward.written + n = forward.read
        starts == last /\ inspection.candidate /\ ~inspection.probing
    IN
    /\ wire' = Append(wire, [from |-> forward.written, to |-> forward.written + n])
    /\ forward' = [forward EXCEPT !.written = @ + n, !.pc = IF last THEN "read" ELSE @]
    /\ inspection' = [inspection EXCEPT
                        !.candidate = @ /\ ~last, !.probing = @ \/ starts]
    /\ waiter' = IF starts THEN "waiting" ELSE waiter
    /\ UNCHANGED <<stage, policy, record, client, target, conn, decoys, reverse, responded,
                   captured, ring>>

Write ==
    /\ forward.pc = "write" /\ Writable
    /\ Written(forward.read - forward.written)
    /\ UNCHANGED fragmenter

WriteChunkPastLimit ==
    LET n == Least({FragmentSize, forward.read - forward.written})
    IN
    /\ forward.pc = "fragment" /\ ShouldFragment /\ Writable
    /\ Written(n)
    /\ fragmenter' = [fragmenter EXCEPT !.sent = @ + n]

(* WriteFragmented: the next chunk, or all the rest once the limit is reached. *)
WriteChunk ==
    LET n == Least({FragmentSize, InitialFragSize - fragmenter.sent,
                    forward.read - forward.written})
    IN
    /\ forward.pc = "fragment" /\ ShouldFragment /\ Writable
    /\ Written(n)
    /\ fragmenter' = [fragmenter EXCEPT !.sent = @ + n]

WriteRestAgain ==
    /\ forward.pc = "fragment" /\ ~ShouldFragment /\ Writable
    /\ wire' = Append(wire, [from |-> Last(wire).from, to |-> forward.read])
    /\ forward' = [forward EXCEPT !.written = forward.read, !.pc = "read"]
    /\ fragmenter' = [fragmenter EXCEPT !.enabled = FALSE]
    /\ UNCHANGED <<stage, policy, record, client, target, conn, inspection, decoys, reverse,
                   waiter, responded, captured, ring>>

WriteRest ==
    /\ forward.pc = "fragment" /\ ~ShouldFragment /\ Writable
    /\ Written(forward.read - forward.written)
    /\ fragmenter' = [fragmenter EXCEPT !.enabled = FALSE]

WriteFails ==
    /\ forward.pc \in {"write", "fragment"}
    /\ conn.target = "closed" \/ target.end # "open"
    /\ forward' = [forward EXCEPT !.pc = "failed"]
    /\ conn' = [conn EXCEPT !.target = "closed"]
    /\ UNCHANGED <<stage, policy, record, client, target, inspection, fragmenter, wire, decoys,
                   reverse, waiter, responded, captured, ring>>

-----------------------------------------------------------------------------
(* StreamReverse, and the end of AcceptConnection.                         *)

Answer(n) ==
    /\ reverse.pc = "read"
    /\ conn.target = "open" /\ target.end # "gone"
    /\ n <= target.sent - reverse.read
    /\ reverse' = [reverse EXCEPT !.pc = "write", !.read = @ + n]
    /\ responded' = TRUE
    /\ UNCHANGED <<stage, policy, record, streams, waiter, captured, ring>>

AnswersEndEarly ==
    /\ reverse.pc = "read"
    /\ conn.target = "closed" \/ target.end # "open"
    /\ reverse' = [reverse EXCEPT !.pc = "ended"]
    /\ UNCHANGED <<stage, policy, record, streams, waiter, responded, captured, ring>>

AnswersEnd ==
    /\ reverse.pc = "read"
    /\ \/ conn.target = "closed" \/ target.end = "gone"
       \/ target.end = "finished" /\ reverse.read = target.sent
    /\ reverse' = [reverse EXCEPT !.pc = "ended"]
    /\ UNCHANGED <<stage, policy, record, streams, waiter, responded, captured, ring>>

GiveBack ==
    /\ reverse.pc = "write"
    /\ \/ /\ conn.client = "open" /\ client.end # "gone"
          /\ reverse' = [reverse EXCEPT !.pc = "read", !.written = reverse.read]
       \/ /\ conn.client = "closed" \/ client.end = "gone"
          /\ reverse' = [reverse EXCEPT !.pc = "ended"]
    /\ UNCHANGED <<stage, policy, record, streams, waiter, responded, captured, ring>>

Finish ==
    /\ stage = "streams" /\ reverse.pc = "ended"
    /\ stage' = "over"
    /\ conn' = [client |-> "closed", target |-> "closed"]
    /\ UNCHANGED <<policy, record, client, target, forward, inspection, fragmenter, wire, decoys,
                   reverse, waiter, responded, captured, ring>>

(* monitorBlockCandidate: a response has come, the probe comes to nothing,  *)
(* or it succeeds while there is still no response.                         *)
WaiterEnds ==
    /\ waiter = "waiting"
    /\ waiter' = "ended"
    /\ UNCHANGED <<stage, policy, record, streams, reverse, responded, captured, ring>>

WaiterCloses ==
    /\ waiter = "waiting" /\ ~responded
    /\ waiter' = "closed"
    /\ conn' = [client |-> "closed", target |-> "closed"]
    /\ UNCHANGED <<stage, policy, record, client, target, forward, inspection, fragmenter, wire,
                   decoys, reverse, responded, captured, ring>>

-----------------------------------------------------------------------------
StreamForward ==
    \/ \E n \in 1..MaxBytes : Read(n)
    \/ ReadEnds \/ Inject \/ Write \/ WriteChunk \/ WriteRest \/ WriteFails
StreamReverse == (\E n \in 1..MaxAnswers : Answer(n)) \/ AnswersEnd \/ GiveBack \/ Finish
Waiter == WaiterEnds \/ WaiterCloses
Peers ==
    \/ \E end \in {"finished", "gone"} : ClientEnds(end) \/ TargetEnds(end)
    \/ \E e \in {"mine", "other"} : Capture(e)

Running == StreamForward \/ StreamReverse \/ Waiter \/ Peers

Next == (\E p \in Policies : Begin(p)) \/ Running

Spec == Init /\ [][Next]_vars

(* Goroutines run and timers fire; nothing is asked of client and target    *)
(* but that what is written to them is taken or fails.                      *)
Fairness == WF_vars(StreamForward) /\ WF_vars(StreamReverse) /\ WF_vars(Waiter)
FairSpec == Spec /\ Fairness

-----------------------------------------------------------------------------
Segments == [from : Nat, to : Nat]

TypeOK ==
    /\ stage \in {"handshake", "streams", "over"}
    /\ policy \in Policies \cup {NoPolicy} /\ record \in Records \cup {NoRecord}
    /\ client \in [sent : 0..MaxBytes, end : {"open", "finished", "gone"}]
    /\ target \in [sent : 0..MaxAnswers, end : {"open", "finished", "gone"}]
    /\ conn \in [client : {"open", "closed"}, target : {"open", "closed"}]
    /\ forward \in [pc : {"idle", "read", "inject", "write", "fragment", "ended", "failed"},
                    read : Nat, written : Nat]
    /\ inspection \in [buffered : 0..TlsBufferSize, done : BOOLEAN, candidate : BOOLEAN,
                       probing : BOOLEAN]
    /\ fragmenter \in [enabled : BOOLEAN, sent : 0..InitialFragSize]
    /\ wire \in Seq(Segments)
    /\ decoys \in Seq([at : Nat, entry : {"mine", "stale", "other"}])
    /\ reverse \in [pc : {"idle", "read", "write", "ended"}, read : Nat, written : Nat]
    /\ waiter \in {"off", "waiting", "ended", "closed"}
    /\ responded \in BOOLEAN
    /\ captured \in Seq({"mine", "stale", "other"}) /\ ring \in Seq({"mine", "stale", "other"})

(* However the bytes come in and however they are cut, the target gets each *)
(* of them once and in order, and never more than was read (the loop of     *)
(* StreamForward, WriteFragmented across several reads).                    *)
InOrderOnce ==
    /\ wire # <<>> => wire[1].from = 0
    /\ \A i \in DOMAIN wire : wire[i].from < wire[i].to
    /\ \A i \in 1..(Len(wire) - 1) : wire[i + 1].from = wire[i].to
    /\ forward.written = IF wire = <<>> THEN 0 ELSE wire[Len(wire)].to
    /\ forward.written <= forward.read /\ forward.read <= client.sent

(* With dpi "fragment" none of the first InitialFragSize bytes travels in a *)
(* segment longer than FragmentSize or with a byte behind that limit,       *)
(* whatever the reads: the fragmenter counts across calls.                  *)
FirstBytesCut ==
    policy.fragments =>
        \A i \in DOMAIN wire :
            wire[i].from < InitialFragSize =>
                wire[i].to <= InitialFragSize /\ wire[i].to - wire[i].from <= FragmentSize

(* docs/proxy-routing.md: the response timer starts only after a whole      *)
(* ClientHello has been forwarded, and once per session.                    *)
TimerAfterHello ==
    waiter # "off" =>
        /\ policy.probes /\ record.tls /\ record.decodes
        /\ forward.written >= record.length
        /\ inspection.done /\ inspection.probing

(* A decoy goes out at most once, and before the ClientHello it imitates is *)
(* complete on the wire; the bytes of earlier reads are out already.        *)
DecoyInTime ==
    /\ Len(decoys) <= 1
    /\ \A i \in DOMAIN decoys :
         /\ policy.decoys
         /\ decoys[i].at < record.length
         /\ forward.pc # "inject"

(* A decoy carries the numbers of its own connection, or those of an earlier *)
(* one between the same ports that is among the last RingSize captured: never *)
(* those of another connection, and none that should have left the ring       *)
(* (RingSessionBuffer, whose Lookup takes the oldest match).                  *)
Recent == {i \in DOMAIN captured : i > Len(captured) - RingSize}
DecoyNumbersMatch ==
    \A i \in DOMAIN decoys :
        \E j \in Recent : captured[j] = decoys[i].entry /\ captured[j] # "other"

(* A client that goes on listening has all that the target said before it   *)
(* finished, unless a write to the target failed or the session was closed  *)
(* for the client to retry: nothing of the teardown overtakes the answers.  *)
AnswersDelivered ==
    stage = "over" /\ client.end = "open" /\ target.end = "finished"
      /\ forward.pc # "failed" /\ waiter # "closed" =>
        reverse.written = target.sent

(* Whichever of the two streams ends first, the other one is released from  *)
(* its read, both connections are closed, and nobody waits any more.        *)
EndsTogether ==
    (forward.pc \in {"ended", "failed"} \/ reverse.pc = "ended") ~>
        /\ stage = "over"
        /\ forward.pc \in {"ended", "failed"}
        /\ waiter # "waiting"
=============================================================================
