----------------------------- MODULE Handshake -----------------------------
(***************************************************************************)
(* From an accepted client to a connection to its target: AuthRequest,     *)
(* ProcessRequest and connectAfterDirectFailure (cmd/socks5.go), and the   *)
(* SOCKS5 client that dials through an upstream                            *)
(* (internal/socksclient/client.go).  One goroutine does all of it.        *)
(*                                                                         *)
(* Both conversations are streams of bytes out of which every ReadFull     *)
(* takes a given number; a stream that ends early stands for a peer that   *)
(* leaves and, towards an upstream, for the deadline of the dial.  What    *)
(* comes behind the handshake, the payload, may already be there.  A byte  *)
(* is a string: a digit, or a label, which stands for the bytes of a name. *)
(***************************************************************************)
EXTENDS Integers, Sequences, FiniteSets, SequencesExt, Policy

CONSTANTS
    ClientStreams,    \* what clients send: [bytes, payload: how many of the last are payload]
    UpstreamStreams,  \* what the upstream of each name answers, of the same form
    Configs,          \* configuration files
    LearnedUpstreams, \* what the learned store may have for the host; "": nothing
    Filters           \* allow and deny lists of learning

Many == 100    \* more bytes than any stream has
Value(byte) ==
    CASE byte = "0" -> 0 [] byte = "1" -> 1 [] byte = "2" -> 2 [] byte = "3" -> 3
      [] byte = "4" -> 4 [] OTHER -> Many
AnyAddress == <<"0", "0", "0", "0">>

(* What RFC 1928 and RFC 1929 call a message, as a whole: a greeting, a     *)
(* request to connect, an agreement on how to authenticate together with    *)
(* its outcome, a success reply.                                            *)
IsGreeting(m) == Len(m) >= 2 /\ m[1] = "5" /\ Len(m) = 2 + Value(m[2])
IsRequest(m) ==
    /\ Len(m) >= 5 /\ SubSeq(m, 1, 3) = <<"5", "1", "0">>
    /\ \/ m[4] = "1" /\ Len(m) = 10
       \/ m[4] = "3" /\ Len(m) = 7 + Value(m[5])
IsAgreement(m) == m \in {<<"5", "0">>, <<"5", "2", "1", "0">>}
IsAnswer(m) ==
    /\ Len(m) >= 5 /\ SubSeq(m, 1, 3) = <<"5", "0", "0">>
    /\ \/ m[4] = "1" /\ Len(m) = 10
       \/ m[4] = "4" /\ Len(m) = 22
       \/ m[4] = "3" /\ Len(m) = 7 + Value(m[5])

(* The payload is what stands behind the two messages, if both are there.   *)
Streams == [bytes : Seq(STRING), payload : Nat]
ClientMarked(s) ==
    \A i, j \in 0..Len(s.bytes) :
        IsGreeting(SubSeq(s.bytes, 1, i)) /\ IsRequest(SubSeq(s.bytes, i + 1, j)) =>
            s.payload = Len(s.bytes) - j
UpstreamMarked(s) ==
    \A i, j \in 0..Len(s.bytes) :
        IsAgreement(SubSeq(s.bytes, 1, i)) /\ IsAnswer(SubSeq(s.bytes, i + 1, j)) =>
            s.payload = Len(s.bytes) - j

Lists == SUBSET [labels : Seq(STRING) \ {<<>>}, suffix : BOOLEAN]
DefaultPolicies ==
    [egress : STRING, dpi : STRING, upstream : STRING, fallback : STRING]
WrittenStrategies ==
    [name : STRING, list : Lists, action : STRING, egress : STRING, dpi : STRING,
     upstream : STRING, param : STRING, fallback : STRING]

ConstantsOK ==
    /\ ClientStreams \subseteq Streams
    /\ \A s \in ClientStreams : Len(s.bytes) < Many /\ ClientMarked(s)
    /\ \A u \in DOMAIN UpstreamStreams : \A s \in UpstreamStreams[u] :
         s \in Streams /\ Len(s.bytes) < Many /\ UpstreamMarked(s)
    /\ Configs \subseteq [upstreams : SUBSET DOMAIN UpstreamStreams, detection : STRING,
                         default : DefaultPolicies, strategies : Seq(WrittenStrategies)]
    /\ Filters \subseteq [open : BOOLEAN, allow : Lists, deny : Lists]
    /\ "" \in LearnedUpstreams

VARIABLES
    client,    \* what the client sends, not read yet
    upstream,  \* the same of the upstream being dialed
    session,   \* the progress of ProcessRequest
    dials,     \* the connections tried, in order
    opened,    \* the connections that are open: subset of what was dialed
    deadline   \* the upstream's connection has a deadline

vars == <<client, upstream, session, dials, opened, deadline>>

NoStream == [bytes |-> <<>>, payload |-> 0]
NoPolicy == [name |-> "", egress |-> "", dpi |-> "", upstream |-> "", fallback |-> ""]
NoConfig == [upstreams |-> {}, detection |-> "", default |-> NoPolicy, strategies |-> <<>>]
NewSession ==
    [pc |-> "greeting", config |-> NoConfig, filters |-> [open |-> TRUE, allow |-> {}, deny |-> {}],
     host |-> <<>>, port |-> <<>>, known |-> "", policy |-> NoPolicy, learnt |-> ""]

Init ==
    /\ client \in ClientStreams
    /\ upstream = NoStream
    /\ session = NewSession
    /\ dials = <<>>
    /\ opened = {}
    /\ deadline = FALSE

Has(stream, n) == Len(stream.bytes) >= n
Taken(stream, n) == [stream EXCEPT !.bytes = SubSeq(@, n + 1, Len(@))]
Goes(pc) == session' = [session EXCEPT !.pc = pc]

-----------------------------------------------------------------------------
(* The client's side.                                                      *)

GreetingEnd == 2 + Value(client.bytes[2])
GreetingRead == Has(client, 2) /\ client.bytes[1] = "5" /\ Has(client, GreetingEnd)
OffersNoAuth == \E i \in 3..GreetingEnd : client.bytes[i] = "0"

(* AuthRequest.  Writing the answer fails when the client has left. *)
AuthRequest ==
    /\ session.pc = "greeting"
    /\ \/ /\ GreetingRead /\ OffersNoAuth
          /\ client' = Taken(client, GreetingEnd)
          /\ Goes("request")
       \/ /\ Goes("over")
          /\ UNCHANGED client
    /\ UNCHANGED <<upstream, dials, opened, deadline>>

AddressEnd ==
    CASE client.bytes[4] = "1" -> 8
      [] client.bytes[4] = "3" /\ Has(client, 5) -> 5 + Value(client.bytes[5])
      [] OTHER -> Many
RequestRead ==
    /\ Has(client, 4)
    /\ SubSeq(client.bytes, 1, 3) = <<"5", "1", "0">>
    /\ Has(client, AddressEnd + 2)
RequestedHost ==
    SubSeq(client.bytes, IF client.bytes[4] = "1" THEN 5 ELSE 6, AddressEnd)
RequestedPort == SubSeq(client.bytes, AddressEnd + 1, AddressEnd + 2)

(* ProcessRequest up to the dial: 0.0.0.0 is refused. *)
ReadRequest ==
    /\ session.pc = "request"
    /\ \/ /\ RequestRead /\ RequestedHost # AnyAddress
          /\ \E file \in {c \in Configs : Valid(Loaded(c))},
                known \in LearnedUpstreams, filters \in Filters :
               session' = [session EXCEPT
                             !.pc = "dial", !.config = file, !.filters = filters,
                             !.host = RequestedHost, !.port = RequestedPort, !.known = known,
                             !.policy = PolicyFor(Loaded(file), RequestedHost, known)]
          /\ client' = Taken(client, AddressEnd + 2)
       \/ /\ RequestRead => RequestedHost = AnyAddress
          /\ Goes("over")
          /\ UNCHANGED client
    /\ UNCHANGED <<upstream, dials, opened, deadline>>

-----------------------------------------------------------------------------
(* The dial.                                                               *)

DialDirect ==
    /\ session.pc = "dial" /\ session.policy.egress # "socks5"
    /\ dials' = Append(dials, "direct")
    /\ \/ opened' = opened \cup {"direct"} /\ Goes("reply")
       \/ UNCHANGED opened /\ Goes(IF HasFallback(session.policy) THEN "fallback" ELSE "over")
    /\ UNCHANGED <<client, upstream, deadline>>

DialsUpstream == session.pc = "fallback" \/ (session.pc = "dial" /\ session.policy.egress = "socks5")
Dialed == IF session.pc = "fallback" THEN session.policy.fallback ELSE session.policy.upstream

(* dialUpstreamContext and Dial up to the greeting: the upstream may be    *)
(* unknown, its circuit open, or its address not answer.                   *)
DialUpstream ==
    /\ DialsUpstream
    /\ dials' = Append(dials, Dialed)
    /\ \/ /\ Dialed \in session.config.upstreams
          /\ upstream' \in UpstreamStreams[Dialed]
          /\ opened' = opened \cup {Dialed}
          /\ deadline' = TRUE
          /\ Goes("negotiate")
       \/ Goes("over") /\ UNCHANGED <<upstream, opened, deadline>>
    /\ UNCHANGED client

Tried == dials[Len(dials)]
IsFallback == Len(dials) > 1

(* A part of the handshake takes n bytes if they are there and acceptable; *)
(* otherwise Dial closes the connection.                                   *)
Reads(n, acceptable) == Has(upstream, n) /\ acceptable
DialFails ==
    /\ opened' = opened \ {Tried}
    /\ Goes("over")
    /\ UNCHANGED <<client, upstream, dials, deadline>>

Starts(bytes) == IsPrefix(bytes, upstream.bytes)

(* negotiate: user and password are given even if they were not offered. *)
Negotiate ==
    /\ session.pc = "negotiate"
    /\ \/ /\ Reads(2, Starts(<<"5", "0">>) \/ Starts(<<"5", "2">>))
          /\ upstream' = Taken(upstream, 2)
          /\ Goes(IF Starts(<<"5", "2">>) THEN "authenticate" ELSE "connect")
          /\ UNCHANGED <<client, dials, opened, deadline>>
       \/ ~Reads(2, Starts(<<"5", "0">>) \/ Starts(<<"5", "2">>)) /\ DialFails

Authenticate ==
    /\ session.pc = "authenticate"
    /\ \/ /\ Reads(2, Starts(<<"1", "0">>))
          /\ upstream' = Taken(upstream, 2)
          /\ Goes("connect")
          /\ UNCHANGED <<client, dials, opened, deadline>>
       \/ ~Reads(2, Starts(<<"1", "0">>)) /\ DialFails

(* connect and discardAddress. *)
(* Next to some definitions stands the form a regression could give them;   *)
(* no action uses it.                                                      *)
AnswerEndWithoutPort ==
    CASE upstream.bytes[4] = "1" -> 10
      [] upstream.bytes[4] = "4" -> 22
      [] upstream.bytes[4] = "3" /\ Has(upstream, 5) -> 5 + Value(upstream.bytes[5])
      [] OTHER -> Many

AnswerEnd ==
    CASE upstream.bytes[4] = "1" -> 10
      [] upstream.bytes[4] = "4" -> 22
      [] upstream.bytes[4] = "3" /\ Has(upstream, 5) -> 7 + Value(upstream.bytes[5])
      [] OTHER -> Many
ConnectRead ==
    /\ session.host # <<>>
    /\ Reads(4, Starts(<<"5", "0", "0">>))
    /\ Has(upstream, AnswerEnd)

(* connectAfterDirectFailure, once the dial has succeeded: the route is     *)
(* learned if the filters let it (AddWithLimit is in LearnedStore).         *)
FellBack ==
    [session EXCEPT !.pc = "reply",
        !.policy = [@ EXCEPT !.name = "connect-fallback", !.egress = "socks5", !.dpi = "none",
                             !.upstream = Tried],
        !.learnt = IF CanLearn(session.filters, session.host) THEN Tried ELSE ""]

Connect ==
    /\ session.pc = "connect"
    /\ \/ /\ ConnectRead
          /\ upstream' = Taken(upstream, AnswerEnd)
          /\ deadline' = FALSE
          /\ session' = IF IsFallback THEN FellBack ELSE [session EXCEPT !.pc = "reply"]
          /\ UNCHANGED <<client, dials, opened>>
       \/ ~ConnectRead /\ DialFails

ReplyWithoutClose ==
    /\ session.pc = "reply"
    /\ Goes("established") \/ Goes("over")
    /\ UNCHANGED <<client, upstream, dials, opened, deadline>>

(* The success reply, or a client that has left. *)
Reply ==
    /\ session.pc = "reply"
    /\ \/ Goes("established") /\ UNCHANGED opened
       \/ Goes("over") /\ opened' = opened \ {Tried}
    /\ UNCHANGED <<client, upstream, dials, deadline>>

(* What the streams go on with. *)
Https == <<"1", "bb">>
StreamPolicy ==
    [fragments |-> session.policy.dpi = "fragment",
     decoys |-> session.policy.dpi = "fake-sni" /\ session.port = Https,
     probes |-> /\ session.policy.egress = "direct" /\ HasFallback(session.policy)
                /\ session.host # <<>>]

HandOver ==
    /\ session.pc = "established"
    /\ session' = [NewSession EXCEPT !.pc = "streams"]
    /\ client' = NoStream
    /\ upstream' = NoStream
    /\ dials' = <<>>
    /\ opened' = {}
    /\ UNCHANGED deadline

Shake ==
    \/ AuthRequest \/ ReadRequest
    \/ DialDirect \/ DialUpstream \/ Negotiate \/ Authenticate \/ Connect
    \/ Reply

Next == Shake \/ HandOver

Spec == Init /\ [][Next]_vars

-----------------------------------------------------------------------------
(* The handshakes take their own bytes and not one more: what is left for   *)
(* the streams is what client and upstream sent behind them, whatever the   *)
(* forms of the addresses, and no deadline of the dial will cut the         *)
(* connection later (ReadFull and CopyN of both sides, SetDeadline).        *)
HandedOverIntact ==
    session.pc = "established" =>
        /\ Len(client.bytes) = client.payload
        /\ Len(upstream.bytes) = upstream.payload
        /\ ~deadline

(* A session that is over leaves no connection open, and one that goes on   *)
(* has just the one it uses, whichever of the steps failed (the deferred    *)
(* Close of Dial, the Close after the reply).                               *)
NoConnectionLeaks ==
    /\ session.pc = "over" => opened = {}
    /\ session.pc \in {"reply", "established"} => opened = {Tried}

(* docs/proxy-routing.md, of the configuration as it was written: an entry  *)
(* names a host, or with a leading dot a domain and all below it; neither a *)
(* final dot nor upper case makes another name.                             *)
FinalDot(host) == host # <<>> /\ LowerCase[host[Len(host)]] = ""
Lower(host) ==
    [i \in 1..(IF FinalDot(host) THEN Len(host) - 1 ELSE Len(host)) |-> LowerCase[host[i]]]
Names(entry, host) ==
    \E k \in 1..Len(host) :
        /\ SubSeq(host, k, Len(host)) = entry.labels
        /\ k = 1 \/ (entry.suffix /\ \A i \in 1..(k - 1) : host[i] # "")
Listed(list, host) == \E entry \in list : Names(entry, Lower(host))
Static(s) == s.egress = "socks5" \/ (s.egress = "" /\ LowerCase[s.action] = "socks5")
StaticUpstream(s) == IF s.upstream = "" THEN s.param ELSE s.upstream

(* The first strategy that lists the host decides, or else the default.     *)
Decision(config, host) ==
    LET listing == {i \in DOMAIN config.strategies : Listed(config.strategies[i].list, host)}
        first == config.strategies[CHOOSE i \in listing : \A j \in listing : i <= j]
        Fallback(own) == IF own = "" THEN config.detection ELSE own
    IN  IF listing = {}
        THEN [static |-> config.default.egress = "socks5", upstream |-> config.default.upstream,
              fallback |-> Fallback(config.default.fallback)]
        ELSE [static |-> Static(first), upstream |-> StaticUpstream(first),
              fallback |-> Fallback(first.fallback)]

(* A static upstream is used and nothing else, "fallback: none" keeps the   *)
(* session direct, a learned upstream that is still configured is used and  *)
(* nothing else, and any other session is direct first, then goes through   *)
(* its fallback.  What is learned is an upstream that carried the session   *)
(* after the direct connect failed, for a host the filters allow.           *)
RouteHonoured ==
    dials # <<>> =>
        LET rule == Decision(session.config, session.host)
            learned == session.known \in session.config.upstreams /\ rule.fallback # "none"
        IN  /\ rule.static => dials = <<rule.upstream>>
            /\ ~rule.static /\ learned => dials = <<session.known>>
            /\ ~rule.static /\ ~learned =>
                 \/ dials = <<"direct">>
                 \/ dials = <<"direct", rule.fallback>> /\ rule.fallback \notin {"", "none"}
            /\ session.learnt # "" =>
                 /\ ~rule.static /\ ~learned /\ session.learnt = rule.fallback
                 /\ session.pc \in {"reply", "established", "over"}
                 /\ ~Listed(session.filters.deny, session.host)
                 /\ session.filters.open \/ Listed(session.filters.allow, session.host)
=============================================================================
