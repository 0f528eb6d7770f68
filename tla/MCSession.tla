----------------------------- MODULE MCSession -----------------------------
(* A session from its first byte to its last, for TLC. *)
EXTENDS Session

-----------------------------------------------------------------------------
(* Clients: every form of request, each cut anywhere, with and without a    *)
(* payload right behind it.                                                 *)
Names == {<<"www", "example", "com">>, <<"EXAMPLE", "com", "">>, <<"other", "com">>}
OtherRequests ==
    {<<"5", "1", "0", "1", "10", "0", "0", "7", "0", "80">>,
     <<"5", "1", "0", "1", "0", "0", "0", "0", "0", "80">>,
     <<"5", "1", "0", "4", "0", "80">>, <<"5", "2", "0", "1", "10", "0", "0", "7", "0", "80">>,
     <<"5", "1", "0", "3", "0", "0", "80">>}
NamedRequest(name) == <<"5", "1", "0", "3", ToString(Len(name))>> \o name \o <<"1", "bb">>
Requests == {NamedRequest(n) : n \in Names} \cup OtherRequests
Greetings == {<<"5", "1", "0">>, <<"5", "2", "2", "0">>, <<"5", "1", "2">>, <<"4", "1", "0">>}
Payload == <<"16", "3">>

Whole(greeting, request, payload) ==
    [bytes |-> greeting \o request \o payload, payload |-> Len(payload)]
Cuts(bytes) == {[bytes |-> SubSeq(bytes, 1, n), payload |-> 0] : n \in 0..(Len(bytes) - 1)}
Clients ==
    {Whole(<<"5", "1", "0">>, r, Payload) : r \in Requests}
    \cup {Whole(g, NamedRequest(<<"other", "com">>), Payload) : g \in Greetings}
    \cup UNION {Cuts(<<"5", "1", "0">> \o r) : r \in Requests}

(* Upstreams, likewise. *)
Answers(auth) ==
    {auth \o <<"5", "0", "0">> \o address :
       address \in {<<"1", "10", "0", "0", "9", "0", "80">>, <<"3", "1", "bound", "0", "80">>,
                    <<"4">> \o [i \in 1..18 |-> "0"]}}
    \cup {auth \o <<"5", "1", "0", "1", "0", "0", "0", "0", "0", "0">>}
Accepting == Answers(<<"5", "0">>) \cup Answers(<<"5", "2", "1", "0">>)
Refusing == {<<"5", "ff">>, <<"5", "2", "1", "1">>, <<"4", "0">>}
Upstreams ==
    "de" :> {[bytes |-> a \o Payload, payload |-> 2] : a \in Accepting}
             \cup {[bytes |-> a, payload |-> 0] : a \in Refusing}
             \cup Cuts(<<"5", "2", "1", "0", "5", "0", "0", "1", "0", "0", "0", "0", "0", "80">>)
    @@ "vpn" :> {[bytes |-> <<"5", "0", "5", "0", "0", "3", "0", "0", "80">>, payload |-> 0],
                 [bytes |-> <<"5", "ff">>, payload |-> 0]}

-----------------------------------------------------------------------------
Strategy(name, list, action, egress, dpi, upstream, param, fallback) ==
    [name |-> name, list |-> list, action |-> action, egress |-> egress, dpi |-> dpi,
     upstream |-> upstream, param |-> param, fallback |-> fallback]
Exact(labels) == [labels |-> labels, suffix |-> FALSE]
Below(labels) == [labels |-> labels, suffix |-> TRUE]
Strategies ==
    {Strategy("fixed", {Below(<<"example", "com">>)}, "", "socks5", "", "de", "", "none"),
     Strategy("old", {Exact(<<"www", "example", "com">>)}, "SOCKS5", "", "", "", "de", ""),
     Strategy("cut", {Below(<<"com">>)}, "fragment", "", "", "", "", ""),
     Strategy("decoy", {Exact(<<"www", "example", "com">>)}, "", "direct", "fake-sni", "", "", "vpn"),
     Strategy("broken", {}, "", "socks5", "", "gone", "", "")}
Defaults ==
    {[egress |-> "", dpi |-> "", upstream |-> "", fallback |-> fallback] : fallback \in {"", "none"}}
    \cup {[egress |-> "socks5", dpi |-> "", upstream |-> "de", fallback |-> ""]}
Files ==
    {[upstreams |-> {"vpn", "de"}, detection |-> detection, default |-> default,
      strategies |-> strategies] :
       detection \in {"", "vpn", "gone"}, default \in Defaults,
       strategies \in UNION {[1..n -> Strategies] : n \in 0..2}}
Known == {"", "vpn", "old"}

Lists ==
    {[open |-> TRUE, allow |-> {}, deny |-> {Exact(<<"www", "example", "com">>)}],
     [open |-> FALSE, allow |-> {Below(<<"example", "com">>)}, deny |-> {}]}

Cases ==
    [l \in {"www", "example", "com", "other", "", "10", "0", "7", "socks5", "fragment", "fake-sni"} |-> l]
    @@ "EXAMPLE" :> "example" @@ "SOCKS5" :> "socks5"

(* ClientHellos with and without a session, with extensions around the name. *)
Other(type, data) == [type |-> type, data |-> data]
Sayings ==
    [session : {<<>>, <<9, 9>>}, suites : {<<19, 1>>, <<19, 1, 19, 2>>}, methods : {<<0>>},
     before : {<<>>, <<Other(10, <<0, 29>>)>>}, name : {<<97>>, <<97, 46, 98>>},
     after : {<<>>, <<Other(23, <<>>), Other(11, <<1, 0>>)>>}]

(* What the streams may come with, and what is sent through them. *)
StreamPolicies ==
    {p \in [fragments : BOOLEAN, decoys : BOOLEAN, probes : BOOLEAN] : ~(p.fragments /\ p.decoys)}
FirstRecords ==
    {[tls |-> TRUE, length |-> n, decodes |-> TRUE, named |-> TRUE] : n \in 2..4}
    \cup {[tls |-> TRUE, length |-> 3, decodes |-> FALSE, named |-> FALSE],
          [tls |-> FALSE, length |-> 2, decodes |-> FALSE, named |-> FALSE]}
Earlier == {<<"stale">>}
=============================================================================
