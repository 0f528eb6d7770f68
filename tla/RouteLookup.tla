---------------------------- MODULE RouteLookup ----------------------------
(***************************************************************************)
(* The route lookup server (cmd-route/server.go): for an address, or for   *)
(* every address of a domain name, the route the kernel takes and, if the  *)
(* query asks for it, what whois or ipinfo.io says of the network.  What   *)
(* they say is kept in a cache that every request reads and writes, that   *)
(* has no bound and whose entries do not expire.                           *)
(*                                                                         *)
(* "ip route get", DNS, whois and the API are external: each may fail, and *)
(* whois may answer with nothing that getNetworkInfoFromWhois recognises,  *)
(* which is not an error for it.                                           *)
(***************************************************************************)
EXTENDS Integers, Sequences

CONSTANTS
    Requests,    \* requests at the same time
    Addresses,
    Domains,     \* the names asked for, with their addresses: sequences, not empty
                 \* (resolveDomain refuses a name without one)
    Direct,      \* ResolvedFrom of an address that was asked for itself
    NotCached,   \* no entry
    Faults       \* what may fail, out of AllFaults

AllFaults == {"dns", "route", "whois", "api"}
Names == DOMAIN Domains

ConstantsOK ==
    /\ \A d \in Names : Domains[d] \in Seq(Addresses) \ {<<>>}
    /\ Direct \notin Names /\ Names \cap Addresses = {}
    /\ Faults \subseteq AllFaults

VARIABLES
    cache,    \* whoisCache.items
    request   \* each request, with the response it builds up

vars == <<cache, request>>

(* A NetworkInfo: whose it is, which name it came up for, and what it says. *)
Data == {"full", "empty", "error"}
Info(a, data) == [address |-> a, from |-> Direct, data |-> data]
NewRequest == [pc |-> "new", input |-> Direct, as |-> FALSE, addresses |-> <<>>,
               routes |-> <<>>, infos |-> <<>>]

Init ==
    /\ cache = [a \in Addresses |-> NotCached]
    /\ request = [r \in Requests |-> NewRequest]

At(r, pc) == request[r].pc = pc
Goes(r, pc) == request' = [request EXCEPT ![r].pc = pc]

(* routeHandler, and processInput up to its loop: an address stands for     *)
(* itself, a name that does not resolve ends the request.                   *)
Ask(r, input, as) ==
    /\ At(r, "new")
    /\ \/ request' = [request EXCEPT ![r] =
              [NewRequest EXCEPT !.pc = "route", !.input = input, !.as = as,
                 !.addresses = IF input \in Names THEN Domains[input] ELSE <<input>>]]
       \/ input \in Names /\ "dns" \in Faults /\ Goes(r, "refused")
    /\ UNCHANGED cache

(* The address the loop is at: as many have been dealt with as have a route. *)
Position(r) == Len(request[r].routes) + (IF At(r, "route") THEN 1 ELSE 0)
Address(r) == request[r].addresses[Position(r)]

(* Where the loop goes on once an address has its route and its info. *)
Onward(req) == IF Len(req.routes) < Len(req.addresses) THEN "route" ELSE "answered"

(* getRouteInfo.  An error is an entry of its own for one of the addresses  *)
(* of a name, and the end of a request for an address.                      *)
GetRoute(r) ==
    LET with(ok) == [request[r] EXCEPT !.routes = Append(@, [address |-> Address(r), ok |-> ok])]
    IN
    /\ At(r, "route")
    /\ \/ \E ok \in {TRUE} \cup (IF "route" \in Faults THEN {FALSE} ELSE {}) :
            /\ ok \/ request[r].input \in Names
            /\ request' = [request EXCEPT ![r] =
                 [with(ok) EXCEPT !.pc = IF request[r].as THEN "cache" ELSE Onward(with(ok))]]
       \/ /\ "route" \in Faults
          /\ request[r].input \notin Names
          /\ Goes(r, "refused")
    /\ UNCHANGED cache

(* The form a regression could give Reports; nothing uses it. *)
ReportsAsCached(r, info) ==
    LET done == [request[r] EXCEPT !.infos = Append(@, info)]
    IN  request' = [request EXCEPT ![r] = [done EXCEPT !.pc = Onward(done)]]

(* The answer is a copy, and is only then marked with the request's input.  *)
Origin(r) == IF request[r].input \in Names THEN request[r].input ELSE Direct
Reports(r, info) ==
    LET done == [request[r] EXCEPT !.infos = Append(@, [info EXCEPT !.from = Origin(r)])]
    IN  request' = [request EXCEPT ![r] = [done EXCEPT !.pc = Onward(done)]]

(* getNetworkInfo: the cache, then whois, then the API.  What brings no     *)
(* error is saved, whatever has been saved meanwhile.                       *)
ReadCache(r) ==
    /\ At(r, "cache")
    /\ IF cache[Address(r)] = NotCached THEN Goes(r, "whois") ELSE Reports(r, cache[Address(r)])
    /\ UNCHANGED cache

Save(r, info) ==
    /\ cache' = [cache EXCEPT ![Address(r)] = info]
    /\ Reports(r, info)

Whois(r) ==
    /\ At(r, "whois")
    /\ \/ \E data \in {"full", "empty"} : Save(r, Info(Address(r), data))
       \/ /\ "whois" \in Faults
          /\ Goes(r, "api")
          /\ UNCHANGED cache

Api(r) ==
    /\ At(r, "api")
    /\ \/ Save(r, Info(Address(r), "full"))
       \/ /\ "api" \in Faults
          /\ Reports(r, Info(Address(r), "error"))
          /\ UNCHANGED cache

Next ==
    \E r \in Requests :
       \/ \E input \in Names \cup Addresses, as \in BOOLEAN : Ask(r, input, as)
       \/ GetRoute(r) \/ ReadCache(r) \/ Whois(r) \/ Api(r)

Spec == Init /\ [][Next]_vars

-----------------------------------------------------------------------------
(* Requests for several names of one address share what the cache has, and  *)
(* each answer is still its own: entry by entry about the addresses asked   *)
(* for, in their order, every info marked with the request's own input.     *)
(* The cache never forgets, so what it has of an address is an answer about *)
(* that address, nobody's mark on it, and no failed lookup (processInput,   *)
(* getNetworkInfo).                                                         *)
AnswersFit ==
    /\ \A r \in Requests : At(r, "answered") =>
        LET asked == request[r].addresses IN
        /\ [i \in DOMAIN request[r].routes |-> request[r].routes[i].address] = asked
        /\ request[r].as =>
             request[r].infos = [i \in DOMAIN asked |->
               [address |-> asked[i], from |-> Origin(r), data |-> request[r].infos[i].data]]
    /\ \A a \in Addresses : cache[a] # NotCached =>
        cache[a].address = a /\ cache[a].from = Direct /\ cache[a].data # "error"
=============================================================================
