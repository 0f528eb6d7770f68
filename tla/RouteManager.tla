---------------------------- MODULE RouteManager ----------------------------
(***************************************************************************)
(* The route manager (cmd-route-manager/main.go): an HTTP server that adds *)
(* and deletes routes in a running BIRD and writes them to a file that     *)
(* BIRD reads when it starts.                                              *)
(*                                                                         *)
(* Every handler makes a manager of its own, whose map is read from the    *)
(* file under mu; mu is released before AddRoute or DeleteRoute takes it   *)
(* again, so the map may be old when it is used.  BIRD and the file change *)
(* one after the other; either step may fail and the process may die in    *)
(* between.  BIRD is external: it has at most one route for a prefix, and  *)
(* refuses to add one it has and to delete one it has not.                 *)
(*                                                                         *)
(* The file is a sequence of lines.  The texts of prefixes and nexthops    *)
(* are left out, but for two things: which prefix begins with the text of  *)
(* another, and that loadRoutesFromFile takes the word "via" for a nexthop. *)
(***************************************************************************)
EXTENDS Integers, Sequences, FiniteSets, SequencesExt

CONSTANTS
    Requests,      \* the requests, each handled once, all at the same time if need be
    Networks,      \* the prefixes asked about
    Begins,        \* pairs of them: the text of the first begins the second
    Vpn, Blackhole,\* the nexthops: an address of the VPN, and "blackhole"
    Via,           \* the word that comes back as the nexthop of any other route
    None,          \* no route, no nexthop
    Texts, NoText, \* descriptions, and the empty one
    Nobody,        \* nobody holds mu
    Faults,        \* what may go wrong, out of AllFaults
    MaxCrashes     \* bound: crashes of the route manager and restarts of BIRD

Nexthops == {Vpn, Blackhole}
Types == {"vpn", "blackhole", "other"}
AllFaults == {"read", "bird", "disk", "tear", "crash", "restart"}

ASSUME NetworksAssumption == IsFiniteSet(Networks)
ASSUME BeginsAssumption == Begins \subseteq Networks \X Networks
ASSUME NobodyAssumption == Nobody \notin Requests
ASSUME NexthopsAssumption == None \notin {Vpn, Blackhole, Via} /\ NoText \notin Texts
ASSUME FaultsAssumption == Faults \subseteq AllFaults /\ MaxCrashes \in Nat

VARIABLES
    bird,     \* BIRD's routes: the nexthop of every prefix, or None
    file,     \* the lines of the dynamic configuration file
    open,     \* its last line has no newline
    mu,       \* who holds mu
    req,      \* the handler of each request
    ticker,   \* updateRouteMetrics: idle, or the counts it is about to set
    gauge,    \* bird_routes_total, by type
    mishaps,  \* prefixes one of whose changes stopped half-way
    crashes

vars == <<bird, file, open, mu, req, ticker, gauge, mishaps, crashes>>
daemon == <<ticker, gauge, crashes>>

-----------------------------------------------------------------------------
(* The file.  A torn line is what a write that failed left of a route.     *)
Comment(t) == [kind |-> "comment", prefix |-> None, nexthop |-> None, text |-> t]
Route(p, n) == [kind |-> "route", prefix |-> p, nexthop |-> n, text |-> NoText]
Torn == [kind |-> "torn", prefix |-> None, nexthop |-> None, text |-> NoText]

IsComment(line) == line.kind = "comment"
IsRoute(line) == line.kind = "route"

(* What appendToConfigFile writes for a route. *)
Entry(p, n, t) == (IF t = NoText THEN <<>> ELSE <<Comment(t)>>) \o <<Route(p, n)>>

(* Text written after a line without newline becomes part of that line: of *)
(* a comment, of the nexthop of a route, of what cannot be read any more.  *)
Glued(line, next) ==
    IF IsRoute(line)
    THEN IF IsRoute(next) THEN Route(line.prefix, Via) ELSE Torn
    ELSE line
Appended(f, lines) ==
    IF open /\ f # <<>> /\ lines # <<>>
    THEN Front(f) \o <<Glued(Last(f), Head(lines))>> \o Tail(lines)
    ELSE f \o lines

(* What may be there of an entry when writing it failed. *)
Cut(line) == IF IsComment(line) THEN line ELSE Torn
Remains(entry) ==
    {[lines |-> <<>>, open |-> open]} \cup
    (IF "tear" \notin Faults THEN {}
     ELSE {[lines |-> SubSeq(entry, 1, i - 1) \o <<Cut(entry[i])>>, open |-> TRUE] :
             i \in DOMAIN entry}
          \cup {[lines |-> SubSeq(entry, 1, i), open |-> FALSE] : i \in 1..(Len(entry) - 1)})

(* removeFromConfigFile drops every line whose text begins like the route, *)
(* and the comments right after it.                                        *)
Matches(line, p) == IsRoute(line) /\ (line.prefix = p \/ <<p, line.prefix>> \in Begins)
Dropped(f, p) ==
    {i \in DOMAIN f :
       \/ Matches(f[i], p)
       \/ \E j \in 1..(i - 1) : Matches(f[j], p) /\ \A k \in (j + 1)..i : IsComment(f[k])}
Nth(S, k) == CHOOSE i \in S : Cardinality({j \in S : j < i}) = k - 1
Without(f, p) ==
    LET kept == DOMAIN f \ Dropped(f, p)
    IN  [k \in 1..Cardinality(kept) |-> f[Nth(kept, k)]]

(* loadRoutesFromFile: the last line of a prefix counts, and it is         *)
(* described by the last comment since the route line before it.           *)
LinesOf(f, p) == {i \in DOMAIN f : IsRoute(f[i]) /\ f[i].prefix = p}
LastOf(S) == CHOOSE i \in S : \A j \in S : j <= i
Description(f, i) ==
    LET own == {j \in 1..(i - 1) : IsComment(f[j]) /\ \A k \in j..(i - 1) : ~IsRoute(f[k])}
    IN  IF own = {} THEN NoText ELSE f[LastOf(own)].text
(* Next to some definitions stands the form a regression could give them;   *)
(* no action uses it.                                                      *)
ReadNexthopAsWritten(n) == n
ReadNexthop(n) == IF n = Blackhole THEN Blackhole ELSE Via
Absent == [nexthop |-> None, text |-> NoText]
Loaded(f) ==
    [p \in Networks |->
       IF LinesOf(f, p) = {} THEN Absent
       ELSE LET i == LastOf(LinesOf(f, p))
            IN  [nexthop |-> ReadNexthop(f[i].nexthop), text |-> Description(f, i)]]

(* getRouteType *)
TypeOf(n) == IF n = Vpn THEN "vpn" ELSE IF n = Blackhole THEN "blackhole" ELSE "other"
Counts(map) ==
    [t \in Types |-> Cardinality({p \in Networks : map[p] # Absent /\ TypeOf(map[p].nexthop) = t})]

-----------------------------------------------------------------------------
(* A request: what is asked, the map its manager has read, and whether all *)
(* steps of the change have succeeded so far.                              *)
NoRoutes == [p \in Networks |-> Absent]
NoCounts == [t \in Types |-> 0]
Waiting == [pc |-> "waiting", op |-> "add", prefix |-> None, nexthop |-> None,
            text |-> NoText, routes |-> NoRoutes]

Init ==
    /\ bird = [p \in Networks |-> None]
    /\ file = <<>>
    /\ open = FALSE
    /\ mu = Nobody
    /\ req = [r \in Requests |-> Waiting]
    /\ ticker = [pc |-> "idle", counts |-> NoCounts]
    /\ gauge = NoCounts
    /\ mishaps = {}
    /\ crashes = 0

At(r, pc) == req[r].pc = pc
(* A manager is used once and lives as long as its request. *)
Ended(result) == [Waiting EXCEPT !.pc = result]
Proceeds(r, pc) ==
    /\ req' = [req EXCEPT ![r].pc = pc, ![r].routes = NoRoutes]
    /\ mu' = r
Answers(r, result) ==
    /\ req' = [req EXCEPT ![r] = Ended(result)]
    /\ mu' = Nobody
StopsHalfWay(r) == mishaps' = mishaps \cup {req[r].prefix}
HalfWay == {"append", "undo", "remove"}

(* addRouteHandler and deleteRouteHandler.  A missing nexthop is "blackhole". *)
Receive(r, op, p, n, t) ==
    /\ At(r, "waiting")
    /\ op = "delete" => n = Blackhole /\ t = NoText
    /\ req' = [req EXCEPT ![r] =
                 [pc |-> "load", op |-> op, prefix |-> p, nexthop |-> n, text |-> t,
                  routes |-> NoRoutes]]
    /\ UNCHANGED <<bird, file, open, mu, mishaps, daemon>>

(* NewBirdRouteManager: an error of loadRoutesFromFile leaves the map empty. *)
Load(r) ==
    /\ At(r, "load")
    /\ mu = Nobody
    /\ \E map \in {Loaded(file)} \cup (IF "read" \in Faults THEN {NoRoutes} ELSE {}) :
         req' = [req EXCEPT ![r].pc = "enter", ![r].routes = map]
    /\ UNCHANGED <<bird, file, open, mu, mishaps, daemon>>

Exists(r) == req[r].routes[req[r].prefix] # Absent
Enters(r) == At(r, "enter") /\ mu = Nobody

(* The checks of the map: the route is there already, or it is not there. *)
Refuse(r) ==
    /\ Enters(r)
    /\ Exists(r) <=> req[r].op = "add"
    /\ Answers(r, "failed")
    /\ UNCHANGED <<bird, file, open, mishaps, daemon>>

BirdFails == "bird" \in Faults

AddToBirdAnyway(r) ==
    LET p == req[r].prefix IN
    /\ Enters(r) /\ req[r].op = "add" /\ ~Exists(r)
    /\ bird' = [bird EXCEPT ![p] = IF bird[p] = None THEN req[r].nexthop ELSE @]
    /\ Proceeds(r, "append")
    /\ UNCHANGED <<file, open, mishaps, daemon>>

(* AddRoute *)
AddToBird(r) ==
    LET p == req[r].prefix IN
    /\ Enters(r) /\ req[r].op = "add" /\ ~Exists(r)
    /\ \/ /\ bird[p] = None
          /\ bird' = [bird EXCEPT ![p] = req[r].nexthop]
          /\ Proceeds(r, "append")
       \/ /\ bird[p] # None \/ BirdFails
          /\ Answers(r, "failed")
          /\ UNCHANGED bird
    /\ UNCHANGED <<file, open, mishaps, daemon>>

AppendToFile(r) ==
    LET entry == Entry(req[r].prefix, req[r].nexthop, req[r].text)
        type == TypeOf(req[r].nexthop)
    IN
    /\ At(r, "append")
    /\ \/ /\ file' = Appended(file, entry)
          /\ open' = FALSE
          /\ gauge' = [gauge EXCEPT ![type] = @ + 1]
          /\ Answers(r, "done")
       \/ /\ Faults \cap {"disk", "tear"} # {}
          /\ \E left \in Remains(entry) :
               /\ file' = Appended(file, left.lines)
               /\ open' = left.open
          /\ Proceeds(r, "undo")
          /\ UNCHANGED gauge
    /\ UNCHANGED <<bird, ticker, mishaps, crashes>>

UndoNothing(r) ==
    /\ At(r, "undo")
    /\ Answers(r, "failed")
    /\ UNCHANGED <<bird, file, open, mishaps, daemon>>

(* The rollback, whose own error is ignored. *)
UndoInBird(r) ==
    /\ At(r, "undo")
    /\ \/ /\ bird' = [bird EXCEPT ![req[r].prefix] = None]
          /\ UNCHANGED mishaps
       \/ /\ BirdFails
          /\ StopsHalfWay(r)
          /\ UNCHANGED bird
    /\ Answers(r, "failed")
    /\ UNCHANGED <<file, open, daemon>>

(* DeleteRoute.  It goes on whatever birdc says. *)
DeleteFromBird(r) ==
    LET p == req[r].prefix IN
    /\ Enters(r) /\ req[r].op = "delete" /\ Exists(r)
    /\ \/ bird' = [bird EXCEPT ![p] = None] /\ UNCHANGED mishaps
       \/ BirdFails /\ bird[p] # None /\ StopsHalfWay(r) /\ UNCHANGED bird
    /\ Proceeds(r, "remove")
    /\ UNCHANGED <<file, open, daemon>>

RemoveFromFile(r) ==
    LET p == req[r].prefix IN
    /\ At(r, "remove")
    /\ \/ /\ file' = Without(file, p)
          /\ open' = (open /\ Without(file, p) # <<>>)
          /\ mishaps' = IF bird[p] = None THEN mishaps \ {p} ELSE mishaps
          /\ Answers(r, "done")
       \/ /\ "disk" \in Faults
          /\ StopsHalfWay(r)
          /\ Answers(r, "failed")
          /\ UNCHANGED <<file, open>>
    /\ UNCHANGED <<bird, daemon>>

-----------------------------------------------------------------------------
(* updateRouteMetrics, every 30 seconds; it sets the gauges without mu. *)
Count ==
    /\ ticker.pc = "idle"
    /\ mu = Nobody
    /\ ticker' = [pc |-> "counted", counts |-> Counts(Loaded(file))]
    /\ UNCHANGED <<bird, file, open, mu, req, gauge, mishaps, crashes>>

SetGaugesOfTypesFound ==
    /\ ticker.pc = "counted"
    /\ gauge' = [t \in Types |-> IF ticker.counts[t] > 0 THEN ticker.counts[t] ELSE gauge[t]]
    /\ ticker' = [pc |-> "idle", counts |-> NoCounts]
    /\ UNCHANGED <<bird, file, open, mu, req, mishaps, crashes>>

SetGauges ==
    /\ ticker.pc = "counted"
    /\ gauge' = ticker.counts
    /\ ticker' = [pc |-> "idle", counts |-> NoCounts]
    /\ UNCHANGED <<bird, file, open, mu, req, mishaps, crashes>>

UnderWay == {r \in Requests : req[r].pc \notin {"waiting", "done", "failed", "lost"}}

(* The route manager dies and is started again. *)
Crash ==
    /\ "crash" \in Faults
    /\ crashes < MaxCrashes
    /\ crashes' = crashes + 1
    /\ req' = [r \in Requests |-> IF r \in UnderWay THEN Ended("lost") ELSE req[r]]
    /\ mishaps' = mishaps \cup {req[r].prefix : r \in {q \in Requests : req[q].pc \in HalfWay}}
    /\ mu' = Nobody
    /\ ticker' = [pc |-> "idle", counts |-> NoCounts]
    /\ gauge' = NoCounts
    /\ UNCHANGED <<bird, file, open>>

(* BIRD is restarted and has what the file says. *)
RestartBird ==
    /\ "restart" \in Faults
    /\ crashes < MaxCrashes
    /\ crashes' = crashes + 1
    /\ bird' = [p \in Networks |->
                  IF LinesOf(file, p) = {} THEN None ELSE file[LastOf(LinesOf(file, p))].nexthop]
    /\ mishaps' = mishaps \cup {req[r].prefix : r \in {q \in Requests : req[q].pc \in HalfWay}}
    /\ UNCHANGED <<file, open, mu, req, ticker, gauge>>

-----------------------------------------------------------------------------
Handle(r) ==
    \/ Load(r) \/ Refuse(r)
    \/ AddToBird(r) \/ AppendToFile(r) \/ UndoInBird(r)
    \/ DeleteFromBird(r) \/ RemoveFromFile(r)

Next ==
    \/ \E r \in Requests :
         \/ \E op \in {"add", "delete"}, p \in Networks, n \in Nexthops, t \in Texts \cup {NoText} :
              Receive(r, op, p, n, t)
         \/ Handle(r)
    \/ Count
    \/ SetGauges
    \/ Crash
    \/ RestartBird

Spec == Init /\ [][Next]_vars

(* Handlers and the metrics goroutine run; nobody need send a request. *)
Fairness == WF_vars(Count) /\ WF_vars(SetGauges) /\ \A r \in Requests : WF_vars(Handle(r))
FairSpec == Spec /\ Fairness

-----------------------------------------------------------------------------
Lines == [kind : {"comment", "route", "torn"}, prefix : Networks \cup {None},
          nexthop : Nexthops \cup {Via, None}, text : Texts \cup {NoText}]
Map == [Networks -> [nexthop : {Blackhole, Via, None}, text : Texts \cup {NoText}]]
Pcs == {"waiting", "load", "enter", "done", "failed", "lost"} \cup HalfWay

TypeOK ==
    /\ bird \in [Networks -> Nexthops \cup {Via, None}]
    /\ file \in Seq(Lines)
    /\ open \in BOOLEAN
    /\ mu \in Requests \cup {Nobody}
    /\ req \in [Requests -> [pc : Pcs, op : {"add", "delete"}, prefix : Networks \cup {None},
                             nexthop : Nexthops \cup {None}, text : Texts \cup {NoText},
                             routes : Map]]
    /\ ticker \in [pc : {"idle", "counted"}, counts : [Types -> Nat]]
    /\ gauge \in [Types -> Nat]
    /\ mishaps \subseteq Networks
    /\ crashes \in 0..MaxCrashes

(* BIRD and the file part over a prefix only while a request about that     *)
(* very prefix is between its two steps, or after one that a failing step   *)
(* or a crash stopped there; one delete all of whose steps succeed brings   *)
(* them together again (AddRoute and its rollback, DeleteRoute).            *)
DriftHasCause ==
    \A p \in Networks :
        (bird[p] = None) # (LinesOf(file, p) = {}) =>
            \/ p \in mishaps
            \/ \E r \in Requests : mu = r /\ req[r].pc \in HalfWay /\ req[r].prefix = p

(* However many requests add a prefix with maps read before the first of    *)
(* them wrote it, the file has it once: what the check of the map lets      *)
(* pass, BIRD refuses, and the error of birdc must end the request.         *)
OneLinePerPrefix ==
    \A p \in Networks \ mishaps : Cardinality(LinesOf(file, p)) <= 1

(* The gauges are increased by every add, never decreased, and set without  *)
(* mu to counts that may be old; once no request comes any more they show   *)
(* what the file holds, for good.                                           *)
GaugesSettle == <>[](gauge = Counts(Loaded(file)))

(* A delete leaves the other routes what they are, nexthop and description  *)
(* (the comment in removeFromConfigFile: it skips the comment that belongs  *)
(* to the route it deletes).                                                *)
DeleteKeepsOthers ==
    [][\A r \in Requests : RemoveFromFile(r) =>
         \A p \in Networks \ {req[r].prefix} : Loaded(file)'[p] = Loaded(file)[p]]_vars
=============================================================================
