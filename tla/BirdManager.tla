---------------------------- MODULE BirdManager ----------------------------
(***************************************************************************)
(* The BIRD manager (cmd-bird-manager/main.go): programs that rewrite the  *)
(* file of exported prefixes and tell BIRD to read it.                     *)
(*                                                                         *)
(* An update writes all its routes to a temporary file of its own, renames *)
(* it over the configuration file and sends "configure soft".  A batch     *)
(* first reads the file and applies its operations to what it read.  There *)
(* is no lock: updates of several processes interleave at every step.      *)
(* BIRD is external: it reads the file when it is told to, at once or      *)
(* after the reconfiguration it is busy with, and keeps what it has when   *)
(* it cannot parse the file.                                               *)
(***************************************************************************)
EXTENDS Integers, Sequences

LOCAL INSTANCE SequencesExt

CONSTANTS
    Processes,   \* callers of UpdateStaticRoutes and BatchUpdateRoutes
    RouteLines,  \* lines that are routes
    CommentLine, \* a line that is a comment
    CutLine,     \* what is left of a line that was not written to its end
    Missing,     \* there is no file
    Nothing,     \* no content, no process
    Updates,     \* lists of routes given to UpdateStaticRoutes
    Batches,     \* sequences of operations given to BatchUpdateRoutes
    Faults       \* what may go wrong, out of AllFaults

AllFaults == {"create", "read", "rename", "disk", "socket", "crash"}
FileLines == RouteLines \cup {CommentLine}

ConstantsOK ==
    /\ Updates \subseteq Seq(FileLines)
    /\ Batches \subseteq Seq([action : {"add", "remove", "replace"}, routes : Seq(FileLines)])
    /\ CommentLine \notin RouteLines /\ CutLine \notin FileLines
    /\ Faults \subseteq AllFaults

VARIABLES
    config,     \* the configuration file
    temporary,  \* the temporary file of each process
    process,    \* where each process is, and the routes it is to write
    running,    \* what BIRD runs with
    scheduled,  \* what it is about to run with: one file, or none
    last        \* the process that replaced the file last

vars == <<config, temporary, process, running, scheduled, last>>

Holds(content, line) == \E i \in DOMAIN content : content[i] = line

(* readExistingRoutes and removeRoutes *)
Existing(content) ==
    IF content = Missing THEN <<>>
    ELSE LET IsRouteLine(line) == line # CommentLine IN SelectSeq(content, IsRouteLine)
Without(routes, toRemove) ==
    LET Kept(line) == ~Holds(toRemove, line) IN SelectSeq(routes, Kept)

(* The switch of BatchUpdateRoutes; an action it does not know is ignored. *)
Apply(routes, op) ==
    CASE op.action = "add" -> routes \o op.routes
      [] op.action = "remove" -> Without(routes, op.routes)
      [] op.action = "replace" -> op.routes
Applied(ops, routes) == FoldLeft(Apply, routes, ops)

-----------------------------------------------------------------------------
Idle == [pc |-> "idle", ops |-> <<>>, routes |-> <<>>]

Init ==
    /\ config \in {Missing} \cup Updates
    /\ temporary = [p \in Processes |-> Nothing]
    /\ process = [p \in Processes |-> Idle]
    /\ running = (IF config = Missing THEN <<>> ELSE config)
    /\ scheduled = {}
    /\ last = Nothing

At(p, pc) == process[p].pc = pc
Goes(p, pc) == process' = [process EXCEPT ![p].pc = pc]
Fails(p, fault) == fault \in Faults /\ Goes(p, "error")

CallUpdate(p, routes) ==
    /\ At(p, "idle")
    /\ process' = [process EXCEPT ![p] = [pc |-> "create", ops |-> <<>>, routes |-> routes]]
    /\ UNCHANGED <<config, temporary, running, scheduled, last>>

CallBatch(p, ops) ==
    /\ At(p, "idle")
    /\ process' = [process EXCEPT ![p] = [pc |-> "read", ops |-> ops, routes |-> <<>>]]
    /\ UNCHANGED <<config, temporary, running, scheduled, last>>

Read(p) ==
    /\ At(p, "read")
    /\ \/ process' = [process EXCEPT ![p].pc = "create",
                                     ![p].routes = Applied(process[p].ops, Existing(config))]
       \/ Fails(p, "read")
    /\ UNCHANGED <<config, temporary, running, scheduled, last>>

(* Writing the temporary file.  What Flush, Sync and Close report is not    *)
(* looked at, so a full disk leaves the beginning of the file, possibly      *)
(* with a cut line, and the update goes on.                                  *)
Beginnings(routes) ==
    {routes} \cup {SubSeq(routes, 1, n) : n \in 0..(Len(routes) - 1)}
        \cup {Append(SubSeq(routes, 1, n), CutLine) : n \in 0..(Len(routes) - 1)}
(* Next to some definitions stands the form a regression could give them;   *)
(* no action uses it.                                                      *)
CreateShared(p) ==
    /\ At(p, "create")
    /\ temporary' = [q \in Processes |-> process[p].routes]
    /\ Goes(p, "rename")
    /\ UNCHANGED <<config, running, scheduled, last>>

Create(p) ==
    /\ At(p, "create")
    /\ \/ /\ \E content \in IF "disk" \in Faults THEN Beginnings(process[p].routes)
                                                 ELSE {process[p].routes} :
               temporary' = [temporary EXCEPT ![p] = content]
          /\ Goes(p, "rename")
       \/ /\ Fails(p, "create")
          /\ UNCHANGED temporary
    /\ UNCHANGED <<config, running, scheduled, last>>

Rename(p) ==
    /\ At(p, "rename")
    /\ temporary' = [temporary EXCEPT ![p] = Nothing]
    /\ \/ /\ config' = temporary[p]
          /\ last' = p
          /\ Goes(p, "reload")
       \/ /\ Fails(p, "rename")
          /\ UNCHANGED <<config, last>>
    /\ UNCHANGED <<running, scheduled>>

(* "configure soft" and its answer: BIRD is not reached; it is, but the     *)
(* answer is not read in time; it refuses the file; it has reconfigured; or *)
(* it is going to.                                                          *)
Parses(content) == ~Holds(content, CutLine)
BirdReads ==
    /\ Parses(config)
    /\ \/ running' = config /\ scheduled' = {}
       \/ scheduled' = {config} /\ UNCHANGED running
ReloadUnconfirmed(p) ==
    /\ At(p, "reload")
    /\ Goes(p, "success")
    /\ BirdReads \/ UNCHANGED <<running, scheduled>>
    /\ UNCHANGED <<config, temporary, last>>

Reload(p) ==
    /\ At(p, "reload")
    /\ \/ BirdReads /\ Goes(p, "success")
       \/ ~Parses(config) /\ Goes(p, "unconfirmed") /\ UNCHANGED <<running, scheduled>>
       \/ Fails(p, "socket") /\ (BirdReads \/ UNCHANGED <<running, scheduled>>)
    /\ UNCHANGED <<config, temporary, last>>

BirdReconfigures ==
    /\ running' \in scheduled
    /\ scheduled' = {}
    /\ UNCHANGED <<config, temporary, process, last>>

(* A killed process leaves its temporary file behind. *)
Ended == {"success", "unconfirmed", "error", "lost"}
Crash(p) ==
    /\ "crash" \in Faults
    /\ process[p].pc \notin Ended \cup {"idle"}
    /\ Goes(p, "lost")
    /\ UNCHANGED <<config, temporary, running, scheduled, last>>

Next ==
    \/ \E p \in Processes :
         \/ \E routes \in Updates : CallUpdate(p, routes)
         \/ \E ops \in Batches : CallBatch(p, ops)
         \/ Read(p) \/ Create(p) \/ Rename(p) \/ Reload(p) \/ Crash(p)
    \/ BirdReconfigures

Spec == Init /\ [][Next]_vars

-----------------------------------------------------------------------------
(* When every call has ended and BIRD is not, and is not going to be,       *)
(* running the file, then the call that replaced the file last did not      *)
(* report success: updates that overtake each other between rename and      *)
(* reload never leave a difference that nobody was told of.                 *)
Loads(content) == IF scheduled = {} THEN running = content ELSE content \in scheduled
Quiet == \A p \in Processes : process[p].pc \in Ended \cup {"idle"}
DriftIsReported ==
    Quiet /\ last # Nothing /\ ~Loads(config) => process[last].pc # "success"

(* Whatever is interrupted where, the file is the list of one call, the one *)
(* that replaced it last, from its first line on: never a mixture of two,    *)
(* and never the work of a call that has not come to its rename.             *)
FileIsOneList == last # Nothing => config \in Beginnings(process[last].routes)
=============================================================================
