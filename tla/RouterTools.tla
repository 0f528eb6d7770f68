---------------------------- MODULE RouterTools ----------------------------
(***************************************************************************)
(* The three programs that go with a router: the route manager, the BIRD   *)
(* manager and the route lookup server.  They share nothing: a behaviour   *)
(* is one of any one of them, while the other two rest.                    *)
(***************************************************************************)
EXTENDS RouteManager

CONSTANTS
    BirdProcesses, RouteLines, CommentLine, CutLine, Missing, Nothing,
    Updates, Batches, BirdFaults,                                       \* BirdManager
    Lookups, Addresses, Domains, Direct, NotCached, LookupFaults        \* RouteLookup

VARIABLES tool, config, temporary, process, running, scheduled, last, cache, request

bird_vars == <<config, temporary, process, running, scheduled, last>>
lookup_vars == <<cache, request>>

BM == INSTANCE BirdManager WITH Processes <- BirdProcesses, Faults <- BirdFaults
RL == INSTANCE RouteLookup WITH Requests <- Lookups, Faults <- LookupFaults

ASSUME BirdManagerAssumption == BM!ConstantsOK
ASSUME RouteLookupAssumption == RL!ConstantsOK

ToolsInit ==
    /\ tool \in {"route manager", "BIRD manager", "route lookup"}
    /\ Init
    /\ BM!Init
    /\ tool # "BIRD manager" => config = Missing
    /\ RL!Init

ToolsNext ==
    /\ UNCHANGED tool
    /\ \/ tool = "route manager" /\ Next /\ UNCHANGED <<bird_vars, lookup_vars>>
       \/ tool = "BIRD manager" /\ BM!Next /\ UNCHANGED <<vars, lookup_vars>>
       \/ tool = "route lookup" /\ RL!Next /\ UNCHANGED <<vars, bird_vars>>

all == <<vars, bird_vars, lookup_vars, tool>>

ToolsSpec ==
    /\ ToolsInit
    /\ [][ToolsNext]_all
    /\ WF_all(tool = "route manager" /\ Count /\ UNCHANGED <<bird_vars, lookup_vars, tool>>)
    /\ WF_all(tool = "route manager" /\ SetGauges /\ UNCHANGED <<bird_vars, lookup_vars, tool>>)
    /\ \A r \in Requests :
         WF_all(tool = "route manager" /\ Handle(r) /\ UNCHANGED <<bird_vars, lookup_vars, tool>>)

-----------------------------------------------------------------------------
(* Updates of BIRD's file that overtake each other leave no difference      *)
(* between the file and what BIRD runs that no call reports (BirdManager).  *)
DriftIsReported == BM!DriftIsReported

(* Whatever is interrupted where, BIRD's file is the list of one call       *)
(* (BirdManager).                                                           *)
FileIsOneList == BM!FileIsOneList

(* Lookups share a cache and each gets its own answers (RouteLookup).       *)
AnswersFit == RL!AnswersFit
=============================================================================
