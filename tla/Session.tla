------------------------------ MODULE Session ------------------------------
(***************************************************************************)
(* A session from its first byte to its last: the handshake under some     *)
(* configuration, then the streams with the policy it came to, and what is *)
(* in a decoy when one is injected.                                        *)
(***************************************************************************)
EXTENDS Forwarding

CONSTANTS
    ClientStreams, UpstreamStreams, Configs, LearnedUpstreams, Filters, LowerCase, \* Handshake
    RandomSize, Hellos                                                             \* ClientHello

VARIABLES hs_client, hs_upstream, hs_session, dials, opened, deadline, imitations

hs_vars == <<hs_client, hs_upstream, hs_session, dials, opened, deadline>>

HS == INSTANCE Handshake WITH
        client <- hs_client, upstream <- hs_upstream, session <- hs_session
CH == INSTANCE ClientHello

ASSUME HandshakeAssumption == HS!ConstantsOK
ASSUME ClientHelloAssumption == CH!ConstantsOK
(* The streams may come with any policy that has one dpi. *)
ASSUME StreamPoliciesAssumption ==
    \A p \in [fragments : BOOLEAN, decoys : BOOLEAN, probes : BOOLEAN] :
        ~(p.fragments /\ p.decoys) => p \in Policies

-----------------------------------------------------------------------------
SessionInit == Init /\ HS!Init /\ CH!Init

(* The handshake; its end, where the streams begin; the streams. *)
Establish == HS!HandOver /\ Begin(HS!StreamPolicy) /\ UNCHANGED imitations
Shake == HS!Shake /\ UNCHANGED <<vars, imitations>>
Rest ==
    /\ IF decoys' # decoys THEN CH!Imitate ELSE CH!Sent
    /\ UNCHANGED hs_vars
Stream == Running /\ Rest

SessionNext == Shake \/ Establish \/ Stream

all == <<vars, hs_vars, imitations>>
SessionSpec == SessionInit /\ [][SessionNext]_all /\ Fairness

-----------------------------------------------------------------------------
(* The handshakes take their own bytes and not one more (Handshake).        *)
HandedOverIntact == HS!HandedOverIntact

(* No step that fails leaves a connection open (Handshake).                 *)
NoConnectionLeaks == HS!NoConnectionLeaks

(* What is dialed and learned is what the configuration says (Handshake).   *)
RouteHonoured == HS!RouteHonoured

(* A decoy is what its client would have written (ClientHello).             *)
DecoyImitates == CH!DecoyImitates
=============================================================================
