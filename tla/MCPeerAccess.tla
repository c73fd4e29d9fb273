---------------------------- MODULE MCPeerAccess ----------------------------
(***************************************************************************)
(* PeerAccess, which finds a Peer by its id, and PeerLink beside it with   *)
(* two peers, whose index finds a Peer by the address of a packet.  They   *)
(* share no state: one run explores first the one and then the other.      *)
(***************************************************************************)
EXTENDS PeerAccess

CONSTANTS Peer, Address, LinkLocal, PrivateV4, None, Cookie, MAX_SOURCE_ADDRESSES,
          MAX_FAILED_ESTABLISHMENTS, WorkerQueueSize, MaxInFlight, MaxEvents

VARIABLES explored, known, connected, reestablishing, targetAddress, helloCookie,
          failedEstablishments, targetAddresses, linkLocalAddress, sourceAddresses, late, active,
          peerSourceAddresses, workerQueue, holder, net, events, since

index == <<known, connected, reestablishing, targetAddress, helloCookie, failedEstablishments,
           targetAddresses, linkLocalAddress, sourceAddresses, late, active, peerSourceAddresses,
           workerQueue, holder, net, events, since>>

Link == INSTANCE PeerLink

ASSUME IndexAssumption == Link!SetAssumption /\ Link!LimitAssumption

MCPayload == {<<1, 2>>}

\* What is not explored starts in one of its states only.
MCInit ==
    /\ Init /\ Link!Init
    /\ \/ explored = "container" /\ \A a \in Address : holder[a] = None
       \/ explored = "index" /\ allowed = {}

MCNext ==
    /\ UNCHANGED explored
    /\ \/ explored = "container" /\ Next /\ UNCHANGED index
       \/ explored = "index" /\ Link!Next /\ UNCHANGED vars

MCSpec == MCInit /\ [][MCNext]_<<explored, vars, index>>

\* PeerLink's index of source addresses
SourceIndex == Link!SourceIndex
=============================================================================
