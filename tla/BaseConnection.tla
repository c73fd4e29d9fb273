--------------------------- MODULE BaseConnection ---------------------------
(***************************************************************************)
(* How the NgSocket of one node (core/husarnet/ngsocket.cpp) finds a base  *)
(* server, keeps a TCP connection to it and tells it, over that connection *)
(* and over UDP, where the node can be reached.                            *)
(*                                                                         *)
(* The main thread runs periodic() and handles the packets that have       *)
(* arrived; the worker thread runs refresh().  Nothing locks the fields    *)
(* the two share (baseConnection, cookie, natInitConfirmed): handlers of   *)
(* the main thread run between the steps of refresh(), which reads         *)
(* baseConnection once to check it and once more to write to it.           *)
(*                                                                         *)
(* The bases are the environment.  A base that is "up" greets each         *)
(* connection with HELLO, which carries a cookie of its own, and STATE,    *)
(* which carries its UDP address; it believes an INFO or NAT_INIT only     *)
(* when it is signed over the cookie of a connection it has, and forgets   *)
(* with the connection what it was told.  A base "refuses" connections or  *)
(* is "silent" once connected.  Bases fail and recover, the node changes   *)
(* networks and UDP stops working, MaxFaults times in all.                 *)
(*                                                                         *)
(* A connection and the cookie of its HELLO have one name.  Of the timers, *)
(* lastBaseTcpAction and lastNatInitConfirmation are kept as what the code *)
(* asks of them; the 3 s NAT_INIT timer and the 25 s refresh timer are due *)
(* or not whenever periodic() looks.  baseTransientPort is left out: it    *)
(* chooses the port of a datagram that sendToBaseUdp never sends.          *)
(***************************************************************************)
EXTENDS Naturals, Sequences, FiniteSets

CONSTANTS
    Bases,            \* how many addresses the license lists (getBaseAddresses)
    Conn,             \* connections to a base, and their cookies
    Location,         \* networks the node can be in: local addresses and a NAT
    Offline,          \* the one without local addresses
    Home,             \* the one it starts in
    None,             \* no connection, no cookie, no base, no location
    WorkerQueueSize,  \* workerQueueSize
    MaxInFlight,      \* bound: datagrams in the network at a time
    MaxFaults         \* bound: failures and recoveries, moves, losses, late messages

ASSUME BasesAssumption == Bases \in Nat \ {0}
ASSUME LimitAssumption == WorkerQueueSize \in Nat \ {0} /\ MaxInFlight \in Nat /\ MaxFaults \in Nat
ASSUME SetAssumption ==
    /\ Offline \in Location /\ Home \in Location \ {Offline}
    /\ None \notin Conn \cup Location \cup Nat
    /\ \A j, k \in Conn \cup {None} : Conn \ {j, k} # {}  \* a name is always free

Base == 0..(Bases - 1)

VARIABLES
    worker,              \* the worker thread: its step of refresh(), and what it serialised
    workerQueue,         \* how many refreshes are queued
    baseConnectRetries,  \* modulo the number of base addresses
    baseConnection, cookie,
    baseUdpAddress,      \* the base whose UDP addresses are in use
    natInitConfirmed,
    localAddresses,
    tcpAge,              \* lastBaseTcpAction is 0: recent, 1: over 3 s, 2: over 35 s ago
    natFresh,            \* lastNatInitConfirmation is less than 35 s ago
    isOpen,              \* the connections whose socket the node has not closed
    baseOf, inbox,       \* per open connection: its base, and what the base has sent on it
    live,                \* environment: the connections a base answers on
    udp,                 \* environment: datagrams in flight
    knows,               \* environment: what the base of the live connection has been told
    health,              \* environment: of each base
    location, udpWorks,  \* environment: where the node is; whether UDP gets through
    faults

nodeVars == <<worker, workerQueue, baseConnectRetries, baseConnection, cookie,
              baseUdpAddress, natInitConfirmed, localAddresses>>
connVars == <<isOpen, baseOf, inbox, live>>
envVars == <<health, location, udpWorks, faults>>
vars == <<nodeVars, tcpAge, natFresh, connVars, udp, knows, envVars>>

-----------------------------------------------------------------------------
NatInit(b, k, at) == [kind |-> "NAT_INIT", base |-> b, cookie |-> k, from |-> at]
NatOk(b) == [kind |-> "NAT_OK", base |-> b]
Datagram == [kind : {"NAT_INIT"}, base : Base, cookie : Conn, from : Location]
            \cup [kind : {"NAT_OK"}, base : Base]
Idle == [step |-> "idle"]
Nothing == [addresses |-> None, mapping |-> None]

Init ==
    /\ worker = Idle /\ workerQueue = 0
    /\ baseConnectRetries = 0 /\ baseConnection = None /\ cookie = None
    /\ baseUdpAddress = None
    /\ natInitConfirmed = TRUE
    /\ localAddresses = Offline
    /\ tcpAge = 2 /\ natFresh = FALSE
    /\ isOpen = {} /\ live = {}
    /\ baseOf = [k \in Conn |-> None] /\ inbox = [k \in Conn |-> <<>>]
    /\ udp = {} /\ knows = Nothing
    /\ health \in [Base -> {"up", "refuses", "silent"}]
    /\ location = Home /\ udpWorks = TRUE /\ faults = 0

-----------------------------------------------------------------------------
(***************************************************************************)
(* Messages to the base.  The base reads a connection in order, so an INFO *)
(* counts from the moment it is written.                                   *)
(***************************************************************************)
\* TcpConnection::write, on connection c, of an INFO serialised under cookie k.
WriteInfo(c, k, addresses) ==
    knows' = IF c \in live /\ c = k THEN [knows EXCEPT !.addresses = addresses] ELSE knows

\* sendNatInitToBase, with sendToBaseUdp: to the addresses of the last STATE.
NatInitPackets(c) ==
    IF c = None \/ baseUdpAddress = None \/ ~udpWorks \/ location = Offline
       \/ Cardinality(udp) >= MaxInFlight
    THEN {} ELSE {NatInit(baseUdpAddress, cookie, location)}

NatInitTries == IF cookie = None THEN natInitConfirmed ELSE FALSE

QueuedUnbounded(n) == workerQueue + n  \* wrong on purpose: the queue is not bounded
Queued(n) == IF workerQueue + n <= WorkerQueueSize THEN workerQueue + n ELSE WorkerQueueSize
requestRefresh == workerQueue' = Queued(1)

(***************************************************************************)
(* connectToBase: the next base of the list; the old connection is closed. *)
(* TcpConnection::connect fails within 5 s or yields a connection.  Names  *)
(* of connections are reused once no cookie refers to them.                *)
(***************************************************************************)
Greeting(b) == IF health[b] = "up" THEN <<"HELLO", "STATE">> ELSE <<>>

SerialisedCookie == IF worker.step = "write" THEN {worker.cookie} ELSE {}

NewName(open) == CHOOSE k \in Conn : k \notin open \cup {cookie} \cup SerialisedCookie

ConnectTo(b, closed) ==
    LET remaining == isOpen \ closed IN
    /\ tcpAge' = 0
    /\ IF health[b] = "refuses" \/ location = Offline
       THEN /\ baseConnection' = None
            /\ isOpen' = remaining /\ live' = live \ closed
       ELSE LET k == NewName(remaining) IN
              /\ baseConnection' = k
              /\ isOpen' = remaining \cup {k}
              /\ live' = (live \ closed) \cup (IF health[b] = "up" THEN {k} ELSE {})
    /\ baseOf' = [k \in Conn |-> CASE k = baseConnection' -> b
                                   [] k \in remaining -> baseOf[k]
                                   [] OTHER -> None]
    /\ inbox' = [k \in Conn |-> CASE k = baseConnection' -> Greeting(b)
                                  [] k \in remaining -> inbox[k]
                                  [] OTHER -> <<>>]

connectToBaseLeaky ==  \* wrong on purpose: the old connection is left open
    /\ ConnectTo(baseConnectRetries, {})
    /\ baseConnectRetries' = (baseConnectRetries + 1) % Bases
connectToBaseStuck ==  \* wrong on purpose: the first base of the list, every time
    /\ ConnectTo(baseConnectRetries, {baseConnection})
    /\ UNCHANGED baseConnectRetries
connectToBase ==
    /\ ConnectTo(baseConnectRetries, {baseConnection})
    /\ baseConnectRetries' = (baseConnectRetries + 1) % Bases

\* What of the packets still means something: a datagram under a name that has
\* just been given to a new connection counts as lost.
Meaningful(packets) ==
    {d \in packets : d.kind = "NAT_INIT" /\ d.cookie = baseConnection' =>
                        d.cookie \in {baseConnection, cookie}}

-----------------------------------------------------------------------------
(***************************************************************************)
(* The main thread: periodic(), about once a second.  A change of the      *)
(* local addresses (reloadLocalAddresses: unless there were none) asks for *)
(* a refresh and, when the connection has been quiet for 3 s, reconnects   *)
(* before the NAT_INIT timer is looked at; the timeouts of the connection  *)
(* itself are looked at last.                                              *)
(***************************************************************************)
AddressesChanged == localAddresses \notin {location, Offline}
ReconnectsEarly == AddressesChanged /\ tcpAge > 0
TcpTimeout == IF baseConnection # None THEN 2 ELSE 1

Periodic(natDue, refreshDue) ==
    /\ localAddresses' = location
    /\ IF ReconnectsEarly \/ tcpAge >= TcpTimeout
       THEN connectToBase /\ knows' = Nothing
       ELSE UNCHANGED <<tcpAge, baseConnectRetries, baseConnection, connVars, knows>>
    /\ workerQueue' = Queued((IF AddressesChanged THEN 1 ELSE 0) + (IF refreshDue THEN 1 ELSE 0))
    /\ IF ~natInitConfirmed /\ natDue
       THEN /\ natInitConfirmed' = NatInitTries
            /\ udp' = Meaningful(udp \cup
                        NatInitPackets(IF ReconnectsEarly THEN baseConnection' ELSE baseConnection))
       ELSE udp' = Meaningful(udp) /\ UNCHANGED natInitConfirmed
    /\ UNCHANGED <<worker, cookie, baseUdpAddress, natFresh, envVars>>
periodic == \E natDue, refreshDue \in BOOLEAN : Periodic(natDue, refreshDue)

(***************************************************************************)
(* The main thread: what the sockets deliver.                              *)
(***************************************************************************)
\* parseBaseToPeerMessage knows no REDIRECT: the code that would follow one is
\* never reached.
parseBaseToPeerMessage(m) == IF m \in {"HELLO", "STATE"} THEN m ELSE "INVALID"
Received(k) == parseBaseToPeerMessage(Head(inbox[k]))

\* HELLO: the cookie, then the local addresses and, from the worker, the rest.
\* (resendInfoRequests asks about peers and changes nothing here.)
baseHello(k) ==
    /\ Received(k) = "HELLO"
    /\ cookie' = k
    /\ WriteInfo(baseConnection, k, localAddresses)
    /\ requestRefresh
    /\ UNCHANGED baseUdpAddress

baseState(k) ==
    /\ Received(k) = "STATE"
    /\ baseUdpAddress' = baseOf[k]
    /\ UNCHANGED <<cookie, workerQueue, knows>>

baseInvalid(k) ==
    /\ Received(k) = "INVALID"
    /\ UNCHANGED <<cookie, baseUdpAddress, workerQueue, knows>>

\* dataCallback, whatever connection it is of.
baseMessageReceivedTcp(k) ==
    /\ k \in isOpen /\ inbox[k] # <<>>
    /\ inbox' = [inbox EXCEPT ![k] = Tail(@)]
    /\ tcpAge' = 0 /\ baseConnectRetries' = 0
    /\ baseHello(k) \/ baseState(k) \/ baseInvalid(k)
    /\ UNCHANGED <<worker, baseConnection, natInitConfirmed, localAddresses, natFresh,
                   isOpen, baseOf, live, udp, envVars>>

\* errorCallback: recv fails or ends, unless the other end has just gone quiet.
baseConnectionLost(k) ==
    /\ k \in isOpen \ live /\ inbox[k] = <<>> /\ health[baseOf[k]] # "silent"
    /\ isOpen' = isOpen \ {k}
    /\ baseOf' = [baseOf EXCEPT ![k] = None]
    /\ IF k = baseConnection THEN baseConnection' = None /\ tcpAge' = 0
       ELSE UNCHANGED <<baseConnection, tcpAge>>
    /\ UNCHANGED <<worker, workerQueue, baseConnectRetries, cookie, baseUdpAddress,
                   natInitConfirmed, localAddresses, natFresh, inbox, live, udp, knows, envVars>>

\* baseMessageReceivedUdp: a NAT_OK, however late.  (NAT_OK_CONFIRM changes nothing here.)
baseMessageReceivedUdp(b) ==
    /\ NatOk(b) \in udp
    /\ udp' = udp \ {NatOk(b)}
    /\ IF b = baseUdpAddress THEN natFresh' = TRUE /\ natInitConfirmed' = TRUE
       ELSE UNCHANGED <<natFresh, natInitConfirmed>>
    /\ UNCHANGED <<worker, workerQueue, baseConnectRetries, baseConnection, cookie,
                   baseUdpAddress, localAddresses, tcpAge, connVars, knows, envVars>>

-----------------------------------------------------------------------------
(***************************************************************************)
(* The worker thread: refresh().                                           *)
(***************************************************************************)
\* The INFO, signed with the cookie of the moment.
serializePeerToBaseMessage == [step |-> "write", cookie |-> cookie, addresses |-> localAddresses]

\* sendToBaseTcp checks baseConnection and the cookie and serialises the INFO.
refreshStart ==
    /\ worker = Idle /\ workerQueue > 0
    /\ workerQueue' = workerQueue - 1
    /\ worker' = IF baseConnection = None \/ cookie = None THEN [step |-> "nat"]
                 ELSE serializePeerToBaseMessage
    /\ UNCHANGED <<baseConnectRetries, baseConnection, cookie, baseUdpAddress,
                   natInitConfirmed, localAddresses, tcpAge, natFresh, connVars, udp, knows,
                   envVars>>

\* It then writes it to what baseConnection has become, if anything.
refreshWrite ==
    /\ worker.step = "write"
    /\ WriteInfo(baseConnection, worker.cookie, worker.addresses)
    /\ worker' = [step |-> "nat"]
    /\ UNCHANGED <<workerQueue, baseConnectRetries, baseConnection, cookie, baseUdpAddress,
                   natInitConfirmed, localAddresses, tcpAge, natFresh, connVars, udp, envVars>>

refreshNat ==
    /\ worker.step = "nat" /\ worker' = Idle
    /\ natInitConfirmed' = NatInitTries
    /\ udp' = IF cookie = None THEN udp ELSE udp \cup NatInitPackets(baseConnection)
    /\ UNCHANGED <<workerQueue, baseConnectRetries, baseConnection, cookie, baseUdpAddress,
                   localAddresses, tcpAge, natFresh, connVars, knows, envVars>>

-----------------------------------------------------------------------------
(***************************************************************************)
(* The environment.                                                        *)
(***************************************************************************)
\* A base takes a NAT_INIT: its NAT mapping, and NAT_OK.
BaseTakesNatInit(d) ==
    /\ d \in udp /\ d.kind = "NAT_INIT"
    /\ LET accepted == d.cookie \in live /\ baseOf[d.cookie] = d.base IN
       /\ udp' = (udp \ {d}) \cup (IF accepted THEN {NatOk(d.base)} ELSE {})
       /\ knows' = IF accepted THEN [knows EXCEPT !.mapping = d.from] ELSE knows
    /\ UNCHANGED <<nodeVars, tcpAge, natFresh, connVars, envVars>>

\* A base that is up says something at least every 35 s.
BaseTalks(k) ==
    /\ k \in isOpen \cap live /\ inbox[k] = <<>> /\ tcpAge > 0
    /\ inbox' = [inbox EXCEPT ![k] = <<"STATE">>]
    /\ UNCHANGED <<nodeVars, tcpAge, natFresh, isOpen, baseOf, live, udp, knows, envVars>>

Fault == faults < MaxFaults /\ faults' = faults + 1

\* A base wants to be rid of the node.
BaseRedirects(k) ==
    /\ Fault /\ k \in isOpen \cap live /\ inbox[k] = <<>>
    /\ inbox' = [inbox EXCEPT ![k] = <<"REDIRECT">>]
    /\ UNCHANGED <<nodeVars, tcpAge, natFresh, isOpen, baseOf, live, udp, knows, health, location,
                   udpWorks>>

\* A base crashes, hangs or comes back: its connections are gone, and what it had
\* sent on them may be gone too.
BaseChanges(b, h) ==
    /\ Fault /\ health[b] # h
    /\ health' = [health EXCEPT ![b] = h]
    /\ live' = {k \in live : baseOf[k] # b}
    /\ knows' = IF live' = live THEN knows ELSE Nothing
    /\ \E lost \in BOOLEAN :
         inbox' = [k \in Conn |-> IF baseOf[k] = b /\ lost THEN <<>> ELSE inbox[k]]
    /\ UNCHANGED <<nodeVars, tcpAge, natFresh, isOpen, baseOf, udp, location, udpWorks>>

\* The node changes networks: its connections belong to an address it no longer has.
Moves(l) ==
    /\ Fault /\ l # location
    /\ location' = l
    /\ live' = {} /\ knows' = Nothing
    /\ UNCHANGED <<nodeVars, tcpAge, natFresh, isOpen, baseOf, inbox, udp, health, udpWorks>>

\* The NAT in front of the node forgets its mapping; the connection survives.
Remaps(l) ==
    /\ Fault /\ l # location /\ Offline \notin {l, location}
    /\ knows.mapping # None
    /\ knows' = [knows EXCEPT !.mapping = l]
    /\ UNCHANGED <<nodeVars, tcpAge, natFresh, connVars, udp, health, location, udpWorks>>

UdpBlocked ==
    /\ Fault /\ udpWorks
    /\ udpWorks' = FALSE
    /\ udp' = {}
    /\ UNCHANGED <<nodeVars, tcpAge, natFresh, connVars, knows, health, location>>

LoseDatagram(d) ==
    /\ Fault /\ d \in udp
    /\ udp' = udp \ {d}
    /\ UNCHANGED <<nodeVars, tcpAge, natFresh, connVars, knows, health, location, udpWorks>>

\* Time passes.  35 s without a message from a base that is up are a fault.
TcpTime ==
    /\ tcpAge < 2
    /\ tcpAge = 0 \/ baseConnection \notin live
    /\ tcpAge' = tcpAge + 1
    /\ UNCHANGED <<nodeVars, natFresh, connVars, udp, knows, envVars>>
TcpLate ==
    /\ Fault /\ tcpAge = 1 /\ baseConnection \in live
    /\ tcpAge' = 2
    /\ UNCHANGED <<nodeVars, natFresh, connVars, udp, knows, health, location, udpWorks>>
UdpTime ==
    /\ natFresh /\ natFresh' = FALSE
    /\ UNCHANGED <<nodeVars, tcpAge, connVars, udp, knows, envVars>>

-----------------------------------------------------------------------------
MainThread ==
    \/ periodic
    \/ \E k \in Conn : baseMessageReceivedTcp(k) \/ baseConnectionLost(k)
    \/ \E b \in Base : baseMessageReceivedUdp(b)

WorkerThread == refreshStart \/ refreshWrite \/ refreshNat

Environment ==
    \/ \E d \in udp : BaseTakesNatInit(d) \/ LoseDatagram(d)
    \/ \E k \in Conn : BaseTalks(k) \/ BaseRedirects(k)
    \/ \E b \in Base, h \in {"up", "refuses", "silent"} : BaseChanges(b, h)
    \/ \E l \in Location : Moves(l) \/ Remaps(l)
    \/ UdpBlocked \/ TcpTime \/ TcpLate \/ UdpTime

Next == MainThread \/ WorkerThread \/ Environment

Spec == Init /\ [][Next]_vars

(***************************************************************************)
(* The main loop runs periodic() about once a second, so that each of its  *)
(* timers is found due again and again, and handles whatever has arrived   *)
(* in every turn; the worker thread takes every queued task; a base that   *)
(* is up answers; time passes.                                             *)
(***************************************************************************)
Fairness ==
    /\ WF_vars(\E refreshDue \in BOOLEAN : Periodic(TRUE, refreshDue))
    /\ WF_vars(\E natDue \in BOOLEAN : Periodic(natDue, TRUE))
    /\ WF_vars(\E k \in Conn : baseMessageReceivedTcp(k))
    /\ WF_vars(\E k \in Conn : baseConnectionLost(k))
    /\ WF_vars(\E b \in Base : baseMessageReceivedUdp(b))
    /\ WF_vars(WorkerThread)
    /\ WF_vars(\E d \in udp : BaseTakesNatInit(d)) /\ WF_vars(\E k \in Conn : BaseTalks(k))
    /\ WF_vars(TcpTime) /\ WF_vars(UdpTime)
FairSpec == Spec /\ Fairness

-----------------------------------------------------------------------------
\* The fields and the environment have the values their declarations allow.
TypeOK ==
    /\ worker \in {Idle, [step |-> "nat"]}
                  \cup [step : {"write"}, cookie : Conn, addresses : Location]
    /\ workerQueue \in 0..WorkerQueueSize
    /\ baseConnectRetries \in Base
    /\ baseConnection \in Conn \cup {None} /\ cookie \in Conn \cup {None}
    /\ baseUdpAddress \in Base \cup {None}
    /\ natInitConfirmed \in BOOLEAN
    /\ localAddresses \in Location
    /\ tcpAge \in 0..2 /\ natFresh \in BOOLEAN
    /\ baseOf \in [Conn -> Base \cup {None}]
    /\ inbox \in [Conn -> Seq({"HELLO", "STATE", "REDIRECT"})]
    /\ isOpen \subseteq Conn /\ live \subseteq Conn
    /\ udp \subseteq Datagram
    /\ knows \in [addresses : Location \cup {None}, mapping : Location \cup {None}]
    /\ health \in [Base -> {"up", "refuses", "silent"}]
    /\ location \in Location /\ udpWorks \in BOOLEAN
    /\ faults \in 0..MaxFaults

\* However connections fail, time out and are replaced, the node never holds the
\* socket of a connection other than baseConnection (connectToBase closes the old
\* one, errorCallback forgets the one that failed).
OneConnection == isOpen \subseteq {baseConnection}

\* The cookie the node signs with only ever becomes that of the connection it is
\* using: dataCallback does not look at the connection a HELLO came on, and a late
\* one of an earlier connection would make the base refuse what follows.
CookieOfCurrent == [][cookie' # cookie => cookie' = baseConnection']_vars

\* The base of the current connection knows where the node is, and relayed data
\* (sendDataToPeer: over UDP while a NAT_OK is recent, else over TCP) gets to it.
Served ==
    /\ baseConnection \in live /\ cookie = baseConnection
    /\ knows.addresses = location
    /\ udpWorks => knows.mapping = location
    /\ natFresh => udpWorks /\ baseUdpAddress = baseOf[baseConnection]

\* Once failures stop, if some base is up and the node is on a network, it ends up
\* served by a base for good: bases are tried in turn, a connection that died with
\* the old network is replaced, and NAT_INIT is repeated until the mapping of the
\* current network has arrived, although a late NAT_OK counts as the confirmation
\* of whatever NAT_INIT is outstanding.
BaseServes ==
    <>[](location # Offline /\ \E b \in Base : health[b] = "up") => <>[]Served
=============================================================================
