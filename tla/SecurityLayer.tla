--------------------------- MODULE SecurityLayer ---------------------------
(***************************************************************************)
(* The end-to-end session layer of the daemon, core/husarnet/              *)
(* security_layer.cpp, run by every node of a Husarnet network over an     *)
(* unreliable packet transport (NgSocket: direct UDP or the base relay).   *)
(*                                                                         *)
(* A session is negotiated with three signed hello packets.  Either side   *)
(* may start (hello 1), the other answers with hello 2, the first derives  *)
(* its keys and sends hello 3, on which the other derives its own.  Every  *)
(* hello carries the sender's helloseq and, in hello 2 and 3, echoes the   *)
(* receiver's, so that a hello is accepted at most once.  Packets handed   *)
(* down before the session exists wait in a per-peer queue; the total over *)
(* all peers of a node is counted in queuedPackets.                        *)
(*                                                                         *)
(* Cryptography is perfect: a hello in the network was signed by m.src, a  *)
(* key is the term it is derived from, and a data packet opens only under  *)
(* the key that sealed it.  The 32 random bits of a boot id are taken to   *)
(* be different at every boot.                                             *)
(***************************************************************************)
EXTENDS Integers, Sequences, FiniteSets

CONSTANTS
    Node,                \* device ids; naturals, because the code compares them
    Allowed,             \* Allowed[n]: the peers isPeerAllowed accepts at n
    Payload,             \* packets of the layer above
    Talk,                \* the pairs <<n, p>> where applications on n send to p
    FlagsOf(_, _),       \* FlagsOf(n, b): myFlags->asBin() of n in its b-th boot
    MAX_QUEUED_PACKETS,  \* husarnet_config.h
    NoKey,               \* the content of rxKey and txKey before any handshake
    Duplicating,         \* TRUE: a packet stays deliverable for ever (it may be
                         \* delivered never, once, or many times, in any order);
                         \* FALSE: a packet is delivered at most once, or lost
    Misrouting,          \* TRUE: the layer below may hand a packet to the wrong
                         \* node, or attribute it to the wrong peer
    MaxBoot,             \* bound: MaxBoot[n], boots of node n
    MaxAccept,           \* bound: hellos accepted by a node in one boot
    MaxLoss,             \* bound: packets lost (only if ~Duplicating)
    MaxTeardown          \* bound: teardowns of sessions that are not stuck

ASSUME NodeAssumption == Node \subseteq Nat /\ IsFiniteSet(Node)
ASSUME AllowedAssumption ==     \* no device is listed among its own peers
    /\ Allowed \in [Node -> SUBSET Node]
    /\ \A n \in Node : n \notin Allowed[n]
ASSUME TalkAssumption == Talk \subseteq Node \X Node
ASSUME FlagsAssumption ==       \* PeerFlags() always sets supportsFlags
    \A n \in Node : \A b \in 1..MaxBoot[n] : FlagsOf(n, b) \in Nat \ {0}
ASSUME QueueAssumption == MAX_QUEUED_PACKETS \in Nat
ASSUME BoundAssumption ==
    /\ Duplicating \in BOOLEAN /\ Misrouting \in BOOLEAN
    /\ MaxBoot \in [Node -> Nat \ {0}] /\ MaxAccept \in Nat
    /\ MaxLoss \in Nat /\ MaxTeardown \in Nat

VARIABLES
    boot,           \* boot[n]: how many times n was started
    helloseq,       \* helloseq[n]: boot id (high half) and counter (low half)
    negotiated,     \* negotiated[n][p]: Peer::negotiated
    rxKey, txKey,   \* rxKey[n][p], txKey[n][p]: session keys, NoKey before any
    peerFlags,      \* peerFlags[n][p]: Peer::flags
    packetQueue,    \* packetQueue[n][p]: Peer::packetQueue
    queuedPackets,  \* queuedPackets[n]
    recent,         \* recent[n][p]: lastValidPacket is less than
                    \* RENEGOTIATION_TIMEOUT old
    net,            \* packets in flight
    handedDown,     \* history: handedDown[n][p], given to n for p by the upper layer
    handedUp,       \* history: handedUp[n][p], given by n to the upper layer as p's
    losses, teardowns   \* how much of the bounds has been used

sessionVars == <<negotiated, rxKey, txKey, peerFlags, packetQueue, queuedPackets>>
historyVars == <<handedDown, handedUp>>
vars == <<boot, helloseq, sessionVars, recent, net, historyVars, losses, teardowns>>

-----------------------------------------------------------------------------
(***************************************************************************)
(* Keys and packets                                                        *)
(***************************************************************************)

\* The key-exchange key pair n generated for p: one per Peer object, and a
\* Peer object lives as long as the process.
KxKey == [owner : Node, peer : Node, boot : Nat]
kxPubkey(n, p) == [owner |-> n, peer |-> p, boot |-> boot[n]]

SessionKey == [client : KxKey, server : KxKey, dir : {"to_client", "to_server"},
               mixed : Nat \X Nat]

KeyOrNone == SessionKey \cup {NoKey}
ASSUME NoKeyAssumption == NoKey \notin SessionKey

HelloSeq == [boot : Nat, count : Nat]
NoSeq == [boot |-> 0, count |-> 0]      \* the 0 that hello 1 echoes

\* crypto_kx_client/server_session_keys, then mixFlags: the node with the
\* larger id is the client, and each key is hashed with the flags of its
\* sender and then those of its receiver.
SessionKeyOf(n, p, mine, theirs, toMe, mixed) ==
    IF p < n
    THEN [client |-> mine, server |-> theirs, mixed |-> mixed,
          dir |-> IF toMe THEN "to_client" ELSE "to_server"]
    ELSE [client |-> theirs, server |-> mine, mixed |-> mixed,
          dir |-> IF toMe THEN "to_server" ELSE "to_client"]

mixFlags(flags1, flags2) == <<flags1, flags2>>

\* The two keys of handleHelloPacket, from a hello m of p.
NewRxKey(n, p, m) ==
    SessionKeyOf(n, p, kxPubkey(n, p), m.kx, TRUE, mixFlags(m.flags, FlagsOf(n, boot[n])))
NewTxKeyOneOrder(n, p, m) ==     \* wrong on purpose: the flags always in the same order
    SessionKeyOf(n, p, kxPubkey(n, p), m.kx, FALSE, mixFlags(m.flags, FlagsOf(n, boot[n])))
NewTxKey(n, p, m) ==
    SessionKeyOf(n, p, kxPubkey(n, p), m.kx, FALSE, mixFlags(FlagsOf(n, boot[n]), m.flags))

HelloPacket == [type : {"hello"}, num : 1..3, src : Node, dst : Node, kx : KxKey,
                seq : HelloSeq, echo : HelloSeq, flags : Nat]
DataPacket == [type : {"data"}, src : Node, dst : Node, key : KeyOrNone,
               payload : Payload]

\* The packet sendHelloPacket builds and signs.
Hello(n, p, num, seq, echo) ==
    [type |-> "hello", num |-> num, src |-> n, dst |-> p, kx |-> kxPubkey(n, p),
     seq |-> seq, echo |-> echo, flags |-> FlagsOf(n, boot[n])]

\* The packet doSendDataPacket seals with key k.
Data(n, p, k, d) == [type |-> "data", src |-> n, dst |-> p, key |-> k, payload |-> d]

-----------------------------------------------------------------------------
(***************************************************************************)
(* Actions                                                                 *)
(***************************************************************************)

Init ==
    /\ boot = [n \in Node |-> 1]
    /\ helloseq = [n \in Node |-> [boot |-> 1, count |-> 0]]
    /\ negotiated = [n \in Node |-> [p \in Node |-> FALSE]]
    /\ rxKey = [n \in Node |-> [p \in Node |-> NoKey]]
    /\ txKey = [n \in Node |-> [p \in Node |-> NoKey]]
    /\ peerFlags = [n \in Node |-> [p \in Node |-> 0]]
    /\ packetQueue = [n \in Node |-> [p \in Node |-> <<>>]]
    /\ queuedPackets = [n \in Node |-> 0]
    /\ recent = [n \in Node |-> [p \in Node |-> FALSE]]
    /\ net = {}
    /\ handedDown = [n \in Node |-> [p \in Node |-> {}]]
    /\ handedUp = [n \in Node |-> [p \in Node |-> {}]]
    /\ losses = 0 /\ teardowns = 0

\* PeerContainer::getOrCreatePeer gives n a Peer for p.
getOrCreatePeer(n, p) == p # n /\ p \in Allowed[n]

\* onUpperLayerData with a session: the packet is sealed and sent.
SendDataPacket(n, p, d) ==
    /\ getOrCreatePeer(n, p)
    /\ negotiated[n][p]
    /\ net' = net \cup {Data(n, p, txKey[n][p], d)}
    /\ handedDown' = [handedDown EXCEPT ![n][p] = @ \cup {d}]
    /\ UNCHANGED <<boot, helloseq, sessionVars, recent, handedUp, losses, teardowns>>

\* The node's total is below the limit.
CanQueueOneMore(n) == queuedPackets[n] <= MAX_QUEUED_PACKETS  \* wrong on purpose: off by one
CanQueue(n) == queuedPackets[n] < MAX_QUEUED_PACKETS

\* onUpperLayerData without a session: the packet is queued if the node's
\* total is below the limit, dropped otherwise; a hello 1 is sent either way.
QueueDataPacket(n, p, d) ==
    /\ getOrCreatePeer(n, p)
    /\ ~negotiated[n][p]
    /\ IF CanQueue(n)
       THEN /\ queuedPackets' = [queuedPackets EXCEPT ![n] = @ + 1]
            /\ packetQueue' = [packetQueue EXCEPT ![n][p] = Append(@, d)]
       ELSE UNCHANGED <<queuedPackets, packetQueue>>
    /\ net' = net \cup {Hello(n, p, 1, helloseq[n], NoSeq)}
    /\ handedDown' = [handedDown EXCEPT ![n][p] = @ \cup {d}]
    /\ UNCHANGED <<boot, helloseq, negotiated, rxKey, txKey, peerFlags, recent,
                   handedUp, losses, teardowns>>

\* Packet m reaches n attributed to p; what is left in flight afterwards.
Arrives(n, p, m) ==
    /\ m \in net
    /\ Misrouting \/ (m.dst = n /\ m.src = p)
InFlight(m) == IF Duplicating THEN net ELSE net \ {m}

\* handleDataPacket with no session: the sender is asked to negotiate.
DataBeforeHello(n, p, m) ==
    /\ Arrives(n, p, m) /\ m.type = "data"
    /\ getOrCreatePeer(n, p)
    /\ ~negotiated[n][p]
    /\ net' = InFlight(m) \cup {Hello(n, p, 1, helloseq[n], NoSeq)}
    /\ UNCHANGED <<boot, helloseq, sessionVars, recent, historyVars, losses, teardowns>>

\* handleDataPacket when the packet opens under rxKey.
ValidData(n, p, m) ==
    /\ Arrives(n, p, m) /\ m.type = "data"
    /\ getOrCreatePeer(n, p)
    /\ negotiated[n][p]
    /\ m.key = rxKey[n][p]
    /\ recent' = [recent EXCEPT ![n][p] = TRUE]
    /\ handedUp' = [handedUp EXCEPT ![n][p] = @ \cup {m.payload}]
    /\ net' = InFlight(m)
    /\ UNCHANGED <<boot, helloseq, sessionVars, handedDown, losses, teardowns>>

\* The checks of handleHelloPacket on who sent the hello, and to whom.
GenuineHelloOfAnyone(n, p, m) == {m.src, m.dst} \subseteq Node  \* wrong on purpose: any signature will do
GenuineHello(n, p, m) ==
    /\ m.dst = n        \* targetId
    /\ m.src = p        \* pubkeyToDeviceId(incomingPubkey), and the signature

\* handleHelloPacket, hello 1: answered, whatever the state of the session.
AnswerHello(n, p, m) ==
    /\ Arrives(n, p, m) /\ m.type = "hello"
    /\ getOrCreatePeer(n, p)
    /\ GenuineHello(n, p, m)
    /\ m.num = 1
    /\ net' = InFlight(m) \cup {Hello(n, p, 2, helloseq[n], m.seq)}
    /\ UNCHANGED <<boot, helloseq, sessionVars, recent, historyVars, losses, teardowns>>

\* The echo check of handleHelloPacket ("prevents replay DoS").
FreshHelloAny(n, m) == m.num \in 2..3  \* wrong on purpose: the echo is not looked at
FreshHello(n, m) == m.echo = helloseq[n]

NextHelloseq(n) ==
    [helloseq EXCEPT ![n] = [boot |-> helloseq[n].boot, count |-> helloseq[n].count + 1]]

\* The packets finishNegotiation flushes, sealed with the new key k.
FlushedQueue(n, p, k) ==
    {Data(n, p, k, packetQueue[n][p][i]) : i \in DOMAIN packetQueue[n][p]}

\* The packets accepting m sends: the queue, then, after hello 2, a hello 3
\* that already carries the incremented helloseq.
AcceptRepliesAlways(n, p, m) ==  \* wrong on purpose: hello 3 is answered too
    FlushedQueue(n, p, NewTxKey(n, p, m))
        \cup {Hello(n, p, m.num + 1, NextHelloseq(n)[n], m.seq)}
AcceptReplies(n, p, m) ==
    FlushedQueue(n, p, NewTxKey(n, p, m))
        \cup IF m.num = 2 THEN {Hello(n, p, 3, NextHelloseq(n)[n], m.seq)} ELSE {}

\* handleHelloPacket, hello 2 or 3: new keys, finishNegotiation, helloseq++.
AcceptHello(n, p, m) ==
    /\ Arrives(n, p, m) /\ m.type = "hello"
    /\ getOrCreatePeer(n, p)
    /\ GenuineHello(n, p, m)
    /\ m.num # 1
    /\ FreshHello(n, m)
    /\ helloseq[n].count < MaxAccept
    /\ peerFlags' = [peerFlags EXCEPT ![n][p] = m.flags]
    /\ rxKey' = [rxKey EXCEPT ![n][p] = NewRxKey(n, p, m)]
    /\ txKey' = [txKey EXCEPT ![n][p] = NewTxKey(n, p, m)]
    /\ negotiated' = [negotiated EXCEPT ![n][p] = TRUE]
    /\ queuedPackets' = [queuedPackets EXCEPT ![n] = @ - Len(packetQueue[n][p])]
    /\ packetQueue' = [packetQueue EXCEPT ![n][p] = <<>>]
    /\ helloseq' = NextHelloseq(n)
    /\ net' = InFlight(m) \cup AcceptReplies(n, p, m)
    /\ UNCHANGED <<boot, recent, historyVars, losses, teardowns>>

\* Every early return of the two handlers: the packet is dropped.
Ignored(n, p, m) ==
    \/ ~getOrCreatePeer(n, p)
    \/ m.type = "data" /\ negotiated[n][p] /\ m.key # rxKey[n][p]
    \/ m.type = "hello" /\ ~GenuineHello(n, p, m)
    \/ m.type = "hello" /\ m.num # 1 /\ ~FreshHello(n, m)
DropPacket(n, p, m) ==
    /\ Arrives(n, p, m)
    /\ Ignored(n, p, m)
    /\ net' = InFlight(m)
    /\ UNCHANGED <<boot, helloseq, sessionVars, recent, historyVars, losses, teardowns>>

onLowerLayerData(n, p, m) ==
    \/ DataBeforeHello(n, p, m)
    \/ ValidData(n, p, m)
    \/ AnswerHello(n, p, m)
    \/ AcceptHello(n, p, m)
    \/ DropPacket(n, p, m)

\* RENEGOTIATION_TIMEOUT passes at n without a valid packet from p.
Silence(n, p) ==
    /\ recent[n][p]
    /\ recent' = [recent EXCEPT ![n][p] = FALSE]
    /\ UNCHANGED <<boot, helloseq, sessionVars, net, historyVars, losses, teardowns>>

InSync(n, p) ==
    /\ negotiated[n][p] /\ negotiated[p][n]
    /\ txKey[n][p] = rxKey[p][n] /\ txKey[p][n] = rxKey[n][p]

\* Both ends have a session, they disagree, and no hello is under way that
\* could repair it: nothing but the timeout below gets n and p out of this.
Stuck(n, p) ==
    /\ negotiated[n][p] /\ negotiated[p][n] /\ ~InSync(n, p)
    /\ ~\E m \in net : m.type = "hello" /\ {m.src, m.dst} = {n, p}

\* NgSocket::periodicPeer: a session without a recent valid packet is torn
\* down.  The keys stay in the Peer object, unused until the next handshake.
periodicPeerKeepsSession(n, p) ==  \* wrong on purpose: negotiated is left set
    /\ negotiated[n][p]
    /\ ~recent[n][p]
    /\ Stuck(n, p) \/ teardowns < MaxTeardown
    /\ teardowns' = IF Stuck(n, p) THEN teardowns ELSE teardowns + 1
    /\ UNCHANGED <<boot, helloseq, sessionVars, recent, net, historyVars, losses>>
periodicPeer(n, p) ==
    /\ negotiated[n][p]
    /\ ~recent[n][p]
    /\ Stuck(n, p) \/ teardowns < MaxTeardown
    /\ negotiated' = [negotiated EXCEPT ![n][p] = FALSE]
    /\ teardowns' = IF Stuck(n, p) THEN teardowns ELSE teardowns + 1
    /\ UNCHANGED <<boot, helloseq, rxKey, txKey, peerFlags, packetQueue, queuedPackets,
                   recent, net, historyVars, losses>>

\* The daemon of n is restarted: a new process, with a new boot id and no peers.
Restart(n) ==
    /\ boot[n] < MaxBoot[n]
    /\ boot' = [boot EXCEPT ![n] = @ + 1]
    /\ helloseq' = [helloseq EXCEPT ![n] = [boot |-> boot[n] + 1, count |-> 0]]
    /\ negotiated' = [negotiated EXCEPT ![n] = [p \in Node |-> FALSE]]
    /\ rxKey' = [rxKey EXCEPT ![n] = [p \in Node |-> NoKey]]
    /\ txKey' = [txKey EXCEPT ![n] = [p \in Node |-> NoKey]]
    /\ peerFlags' = [peerFlags EXCEPT ![n] = [p \in Node |-> 0]]
    /\ packetQueue' = [packetQueue EXCEPT ![n] = [p \in Node |-> <<>>]]
    /\ queuedPackets' = [queuedPackets EXCEPT ![n] = 0]
    /\ recent' = [recent EXCEPT ![n] = [p \in Node |-> FALSE]]
    /\ UNCHANGED <<net, historyVars, losses, teardowns>>

\* The network loses a packet.
Lose(m) ==
    /\ ~Duplicating
    /\ losses < MaxLoss
    /\ net' = net \ {m}
    /\ losses' = losses + 1
    /\ UNCHANGED <<boot, helloseq, sessionVars, recent, historyVars, teardowns>>

onUpperLayerData(n, p, d) == SendDataPacket(n, p, d) \/ QueueDataPacket(n, p, d)

Next ==
    \/ \E n, p \in Node, d \in Payload : <<n, p>> \in Talk /\ onUpperLayerData(n, p, d)
    \/ \E n, p \in Node, m \in net : onLowerLayerData(n, p, m)
    \/ \E n, p \in Node : Silence(n, p) \/ periodicPeer(n, p)
    \/ \E n \in Node : Restart(n)
    \/ \E m \in net : Lose(m)

Spec == Init /\ [][Next]_vars

\* What the scheduling gives: both upper layers keep sending, a packet that is
\* not lost arrives, time passes, and the 25 s refresh keeps running.
\* Restarts and losses are never forced.
Fairness ==
    \A n, p \in Node :
        /\ WF_vars(\E d \in Payload : <<n, p>> \in Talk /\ onUpperLayerData(n, p, d))
        /\ WF_vars(\E m \in net : m.type = "data" /\ onLowerLayerData(n, p, m))
        /\ \A i \in 1..3 :
              WF_vars(\E m \in net : m.type = "hello" /\ m.num = i /\ onLowerLayerData(n, p, m))
        /\ WF_vars(Silence(n, p) /\ ~InSync(n, p))
        /\ WF_vars(periodicPeer(n, p) /\ Stuck(n, p))
FairSpec == Spec /\ Fairness

-----------------------------------------------------------------------------
(***************************************************************************)
(* Properties                                                              *)
(***************************************************************************)

\* Every variable keeps the type its declaration comment gives it.
TypeOK ==
    /\ boot \in [Node -> Nat] /\ \A n \in Node : boot[n] \in 1..MaxBoot[n]
    /\ helloseq \in [Node -> HelloSeq]
    /\ negotiated \in [Node -> [Node -> BOOLEAN]]
    /\ rxKey \in [Node -> [Node -> KeyOrNone]]
    /\ txKey \in [Node -> [Node -> KeyOrNone]]
    /\ peerFlags \in [Node -> [Node -> Nat]]
    /\ packetQueue \in [Node -> [Node -> Seq(Payload)]]
    /\ queuedPackets \in [Node -> Int]
    /\ recent \in [Node -> [Node -> BOOLEAN]]
    /\ net \subseteq HelloPacket \cup DataPacket
    /\ handedDown \in [Node -> [Node -> SUBSET Payload]]
    /\ handedUp \in [Node -> [Node -> SUBSET Payload]]
    /\ losses \in Nat /\ teardowns \in Nat

\* The slots of all packet queues of n.
Queued(n) == UNION {{p} \X (1..Len(packetQueue[n][p])) : p \in Node}

\* queuedPackets counts exactly the packets waiting in the queues of all peers
\* of the node, across handshakes, teardowns and restarts, never exceeds
\* MAX_QUEUED_PACKETS, and no packet waits for a session that exists
\* (finishNegotiation and onUpperLayerData together).
QueueAccounting ==
    \A n \in Node :
        /\ queuedPackets[n] = Cardinality(Queued(n))
        /\ queuedPackets[n] <= MAX_QUEUED_PACKETS
        /\ \A p \in Node : negotiated[n][p] => packetQueue[n][p] = <<>>

\* The key-exchange key of the peer in a session key k of n.
PeerKx(n, k) == IF k.client.owner = n THEN k.server ELSE k.client
PeerBoot(n, p) == IF rxKey[n][p] = NoKey THEN 0 ELSE PeerKx(n, rxKey[n][p]).boot

\* Two nodes that both negotiated against each other's present boot agree:
\* each opens what the other seals, and each knows the other's flags
\* ("we need to make sure both peers agree on flags", handleHelloPacket).
KeyAgreement ==
    \A n, p \in Node :
        /\ negotiated[n][p] /\ PeerBoot(n, p) = boot[p]
        /\ negotiated[p][n] /\ PeerBoot(p, n) = boot[n]
        => /\ InSync(n, p)
           /\ peerFlags[n][p] = FlagsOf(p, boot[p])

\* Whatever a node hands up as coming from p, p was given by its own upper
\* layer for this very node, even if the layer below misroutes packets or
\* attributes them to the wrong peer.
Authenticity == \A n, p \in Node : handedUp[n][p] \subseteq handedDown[p][n]

\* A session never falls back to an earlier boot of the peer: a delayed or
\* replayed hello of a process that is gone does not replace the keys agreed
\* with its successor (the helloseq check of handleHelloPacket).
NoRollback ==
    [][\A n, p \in Node : boot'[n] = boot[n] => PeerBoot(n, p) <= PeerBoot(n, p)']_vars

\* Once restarts, losses and early teardowns are over, every pair of nodes
\* that talk to each other ends up, and stays, with matching keys.
EventuallyInSync ==
    \A n, p \in Node :
        p # n /\ p \in Allowed[n] /\ n \in Allowed[p] => <>[]InSync(n, p)
=============================================================================
