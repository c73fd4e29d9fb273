----------------------------- MODULE PeerAccess -----------------------------
(***************************************************************************)
(* How packets find their Peer: PeerContainer (core/husarnet/              *)
(* peer_container.cpp), which two threads of a node use without a lock,    *)
(* between the layers that call it.                                        *)
(*                                                                         *)
(* The main thread takes packets from the tun interface down               *)
(* (MulticastLayer, CompressionLayer, SecurityLayer, NgSocket, in the      *)
(* order of husarnet_manager.cpp): SecurityLayer looks the peer up for its *)
(* key, NgSocket for its address.  It takes data packets of peers up the   *)
(* same layers.  The worker thread looks peers up for HELLO and            *)
(* HELLO_REPLY.  The configuration manager changes who is allowed.         *)
(*                                                                         *)
(* A Peer is the number of its creation.  Compression is off (it is built  *)
(* without ZSTD, and hands packets on as they are), sessions are           *)
(* negotiated.  Reads and writes of one variable, and find and insert on   *)
(* the map, are single steps.                                              *)
(***************************************************************************)
EXTENDS Naturals, Sequences, FiniteSets

CONSTANTS
    Others,     \* the other nodes
    Me,         \* this node (myDeviceId)
    NoId,       \* the address cachedPeerId has before any other
    Group,      \* multicast addresses
    Protocol, Payload, \* of a packet: a byte, and a sequence of bytes
    MaxPeers,   \* bound: Peers created
    MaxChanges  \* bound: changes of who is allowed

ASSUME IdAssumption == Me \notin Others /\ NoId \notin Others \cup {Me} /\ Group \cap Others = {} /\ Me \notin Group
\* A unicast message of protocol 255 whose payload begins with 1 reads as multicast.
ASSUME ProtocolAssumption == Protocol \subseteq 0..254 /\ Payload \subseteq Seq(0..255) \ {<<>>}

Id == Others \cup {Me}
NULL == 0

VARIABLES
    allowed,                   \* who isPeerAllowed lets through
    peers,                     \* the map: a Peer for each id, or NULL
    created,                   \* the ids of the Peers, by number
    cachedPeerId, cachedPeer,
    thread,                    \* what each of the two threads is doing
    todo,                      \* main: multicast destinations still to send to
    sent, tun,                 \* what the main thread's last task gave to the transport, to the tun
    overlap,                   \* history: both threads have been in the container at once
    midway,                    \* history: who is allowed has changed during a lookup
    revoked,                   \* history: ids disallowed while nobody held them
    changes

containerVars == <<peers, created, cachedPeerId, cachedPeer>>
historyVars == <<overlap, midway, revoked, changes>>
vars == <<allowed, containerVars, thread, todo, sent, tun, historyVars>>

-----------------------------------------------------------------------------
(***************************************************************************)
(* MulticastLayer: an IPv6 packet becomes a message and a packet again.    *)
(* Of the addresses a unicast message keeps neither: the receiver puts in  *)
(* the peer it came from and itself.                                       *)
(***************************************************************************)
PacketTo(i) == [source : {Me}, target : {i} \cup Group, protocol : Protocol, payload : Payload]
PacketFrom(i) == [source : {i}, target : {Me} \cup Group, protocol : Protocol, payload : Payload]

Message(p) ==
    IF p.target \in Group
    THEN [head |-> <<255, 1, p.protocol>>, group |-> p.target, payload |-> p.payload]
    ELSE [head |-> <<p.protocol>>, group |-> NoId, payload |-> p.payload]

Bytes(m) == m.head \o m.payload

\* onLowerLayerData at node n, of message m from a source.
DecodedAlwaysUnicast(source, n, m) ==  \* wrong on purpose: the multicast mark is not looked for
    [source |-> source, target |-> n, protocol |-> Bytes(m)[1], payload |-> Tail(Bytes(m))]
Decoded(source, n, m) ==
    IF Len(Bytes(m)) >= 2 /\ Bytes(m)[1] = 255 /\ Bytes(m)[2] = 1
    THEN [source |-> source, target |-> m.group, protocol |-> Bytes(m)[3],
          payload |-> SubSeq(Bytes(m), 4, Len(Bytes(m)))]
    ELSE [source |-> source, target |-> n, protocol |-> Bytes(m)[1], payload |-> Tail(Bytes(m))]

-----------------------------------------------------------------------------
Nothing == [to |-> NoId]
NoPacket == [source |-> NoId]
Idle == [at |-> "idle"]

\* A lookup of id for some purpose; what has been found, and the Peer of an earlier one.
Lookup(id, purpose, creates, packet, key) ==
    [at |-> "compare", id |-> id, purpose |-> purpose, creates |-> creates,
     packet |-> packet, key |-> key, found |-> NULL]

Init ==
    /\ allowed \in SUBSET Others
    /\ peers = [i \in Id |-> NULL] /\ created = <<>>
    /\ cachedPeerId = NoId /\ cachedPeer = NULL
    /\ thread = [t \in {"main", "worker"} |-> Idle]
    /\ todo = {} /\ sent = Nothing /\ tun = NoPacket
    /\ overlap = FALSE /\ midway = FALSE /\ revoked = {} /\ changes = 0

Busy(t) == thread[t].at # "idle"

\* Both threads are busy from here on.
Enters(t) == overlap' = (overlap \/ \E u \in DOMAIN thread \ {t} : Busy(u))

-----------------------------------------------------------------------------
(***************************************************************************)
(* What starts a lookup.                                                   *)
(***************************************************************************)
\* A packet from the tun interface: unicast to one, multicast to all allowed peers.
onTunData(p) ==
    /\ ~Busy("main") /\ todo = {}
    /\ todo' = IF p.target \in Group
               THEN {[id |-> i, packet |-> p] : i \in allowed}
               ELSE {[id |-> p.target, packet |-> p]}
    /\ UNCHANGED <<allowed, containerVars, thread, sent, tun, historyVars>>

\* SecurityLayer::onUpperLayerData, for the next destination.
sendNext(d) ==
    /\ ~Busy("main") /\ d \in todo
    /\ todo' = todo \ {d}
    /\ thread' = [thread EXCEPT !["main"] = Lookup(d.id, "key", TRUE, d.packet, NULL)]
    /\ sent' = Nothing /\ tun' = NoPacket
    /\ Enters("main")
    /\ UNCHANGED <<allowed, containerVars, midway, revoked, changes>>

\* A data packet of a peer: SecurityLayer::handleDataPacket.
dataReceived(i, p) ==
    /\ ~Busy("main") /\ todo = {}
    /\ thread' = [thread EXCEPT !["main"] = Lookup(i, "receive", TRUE, p, NULL)]
    /\ sent' = Nothing /\ tun' = NoPacket
    /\ Enters("main")
    /\ UNCHANGED <<allowed, containerVars, todo, midway, revoked, changes>>

\* helloReceived looks up or creates, helloReplyReceived looks up only.
helloReceived(i, creates) ==
    /\ ~Busy("worker")
    /\ thread' = [thread EXCEPT !["worker"] = Lookup(i, "hello", creates, NoPacket, NULL)]
    /\ Enters("worker")
    /\ UNCHANGED <<allowed, containerVars, todo, sent, tun, midway, revoked, changes>>

-----------------------------------------------------------------------------
(***************************************************************************)
(* getOrCreatePeer has returned a Peer, or NULL: what the caller does next.*)
(***************************************************************************)
Returned(t, peer) ==
    LET task == thread[t]
        owner == created'[peer] IN
    CASE task.purpose = "key" /\ peer # NULL ->
           /\ thread' = [thread EXCEPT ![t] = Lookup(task.id, "address", TRUE, task.packet, peer)]
           /\ UNCHANGED <<sent, tun>>
      [] task.purpose = "address" /\ peer # NULL ->
           /\ thread' = [thread EXCEPT ![t] = Idle]
           /\ sent' = [to |-> owner, key |-> created'[task.key], packet |-> task.packet,
                       meant |-> task.id, message |-> Message(task.packet)]
           /\ UNCHANGED tun
      [] task.purpose = "receive" /\ peer # NULL ->
           \* the packet decrypts under the key of the peer that sent it only
           /\ thread' = [thread EXCEPT ![t] = Idle]
           /\ tun' = IF owner = task.id THEN Decoded(task.id, Me, Message(task.packet)) ELSE tun
           /\ UNCHANGED sent
      [] OTHER ->
           /\ thread' = [thread EXCEPT ![t] = Idle]
           /\ UNCHANGED <<sent, tun>>

Goes(t, to) == thread' = [thread EXCEPT ![t].at = to]
Elsewhere == UNCHANGED <<allowed, todo, historyVars>>
Locally == Elsewhere /\ UNCHANGED <<containerVars, sent, tun>>

\* getPeer, line by line.
compareCached(t) ==
    /\ thread[t].at = "compare"
    /\ Goes(t, IF cachedPeerId = thread[t].id THEN "cached"
               ELSE IF thread[t].id = Me THEN "none" ELSE "check")
    /\ Locally

returnCached(t) ==
    /\ thread[t].at = "cached"
    /\ IF cachedPeer = NULL THEN Goes(t, "none") /\ UNCHANGED <<sent, tun, created>>
       ELSE UNCHANGED created /\ Returned(t, cachedPeer)
    /\ Elsewhere /\ UNCHANGED <<peers, cachedPeerId, cachedPeer>>

checkNothing(t) == thread[t].at = "check" /\ Goes(t, "find") /\ Locally  \* wrong on purpose
checkAllowed(t) ==
    /\ thread[t].at = "check"
    /\ Goes(t, IF thread[t].id \in allowed THEN "find" ELSE "none")
    /\ Locally

find(t) ==
    /\ thread[t].at = "find"
    /\ LET found == peers[thread[t].id] IN
       thread' = [thread EXCEPT ![t].at = IF found = NULL THEN "none" ELSE "cacheId",
                                ![t].found = found]
    /\ Locally

cacheId(t) ==
    /\ thread[t].at = "cacheId"
    /\ cachedPeerId' = thread[t].id
    /\ Goes(t, "cachePeer")
    /\ Elsewhere /\ UNCHANGED <<peers, created, cachedPeer, sent, tun>>

cachePeerForgotten(t) ==  \* wrong on purpose: the id is cached, its Peer is not
    /\ thread[t].at = "cachePeer"
    /\ UNCHANGED created /\ Returned(t, thread[t].found)
    /\ Elsewhere /\ UNCHANGED <<peers, cachedPeerId, cachedPeer>>
cachePeer(t) ==
    /\ thread[t].at = "cachePeer"
    /\ cachedPeer' = thread[t].found
    /\ UNCHANGED created /\ Returned(t, thread[t].found)
    /\ Elsewhere /\ UNCHANGED <<peers, cachedPeerId>>

\* getPeer has returned nullptr: createPeer, if the caller wants one.
getPeerFails(t) ==
    /\ thread[t].at = "none"
    /\ IF thread[t].creates /\ thread[t].id \in allowed
       THEN Goes(t, "create") /\ UNCHANGED <<created, sent, tun>>
       ELSE UNCHANGED created /\ Returned(t, NULL)
    /\ Elsewhere /\ UNCHANGED <<peers, cachedPeerId, cachedPeer>>

createPeer(t) ==
    /\ thread[t].at = "create" /\ Len(created) < MaxPeers
    /\ created' = Append(created, thread[t].id)
    /\ peers' = [peers EXCEPT ![thread[t].id] = Len(created')]
    /\ Returned(t, Len(created'))
    /\ Elsewhere /\ UNCHANGED <<cachedPeerId, cachedPeer>>

-----------------------------------------------------------------------------
\* The configuration manager has new peers, or an address leaves the whitelist.
configChanges(S) ==
    /\ changes < MaxChanges /\ S # allowed
    /\ changes' = changes + 1
    /\ allowed' = S
    /\ midway' = (midway \/ \E t \in DOMAIN thread : Busy(t))
    /\ LET held == {cachedPeerId} \cup {thread[t].id : t \in {u \in DOMAIN thread : Busy(u)}} IN
       revoked' = (revoked \cup (allowed \ held)) \ S
    /\ UNCHANGED <<containerVars, thread, todo, sent, tun, overlap>>

getPeer(t) ==
    \/ compareCached(t) \/ returnCached(t) \/ checkAllowed(t)
    \/ find(t) \/ cacheId(t) \/ cachePeer(t)
getOrCreatePeer(t) == getPeer(t) \/ getPeerFails(t) \/ createPeer(t)

Next ==
    \/ \E i \in Others : (\E p \in PacketTo(i) : onTunData(p)) \/ (\E p \in PacketFrom(i) : dataReceived(i, p))
    \/ \E d \in todo : sendNext(d)
    \/ \E i \in Id, creates \in BOOLEAN : helloReceived(i, creates)
    \/ \E t \in DOMAIN thread : getOrCreatePeer(t)
    \/ \E S \in SUBSET Others : configChanges(S)

Spec == Init /\ [][Next]_vars

-----------------------------------------------------------------------------
\* What the application gave to the tun interface arrives at the peer it is meant
\* for as the packet it was, encrypted for that peer and from this node, as long
\* as the two threads have not been in the container at the same time.
RightPeer ==
    sent # Nothing /\ ~overlap =>
        /\ sent.to = sent.meant /\ sent.key = sent.meant
        /\ Decoded(Me, sent.to, sent.message) = sent.packet

\* A node has one Peer, and so one session, for each other node: a second one takes
\* the place of the first only if both threads created it at once, or the peer was
\* allowed again between the two checks of one lookup.
OnePeerEach ==
    ~overlap /\ ~midway =>
        \A m, n \in 1..Len(created) : created[m] = created[n] => m = n

\* Once a peer has been disallowed it is neither sent to nor received from, unless it
\* was the one in the cache or being looked up just then (getPeer returns the cached
\* Peer before it asks isPeerAllowed), or both threads have been in the container.
RevokedStaysOut ==
    [][/\ sent' # sent /\ sent' # Nothing /\ ~overlap' => sent'.key \notin revoked
       /\ tun' # tun /\ tun' # NoPacket => tun'.source \notin revoked]_vars
=============================================================================
