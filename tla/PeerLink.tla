------------------------------ MODULE PeerLink ------------------------------
(***************************************************************************)
(* How the NgSocket of one node (core/husarnet/ngsocket.cpp) finds and     *)
(* keeps a direct UDP path to each of its peers, and falls back to the     *)
(* base relay when it has none.                                            *)
(*                                                                         *)
(* An attempt sends a HELLO with a fresh cookie to every address the peer  *)
(* is known by; the first HELLO_REPLY that echoes the cookie decides the   *)
(* address used from then on.  HELLO and HELLO_REPLY are put into a        *)
(* bounded queue by the main thread and handled, with the 25 s refresh, by *)
(* the worker thread; everything else runs on the main thread.  Handlers   *)
(* are atomic here: the code has no lock between the two threads.          *)
(*                                                                         *)
(* The peers are the environment.  They answer a HELLO as helloReceived    *)
(* does, they send HELLOs of their own at any time, and the network moves  *)
(* addresses from one peer to another (mobility, NAT).  Packets are lost,  *)
(* delayed and reordered.  Signatures are perfect, so the peer a HELLO or  *)
(* HELLO_REPLY names as its sender is its sender.                          *)
(*                                                                         *)
(* Times are kept as what the code asks of them: late[p] says that         *)
(* lastReestablish is more than REESTABLISH_TIMEOUT ago, active[p] that    *)
(* lastPacket is less than TEARDOWN_TIMEOUT ago.                           *)
(***************************************************************************)
EXTENDS Naturals, Sequences, FiniteSets, SequencesExt

CONSTANTS
    Peer,                       \* peers the node is allowed to talk to
    Address,                    \* UDP addresses
    LinkLocal, PrivateV4,       \* the link-local and the private IPv4 ones among them
    None,                       \* no address, no peer, no cookie
    Cookie,                     \* values of helloCookie
    MAX_SOURCE_ADDRESSES,       \* ngsocket.h
    MAX_FAILED_ESTABLISHMENTS,  \* ngsocket.h
    WorkerQueueSize,            \* workerQueueSize
    MaxInFlight,                \* bound: packets in the network at a time
    MaxEvents                   \* bound: address changes and reports of them

ASSUME SetAssumption ==
    /\ LinkLocal \subseteq Address /\ PrivateV4 \subseteq Address
    /\ None \notin Peer \cup Address \cup Cookie
ASSUME LimitAssumption ==
    /\ MAX_SOURCE_ADDRESSES \in Nat \ {0}
    /\ MAX_FAILED_ESTABLISHMENTS \in Nat
    /\ WorkerQueueSize \in Nat /\ MaxInFlight \in Nat /\ MaxEvents \in Nat

VARIABLES
    known,                \* the peers in PeerContainer::peers
    connected, reestablishing, targetAddress, helloCookie,  \* fields of Peer
    failedEstablishments, \* Peer field, counted up to MAX_FAILED_ESTABLISHMENTS + 1
    targetAddresses, linkLocalAddress, sourceAddresses,     \* fields of Peer
    late, active,         \* Peer::lastReestablish and lastPacket, see above
    peerSourceAddresses,  \* NgSocket: the peer a source address stands for
    workerQueue,          \* NgSocket
    holder,               \* environment: holder[a], the peer that a leads to
    net,                  \* environment: HELLOs of the node and replies to them
    events,               \* environment: how much of MaxEvents has been used
    since                 \* history: addresses p held since the last attempt for p

linkVars == <<connected, reestablishing, targetAddress, helloCookie, failedEstablishments,
              late>>
addressVars == <<targetAddresses, linkLocalAddress, sourceAddresses, peerSourceAddresses>>
vars == <<known, linkVars, addressVars, active, workerQueue, holder, net, events, since>>

-----------------------------------------------------------------------------
HelloTo(a, p, c) == [kind |-> "HELLO", to |-> a, peer |-> p, cookie |-> c]
HelloFrom(a, p) == [kind |-> "PEER_HELLO", src |-> a, peer |-> p]
ReplyFrom(a, p, c) == [kind |-> "HELLO_REPLY", src |-> a, peer |-> p, cookie |-> c]
Incoming == [kind : {"PEER_HELLO"}, src : Address, peer : Peer]
            \cup [kind : {"HELLO_REPLY"}, src : Address, peer : Peer, cookie : Cookie]
Outgoing == [kind : {"HELLO"}, to : Address, peer : Peer, cookie : Cookie]
Refresh == [kind |-> "refresh"]

Held(h, p) == {a \in Address : h[a] = p}

Init ==
    /\ known = {}
    /\ connected = [p \in Peer |-> FALSE]
    /\ reestablishing = [p \in Peer |-> FALSE]
    /\ targetAddress = [p \in Peer |-> None]
    /\ helloCookie = [p \in Peer |-> None]
    /\ failedEstablishments = [p \in Peer |-> 0]
    /\ targetAddresses = [p \in Peer |-> {}]
    /\ linkLocalAddress = [p \in Peer |-> None]
    /\ sourceAddresses = [p \in Peer |-> {}]
    /\ late = [p \in Peer |-> TRUE]
    /\ active = [p \in Peer |-> FALSE]
    /\ peerSourceAddresses = [a \in Address |-> None]
    /\ workerQueue = <<>>
    /\ holder \in [Address -> Peer \cup {None}]
    /\ net = {} /\ events = 0
    /\ since = [p \in Peer |-> {}]

-----------------------------------------------------------------------------
\* The network may lose any of the packets it is given.
Carried(packets) == {s \in SUBSET packets : Cardinality(s) <= MaxInFlight}

(***************************************************************************)
(* attemptReestablish, for the peers in ps.  A cookie is 16 random bytes:  *)
(* it differs from every cookie in use.  The model recycles values that no *)
(* peer and no queued task holds; a packet still in flight with a recycled *)
(* value is one that gets lost.                                            *)
(***************************************************************************)
QueuedCookies == {workerQueue[i].cookie :
                    i \in {j \in DOMAIN workerQueue : workerQueue[j].kind = "HELLO_REPLY"}}
FreshCookies == Cookie \ ({helloCookie[p] : p \in Peer} \cup QueuedCookies)

\* The addresses a HELLO goes to.
CandidatesUnset(p, targets, linkLocals, sources) ==  \* wrong on purpose: also an unset address
    targets[p] \cup {linkLocals[p]} \cup sources[p]
Candidates(p, targets, linkLocals, sources) ==
    (targets[p] \cup {linkLocals[p]} \cup sources[p]) \ {None}

CountUp(f) == IF f <= MAX_FAILED_ESTABLISHMENTS THEN f + 1 ELSE f

\* The fields attemptReestablish writes, except connected and targetAddress.
Attempt(ps, fresh, targets, linkLocals, sources) ==
    /\ helloCookie' = [p \in Peer |-> IF p \in ps THEN fresh[p] ELSE helloCookie[p]]
    /\ failedEstablishments' = [p \in Peer |-> IF p \in ps THEN CountUp(failedEstablishments[p])
                                                           ELSE failedEstablishments[p]]
    /\ late' = [p \in Peer |-> late[p] /\ p \notin ps]
    /\ reestablishing' = [p \in Peer |-> reestablishing[p] \/ p \in ps]
    /\ since' = [p \in Peer |-> IF p \in ps THEN Held(holder, p) ELSE since[p]]
    /\ net' \in Carried({m \in net : m.cookie \notin {fresh[p] : p \in ps}}
                        \cup UNION {{HelloTo(a, p, fresh[p]) :
                                       a \in Candidates(p, targets, linkLocals, sources)} : p \in ps})

\* One attempt for p, after which its address sets are the given ones.
attemptReestablish(p, targets, linkLocals, sources) ==
    \E c \in FreshCookies : Attempt({p}, [q \in {p} |-> c], targets, linkLocals, sources)

NoAttempt ==
    UNCHANGED <<helloCookie, failedEstablishments, late, reestablishing, since, net>>

\* sendDataToPeer: on the direct path, or through the base, in which case an
\* attempt is made unless one is under way or too many have failed.
MayAttempt(p) ==
    \/ ~reestablishing[p]
    \/ late[p] /\ failedEstablishments[p] <= MAX_FAILED_ESTABLISHMENTS
sendDataToPeer(p) ==
    /\ known' = known \cup {p}
    /\ IF ~connected[p] /\ MayAttempt(p)
       THEN attemptReestablish(p, targetAddresses, linkLocalAddress, sourceAddresses)
       ELSE NoAttempt
    /\ active' = [active EXCEPT ![p] = TRUE]
    /\ UNCHANGED <<connected, targetAddress, addressVars, workerQueue, holder, events>>

Event == events < MaxEvents /\ events' = events + 1

\* changePeerTargetAddresses: the base reports where p can be reached.
changePeerTargetAddresses(p, addresses) ==
    /\ Event
    /\ p \in known
    /\ targetAddresses[p] # addresses
    /\ targetAddresses' = [targetAddresses EXCEPT ![p] = addresses]
    /\ attemptReestablish(p, targetAddresses', linkLocalAddress, sourceAddresses)
    /\ UNCHANGED <<known, connected, targetAddress, linkLocalAddress, sourceAddresses,
                   peerSourceAddresses, active, workerQueue, holder>>

\* multicastPacketReceived: p announces itself on the local network.
multicastPacketReceived(p, a) ==
    /\ a \in LinkLocal \cup PrivateV4
    /\ Event
    /\ p \in known
    /\ linkLocalAddress[p] # a
    /\ linkLocalAddress' = [linkLocalAddress EXCEPT ![p] = a]
    /\ attemptReestablish(p, targetAddresses, linkLocalAddress', sourceAddresses)
    /\ UNCHANGED <<known, connected, targetAddress, targetAddresses, sourceAddresses,
                   peerSourceAddresses, active, workerQueue, holder>>

-----------------------------------------------------------------------------
(* The worker queue. *)

HasRoom == Len(workerQueue) < WorkerQueueSize

\* requestRefresh: dropped if the queue is full.
requestRefresh ==
    /\ HasRoom
    /\ workerQueue' = Append(workerQueue, Refresh)
    /\ UNCHANGED <<known, linkVars, addressVars, active, holder, net, since, events>>

\* udpPacketReceived: HELLO and HELLO_REPLY go to the worker, or are dropped.
udpPacketReceived(m) ==
    /\ workerQueue' = IF HasRoom THEN Append(workerQueue, m) ELSE workerQueue
    /\ net' = net \ {m}
    /\ UNCHANGED <<known, linkVars, addressVars, active, holder, since, events>>

WorkerTakes(kind) ==
    /\ workerQueue # <<>>
    /\ Head(workerQueue).kind = kind
    /\ workerQueue' = Tail(workerQueue)

\* addSourceAddress: which address makes room is random.
SourcesWithRoom(p) ==
    IF Cardinality(sourceAddresses[p]) >= MAX_SOURCE_ADDRESSES
    THEN {sourceAddresses[p] \ {a} : a \in sourceAddresses[p]}
    ELSE {sourceAddresses[p]}
addSourceAddressShared(p, a) ==  \* wrong on purpose: the peer that had a keeps it
    IF a \in sourceAddresses[p]
    THEN UNCHANGED <<sourceAddresses, peerSourceAddresses>>
    ELSE \E kept \in SourcesWithRoom(p) :
            /\ sourceAddresses' = [sourceAddresses EXCEPT ![p] = kept \cup {a}]
            /\ peerSourceAddresses' = [b \in Address |->
                    IF b = a THEN p
                    ELSE IF b \in sourceAddresses[p] \ kept THEN None
                    ELSE peerSourceAddresses[b]]
addSourceAddress(p, a) ==
    IF a \in sourceAddresses[p]
    THEN UNCHANGED <<sourceAddresses, peerSourceAddresses>>
    ELSE \E kept \in SourcesWithRoom(p) :
            /\ sourceAddresses' = [q \in Peer |-> IF q = p THEN kept \cup {a}
                                                           ELSE sourceAddresses[q] \ {a}]
            /\ peerSourceAddresses' = [b \in Address |->
                    IF b = a THEN p
                    ELSE IF b \in sourceAddresses[p] \ kept THEN None
                    ELSE peerSourceAddresses[b]]

\* helloReceived, on the worker.  The reply it sends is of no further
\* consequence here: the peer's end is the environment.
NewLinkLocal(m) == m.src \in LinkLocal /\ linkLocalAddress[m.peer] = None
helloReceived ==
    /\ WorkerTakes("PEER_HELLO")
    /\ LET m == Head(workerQueue)
           p == m.peer
       IN  /\ known' = known \cup {p}
           /\ addSourceAddress(p, m.src)
           /\ linkLocalAddress' = [linkLocalAddress EXCEPT ![p] = IF NewLinkLocal(m) THEN m.src ELSE @]
           /\ IF NewLinkLocal(m) /\ active[p]
              THEN attemptReestablish(p, targetAddresses, linkLocalAddress', sourceAddresses')
              ELSE NoAttempt
    /\ UNCHANGED <<connected, targetAddress, targetAddresses, active, holder, events>>

\* helloReplyReceived, on the worker.
ReplyAcceptedAnyCookie(m) ==  \* wrong on purpose: the cookie is not compared
    /\ m.peer \in known
    /\ reestablishing[m.peer]
ReplyAccepted(m) ==
    /\ m.peer \in known
    /\ reestablishing[m.peer]
    /\ helloCookie[m.peer] = m.cookie
helloReplyReceived ==
    /\ WorkerTakes("HELLO_REPLY")
    /\ LET m == Head(workerQueue)
           p == m.peer
       IN  IF ReplyAccepted(m)
           THEN /\ targetAddress' = [targetAddress EXCEPT ![p] = m.src]
                /\ connected' = [connected EXCEPT ![p] = TRUE]
                /\ failedEstablishments' = [failedEstablishments EXCEPT ![p] = 0]
                /\ reestablishing' = [reestablishing EXCEPT ![p] = FALSE]
           ELSE UNCHANGED <<targetAddress, connected, failedEstablishments, reestablishing>>
    /\ UNCHANGED <<known, helloCookie, late, addressVars, active, holder, net, since, events>>

\* periodicPeer, for one peer; silent is the set of peers whose session has
\* timed out (SecurityLayer!periodicPeer).
StaysConnectedUnanswered(p, silent) ==  \* wrong on purpose: unanswered attempts do not count
    /\ connected[p]
    /\ p \notin silent
    /\ active[p]
StaysConnected(p, silent) ==
    /\ connected[p]
    /\ p \notin silent
    /\ active[p]
    /\ ~(reestablishing[p] /\ late[p])

\* refresh, on the worker: periodicPeer for every peer.
refresh ==
    /\ WorkerTakes("refresh")
    /\ \E silent \in SUBSET known :
          LET retried == {p \in known \ silent : active[p]}
          IN  /\ connected' = [p \in Peer |-> IF p \in known THEN StaysConnected(p, silent)
                                                             ELSE connected[p]]
              /\ \E fresh \in [retried -> FreshCookies] :
                    /\ IsInjective(fresh)
                    /\ Attempt(retried, fresh, targetAddresses, linkLocalAddress, sourceAddresses)
    /\ UNCHANGED <<known, targetAddress, addressVars, active, holder, events>>

-----------------------------------------------------------------------------
(* Time and the environment. *)

ReestablishTimeout(p) ==
    /\ ~late[p]
    /\ late' = [late EXCEPT ![p] = TRUE]
    /\ UNCHANGED <<known, connected, reestablishing, targetAddress, helloCookie,
                   failedEstablishments, addressVars, active, workerQueue, holder, net, since, events>>

TeardownTimeout(p) ==
    /\ active[p]
    /\ active' = [active EXCEPT ![p] = FALSE]
    /\ UNCHANGED <<known, linkVars, addressVars, workerQueue, holder, net, since, events>>

\* A HELLO reaches the holder of its address, which answers if it is for it.
PeerAnswers(m) ==
    /\ m.kind = "HELLO"
    /\ net' \in Carried((net \ {m}) \cup (IF holder[m.to] = m.peer
                                          THEN {ReplyFrom(m.to, m.peer, m.cookie)} ELSE {}))
    /\ UNCHANGED <<known, linkVars, addressVars, active, workerQueue, holder, since, events>>

\* An address comes to lead to another peer, or to none.
Reassign(a, q) ==
    /\ Event
    /\ holder[a] # q
    /\ holder' = [holder EXCEPT ![a] = q]
    /\ since' = [p \in Peer |-> since[p] \cup Held(holder', p)]
    /\ UNCHANGED <<known, linkVars, addressVars, active, workerQueue, net>>

MainThread ==
    \/ \E p \in Peer : sendDataToPeer(p)
    \/ \E p \in Peer, s \in SUBSET Address : changePeerTargetAddresses(p, s)
    \/ \E p \in Peer, a \in Address : multicastPacketReceived(p, a)
    \/ requestRefresh
    \/ \E m \in net : m.kind = "HELLO_REPLY" /\ udpPacketReceived(m)
    \/ \E a \in Address : holder[a] # None /\ udpPacketReceived(HelloFrom(a, holder[a]))

WorkerThread == helloReceived \/ helloReplyReceived \/ refresh

Environment ==
    \/ \E p \in Peer : ReestablishTimeout(p) \/ TeardownTimeout(p)
    \/ \E m \in net : PeerAnswers(m)
    \/ \E a \in Address, q \in Peer \cup {None} : Reassign(a, q)

Next == MainThread \/ WorkerThread \/ Environment
Spec == Init /\ [][Next]_vars

\* periodic asks for a refresh every second once the last one is 25 s old, and
\* finds room in the queue again and again (it has 256 slots); the worker keeps
\* working; REESTABLISH_TIMEOUT, 3 s, passes between attempts again and again.
\* Applications are not obliged to send, the network is not obliged to
\* deliver, peers are not obliged to answer.
Fairness ==
    /\ SF_vars(requestRefresh)
    /\ WF_vars(WorkerThread)
    /\ \A p \in Peer : SF_vars(ReestablishTimeout(p))
FairSpec == Spec /\ Fairness

-----------------------------------------------------------------------------
\* Every variable keeps the type its declaration comment gives it; in
\* particular no HELLO is sent to an address that is not set.
TypeOK ==
    /\ known \subseteq Peer
    /\ connected \in [Peer -> BOOLEAN] /\ reestablishing \in [Peer -> BOOLEAN]
    /\ targetAddress \in [Peer -> Address \cup {None}]
    /\ helloCookie \in [Peer -> Cookie \cup {None}]
    /\ failedEstablishments \in [Peer -> 0..(MAX_FAILED_ESTABLISHMENTS + 1)]
    /\ targetAddresses \in [Peer -> SUBSET Address]
    /\ linkLocalAddress \in [Peer -> Address \cup {None}]
    /\ sourceAddresses \in [Peer -> SUBSET Address]
    /\ late \in [Peer -> BOOLEAN] /\ active \in [Peer -> BOOLEAN]
    /\ peerSourceAddresses \in [Address -> Peer \cup {None}]
    /\ workerQueue \in Seq(Incoming \cup {Refresh})
    /\ holder \in [Address -> Peer \cup {None}]
    /\ net \subseteq Incoming \cup Outgoing /\ events \in 0..MaxEvents
    /\ since \in [Peer -> SUBSET Address]

\* The address index and the address sets of the peers always say the same:
\* an address is in at most one peer's set, and it is the index that says
\* whose (addSourceAddress and removeSourceAddress); no peer has more than
\* MAX_SOURCE_ADDRESSES.
SourceIndex ==
    \A p \in Peer :
        /\ \A a \in Address : peerSourceAddresses[a] = p <=> a \in sourceAddresses[p]
        /\ Cardinality(sourceAddresses[p]) <= MAX_SOURCE_ADDRESSES

\* The address a link starts to use was the peer's at some moment after the
\* latest attempt began: a reply to an earlier attempt, late in the network or
\* in the worker queue, never makes the node send to an address that the peer
\* had already lost (helloCookie in helloReplyReceived).
FreshTarget ==
    [][\A p \in Peer :
          connected'[p] /\ (~connected[p] \/ targetAddress'[p] # targetAddress[p])
          => targetAddress'[p] \in since[p]]_vars

\* Packets are not sent to a dead address for ever: a link whose address no
\* longer leads to the peer falls back to the relay, or finds a new address,
\* or the address comes back (periodicPeer, "falling back to relay").
FallsBack ==
    \A p \in Peer :
        (connected[p] /\ holder[targetAddress[p]] # p)
            ~> (~connected[p] \/ holder[targetAddress[p]] = p)
=============================================================================
