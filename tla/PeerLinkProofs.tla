--------------------------- MODULE PeerLinkProofs ---------------------------
(***************************************************************************)
(* What PeerLink guarantees for any number of peers, addresses, cookies    *)
(* and packets: its types, the agreement of the two address indexes, and   *)
(* that only an answer to the latest attempt opens a direct path.          *)
(***************************************************************************)
EXTENDS PeerLink, FiniteSetTheorems, TLAPS

\* A HELLO or HELLO_REPLY that has not been handled.
Replies == [kind : {"HELLO_REPLY"}, src : Address, peer : Peer, cookie : Cookie]
Pending(m) == m \in net \/ \E i \in 1..Len(workerQueue) : workerQueue[i] = m

\* An answer to the latest attempt comes from an address that the peer held
\* after that attempt began.
AnswersFresh ==
    \A m \in Replies : Pending(m) /\ helloCookie[m.peer] = m.cookie => m.src \in since[m.peer]

\* since remembers every address a peer has held since its last attempt.
HeldRemembered ==
    \A p \in Peer : helloCookie[p] # None => Held(holder, p) \subseteq since[p]

\* Only packets with a cookie are in the network.
NetTyped == net \subseteq Replies \cup Outgoing

\* What an attempt must keep: the fields attemptReestablish writes.
AttemptInv ==
    /\ helloCookie \in [Peer -> Cookie \cup {None}]
    /\ failedEstablishments \in [Peer -> 0..(MAX_FAILED_ESTABLISHMENTS + 1)]
    /\ late \in [Peer -> BOOLEAN] /\ reestablishing \in [Peer -> BOOLEAN]
    /\ since \in [Peer -> SUBSET Address]
    /\ NetTyped /\ AnswersFresh /\ HeldRemembered

SourcesFinite == \A p \in Peer : IsFiniteSet(sourceAddresses[p])

LinkInv == TypeOK /\ NetTyped /\ AnswersFresh /\ HeldRemembered
IndexInv == SourcesFinite /\ SourceIndex

USE SetAssumption, LimitAssumption

-----------------------------------------------------------------------------
(* What the parts of an action do. *)

LEMMA ReplyKind ==
    /\ \A m \in Replies : m.kind = "HELLO_REPLY" /\ m.src \in Address /\ m.peer \in Peer /\ m.cookie \in Cookie
    /\ \A m \in Outgoing : m.kind = "HELLO" /\ m.to \in Address /\ m.peer \in Peer /\ m.cookie \in Cookie
    /\ \A m \in Incoming : m.src \in Address /\ m.peer \in Peer
    /\ \A m \in Incoming : m.kind = "HELLO_REPLY" => m \in Replies
    /\ Replies \subseteq Incoming
    /\ Refresh.kind = "refresh"
BY DEF Replies, Outgoing, Incoming, Refresh

\* What attemptReestablish does for the peers in ps, from addresses of the
\* right type.
LEMMA AttemptKeeps ==
    ASSUME LinkInv, NEW ps \in SUBSET Peer, NEW fresh \in [ps -> FreshCookies],
           NEW targets \in [Peer -> SUBSET Address],
           NEW linkLocals \in [Peer -> Address \cup {None}],
           NEW sources \in [Peer -> SUBSET Address],
           Attempt(ps, fresh, targets, linkLocals, sources),
           UNCHANGED holder,
           \A i \in 1..Len(workerQueue') : \E j \in 1..Len(workerQueue) :
               workerQueue'[i] = workerQueue[j]
    PROVE  AttemptInv'
<1>1. \A p \in ps : fresh[p] \in Cookie
  BY DEF FreshCookies
<1>2. helloCookie' \in [Peer -> Cookie \cup {None}]
  BY <1>1 DEF Attempt, LinkInv, TypeOK
<1>3. failedEstablishments' \in [Peer -> 0..(MAX_FAILED_ESTABLISHMENTS + 1)]
  BY DEF Attempt, LinkInv, TypeOK, CountUp
<1>4. late' \in [Peer -> BOOLEAN] /\ reestablishing' \in [Peer -> BOOLEAN]
  BY DEF Attempt, LinkInv, TypeOK
<1>5. since' \in [Peer -> SUBSET Address]
  BY DEF Attempt, LinkInv, TypeOK, Held
<1>6. ASSUME NEW m \in net'
      PROVE  \/ m \in net /\ \A p \in ps : m.cookie # fresh[p]
             \/ m \in Outgoing
  <2>1. \A p \in ps : Candidates(p, targets, linkLocals, sources) \subseteq Address
    BY DEF Candidates
  <2>2. \A p \in ps, a \in Address : HelloTo(a, p, fresh[p]) \in Outgoing
    BY <1>1 DEF HelloTo, Outgoing
  <2>3. m \in {n \in net : n.cookie \notin {fresh[p] : p \in ps}}
              \cup UNION {{HelloTo(a, p, fresh[p]) :
                             a \in Candidates(p, targets, linkLocals, sources)} : p \in ps}
    BY <1>6 DEF Attempt, Carried
  <2> QED BY <2>1, <2>2, <2>3
<1>7. NetTyped'
  BY <1>6 DEF LinkInv, NetTyped
<1>8. AnswersFresh'
  <2> SUFFICES ASSUME NEW m \in Replies, Pending(m)', helloCookie'[m.peer] = m.cookie
               PROVE  m.src \in since'[m.peer]
    BY DEF AnswersFresh
  <2>1. m.kind = "HELLO_REPLY" /\ m.peer \in Peer /\ m.cookie \in Cookie
    BY ReplyKind
  <2>2. m \notin Outgoing
    BY <2>1, ReplyKind
  <2>3. Pending(m)
    BY <1>6, <2>2 DEF Pending
  <2>4. CASE m.peer \in ps
    <3>1. m.cookie = fresh[m.peer]
      BY <2>1, <2>4 DEF Attempt
    <3>2. m \notin net'
      BY <1>6, <2>2, <2>4, <3>1
    <3>3. PICK j \in 1..Len(workerQueue) : workerQueue[j] = m
      BY <3>2 DEF Pending
    <3>4. j \in DOMAIN workerQueue
      BY DEF LinkInv, TypeOK
    <3>5. m.cookie \in QueuedCookies
      BY <2>1, <3>3, <3>4 DEF QueuedCookies
    <3> QED BY <2>4, <3>1, <3>5 DEF FreshCookies
  <2>5. CASE m.peer \notin ps
    <3>1. helloCookie'[m.peer] = helloCookie[m.peer] /\ since'[m.peer] = since[m.peer]
      BY <2>1, <2>5 DEF Attempt
    <3> QED BY <2>3, <3>1 DEF LinkInv, AnswersFresh
  <2> QED BY <2>4, <2>5
<1>9. HeldRemembered'
  BY DEF Attempt, LinkInv, HeldRemembered, Held
<1> QED BY <1>2, <1>3, <1>4, <1>5, <1>7, <1>8, <1>9 DEF AttemptInv

LEMMA OneAttemptKeeps ==
    ASSUME LinkInv, NEW p \in Peer,
           NEW targets \in [Peer -> SUBSET Address],
           NEW linkLocals \in [Peer -> Address \cup {None}],
           NEW sources \in [Peer -> SUBSET Address],
           attemptReestablish(p, targets, linkLocals, sources),
           UNCHANGED holder,
           \A i \in 1..Len(workerQueue') : \E j \in 1..Len(workerQueue) :
               workerQueue'[i] = workerQueue[j]
    PROVE  AttemptInv'
<1>1. PICK c \in FreshCookies : Attempt({p}, [q \in {p} |-> c], targets, linkLocals, sources)
  BY DEF attemptReestablish
<1>2. {p} \in SUBSET Peer /\ [q \in {p} |-> c] \in [{p} -> FreshCookies]
  OBVIOUS
<1> QED BY <1>1, <1>2, AttemptKeeps

\* What an action without an attempt does that adds no answer to the queue.
LEMMA NoAttemptKeeps ==
    ASSUME LinkInv, NoAttempt, UNCHANGED holder,
           \A i \in 1..Len(workerQueue') : \E j \in 1..Len(workerQueue) :
               workerQueue'[i] = workerQueue[j]
    PROVE  AttemptInv'
<1>1. AnswersFresh'
  BY DEF LinkInv, NoAttempt, AnswersFresh, Pending
<1> QED BY <1>1 DEF AttemptInv, LinkInv, NoAttempt, TypeOK, NetTyped, HeldRemembered, Held

\* The worker takes the head of the queue and leaves the others.
LEMMA TakenHead ==
    ASSUME LinkInv, NEW kind, WorkerTakes(kind)
    PROVE  /\ workerQueue' \in Seq(Incoming \cup {Refresh})
           /\ Head(workerQueue) \in Incoming \cup {Refresh}
           /\ Head(workerQueue).kind = kind
           /\ Head(workerQueue) = workerQueue[1] /\ 1 \in 1..Len(workerQueue)
           /\ \A i \in 1..Len(workerQueue') : \E j \in 1..Len(workerQueue) :
                  workerQueue'[i] = workerQueue[j]
<1>1. workerQueue \in Seq(Incoming \cup {Refresh}) /\ workerQueue # <<>>
  BY DEF LinkInv, TypeOK, WorkerTakes
<1>2. workerQueue' = Tail(workerQueue)
  BY DEF WorkerTakes
<1>3. Len(workerQueue') = Len(workerQueue) - 1
      /\ \A i \in 1..Len(workerQueue') : workerQueue'[i] = workerQueue[i + 1] /\ i + 1 \in 1..Len(workerQueue)
  BY <1>1, <1>2
<1>4. \A i \in 1..Len(workerQueue') : \E j \in 1..Len(workerQueue) : workerQueue'[i] = workerQueue[j]
  BY <1>3
<1>5. workerQueue' \in Seq(Incoming \cup {Refresh}) /\ Head(workerQueue) \in Incoming \cup {Refresh}
      /\ Head(workerQueue) = workerQueue[1] /\ 1 \in 1..Len(workerQueue)
  BY <1>1, <1>2
<1> QED BY <1>4, <1>5 DEF WorkerTakes

\* addSourceAddress keeps the types.
LEMMA AddTyped ==
    ASSUME TypeOK, NEW p \in Peer, NEW a \in Address, addSourceAddress(p, a)
    PROVE  /\ sourceAddresses' \in [Peer -> SUBSET Address]
           /\ peerSourceAddresses' \in [Address -> Peer \cup {None}]
<1>1. \A kept \in SourcesWithRoom(p) : kept \subseteq sourceAddresses[p]
  BY DEF SourcesWithRoom
<1>2. CASE a \in sourceAddresses[p]
  BY <1>2 DEF addSourceAddress, TypeOK
<1>3. CASE a \notin sourceAddresses[p]
  <2>1. PICK kept \in SourcesWithRoom(p) :
          /\ sourceAddresses' = [q \in Peer |-> IF q = p THEN kept \cup {a}
                                                         ELSE sourceAddresses[q] \ {a}]
          /\ peerSourceAddresses' = [b \in Address |->
                  IF b = a THEN p
                  ELSE IF b \in sourceAddresses[p] \ kept THEN None
                  ELSE peerSourceAddresses[b]]
    BY <1>3 DEF addSourceAddress
  <2>2. sourceAddresses \in [Peer -> SUBSET Address]
        /\ peerSourceAddresses \in [Address -> Peer \cup {None}]
    BY DEF TypeOK
  <2>3. kept \cup {a} \in SUBSET Address
    BY <1>1, <2>2
  <2>4. \A q \in Peer : (IF q = p THEN kept \cup {a} ELSE sourceAddresses[q] \ {a}) \in SUBSET Address
    BY <2>2, <2>3
  <2>5. sourceAddresses' \in [Peer -> SUBSET Address]
    BY <2>1, <2>4
  <2>6. peerSourceAddresses' \in [Address -> Peer \cup {None}]
    BY <2>1, <2>2
  <2> QED BY <2>5, <2>6
<1> QED BY <1>2, <1>3

-----------------------------------------------------------------------------
(* LinkInv is inductive. *)

LEMMA InitLink == Init => LinkInv
<1> SUFFICES ASSUME Init PROVE LinkInv
  OBVIOUS
<1>1. workerQueue \in Seq(Incoming \cup {Refresh}) /\ Len(workerQueue) = 0
  BY DEF Init
<1>2. TypeOK
  BY <1>1 DEF Init, TypeOK
<1>3. NetTyped /\ AnswersFresh /\ HeldRemembered
  BY <1>1 DEF Init, NetTyped, AnswersFresh, Pending, HeldRemembered
<1> QED BY <1>2, <1>3 DEF LinkInv

LEMMA SendKeeps ==
    ASSUME LinkInv, NEW p \in Peer, sendDataToPeer(p)
    PROVE  LinkInv'
<1>1. \A i \in 1..Len(workerQueue') : \E j \in 1..Len(workerQueue) : workerQueue'[i] = workerQueue[j]
  BY DEF sendDataToPeer
<1>2. /\ targetAddresses \in [Peer -> SUBSET Address]
      /\ linkLocalAddress \in [Peer -> Address \cup {None}]
      /\ sourceAddresses \in [Peer -> SUBSET Address]
  BY DEF LinkInv, TypeOK
<1>3. AttemptInv'
  <2>1. CASE ~connected[p] /\ MayAttempt(p)
    <3>1. attemptReestablish(p, targetAddresses, linkLocalAddress, sourceAddresses) /\ UNCHANGED holder
      BY <2>1 DEF sendDataToPeer
    <3> QED BY <1>1, <1>2, <3>1, OneAttemptKeeps
  <2>2. CASE ~(~connected[p] /\ MayAttempt(p))
    <3>1. NoAttempt /\ UNCHANGED holder
      BY <2>2 DEF sendDataToPeer
    <3> QED BY <1>1, <3>1, NoAttemptKeeps
  <2> QED BY <2>1, <2>2
<1>4. active' \in [Peer -> BOOLEAN]
  BY DEF sendDataToPeer, LinkInv, TypeOK
<1>5. net' \subseteq Incoming \cup Outgoing
  BY <1>3, ReplyKind DEF AttemptInv, NetTyped
<1>6. TypeOK'
  BY <1>3, <1>4, <1>5 DEF AttemptInv, sendDataToPeer, LinkInv, TypeOK, addressVars
<1> QED BY <1>3, <1>6 DEF AttemptInv, LinkInv

LEMMA ReportKeeps ==
    ASSUME LinkInv, NEW p \in Peer,
           \/ \E s \in SUBSET Address : changePeerTargetAddresses(p, s)
           \/ \E a \in Address : multicastPacketReceived(p, a)
    PROVE  LinkInv'
<1>1. /\ targetAddresses' \in [Peer -> SUBSET Address]
      /\ linkLocalAddress' \in [Peer -> Address \cup {None}]
  <2>1. CASE \E s \in SUBSET Address : changePeerTargetAddresses(p, s)
    BY <2>1 DEF changePeerTargetAddresses, LinkInv, TypeOK
  <2>2. CASE \E a \in Address : multicastPacketReceived(p, a)
    BY <2>2 DEF multicastPacketReceived, LinkInv, TypeOK
  <2> QED BY <2>1, <2>2
<1>2. /\ targetAddresses \in [Peer -> SUBSET Address]
      /\ linkLocalAddress \in [Peer -> Address \cup {None}]
      /\ sourceAddresses \in [Peer -> SUBSET Address]
  BY DEF LinkInv, TypeOK
<1>3. UNCHANGED <<workerQueue, holder, known, connected, targetAddress, sourceAddresses,
                  peerSourceAddresses, active>>
  BY DEF changePeerTargetAddresses, multicastPacketReceived
<1>4. \A i \in 1..Len(workerQueue') : \E j \in 1..Len(workerQueue) : workerQueue'[i] = workerQueue[j]
  BY <1>3
<1>5. \/ attemptReestablish(p, targetAddresses', linkLocalAddress, sourceAddresses)
      \/ attemptReestablish(p, targetAddresses, linkLocalAddress', sourceAddresses)
  BY DEF changePeerTargetAddresses, multicastPacketReceived
<1>6. AttemptInv'
  BY <1>1, <1>2, <1>3, <1>4, <1>5, OneAttemptKeeps
<1>7. events' \in 0..MaxEvents
  BY DEF changePeerTargetAddresses, multicastPacketReceived, Event, LinkInv, TypeOK
<1>8. net' \subseteq Incoming \cup Outgoing
  BY <1>6, ReplyKind DEF AttemptInv, NetTyped
<1>9. TypeOK'
  BY <1>1, <1>3, <1>6, <1>7, <1>8 DEF AttemptInv, LinkInv, TypeOK
<1> QED BY <1>6, <1>9 DEF AttemptInv, LinkInv

\* A message put into the queue or dropped.
LEMMA QueuedOrDropped ==
    ASSUME LinkInv, NEW m \in Incoming \cup {Refresh},
           workerQueue' = Append(workerQueue, m) \/ workerQueue' = workerQueue
    PROVE  /\ workerQueue' \in Seq(Incoming \cup {Refresh})
           /\ \A i \in 1..Len(workerQueue') :
                 \/ workerQueue'[i] = m
                 \/ \E j \in 1..Len(workerQueue) : workerQueue'[i] = workerQueue[j]
<1>1. workerQueue \in Seq(Incoming \cup {Refresh})
  BY DEF LinkInv, TypeOK
<1>2. CASE workerQueue' = Append(workerQueue, m)
  <2>1. workerQueue' \in Seq(Incoming \cup {Refresh}) /\ Len(workerQueue') = Len(workerQueue) + 1
    BY <1>1, <1>2
  <2>2. \A i \in 1..Len(workerQueue') :
           IF i = Len(workerQueue) + 1 THEN workerQueue'[i] = m
           ELSE workerQueue'[i] = workerQueue[i] /\ i \in 1..Len(workerQueue)
    BY <1>1, <1>2
  <2> QED BY <2>1, <2>2
<1>3. CASE workerQueue' = workerQueue
  BY <1>1, <1>3
<1> QED BY <1>2, <1>3

LEMMA EnqueueKeeps ==
    ASSUME LinkInv,
           \/ requestRefresh
           \/ \E m \in net : m.kind = "HELLO_REPLY" /\ udpPacketReceived(m)
           \/ \E a \in Address : holder[a] # None /\ udpPacketReceived(HelloFrom(a, holder[a]))
    PROVE  LinkInv'
<1>1. UNCHANGED <<known, linkVars, addressVars, active, holder, since, events>>
  BY DEF requestRefresh, udpPacketReceived
<1>2. net' \subseteq net
  BY DEF requestRefresh, udpPacketReceived
<1>3. PICK m \in Incoming \cup {Refresh} :
        /\ workerQueue' = Append(workerQueue, m) \/ workerQueue' = workerQueue
        /\ m.kind = "HELLO_REPLY" => m \in net
  <2>1. CASE requestRefresh
    BY <2>1, ReplyKind DEF requestRefresh
  <2>2. CASE \E m \in net : m.kind = "HELLO_REPLY" /\ udpPacketReceived(m)
    <3>1. PICK m \in net : m.kind = "HELLO_REPLY" /\ udpPacketReceived(m)
      BY <2>2
    <3>2. m \in Incoming
      BY <3>1, ReplyKind DEF LinkInv, NetTyped
    <3> QED BY <3>1, <3>2 DEF udpPacketReceived
  <2>3. CASE \E a \in Address : holder[a] # None /\ udpPacketReceived(HelloFrom(a, holder[a]))
    <3>1. PICK a \in Address : holder[a] # None /\ udpPacketReceived(HelloFrom(a, holder[a]))
      BY <2>3
    <3>2. holder[a] \in Peer
      BY <3>1 DEF LinkInv, TypeOK
    <3>3. HelloFrom(a, holder[a]) \in Incoming /\ HelloFrom(a, holder[a]).kind = "PEER_HELLO"
      BY <3>2 DEF HelloFrom, Incoming
    <3> QED BY <3>1, <3>3 DEF udpPacketReceived
  <2> QED BY <2>1, <2>2, <2>3
<1>4. /\ workerQueue' \in Seq(Incoming \cup {Refresh})
      /\ \A i \in 1..Len(workerQueue') :
            \/ workerQueue'[i] = m
            \/ \E j \in 1..Len(workerQueue) : workerQueue'[i] = workerQueue[j]
  BY <1>3, QueuedOrDropped
<1>5. TypeOK'
  BY <1>1, <1>2, <1>4 DEF LinkInv, TypeOK, linkVars, addressVars
<1>6. NetTyped' /\ HeldRemembered'
  BY <1>1, <1>2 DEF LinkInv, NetTyped, HeldRemembered, Held, linkVars
<1>7. AnswersFresh'
  <2> SUFFICES ASSUME NEW r \in Replies, Pending(r)', helloCookie'[r.peer] = r.cookie
               PROVE  r.src \in since'[r.peer]
    BY DEF AnswersFresh
  <2>1. r.kind = "HELLO_REPLY"
    BY ReplyKind
  <2>2. Pending(r)
    BY <1>2, <1>3, <1>4, <2>1 DEF Pending
  <2> QED BY <1>1, <2>2 DEF LinkInv, AnswersFresh, linkVars
<1> QED BY <1>5, <1>6, <1>7 DEF LinkInv

LEMMA HelloKeeps ==
    ASSUME LinkInv, helloReceived
    PROVE  LinkInv'
<1> DEFINE m == Head(workerQueue)
           p == m.peer
<1>1. /\ workerQueue' \in Seq(Incoming \cup {Refresh})
      /\ m \in Incoming \cup {Refresh}
      /\ m.kind = "PEER_HELLO"
      /\ \A i \in 1..Len(workerQueue') : \E j \in 1..Len(workerQueue) :
             workerQueue'[i] = workerQueue[j]
  BY TakenHead DEF helloReceived
<1>2. m.src \in Address /\ p \in Peer
  BY <1>1, ReplyKind
<1> HIDE DEF m
<1>3. /\ known' = known \cup {p}
      /\ addSourceAddress(p, m.src)
      /\ linkLocalAddress' = [linkLocalAddress EXCEPT ![p] = IF NewLinkLocal(m) THEN m.src ELSE @]
      /\ IF NewLinkLocal(m) /\ active[p]
         THEN attemptReestablish(p, targetAddresses, linkLocalAddress', sourceAddresses')
         ELSE NoAttempt
      /\ UNCHANGED <<connected, targetAddress, targetAddresses, active, holder, events>>
  BY DEF helloReceived, m
<1>4. /\ sourceAddresses' \in [Peer -> SUBSET Address]
      /\ peerSourceAddresses' \in [Address -> Peer \cup {None}]
  BY <1>2, <1>3, AddTyped DEF LinkInv
<1>5. linkLocalAddress' \in [Peer -> Address \cup {None}]
  BY <1>2, <1>3 DEF LinkInv, TypeOK
<1>6. AttemptInv'
  <2>1. CASE NewLinkLocal(m) /\ active[p]
    <3>1. attemptReestablish(p, targetAddresses, linkLocalAddress', sourceAddresses')
      BY <1>3, <2>1
    <3>2. targetAddresses \in [Peer -> SUBSET Address]
      BY DEF LinkInv, TypeOK
    <3> QED BY <1>1, <1>2, <1>3, <1>4, <1>5, <3>1, <3>2, OneAttemptKeeps
  <2>2. CASE ~(NewLinkLocal(m) /\ active[p])
    BY <1>1, <1>3, <2>2, NoAttemptKeeps
  <2> QED BY <2>1, <2>2
<1>7. net' \subseteq Incoming \cup Outgoing
  BY <1>6, ReplyKind DEF AttemptInv, NetTyped
<1>8. known' \subseteq Peer
  BY <1>2, <1>3 DEF LinkInv, TypeOK
<1>9. TypeOK'
  BY <1>1, <1>3, <1>4, <1>5, <1>6, <1>7, <1>8 DEF AttemptInv, LinkInv, TypeOK
<1> QED BY <1>6, <1>9 DEF AttemptInv, LinkInv

LEMMA ReplyKeeps ==
    ASSUME LinkInv, helloReplyReceived
    PROVE  LinkInv'
<1> DEFINE m == Head(workerQueue)
           p == m.peer
<1>1. /\ workerQueue' \in Seq(Incoming \cup {Refresh})
      /\ m \in Incoming \cup {Refresh}
      /\ m.kind = "HELLO_REPLY"
      /\ \A i \in 1..Len(workerQueue') : \E j \in 1..Len(workerQueue) :
             workerQueue'[i] = workerQueue[j]
  BY TakenHead DEF helloReplyReceived
<1>2. m.src \in Address /\ p \in Peer
  BY <1>1, ReplyKind
<1> HIDE DEF m
<1>3. /\ IF ReplyAccepted(m)
         THEN /\ targetAddress' = [targetAddress EXCEPT ![p] = m.src]
              /\ connected' = [connected EXCEPT ![p] = TRUE]
              /\ failedEstablishments' = [failedEstablishments EXCEPT ![p] = 0]
              /\ reestablishing' = [reestablishing EXCEPT ![p] = FALSE]
         ELSE UNCHANGED <<targetAddress, connected, failedEstablishments, reestablishing>>
      /\ UNCHANGED <<known, helloCookie, late, addressVars, active, holder, net, since, events>>
  BY DEF helloReplyReceived, m
<1>4. /\ targetAddress' \in [Peer -> Address \cup {None}]
      /\ failedEstablishments' \in [Peer -> 0..(MAX_FAILED_ESTABLISHMENTS + 1)]
  <2>1. /\ targetAddress \in [Peer -> Address \cup {None}]
        /\ failedEstablishments \in [Peer -> 0..(MAX_FAILED_ESTABLISHMENTS + 1)]
    BY DEF LinkInv, TypeOK
  <2>2. CASE ReplyAccepted(m)
    <3>1. targetAddress' \in [Peer -> Address \cup {None}]
      BY <1>2, <1>3, <2>1, <2>2
    <3>2. failedEstablishments' \in [Peer -> 0..(MAX_FAILED_ESTABLISHMENTS + 1)]
      BY <1>3, <2>1, <2>2
    <3> QED BY <3>1, <3>2
  <2>3. CASE ~ReplyAccepted(m)
    BY <1>3, <2>1, <2>3
  <2> QED BY <2>2, <2>3
<1>5. connected' \in [Peer -> BOOLEAN] /\ reestablishing' \in [Peer -> BOOLEAN]
  BY <1>3 DEF LinkInv, TypeOK
<1>6. TypeOK'
  BY <1>1, <1>3, <1>4, <1>5 DEF LinkInv, TypeOK, addressVars
<1>7. NetTyped' /\ HeldRemembered'
  BY <1>3 DEF LinkInv, NetTyped, HeldRemembered, Held
<1>8. AnswersFresh'
  BY <1>1, <1>3 DEF LinkInv, AnswersFresh, Pending
<1> QED BY <1>6, <1>7, <1>8 DEF LinkInv

LEMMA RefreshKeeps ==
    ASSUME LinkInv, refresh
    PROVE  LinkInv'
<1>1. /\ workerQueue' \in Seq(Incoming \cup {Refresh})
      /\ \A i \in 1..Len(workerQueue') : \E j \in 1..Len(workerQueue) :
             workerQueue'[i] = workerQueue[j]
  BY TakenHead DEF refresh
<1>2. PICK silent \in SUBSET known :
        LET retried == {p \in known \ silent : active[p]}
        IN  /\ connected' = [p \in Peer |-> IF p \in known THEN StaysConnected(p, silent)
                                                           ELSE connected[p]]
            /\ \E fresh \in [retried -> FreshCookies] :
                  /\ IsInjective(fresh)
                  /\ Attempt(retried, fresh, targetAddresses, linkLocalAddress, sourceAddresses)
  BY DEF refresh
<1> DEFINE retried == {p \in known \ silent : active[p]}
<1>3. PICK fresh \in [retried -> FreshCookies] :
        Attempt(retried, fresh, targetAddresses, linkLocalAddress, sourceAddresses)
  BY <1>2
<1>4. retried \in SUBSET Peer
  BY DEF LinkInv, TypeOK
<1> HIDE DEF retried
<1>5. /\ targetAddresses \in [Peer -> SUBSET Address]
      /\ linkLocalAddress \in [Peer -> Address \cup {None}]
      /\ sourceAddresses \in [Peer -> SUBSET Address]
  BY DEF LinkInv, TypeOK
<1>6. UNCHANGED <<known, targetAddress, addressVars, active, holder, events>>
  BY DEF refresh
<1>7. AttemptInv'
  BY <1>1, <1>3, <1>4, <1>5, <1>6, AttemptKeeps
<1>8. \A p \in Peer : StaysConnected(p, silent) \in BOOLEAN /\ connected[p] \in BOOLEAN
  BY DEF StaysConnected, LinkInv, TypeOK
<1>9. connected' \in [Peer -> BOOLEAN]
  BY <1>2, <1>8
<1>10. net' \subseteq Incoming \cup Outgoing
  BY <1>7, ReplyKind DEF AttemptInv, NetTyped
<1>11. TypeOK'
  BY <1>1, <1>6, <1>7, <1>9, <1>10 DEF AttemptInv, LinkInv, TypeOK, addressVars
<1> QED BY <1>7, <1>11 DEF AttemptInv, LinkInv

LEMMA EnvironmentKeeps ==
    ASSUME LinkInv, Environment
    PROVE  LinkInv'
<1>1. ASSUME NEW p \in Peer, ReestablishTimeout(p) \/ TeardownTimeout(p)
      PROVE  LinkInv'
  <2>1. late' \in [Peer -> BOOLEAN] /\ active' \in [Peer -> BOOLEAN]
    BY <1>1 DEF ReestablishTimeout, TeardownTimeout, LinkInv, TypeOK, linkVars
  <2>2. UNCHANGED <<known, connected, reestablishing, targetAddress, helloCookie,
                    failedEstablishments, addressVars, workerQueue, holder, net, since, events>>
    BY <1>1 DEF ReestablishTimeout, TeardownTimeout, linkVars
  <2>3. TypeOK'
    BY <2>1, <2>2 DEF LinkInv, TypeOK, addressVars
  <2> QED BY <2>2, <2>3 DEF LinkInv, NetTyped, AnswersFresh, Pending, HeldRemembered, Held
<1>2. ASSUME NEW m \in net, PeerAnswers(m)
      PROVE  LinkInv'
  <2>1. UNCHANGED <<known, linkVars, addressVars, active, workerQueue, holder, since, events>>
    BY <1>2 DEF PeerAnswers
  <2>2. m.to \in Address /\ m.peer \in Peer /\ m.cookie \in Cookie
    BY <1>2, ReplyKind DEF PeerAnswers, LinkInv, NetTyped
  <2>3. ASSUME NEW n \in net'
        PROVE  n \in net \/ (n = ReplyFrom(m.to, m.peer, m.cookie) /\ holder[m.to] = m.peer)
    <3>1. n \in (net \ {m}) \cup (IF holder[m.to] = m.peer
                                  THEN {ReplyFrom(m.to, m.peer, m.cookie)} ELSE {})
      BY <1>2, <2>3 DEF PeerAnswers, Carried
    <3> QED BY <3>1
  <2>4. ReplyFrom(m.to, m.peer, m.cookie) \in Replies
    BY <2>2 DEF ReplyFrom, Replies
  <2>5. NetTyped'
    BY <2>3, <2>4 DEF LinkInv, NetTyped
  <2>6. net' \subseteq Incoming \cup Outgoing
    BY <2>5, ReplyKind DEF NetTyped
  <2>7. TypeOK'
    BY <2>1, <2>6 DEF LinkInv, TypeOK, linkVars, addressVars
  <2>8. HeldRemembered'
    BY <2>1 DEF LinkInv, HeldRemembered, Held, linkVars
  <2>9. AnswersFresh'
    <3> SUFFICES ASSUME NEW r \in Replies, Pending(r)', helloCookie'[r.peer] = r.cookie
                 PROVE  r.src \in since'[r.peer]
      BY DEF AnswersFresh
    <3>1. CASE Pending(r)
      BY <2>1, <3>1 DEF LinkInv, AnswersFresh, linkVars
    <3>2. CASE ~Pending(r)
      <4>1. r = ReplyFrom(m.to, m.peer, m.cookie) /\ holder[m.to] = m.peer
        BY <2>1, <2>3, <3>2 DEF Pending
      <4>2. r.src = m.to /\ r.peer = m.peer /\ r.cookie = m.cookie
        BY <4>1 DEF ReplyFrom
      <4>3. m.to \in Held(holder, m.peer)
        BY <2>2, <4>1 DEF Held
      <4>4. helloCookie[m.peer] # None
        BY <2>1, <2>2, <4>2 DEF linkVars
      <4> QED BY <2>1, <2>2, <4>2, <4>3, <4>4 DEF LinkInv, HeldRemembered
    <3> QED BY <3>1, <3>2
  <2> QED BY <2>5, <2>7, <2>8, <2>9 DEF LinkInv
<1>3. ASSUME NEW a \in Address, NEW q \in Peer \cup {None}, Reassign(a, q)
      PROVE  LinkInv'
  <2>1. UNCHANGED <<known, linkVars, addressVars, active, workerQueue, net>>
    BY <1>3 DEF Reassign
  <2>2. holder' \in [Address -> Peer \cup {None}] /\ events' \in 0..MaxEvents
    BY <1>3 DEF Reassign, Event, LinkInv, TypeOK
  <2>3. since' = [p \in Peer |-> since[p] \cup Held(holder', p)]
    BY <1>3 DEF Reassign
  <2>4. since' \in [Peer -> SUBSET Address]
    BY <2>3 DEF Held, LinkInv, TypeOK
  <2>5. \A p \in Peer : since[p] \subseteq since'[p] /\ Held(holder', p) \subseteq since'[p]
    BY <2>3
  <2>6. TypeOK'
    BY <2>1, <2>2, <2>4 DEF LinkInv, TypeOK, linkVars, addressVars
  <2>7. NetTyped' /\ HeldRemembered'
    BY <2>1, <2>5 DEF LinkInv, NetTyped, HeldRemembered
  <2>8. AnswersFresh'
    BY <2>1, <2>5, ReplyKind DEF LinkInv, AnswersFresh, Pending, linkVars
  <2> QED BY <2>6, <2>7, <2>8 DEF LinkInv
<1> QED BY <1>1, <1>2, <1>3 DEF Environment

LEMMA NextKeeps == LinkInv /\ [Next]_vars => LinkInv'
<1> SUFFICES ASSUME LinkInv, [Next]_vars PROVE LinkInv'
  OBVIOUS
<1>1. CASE MainThread
  BY <1>1, SendKeeps, ReportKeeps, EnqueueKeeps DEF MainThread
<1>2. CASE WorkerThread
  BY <1>2, HelloKeeps, ReplyKeeps, RefreshKeeps DEF WorkerThread
<1>3. CASE Environment
  BY <1>3, EnvironmentKeeps
<1>4. CASE UNCHANGED vars
  BY <1>4 DEF LinkInv, TypeOK, NetTyped, AnswersFresh, Pending, HeldRemembered, Held,
              vars, linkVars, addressVars
<1> QED BY <1>1, <1>2, <1>3, <1>4 DEF Next

LEMMA LinkInvariant == Spec => []LinkInv
BY InitLink, NextKeeps, PTL DEF Spec

\* Every variable keeps its type; in particular no HELLO goes to an address
\* that is not set (attemptReestablish).
THEOREM TypeCorrect == Spec => []TypeOK
BY LinkInvariant, PTL DEF LinkInv

-----------------------------------------------------------------------------
(* The index of source addresses. *)

LEMMA InitIndex == Init => IndexInv
BY FS_EmptySet DEF Init, IndexInv, SourcesFinite, SourceIndex

\* An address set has room for one more once addSourceAddress has made it.
LEMMA RoomForOne ==
    ASSUME TypeOK, IndexInv, NEW p \in Peer, NEW a \in Address, NEW kept \in SourcesWithRoom(p)
    PROVE  /\ kept \subseteq sourceAddresses[p]
           /\ IsFiniteSet(kept \cup {a})
           /\ Cardinality(kept \cup {a}) <= MAX_SOURCE_ADDRESSES
<1> DEFINE S == sourceAddresses[p]
<1>1. IsFiniteSet(S) /\ Cardinality(S) \in Nat /\ Cardinality(S) <= MAX_SOURCE_ADDRESSES
  BY FS_CardinalityType DEF IndexInv, SourcesFinite, SourceIndex
<1>2. kept \subseteq S /\ IsFiniteSet(kept) /\ Cardinality(kept) <= MAX_SOURCE_ADDRESSES - 1
  <2>1. CASE Cardinality(S) >= MAX_SOURCE_ADDRESSES
    <3>1. PICK b \in S : kept = S \ {b}
      BY <2>1 DEF SourcesWithRoom
    <3>2. IsFiniteSet(kept) /\ Cardinality(kept) = Cardinality(S) - 1
      BY <1>1, <3>1, FS_RemoveElement
    <3> QED BY <1>1, <3>1, <3>2
  <2>2. CASE ~(Cardinality(S) >= MAX_SOURCE_ADDRESSES)
    BY <1>1, <2>2 DEF SourcesWithRoom
  <2> QED BY <2>1, <2>2
<1>3. IsFiniteSet(kept \cup {a}) /\ Cardinality(kept \cup {a}) <= Cardinality(kept) + 1
      /\ Cardinality(kept) \in Nat /\ Cardinality(kept \cup {a}) \in Nat
  <2>1. IsFiniteSet(kept \cup {a})
        /\ Cardinality(kept \cup {a}) = IF a \in kept THEN Cardinality(kept) ELSE Cardinality(kept) + 1
    BY <1>2, FS_AddElement
  <2>2. Cardinality(kept) \in Nat
    BY <1>2, FS_CardinalityType
  <2> QED BY <2>1, <2>2
<1> QED BY <1>2, <1>3

LEMMA AddKeepsIndex ==
    ASSUME TypeOK, IndexInv, NEW p \in Peer, NEW a \in Address, addSourceAddress(p, a)
    PROVE  IndexInv'
<1>1. CASE a \in sourceAddresses[p]
  BY <1>1 DEF addSourceAddress, IndexInv, SourcesFinite, SourceIndex
<1>2. CASE a \notin sourceAddresses[p]
  <2>1. PICK kept \in SourcesWithRoom(p) :
          /\ sourceAddresses' = [q \in Peer |-> IF q = p THEN kept \cup {a}
                                                         ELSE sourceAddresses[q] \ {a}]
          /\ peerSourceAddresses' = [b \in Address |->
                  IF b = a THEN p
                  ELSE IF b \in sourceAddresses[p] \ kept THEN None
                  ELSE peerSourceAddresses[b]]
    BY <1>2 DEF addSourceAddress
  <2>2. /\ kept \subseteq sourceAddresses[p]
        /\ IsFiniteSet(kept \cup {a})
        /\ Cardinality(kept \cup {a}) <= MAX_SOURCE_ADDRESSES
    BY RoomForOne
  <2>3. ASSUME NEW q \in Peer
        PROVE  IsFiniteSet(sourceAddresses'[q])
               /\ Cardinality(sourceAddresses'[q]) <= MAX_SOURCE_ADDRESSES
    <3>1. CASE q = p
      BY <2>1, <2>2, <3>1
    <3>2. CASE q # p
      <4>1. sourceAddresses'[q] = sourceAddresses[q] \ {a}
        BY <2>1, <3>2
      <4>2. IsFiniteSet(sourceAddresses[q]) /\ Cardinality(sourceAddresses[q]) <= MAX_SOURCE_ADDRESSES
        BY DEF IndexInv, SourcesFinite, SourceIndex
      <4>3. /\ IsFiniteSet(sourceAddresses[q] \ {a})
            /\ Cardinality(sourceAddresses[q] \ {a}) <= Cardinality(sourceAddresses[q])
            /\ Cardinality(sourceAddresses[q] \ {a}) \in Nat /\ Cardinality(sourceAddresses[q]) \in Nat
        BY <4>2, FS_Subset, FS_CardinalityType
      <4> QED BY <4>1, <4>2, <4>3
    <3> QED BY <3>1, <3>2
  <2>4. ASSUME NEW q \in Peer, NEW b \in Address
        PROVE  peerSourceAddresses'[b] = q <=> b \in sourceAddresses'[q]
    <3>1. \A r \in Peer : peerSourceAddresses[b] = r <=> b \in sourceAddresses[r]
      BY DEF IndexInv, SourceIndex
    <3>2. CASE b = a
      BY <2>1, <3>2
    <3>3. CASE b # a /\ b \in sourceAddresses[p] \ kept
      BY <2>1, <3>1, <3>3
    <3>4. CASE b # a /\ b \notin sourceAddresses[p] \ kept
      BY <2>1, <2>2, <3>1, <3>4
    <3> QED BY <3>2, <3>3, <3>4
  <2> QED BY <2>3, <2>4 DEF IndexInv, SourcesFinite, SourceIndex
<1> QED BY <1>1, <1>2

\* Only helloReceived touches the index.
LEMMA IndexFrame ==
    ASSUME [Next]_vars, ~helloReceived
    PROVE  UNCHANGED <<sourceAddresses, peerSourceAddresses>>
<1>1. CASE MainThread
  BY <1>1 DEF MainThread, sendDataToPeer, changePeerTargetAddresses, multicastPacketReceived,
              requestRefresh, udpPacketReceived, addressVars
<1>2. CASE WorkerThread
  BY <1>2 DEF WorkerThread, helloReplyReceived, refresh, addressVars
<1>3. CASE Environment
  BY <1>3 DEF Environment, ReestablishTimeout, TeardownTimeout, PeerAnswers, Reassign, addressVars
<1>4. CASE UNCHANGED vars
  BY <1>4 DEF vars, addressVars
<1> QED BY <1>1, <1>2, <1>3, <1>4 DEF Next

LEMMA NextKeepsIndex == LinkInv /\ IndexInv /\ [Next]_vars => IndexInv'
<1> SUFFICES ASSUME LinkInv, IndexInv, [Next]_vars PROVE IndexInv'
  OBVIOUS
<1>1. CASE helloReceived
  <2>1. Head(workerQueue) \in Incoming \cup {Refresh} /\ Head(workerQueue).kind = "PEER_HELLO"
    BY <1>1, TakenHead DEF helloReceived
  <2>2. Head(workerQueue).src \in Address /\ Head(workerQueue).peer \in Peer
    BY <2>1, ReplyKind
  <2>3. addSourceAddress(Head(workerQueue).peer, Head(workerQueue).src)
    BY <1>1 DEF helloReceived
  <2> QED BY <2>2, <2>3, AddKeepsIndex DEF LinkInv
<1>2. CASE ~helloReceived
  BY <1>2, IndexFrame DEF IndexInv, SourcesFinite, SourceIndex
<1> QED BY <1>1, <1>2

\* The address index and the address sets of the peers say the same, whatever
\* the order of HELLOs and however addresses move between peers; no peer has
\* more than MAX_SOURCE_ADDRESSES (addSourceAddress, removeSourceAddress).
THEOREM IndexAgrees == Spec => []SourceIndex
<1>1. Spec => []IndexInv
  BY InitIndex, NextKeepsIndex, LinkInvariant, PTL DEF Spec
<1> QED BY <1>1, PTL DEF IndexInv

-----------------------------------------------------------------------------
(* The address a link uses. *)

\* Only an accepted answer opens a link or moves it to another address.
LEMMA LinkFrame ==
    ASSUME LinkInv, [Next]_vars, ~helloReplyReceived, NEW p \in Peer
    PROVE  targetAddress'[p] = targetAddress[p] /\ (connected'[p] => connected[p])
<1>1. CASE MainThread
  BY <1>1 DEF MainThread, sendDataToPeer, changePeerTargetAddresses, multicastPacketReceived,
              requestRefresh, udpPacketReceived, linkVars
<1>2. CASE helloReceived
  BY <1>2 DEF helloReceived
<1>3. CASE refresh
  BY <1>3 DEF refresh, StaysConnected
<1>4. CASE Environment
  BY <1>4 DEF Environment, ReestablishTimeout, TeardownTimeout, PeerAnswers, Reassign, linkVars
<1>5. CASE UNCHANGED vars
  BY <1>5 DEF vars, linkVars
<1> QED BY <1>1, <1>2, <1>3, <1>4, <1>5 DEF Next, WorkerThread

LEMMA AcceptedIsFresh ==
    ASSUME LinkInv, helloReplyReceived, NEW p \in Peer,
           connected'[p] /\ (~connected[p] \/ targetAddress'[p] # targetAddress[p])
    PROVE  targetAddress'[p] \in since[p]
<1> DEFINE m == Head(workerQueue)
<1>1. /\ m \in Incoming \cup {Refresh} /\ m.kind = "HELLO_REPLY"
      /\ m = workerQueue[1] /\ 1 \in 1..Len(workerQueue)
  BY TakenHead DEF helloReplyReceived
<1>2. m \in Replies
  BY <1>1, ReplyKind
<1>3. Pending(m)
  BY <1>1 DEF Pending
<1> HIDE DEF m
<1>4. /\ IF ReplyAccepted(m)
         THEN /\ targetAddress' = [targetAddress EXCEPT ![m.peer] = m.src]
              /\ connected' = [connected EXCEPT ![m.peer] = TRUE]
         ELSE UNCHANGED <<targetAddress, connected>>
  BY DEF helloReplyReceived, m
<1>5. ReplyAccepted(m) /\ m.peer = p
  <2>1. ReplyAccepted(m)
    BY <1>4
  <2>2. ASSUME m.peer # p PROVE FALSE
    BY <1>4, <2>1, <2>2 DEF LinkInv, TypeOK
  <2> QED BY <2>1, <2>2
<1>6. targetAddress'[p] = m.src
  BY <1>4, <1>5 DEF LinkInv, TypeOK
<1>7. helloCookie[p] = m.cookie
  BY <1>5 DEF ReplyAccepted
<1> QED BY <1>2, <1>3, <1>5, <1>6, <1>7 DEF LinkInv, AnswersFresh

\* A link never starts to use an address that the peer had already lost when
\* the latest attempt began, however late answers to earlier attempts arrive
\* (helloCookie in helloReplyReceived).
THEOREM TargetIsFresh == Spec => FreshTarget
<1>1. LinkInv /\ [Next]_vars =>
        [\A p \in Peer :
            connected'[p] /\ (~connected[p] \/ targetAddress'[p] # targetAddress[p])
            => targetAddress'[p] \in since[p]]_vars
  BY LinkFrame, AcceptedIsFresh
<1> QED BY <1>1, LinkInvariant, PTL DEF Spec, FreshTarget
=============================================================================
