------------------------ MODULE SecurityLayerProofs ------------------------
(***************************************************************************)
(* Proofs about SecurityLayer, for any number of nodes, peers, payloads    *)
(* and boots, and for any value of MAX_QUEUED_PACKETS.                     *)
(***************************************************************************)
EXTENDS SecurityLayer, FiniteSetTheorems, TLAPS

\* What sendHelloPacket builds is a well-formed hello.
LEMMA HelloType ==
    ASSUME TypeOK, NEW n \in Node, NEW p \in Node, NEW num \in 1..3,
           NEW seq \in HelloSeq, NEW echo \in HelloSeq
    PROVE  Hello(n, p, num, seq, echo) \in HelloPacket
BY FlagsAssumption DEF TypeOK, Hello, HelloPacket, kxPubkey, KxKey

\* handleHelloPacket derives well-formed session keys from a well-formed hello.
LEMMA NewKeyType ==
    ASSUME TypeOK, NEW n \in Node, NEW p \in Node, NEW m \in HelloPacket
    PROVE  NewRxKey(n, p, m) \in SessionKey /\ NewTxKey(n, p, m) \in SessionKey
<1>1. kxPubkey(n, p) \in KxKey /\ m.kx \in KxKey /\ m.flags \in Nat
  BY DEF TypeOK, kxPubkey, KxKey, HelloPacket
<1>2. FlagsOf(n, boot[n]) \in Nat
  BY FlagsAssumption DEF TypeOK
<1>3. QED
  BY <1>1, <1>2 DEF NewRxKey, NewTxKey, SessionKeyOf, mixFlags, SessionKey

\* helloseq++ touches one node and only the count.
LEMMA NextHelloseqType ==
    ASSUME TypeOK, NEW n \in Node
    PROVE  /\ NextHelloseq(n) \in [Node -> HelloSeq]
           /\ NextHelloseq(n)[n] = [boot |-> helloseq[n].boot, count |-> helloseq[n].count + 1]
           /\ \A q \in Node \ {n} : NextHelloseq(n)[q] = helloseq[q]
BY DEF TypeOK, HelloSeq, NextHelloseq

\* finishNegotiation sends well-formed data packets.
LEMMA FlushedType ==
    ASSUME TypeOK, NEW n \in Node, NEW p \in Node, NEW k \in KeyOrNone
    PROVE  FlushedQueue(n, p, k) \subseteq DataPacket
<1>1. packetQueue[n][p] \in Seq(Payload)
  BY DEF TypeOK
<1>2. \A i \in DOMAIN packetQueue[n][p] : packetQueue[n][p][i] \in Payload
  BY <1>1
<1>3. QED BY <1>2 DEF FlushedQueue, Data, DataPacket

\* Everything accepting a hello sends is well-formed.
LEMMA RepliesType ==
    ASSUME TypeOK, NEW n \in Node, NEW p \in Node, NEW m \in HelloPacket
    PROVE  AcceptReplies(n, p, m) \subseteq HelloPacket \cup DataPacket
<1>1. FlushedQueue(n, p, NewTxKey(n, p, m)) \subseteq DataPacket
  BY NewKeyType, FlushedType DEF KeyOrNone
<1>2. NextHelloseq(n)[n] \in HelloSeq /\ m.seq \in HelloSeq
  BY NextHelloseqType DEF HelloPacket
<1>3. Hello(n, p, 3, NextHelloseq(n)[n], m.seq) \in HelloPacket
  BY <1>2, HelloType
<1>4. QED BY <1>1, <1>3 DEF AcceptReplies

\* The first processes start with well-typed state.
LEMMA TypeInit == Init => TypeOK
<1> SUFFICES ASSUME Init PROVE TypeOK OBVIOUS
<1>1. <<>> \in Seq(Payload) OBVIOUS
<1> QED BY <1>1, BoundAssumption DEF Init, TypeOK, HelloSeq, KeyOrNone

\* Every handler, timer, restart and loss preserves the types.
LEMMA TypeStep == TypeOK /\ [Next]_vars => TypeOK'
<1> SUFFICES ASSUME TypeOK, [Next]_vars PROVE TypeOK' OBVIOUS
<1>0. NoSeq \in HelloSeq /\ helloseq \in [Node -> HelloSeq]
  BY DEF NoSeq, HelloSeq, TypeOK
<1>1. ASSUME NEW n \in Node, NEW p \in Node, NEW d \in Payload, SendDataPacket(n, p, d)
      PROVE  TypeOK'
  <2>1. Data(n, p, txKey[n][p], d) \in DataPacket
    BY DEF TypeOK, Data, DataPacket
  <2> QED BY <1>1, <2>1 DEF TypeOK, SendDataPacket, sessionVars
<1>2. ASSUME NEW n \in Node, NEW p \in Node, NEW d \in Payload, QueueDataPacket(n, p, d)
      PROVE  TypeOK'
  <2>1. Hello(n, p, 1, helloseq[n], NoSeq) \in HelloPacket
    BY <1>0, HelloType
  <2>2. Append(packetQueue[n][p], d) \in Seq(Payload)
    BY DEF TypeOK
  <2>3. packetQueue' \in [Node -> [Node -> Seq(Payload)]] /\ queuedPackets' \in [Node -> Int]
    <3>1. CASE queuedPackets[n] < MAX_QUEUED_PACKETS
      <4>1. queuedPackets' = [queuedPackets EXCEPT ![n] = @ + 1]
        BY <1>2, <3>1 DEF QueueDataPacket, CanQueue
      <4>2. packetQueue' = [packetQueue EXCEPT ![n][p] = Append(@, d)]
        BY <1>2, <3>1 DEF QueueDataPacket, CanQueue
      <4>3. packetQueue' \in [Node -> [Node -> Seq(Payload)]]
        BY <2>2, <4>2 DEF TypeOK
      <4>4. queuedPackets \in [Node -> Int]
        BY DEF TypeOK
      <4>5. queuedPackets' \in [Node -> Int]
        BY <4>1, <4>4
      <4> QED BY <4>3, <4>5
    <3>2. CASE ~(queuedPackets[n] < MAX_QUEUED_PACKETS)
      BY <1>2, <3>2 DEF TypeOK, QueueDataPacket, CanQueue
    <3> QED BY <3>1, <3>2
  <2>4. handedDown' \in [Node -> [Node -> SUBSET Payload]]
    BY <1>2 DEF TypeOK, QueueDataPacket
  <2> QED BY <1>2, <2>1, <2>3, <2>4 DEF TypeOK, QueueDataPacket
<1>3. ASSUME NEW n \in Node, NEW p \in Node, NEW m \in net, DataBeforeHello(n, p, m)
      PROVE  TypeOK'
  <2>1. Hello(n, p, 1, helloseq[n], NoSeq) \in HelloPacket
    BY <1>0, HelloType
  <2> QED BY <1>3, <2>1 DEF TypeOK, DataBeforeHello, sessionVars, historyVars, InFlight
<1>4. ASSUME NEW n \in Node, NEW p \in Node, NEW m \in net, ValidData(n, p, m)
      PROVE  TypeOK'
  <2>1. m.payload \in Payload
    BY <1>4 DEF TypeOK, ValidData, HelloPacket, DataPacket
  <2> QED BY <1>4, <2>1 DEF TypeOK, ValidData, sessionVars, InFlight
<1>5. ASSUME NEW n \in Node, NEW p \in Node, NEW m \in net, AnswerHello(n, p, m)
      PROVE  TypeOK'
  <2>1. m.seq \in HelloSeq
    BY <1>5 DEF TypeOK, AnswerHello, HelloPacket, DataPacket
  <2>2. Hello(n, p, 2, helloseq[n], m.seq) \in HelloPacket
    BY <1>0, <2>1, HelloType
  <2> QED BY <1>5, <2>2 DEF TypeOK, AnswerHello, sessionVars, historyVars, InFlight
<1>6. ASSUME NEW n \in Node, NEW p \in Node, NEW m \in net, AcceptHello(n, p, m)
      PROVE  TypeOK'
  <2>1. m \in HelloPacket
    BY <1>6 DEF TypeOK, AcceptHello, DataPacket
  <2>2. m.flags \in Nat
    BY <2>1 DEF HelloPacket
  <2>3. NewRxKey(n, p, m) \in KeyOrNone /\ NewTxKey(n, p, m) \in KeyOrNone
    BY <2>1, NewKeyType DEF KeyOrNone
  <2>4. net' \subseteq HelloPacket \cup DataPacket
    BY <1>6, <2>1, RepliesType DEF TypeOK, AcceptHello, InFlight
  <2>5. helloseq' \in [Node -> HelloSeq]
    BY <1>6, NextHelloseqType DEF AcceptHello
  <2>6. <<>> \in Seq(Payload) /\ Len(packetQueue[n][p]) \in Nat
    BY DEF TypeOK
  <2>7. rxKey' \in [Node -> [Node -> KeyOrNone]] /\ txKey' \in [Node -> [Node -> KeyOrNone]]
    BY <1>6, <2>3 DEF TypeOK, AcceptHello
  <2>8. negotiated' \in [Node -> [Node -> BOOLEAN]] /\ peerFlags' \in [Node -> [Node -> Nat]]
    BY <1>6, <2>2 DEF TypeOK, AcceptHello
  <2>9. packetQueue' \in [Node -> [Node -> Seq(Payload)]] /\ queuedPackets' \in [Node -> Int]
    BY <1>6, <2>6 DEF TypeOK, AcceptHello
  <2> QED BY <1>6, <2>4, <2>5, <2>7, <2>8, <2>9 DEF TypeOK, AcceptHello, historyVars
<1>7. ASSUME NEW n \in Node, NEW p \in Node, NEW m \in net, DropPacket(n, p, m)
      PROVE  TypeOK'
  BY <1>7 DEF TypeOK, DropPacket, sessionVars, historyVars, InFlight
<1>8. ASSUME NEW n \in Node, NEW p \in Node, Silence(n, p)
      PROVE  TypeOK'
  BY <1>8 DEF TypeOK, Silence, sessionVars, historyVars
<1>9. ASSUME NEW n \in Node, NEW p \in Node, periodicPeer(n, p)
      PROVE  TypeOK'
  <2>1. teardowns' \in Nat
    BY <1>9 DEF TypeOK, periodicPeer
  <2>2. negotiated' \in [Node -> [Node -> BOOLEAN]]
    BY <1>9 DEF TypeOK, periodicPeer
  <2> QED BY <1>9, <2>1, <2>2 DEF TypeOK, periodicPeer, historyVars
<1>10. ASSUME NEW n \in Node, Restart(n)
       PROVE  TypeOK'
  <2>0. boot \in [Node -> Nat] /\ boot[n] + 1 \in 1..MaxBoot[n]
    <3>1. MaxBoot[n] \in Nat
      BY BoundAssumption
    <3>2. boot[n] \in Nat /\ boot[n] < MaxBoot[n]
      BY <1>10 DEF TypeOK, Restart
    <3> QED BY <3>1, <3>2 DEF TypeOK
  <2>1. boot' \in [Node -> Nat] /\ \A q \in Node : boot'[q] \in 1..MaxBoot[q]
    <3>1. boot' = [boot EXCEPT ![n] = boot[n] + 1]
      BY <1>10 DEF Restart
    <3>2. \A q \in Node : boot[q] \in 1..MaxBoot[q]
      BY DEF TypeOK
    <3> QED BY <3>1, <3>2, <2>0
  <2>2. helloseq' \in [Node -> HelloSeq]
    BY <1>10 DEF TypeOK, Restart, HelloSeq
  <2>3. <<>> \in Seq(Payload) OBVIOUS
  <2> QED BY <1>10, <2>1, <2>2, <2>3 DEF TypeOK, Restart, historyVars, KeyOrNone
<1>11. ASSUME NEW m \in net, Lose(m)
       PROVE  TypeOK'
  BY <1>11 DEF TypeOK, Lose, sessionVars, historyVars
<1>12. CASE UNCHANGED vars
  BY <1>12 DEF TypeOK, vars, sessionVars, historyVars
<1> QED
  BY <1>1, <1>2, <1>3, <1>4, <1>5, <1>6, <1>7, <1>8, <1>9, <1>10, <1>11, <1>12
  DEF Next, onUpperLayerData, onLowerLayerData

\* Every variable of every node keeps its type: Init establishes TypeOK and
\* every handler, timer and restart preserves it.
THEOREM TypeCorrect == Spec => []TypeOK
BY TypeInit, TypeStep, PTL DEF Spec

-----------------------------------------------------------------------------
(***************************************************************************)
(* The packet queues.  QueueAccounting is inductive once the type          *)
(* invariant and the finiteness of the set of slots are added: Cardinality *)
(* means nothing for a set that is not known to be finite.                 *)
(***************************************************************************)

QueueInv ==
    /\ TypeOK
    /\ QueueAccounting
    /\ \A n \in Node : IsFiniteSet(Queued(n))

\* A slot is a peer and a position in that peer's queue.
LEMMA QueuedElements ==
    ASSUME NEW n \in Node
    PROVE  \A x : x \in Queued(n)
              <=> \E p \in Node : \E i \in 1..Len(packetQueue[n][p]) : x = <<p, i>>
BY DEF Queued

\* The queue of one peer has as many slots as packets.
LEMMA SlotCount ==
    ASSUME NEW p, NEW len \in Nat
    PROVE  IsFiniteSet({p} \X (1..len)) /\ Cardinality({p} \X (1..len)) = len
<1> DEFINE f == [i \in 1..len |-> <<p, i>>]
<1>1. f \in [1..len -> {p} \X (1..len)]
  OBVIOUS
<1>2. \A i, j \in 1..len : f[i] = f[j] => i = j
  OBVIOUS
<1>3. \A y \in {p} \X (1..len) : \E i \in 1..len : f[i] = y
  OBVIOUS
<1>4. f \in Bijection(1..len, {p} \X (1..len))
  BY <1>1, <1>2, <1>3 DEF Bijection, Injection, Surjection, IsInjective
<1>5. ExistsBijection(1..len, {p} \X (1..len))
  BY <1>4 DEF ExistsBijection
<1>6. Cardinality({p} \X (1..len)) = len
  BY <1>5, FS_CountingElements
<1>7. IsFiniteSet({p} \X (1..len))
  BY <1>5, FS_NatBijection
<1> QED BY <1>6, <1>7

\* Appending one packet adds one slot.
LEMMA SlotAppended ==
    ASSUME TypeOK, NEW n \in Node, NEW p \in Node, NEW d \in Payload,
           IsFiniteSet(Queued(n)),
           packetQueue' = [packetQueue EXCEPT ![n][p] = Append(@, d)]
    PROVE  IsFiniteSet(Queued(n)') /\ Cardinality(Queued(n)') = Cardinality(Queued(n)) + 1
<1> DEFINE x == <<p, Len(packetQueue[n][p]) + 1>>
<1>1. packetQueue[n][p] \in Seq(Payload) /\ Len(packetQueue[n][p]) \in Nat
  BY DEF TypeOK
<1>2. packetQueue'[n][p] = Append(packetQueue[n][p], d)
  BY DEF TypeOK
<1>3. Len(packetQueue'[n][p]) = Len(packetQueue[n][p]) + 1
  BY <1>1, <1>2
<1>4. \A q \in Node \ {p} : packetQueue'[n][q] = packetQueue[n][q]
  BY DEF TypeOK
<1>5. 1..Len(packetQueue'[n][p])
        = (1..Len(packetQueue[n][p])) \cup {Len(packetQueue[n][p]) + 1}
  BY <1>1, <1>3
<1>6. \A y : y \in Queued(n)'
        <=> \E q \in Node : \E i \in 1..Len(packetQueue'[n][q]) : y = <<q, i>>
  BY DEF Queued
<1>7. Queued(n)' = Queued(n) \cup {x}
  BY <1>4, <1>5, <1>6, QueuedElements
<1>8. x \notin Queued(n)
  BY <1>1, QueuedElements
<1> QED BY <1>7, <1>8, FS_AddElement

\* Flushing the queue of p removes as many slots as it had packets.
LEMMA SlotsFlushed ==
    ASSUME TypeOK, NEW n \in Node, NEW p \in Node,
           IsFiniteSet(Queued(n)),
           packetQueue' = [packetQueue EXCEPT ![n][p] = <<>>]
    PROVE  /\ IsFiniteSet(Queued(n)')
           /\ Cardinality(Queued(n)') = Cardinality(Queued(n)) - Len(packetQueue[n][p])
<1> DEFINE P == {p} \X (1..Len(packetQueue[n][p]))
<1>1. Len(packetQueue[n][p]) \in Nat
  BY DEF TypeOK
<1>2. packetQueue'[n][p] = <<>> /\ \A q \in Node \ {p} : packetQueue'[n][q] = packetQueue[n][q]
  BY DEF TypeOK
<1>3. 1..Len(packetQueue'[n][p]) = {}
  BY <1>2
<1>4. \A y : y \in Queued(n)'
        <=> \E q \in Node : \E i \in 1..Len(packetQueue'[n][q]) : y = <<q, i>>
  BY DEF Queued
<1>5. Queued(n) = Queued(n)' \cup P /\ Queued(n)' \cap P = {}
  BY <1>2, <1>3, <1>4, QueuedElements
<1>6. IsFiniteSet(Queued(n)')
  <2>1. Queued(n)' \in SUBSET Queued(n)
    BY <1>5
  <2> QED BY <2>1, FS_Subset
<1>7. IsFiniteSet(P) /\ Cardinality(P) = Len(packetQueue[n][p])
  BY <1>1, SlotCount
<1>8. Cardinality(Queued(n)) = Cardinality(Queued(n)') + Cardinality(P) - Cardinality({})
  BY <1>5, <1>6, <1>7, FS_Union
<1>9. Cardinality(Queued(n)') \in Nat /\ Cardinality({}) = 0
  BY <1>6, FS_CardinalityType, FS_EmptySet
<1> QED BY <1>1, <1>6, <1>7, <1>8, <1>9

\* All queues start empty.
LEMMA QueueInit == Init => QueueInv
<1> SUFFICES ASSUME Init PROVE QueueInv OBVIOUS
<1>1. \A n \in Node : Queued(n) = {}
  <2> SUFFICES ASSUME NEW n \in Node PROVE Queued(n) = {} OBVIOUS
  <2>1. \A p \in Node : packetQueue[n][p] = <<>>
    BY DEF Init
  <2>2. \A p \in Node : 1..Len(packetQueue[n][p]) = {}
    BY <2>1
  <2> QED BY <2>2, QueuedElements
<1>2. IsFiniteSet({}) /\ Cardinality({}) = 0
  BY FS_EmptySet
<1>3. TypeOK
  BY TypeInit
<1>4. QueueAccounting
  <2>1. \A n \in Node : queuedPackets[n] = 0 /\ 0 <= MAX_QUEUED_PACKETS
    BY QueueAssumption DEF Init
  <2>2. \A n, p \in Node : ~negotiated[n][p]
    BY DEF Init
  <2> QED BY <1>1, <1>2, <2>1, <2>2 DEF QueueAccounting
<1> QED BY <1>1, <1>2, <1>3, <1>4 DEF QueueInv

\* onUpperLayerData adds one slot and one to the counter, finishNegotiation
\* removes a whole queue and its length, a restart clears both.
LEMMA QueueStep == QueueInv /\ [Next]_vars => QueueInv'
<1> SUFFICES ASSUME QueueInv, [Next]_vars PROVE QueueInv' OBVIOUS
<1>1. TypeOK /\ TypeOK'
  BY TypeStep DEF QueueInv
\* The actions that touch neither the queues nor their counter, and open no session.
<1>2. ASSUME UNCHANGED <<packetQueue, queuedPackets>>,
             \A n, p \in Node : negotiated'[n][p] => negotiated[n][p]
      PROVE  QueueInv'
  <2>1. \A n \in Node : Queued(n)' = Queued(n)
    BY <1>2 DEF Queued
  <2>2. QueueAccounting'
    BY <1>2, <2>1 DEF QueueInv, QueueAccounting
  <2> QED BY <1>1, <2>1, <2>2 DEF QueueInv
<1>3. ASSUME UNCHANGED sessionVars PROVE QueueInv'
  BY <1>2, <1>3 DEF sessionVars
<1>4. ASSUME NEW n \in Node, NEW p \in Node, NEW d \in Payload, QueueDataPacket(n, p, d)
      PROVE  QueueInv'
  <2>1. CASE ~(queuedPackets[n] < MAX_QUEUED_PACKETS)
    BY <1>2, <1>4, <2>1 DEF QueueDataPacket, CanQueue
  <2>2. CASE queuedPackets[n] < MAX_QUEUED_PACKETS
    <3>1. /\ queuedPackets' = [queuedPackets EXCEPT ![n] = @ + 1]
          /\ packetQueue' = [packetQueue EXCEPT ![n][p] = Append(@, d)]
          /\ negotiated' = negotiated /\ ~negotiated[n][p]
      BY <1>4, <2>2 DEF QueueDataPacket, CanQueue
    <3>2. IsFiniteSet(Queued(n)') /\ Cardinality(Queued(n)') = Cardinality(Queued(n)) + 1
      BY <1>1, <3>1, SlotAppended DEF QueueInv
    <3>3. \A k \in Node \ {n} : packetQueue'[k] = packetQueue[k]
      BY <1>1, <3>1 DEF TypeOK
    <3>4. \A k \in Node \ {n} : Queued(k)' = Queued(k)
      BY <3>3 DEF Queued
    <3>5. queuedPackets'[n] = queuedPackets[n] + 1 /\ queuedPackets[n] + 1 <= MAX_QUEUED_PACKETS
      <4>1. queuedPackets \in [Node -> Int] /\ queuedPackets[n] \in Int
        BY <1>1 DEF TypeOK
      <4> QED BY <4>1, <3>1, <2>2, QueueAssumption
    <3>6. \A k \in Node \ {n} : queuedPackets'[k] = queuedPackets[k]
      BY <1>1, <3>1 DEF TypeOK
    <3>7. \A k, q \in Node : negotiated'[k][q] => packetQueue'[k][q] = <<>>
      <4> SUFFICES ASSUME NEW k \in Node, NEW q \in Node, negotiated'[k][q]
                   PROVE  packetQueue'[k][q] = <<>>
        OBVIOUS
      <4>1. negotiated[k][q] /\ ~(k = n /\ q = p)
        BY <3>1
      <4>2. packetQueue'[k][q] = packetQueue[k][q]
        BY <1>1, <3>1, <4>1 DEF TypeOK
      <4> QED BY <4>1, <4>2 DEF QueueInv, QueueAccounting
    <3>8. QueueAccounting'
      <4> SUFFICES ASSUME NEW k \in Node
                   PROVE  /\ queuedPackets'[k] = Cardinality(Queued(k)')
                          /\ queuedPackets'[k] <= MAX_QUEUED_PACKETS
        BY <3>7 DEF QueueAccounting
      <4>1. CASE k = n
        BY <3>2, <3>5, <4>1 DEF QueueInv, QueueAccounting
      <4>2. CASE k # n
        BY <3>4, <3>6, <4>2 DEF QueueInv, QueueAccounting
      <4> QED BY <4>1, <4>2
    <3> QED BY <1>1, <3>2, <3>4, <3>8 DEF QueueInv
  <2> QED BY <2>1, <2>2
<1>5. ASSUME NEW n \in Node, NEW p \in Node, NEW m \in net, AcceptHello(n, p, m)
      PROVE  QueueInv'
  <2>1. /\ queuedPackets' = [queuedPackets EXCEPT ![n] = @ - Len(packetQueue[n][p])]
        /\ packetQueue' = [packetQueue EXCEPT ![n][p] = <<>>]
        /\ negotiated' = [negotiated EXCEPT ![n][p] = TRUE]
    BY <1>5 DEF AcceptHello
  <2>2. /\ IsFiniteSet(Queued(n)')
        /\ Cardinality(Queued(n)') = Cardinality(Queued(n)) - Len(packetQueue[n][p])
    BY <1>1, <2>1, SlotsFlushed DEF QueueInv
  <2>3. \A k \in Node \ {n} : packetQueue'[k] = packetQueue[k]
    BY <1>1, <2>1 DEF TypeOK
  <2>4. \A k \in Node \ {n} : Queued(k)' = Queued(k)
    BY <2>3 DEF Queued
  <2>5. /\ queuedPackets'[n] = queuedPackets[n] - Len(packetQueue[n][p])
        /\ queuedPackets[n] \in Int /\ Len(packetQueue[n][p]) \in Nat
    BY <1>1, <2>1 DEF TypeOK
  <2>6. \A k \in Node \ {n} : queuedPackets'[k] = queuedPackets[k]
    BY <1>1, <2>1 DEF TypeOK
  <2>7. \A k, q \in Node : negotiated'[k][q] => packetQueue'[k][q] = <<>>
    <3> SUFFICES ASSUME NEW k \in Node, NEW q \in Node, negotiated'[k][q]
                 PROVE  packetQueue'[k][q] = <<>>
      OBVIOUS
    <3>1. CASE k = n /\ q = p
      BY <1>1, <2>1, <3>1 DEF TypeOK
    <3>2. CASE ~(k = n /\ q = p)
      <4>1. negotiated'[k][q] = negotiated[k][q] /\ packetQueue'[k][q] = packetQueue[k][q]
        BY <1>1, <2>1, <3>2 DEF TypeOK
      <4> QED BY <4>1 DEF QueueInv, QueueAccounting
    <3> QED BY <3>1, <3>2
  <2>8. QueueAccounting'
    <3> SUFFICES ASSUME NEW k \in Node
                 PROVE  /\ queuedPackets'[k] = Cardinality(Queued(k)')
                        /\ queuedPackets'[k] <= MAX_QUEUED_PACKETS
      BY <2>7 DEF QueueAccounting
    <3>1. CASE k = n
      <4>1. queuedPackets[n] = Cardinality(Queued(n)) /\ queuedPackets[n] <= MAX_QUEUED_PACKETS
        BY DEF QueueInv, QueueAccounting
      <4> QED BY <2>2, <2>5, <3>1, <4>1, QueueAssumption
    <3>2. CASE k # n
      BY <2>4, <2>6, <3>2 DEF QueueInv, QueueAccounting
    <3> QED BY <3>1, <3>2
  <2> QED BY <1>1, <2>2, <2>4, <2>8 DEF QueueInv
<1>6. ASSUME NEW n \in Node, NEW p \in Node, periodicPeer(n, p)
      PROVE  QueueInv'
  <2>1. \A k, q \in Node : negotiated'[k][q] => negotiated[k][q]
    BY <1>1, <1>6 DEF periodicPeer, TypeOK
  <2> QED BY <1>2, <1>6, <2>1 DEF periodicPeer
<1>7. ASSUME NEW n \in Node, Restart(n)
      PROVE  QueueInv'
  <2>1. \A q \in Node : packetQueue'[n][q] = <<>> /\ ~negotiated'[n][q]
    BY <1>1, <1>7 DEF Restart, TypeOK
  <2>2. \A k \in Node \ {n} : /\ packetQueue'[k] = packetQueue[k]
                              /\ negotiated'[k] = negotiated[k]
                              /\ queuedPackets'[k] = queuedPackets[k]
    BY <1>1, <1>7 DEF Restart, TypeOK
  <2>3. queuedPackets'[n] = 0
    BY <1>1, <1>7 DEF Restart, TypeOK
  <2>4. Queued(n)' = {}
    <3>1. \A q \in Node : 1..Len(packetQueue'[n][q]) = {}
      BY <2>1
    <3> QED BY <3>1 DEF Queued
  <2>5. \A k \in Node \ {n} : Queued(k)' = Queued(k)
    BY <2>2 DEF Queued
  <2>6. QueueAccounting'
    <3> SUFFICES ASSUME NEW k \in Node
                 PROVE  /\ queuedPackets'[k] = Cardinality(Queued(k)')
                        /\ queuedPackets'[k] <= MAX_QUEUED_PACKETS
                        /\ \A q \in Node : negotiated'[k][q] => packetQueue'[k][q] = <<>>
      BY DEF QueueAccounting
    <3>1. CASE k = n
      <4>1. Cardinality({}) = 0 /\ 0 <= MAX_QUEUED_PACKETS
        BY FS_EmptySet, QueueAssumption
      <4>2. Queued(k)' = {} /\ queuedPackets'[k] = 0
        BY <2>3, <2>4, <3>1
      <4> QED BY <2>1, <3>1, <4>1, <4>2
    <3>2. CASE k # n
      BY <2>2, <2>5, <3>2 DEF QueueInv, QueueAccounting
    <3> QED BY <3>1, <3>2
  <2>7. \A k \in Node : IsFiniteSet(Queued(k)')
    BY <2>4, <2>5, FS_EmptySet DEF QueueInv
  <2> QED BY <1>1, <2>6, <2>7 DEF QueueInv
<1>8. ASSUME NEW n \in Node, NEW p \in Node, NEW m \in net, onLowerLayerData(n, p, m)
      PROVE  QueueInv'
  BY <1>3, <1>5, <1>8
  DEF onLowerLayerData, DataBeforeHello, ValidData, AnswerHello, DropPacket
<1>9. ASSUME NEW n \in Node, NEW p \in Node, NEW d \in Payload, onUpperLayerData(n, p, d)
      PROVE  QueueInv'
  BY <1>3, <1>4, <1>9 DEF onUpperLayerData, SendDataPacket
<1>10. ASSUME NEW n \in Node, NEW p \in Node, Silence(n, p)
       PROVE  QueueInv'
  BY <1>3, <1>10 DEF Silence
<1>11. ASSUME NEW m \in net, Lose(m)
       PROVE  QueueInv'
  BY <1>3, <1>11 DEF Lose
<1>12. CASE UNCHANGED vars
  BY <1>3, <1>12 DEF vars
<1> QED
  BY <1>6, <1>7, <1>8, <1>9, <1>10, <1>11, <1>12 DEF Next

\* queuedPackets always equals the number of packets waiting in all queues of
\* the node, stays within MAX_QUEUED_PACKETS, and a session has no packet
\* waiting: for any number of nodes, peers, handshakes, teardowns and restarts.
THEOREM QueueAccounted == Spec => []QueueAccounting
<1>1. QueueInv => QueueAccounting
  BY DEF QueueInv
<1> QED BY <1>1, QueueInit, QueueStep, PTL DEF Spec

-----------------------------------------------------------------------------
(***************************************************************************)
(* Sessions: whom a session is with.  One inductive invariant, SessionInv, *)
(* carries three results: key agreement, authenticity of what is handed    *)
(* up, and that a replayed hello never rolls a session back.               *)
(*                                                                         *)
(* It says which term every key in a Peer object or on a packet is, and    *)
(* bounds the helloseq values in flight: since no hello echoes a value     *)
(* that its receiver has not reached, the increment in handleHelloPacket   *)
(* outdates every hello already sent, and those that can still be accepted *)
(* come from a boot at least as recent as the one the session is with.     *)
(***************************************************************************)
\* The key pair n had for p in its boot b.
Kx(n, p, b) == [owner |-> n, peer |-> p, boot |-> b]

\* The key for packets from f, in its boot bf, to t, in its boot bt.
KeyTerm(f, t, bf, bt) ==
    IF f < t
    THEN [client |-> Kx(t, f, bt), server |-> Kx(f, t, bf), dir |-> "to_client",
          mixed |-> <<FlagsOf(f, bf), FlagsOf(t, bt)>>]
    ELSE [client |-> Kx(f, t, bf), server |-> Kx(t, f, bt), dir |-> "to_server",
          mixed |-> <<FlagsOf(f, bf), FlagsOf(t, bt)>>]

\* The helloseq s is one n has reached.
Reached(s, n) == s.boot < boot[n] \/ (s.boot = boot[n] /\ s.count <= helloseq[n].count)

\* A hello is what its sender signed in one of its boots.
SignedHello(m) ==
    /\ m.src # m.dst
    /\ m.kx = Kx(m.src, m.dst, m.kx.boot)
    /\ m.kx.boot \in 1..boot[m.src]
    /\ m.flags = FlagsOf(m.src, m.kx.boot)

\* The hello m never replaces newer keys of its receiver by older ones.
GoodHello(m) ==
    /\ SignedHello(m)
    /\ Reached(m.seq, m.src) /\ Reached(m.echo, m.dst)
    /\ m.echo = helloseq[m.dst] => PeerBoot(m.dst, m.src) <= m.kx.boot

HelloInv == \A m \in net : m.type = "hello" => GoodHello(m)

\* The data packet m was handed down at its source for its destination.
GoodKey(m) ==
    /\ m.src # m.dst
    /\ \E bf \in 1..boot[m.src], bt \in 1..boot[m.dst] : m.key = KeyTerm(m.src, m.dst, bf, bt)
GoodData(m) == GoodKey(m) /\ m.payload \in handedDown[m.src][m.dst]

DataInv == \A m \in net : m.type = "data" => GoodData(m)

\* The keys n has for p belong to n's present boot and some boot b of p.
KeysWith(n, p, b) ==
    /\ rxKey[n][p] = KeyTerm(p, n, b, boot[n])
    /\ txKey[n][p] = KeyTerm(n, p, boot[n], b)
    /\ peerFlags[n][p] = FlagsOf(p, b)

KeyInv ==
    \A n, p \in Node :
        \/ rxKey[n][p] = NoKey /\ ~negotiated[n][p]
        \/ p # n /\ \E b \in 1..boot[p] : KeysWith(n, p, b)

QueueFromAbove ==
    \A n, p \in Node : \A i \in DOMAIN packetQueue[n][p] :
        packetQueue[n][p][i] \in handedDown[n][p]

BootInv == \A n \in Node : helloseq[n].boot = boot[n]

SessionInv ==
    /\ TypeOK
    /\ BootInv
    /\ HelloInv
    /\ DataInv
    /\ KeyInv
    /\ QueueFromAbove
    /\ Authenticity

-----------------------------------------------------------------------------
(* Key terms. *)

\* A key term is a session key, and so differs from NoKey.
LEMMA KeyTermType ==
    ASSUME NEW f \in Node, NEW t \in Node,
           NEW bf \in 1..MaxBoot[f], NEW bt \in 1..MaxBoot[t]
    PROVE  KeyTerm(f, t, bf, bt) \in SessionKey
<1>1. MaxBoot[f] \in Nat /\ MaxBoot[t] \in Nat
  BY BoundAssumption
<1>2. bf \in Nat /\ bt \in Nat
  BY <1>1
<1>3. FlagsOf(f, bf) \in Nat /\ FlagsOf(t, bt) \in Nat
  BY FlagsAssumption
<1>4. Kx(f, t, bf) \in KxKey /\ Kx(t, f, bt) \in KxKey
  BY <1>2 DEF Kx, KxKey
<1> QED BY <1>3, <1>4 DEF KeyTerm, SessionKey

\* The receiver of a key finds in it the boot of the sender.
LEMMA KeyTermPeer ==
    ASSUME NEW f \in Node, NEW t \in Node, f # t, NEW bf, NEW bt
    PROVE  PeerKx(t, KeyTerm(f, t, bf, bt)).boot = bf
BY DEF PeerKx, KeyTerm, Kx

\* A key belongs to one direction of one pair of nodes.
LEMMA KeyTermEnds ==
    ASSUME NEW f \in Node, NEW t \in Node, NEW g \in Node, NEW u \in Node,
           NEW bf, NEW bt, NEW bg, NEW bu,
           KeyTerm(f, t, bf, bt) = KeyTerm(g, u, bg, bu)
    PROVE  f = g /\ t = u
<1>1. CASE f < t
  <2>1. KeyTerm(f, t, bf, bt).dir = "to_client"
    BY <1>1 DEF KeyTerm
  <2>2. g < u
    BY <2>1 DEF KeyTerm
  <2> QED BY <1>1, <2>2 DEF KeyTerm, Kx
<1>2. CASE ~(f < t)
  <2>1. KeyTerm(f, t, bf, bt).dir = "to_server"
    BY <1>2 DEF KeyTerm
  <2>2. ~(g < u)
    BY <2>1 DEF KeyTerm
  <2> QED BY <1>2, <2>2 DEF KeyTerm, Kx
<1> QED BY <1>1, <1>2

\* What handleHelloPacket computes from a hello of p's boot m.kx.boot are the
\* terms for that boot of p and the present boot of n.
LEMMA NewKeys ==
    ASSUME TypeOK, NEW n \in Node, NEW p \in Node, NEW m \in HelloPacket,
           SignedHello(m), m.src = p, m.dst = n
    PROVE  /\ NewRxKey(n, p, m) = KeyTerm(p, n, m.kx.boot, boot[n])
           /\ NewTxKey(n, p, m) = KeyTerm(n, p, boot[n], m.kx.boot)
<1>1. m.kx = Kx(p, n, m.kx.boot) /\ m.flags = FlagsOf(p, m.kx.boot) /\ p # n
  BY DEF SignedHello
<1>2. kxPubkey(n, p) = Kx(n, p, boot[n])
  BY DEF kxPubkey, Kx
<1>3. n \in Nat /\ p \in Nat
  BY NodeAssumption
<1>4. CASE p < n
  <2>1. ~(n < p)
    BY <1>3, <1>4
  <2> QED BY <1>1, <1>2, <1>4, <2>1 DEF NewRxKey, NewTxKey, SessionKeyOf, mixFlags, KeyTerm
<1>5. CASE ~(p < n)
  <2>1. n < p
    BY <1>1, <1>3, <1>5
  <2> QED BY <1>1, <1>2, <1>5, <2>1 DEF NewRxKey, NewTxKey, SessionKeyOf, mixFlags, KeyTerm
<1> QED BY <1>4, <1>5

\* The boot of the peer that PeerBoot reads from the keys.
LEMMA KeysPeerBoot ==
    ASSUME TypeOK, NEW n \in Node, NEW p \in Node, p # n, NEW b \in 1..boot[p],
           KeysWith(n, p, b)
    PROVE  PeerBoot(n, p) = b
<1>1. b \in 1..MaxBoot[p] /\ boot[n] \in 1..MaxBoot[n]
  BY BoundAssumption DEF TypeOK
<1>2. rxKey[n][p] = KeyTerm(p, n, b, boot[n])
  BY DEF KeysWith
<1>3. rxKey[n][p] # NoKey
  BY <1>1, <1>2, KeyTermType, NoKeyAssumption
<1> QED BY <1>2, <1>3, KeyTermPeer DEF PeerBoot

\* A session is never with a boot the peer has not had.
LEMMA PeerBootBound ==
    ASSUME TypeOK, KeyInv, NEW n \in Node, NEW p \in Node
    PROVE  PeerBoot(n, p) \in Nat /\ PeerBoot(n, p) <= boot[p]
<1>1. boot[p] \in Nat
  BY DEF TypeOK
<1>2. CASE rxKey[n][p] = NoKey
  BY <1>1, <1>2 DEF PeerBoot
<1>3. CASE rxKey[n][p] # NoKey
  <2>1. PICK b \in 1..boot[p] : p # n /\ KeysWith(n, p, b)
    BY <1>3 DEF KeyInv
  <2>2. PeerBoot(n, p) = b
    BY <2>1, KeysPeerBoot
  <2> QED BY <1>1, <2>2
<1> QED BY <1>2, <1>3

-----------------------------------------------------------------------------
(* Steps that change no key and no helloseq. *)

\* A hello a node builds with its present helloseq, echoing a value its
\* receiver has reached, is good.
LEMMA OwnHello ==
    ASSUME SessionInv, NEW n \in Node, NEW p \in Node, p # n, NEW num, NEW echo,
           Reached(echo, p)
    PROVE  GoodHello(Hello(n, p, num, helloseq[n], echo))
<1> DEFINE h == Hello(n, p, num, helloseq[n], echo)
<1>1. /\ h.src = n /\ h.dst = p /\ h.kx = Kx(n, p, boot[n]) /\ h.flags = FlagsOf(n, boot[n])
      /\ h.seq = helloseq[n] /\ h.echo = echo
  BY DEF Hello, kxPubkey, Kx
<1>2. h.kx.boot = boot[n]
  BY <1>1 DEF Kx
<1>3. boot[n] \in 1..boot[n]
  BY BoundAssumption DEF SessionInv, TypeOK
<1>4. SignedHello(h)
  BY <1>1, <1>2, <1>3 DEF SignedHello
<1>5. Reached(h.seq, n)
  <2>1. helloseq[n].count \in Nat
    BY DEF SessionInv, TypeOK, HelloSeq
  <2> QED BY <1>1, <2>1 DEF Reached, SessionInv, BootInv
<1>6. PeerBoot(p, n) <= h.kx.boot
  BY <1>2, PeerBootBound DEF SessionInv
<1> QED BY <1>1, <1>4, <1>5, <1>6 DEF GoodHello

\* The 0 that a hello 1 echoes counts as reached by everyone.
LEMMA NoSeqReached ==
    ASSUME TypeOK, NEW p \in Node
    PROVE  Reached(NoSeq, p)
<1>1. boot[p] \in 1..MaxBoot[p] /\ MaxBoot[p] \in Nat
  BY BoundAssumption DEF TypeOK
<1> QED BY <1>1 DEF Reached, NoSeq

\* A step that leaves the keys and sequence numbers alone preserves the
\* invariant if it sends only good packets.
LEMMA SteadyStep ==
    ASSUME SessionInv,
           boot' = boot, helloseq' = helloseq, rxKey' = rxKey, txKey' = txKey,
           peerFlags' = peerFlags,
           \A n, p \in Node : negotiated'[n][p] => negotiated[n][p],
           \A n, p \in Node : handedDown[n][p] \subseteq handedDown'[n][p],
           \A m \in net' : \/ m \in net
                           \/ m.type = "hello" /\ GoodHello(m)
                           \/ m.type = "data" /\ GoodKey(m) /\ m.payload \in handedDown'[m.src][m.dst]
    PROVE  BootInv' /\ HelloInv' /\ DataInv' /\ KeyInv'
<1>1. BootInv'
  BY DEF SessionInv, BootInv
<1>2. \A n, p \in Node : PeerBoot(n, p)' = PeerBoot(n, p)
  BY DEF PeerBoot
<1>3. HelloInv'
  <2> SUFFICES ASSUME NEW m \in net', m.type = "hello" PROVE GoodHello(m)'
    BY DEF HelloInv
  <2>1. GoodHello(m)
    BY DEF SessionInv, HelloInv
  <2>2. PeerBoot(m.dst, m.src)' = PeerBoot(m.dst, m.src)
    BY DEF PeerBoot
  <2> QED BY <2>1, <2>2 DEF GoodHello, SignedHello, Reached
<1>4. DataInv'
  <2> SUFFICES ASSUME NEW m \in net', m.type = "data" PROVE GoodData(m)'
    BY DEF DataInv
  <2>1. CASE m \in net
    <3>1. GoodData(m)
      BY <2>1 DEF SessionInv, DataInv
    <3>2. m.src \in Node /\ m.dst \in Node
      BY <2>1 DEF SessionInv, TypeOK, HelloPacket, DataPacket
    <3> QED BY <3>1, <3>2 DEF GoodData, GoodKey
  <2>2. CASE m \notin net
    BY <2>2 DEF GoodData, GoodKey
  <2> QED BY <2>1, <2>2
<1>5. KeyInv'
  BY DEF SessionInv, KeyInv, KeysWith
<1> QED BY <1>1, <1>3, <1>4, <1>5

\* Handing a packet down never invalidates what was handed up or queued.
LEMMA HandedDownStep ==
    ASSUME SessionInv, handedUp' = handedUp, packetQueue' = packetQueue,
           \A n, p \in Node : handedDown[n][p] \subseteq handedDown'[n][p]
    PROVE  QueueFromAbove' /\ Authenticity'
BY DEF SessionInv, QueueFromAbove, Authenticity

\* Nothing is in flight and no key exists when the first nodes start.
LEMMA SessionInit == Init => SessionInv
<1> SUFFICES ASSUME Init PROVE SessionInv OBVIOUS
<1>1. TypeOK
  BY TypeInit
<1>2. BootInv /\ HelloInv /\ DataInv
  BY DEF Init, BootInv, HelloInv, DataInv
<1>3. KeyInv
  BY DEF Init, KeyInv
<1>4. QueueFromAbove /\ Authenticity
  BY DEF Init, QueueFromAbove, Authenticity
<1> QED BY <1>1, <1>2, <1>3, <1>4 DEF SessionInv

\* onUpperLayerData with a session seals with the key for this direction.
LEMMA SendStep ==
    ASSUME SessionInv, TypeOK', NEW n \in Node, NEW p \in Node, NEW d \in Payload,
           SendDataPacket(n, p, d)
    PROVE  SessionInv'
<1> DEFINE x == Data(n, p, txKey[n][p], d)
<1>1. p # n /\ negotiated[n][p] /\ net' = net \cup {x}
  BY DEF SendDataPacket, getOrCreatePeer
<1>2. /\ UNCHANGED <<boot, helloseq, rxKey, txKey, peerFlags, negotiated, packetQueue, handedUp>>
      /\ handedDown' = [handedDown EXCEPT ![n][p] = @ \cup {d}]
  BY DEF SendDataPacket, sessionVars
<1>3. \A k, q \in Node : handedDown[k][q] \subseteq handedDown'[k][q]
  BY <1>2 DEF SessionInv, TypeOK
<1>4. d \in handedDown'[n][p]
  BY <1>2 DEF SessionInv, TypeOK
<1>5. PICK b \in 1..boot[p] : txKey[n][p] = KeyTerm(n, p, boot[n], b)
  BY <1>1 DEF SessionInv, KeyInv, KeysWith
<1>6. boot[n] \in 1..boot[n]
  BY BoundAssumption DEF SessionInv, TypeOK
<1>7. x.type = "data" /\ x.src = n /\ x.dst = p /\ x.key = txKey[n][p] /\ x.payload = d
  BY DEF Data
<1>8. GoodKey(x)
  BY <1>1, <1>5, <1>6, <1>7 DEF GoodKey
<1>9. BootInv' /\ HelloInv' /\ DataInv' /\ KeyInv'
  <2>1. \A m \in net' : \/ m \in net
                        \/ m.type = "hello" /\ GoodHello(m)
                        \/ m.type = "data" /\ GoodKey(m) /\ m.payload \in handedDown'[m.src][m.dst]
    BY <1>1, <1>4, <1>7, <1>8
  <2> QED BY <1>2, <1>3, <2>1, SteadyStep
<1>10. QueueFromAbove' /\ Authenticity'
  BY <1>2, <1>3, HandedDownStep
<1> QED BY <1>9, <1>10 DEF SessionInv

\* onUpperLayerData without a session: a hello 1, and a queue that still
\* holds only what was handed down.
LEMMA QueueingStep ==
    ASSUME SessionInv, TypeOK', NEW n \in Node, NEW p \in Node, NEW d \in Payload,
           QueueDataPacket(n, p, d)
    PROVE  SessionInv'
<1> DEFINE h == Hello(n, p, 1, helloseq[n], NoSeq)
<1>1. p # n /\ net' = net \cup {h}
  BY DEF QueueDataPacket, getOrCreatePeer
<1>2. /\ UNCHANGED <<boot, helloseq, rxKey, txKey, peerFlags, negotiated, handedUp>>
      /\ handedDown' = [handedDown EXCEPT ![n][p] = @ \cup {d}]
      /\ \/ packetQueue' = packetQueue
         \/ packetQueue' = [packetQueue EXCEPT ![n][p] = Append(@, d)]
  BY DEF QueueDataPacket
<1>3. \A k, q \in Node : handedDown[k][q] \subseteq handedDown'[k][q]
  BY <1>2 DEF SessionInv, TypeOK
<1>4. d \in handedDown'[n][p]
  BY <1>2 DEF SessionInv, TypeOK
<1>5. GoodHello(h) /\ h.type = "hello"
  BY <1>1, OwnHello, NoSeqReached DEF SessionInv, Hello
<1>6. BootInv' /\ HelloInv' /\ DataInv' /\ KeyInv'
  BY <1>1, <1>2, <1>3, <1>5, SteadyStep
<1>7. Authenticity'
  BY <1>2, <1>3 DEF SessionInv, Authenticity
<1>8. QueueFromAbove'
  <2> SUFFICES ASSUME NEW k \in Node, NEW q \in Node, NEW i \in DOMAIN packetQueue'[k][q]
               PROVE  packetQueue'[k][q][i] \in handedDown'[k][q]
    BY DEF QueueFromAbove
  <2>1. CASE packetQueue'[k][q] = packetQueue[k][q]
    BY <1>3, <2>1 DEF SessionInv, QueueFromAbove
  <2>2. CASE packetQueue'[k][q] # packetQueue[k][q]
    <3>0. packetQueue \in [Node -> [Node -> Seq(Payload)]]
      BY DEF SessionInv, TypeOK
    <3>1. k = n /\ q = p /\ packetQueue'[n][p] = Append(packetQueue[n][p], d)
      BY <1>2, <2>2, <3>0
    <3>2. packetQueue[n][p] \in Seq(Payload)
      BY DEF SessionInv, TypeOK
    <3>3. \/ i \in DOMAIN packetQueue[n][p] /\ packetQueue'[n][p][i] = packetQueue[n][p][i]
          \/ packetQueue'[n][p][i] = d
      BY <3>1, <3>2
    <3> QED BY <1>3, <1>4, <3>1, <3>3 DEF SessionInv, QueueFromAbove
  <2> QED BY <2>1, <2>2
<1> QED BY <1>6, <1>7, <1>8 DEF SessionInv

\* The handlers that answer with a hello 1 or 2, and those that drop.
LEMMA AnswerStep ==
    ASSUME SessionInv, TypeOK', NEW n \in Node, NEW p \in Node, NEW m \in net,
           DataBeforeHello(n, p, m) \/ AnswerHello(n, p, m) \/ DropPacket(n, p, m)
    PROVE  SessionInv'
<1>1. /\ UNCHANGED <<boot, helloseq, rxKey, txKey, peerFlags, negotiated, packetQueue>>
      /\ UNCHANGED <<handedDown, handedUp>>
  BY DEF DataBeforeHello, AnswerHello, DropPacket, sessionVars, historyVars
<1>2. \A x \in net' : x \in net \/ (x.type = "hello" /\ GoodHello(x))
  <2>1. CASE DataBeforeHello(n, p, m)
    <3>1. GoodHello(Hello(n, p, 1, helloseq[n], NoSeq))
      BY <2>1, OwnHello, NoSeqReached DEF SessionInv, DataBeforeHello, getOrCreatePeer
    <3> QED BY <2>1, <3>1 DEF DataBeforeHello, InFlight, Hello
  <2>2. CASE AnswerHello(n, p, m)
    <3>1. m.type = "hello" /\ m.src = p /\ p # n
      BY <2>2 DEF AnswerHello, GenuineHello, getOrCreatePeer
    <3>2. Reached(m.seq, p)
      BY <3>1 DEF SessionInv, HelloInv, GoodHello
    <3>3. GoodHello(Hello(n, p, 2, helloseq[n], m.seq))
      BY <3>1, <3>2, OwnHello
    <3> QED BY <2>2, <3>3 DEF AnswerHello, InFlight, Hello
  <2>3. CASE DropPacket(n, p, m)
    BY <2>3 DEF DropPacket, InFlight
  <2> QED BY <2>1, <2>2, <2>3
<1>3. BootInv' /\ HelloInv' /\ DataInv' /\ KeyInv'
  BY <1>1, <1>2, SteadyStep
<1>4. QueueFromAbove' /\ Authenticity'
  BY <1>1, HandedDownStep
<1> QED BY <1>3, <1>4 DEF SessionInv

\* A packet that opens under the key for p was sealed by p, for this node.
LEMMA ValidDataStep ==
    ASSUME SessionInv, TypeOK', NEW n \in Node, NEW p \in Node, NEW m \in net,
           ValidData(n, p, m)
    PROVE  SessionInv'
<1>1. /\ UNCHANGED <<boot, helloseq, rxKey, txKey, peerFlags, negotiated, packetQueue, handedDown>>
      /\ handedUp' = [handedUp EXCEPT ![n][p] = @ \cup {m.payload}]
      /\ negotiated[n][p] /\ m.key = rxKey[n][p] /\ m.type = "data"
  BY DEF ValidData, sessionVars
<1>2. net' \subseteq net
  BY DEF ValidData, InFlight
<1>3. m.src \in Node /\ m.dst \in Node
  BY DEF SessionInv, TypeOK, HelloPacket, DataPacket
<1>4. PICK bf \in 1..boot[m.src], bt \in 1..boot[m.dst] : m.key = KeyTerm(m.src, m.dst, bf, bt)
  BY <1>1 DEF SessionInv, DataInv, GoodData, GoodKey
<1>5. PICK b \in 1..boot[p] : rxKey[n][p] = KeyTerm(p, n, b, boot[n])
  BY <1>1 DEF SessionInv, KeyInv, KeysWith
<1>6. m.src = p /\ m.dst = n
  <2>1. KeyTerm(m.src, m.dst, bf, bt) = KeyTerm(p, n, b, boot[n])
    BY <1>1, <1>4, <1>5
  <2> QED BY <1>3, <2>1, KeyTermEnds
<1>7. m.payload \in handedDown[p][n]
  BY <1>1, <1>6 DEF SessionInv, DataInv, GoodData
<1>8. Authenticity'
  BY <1>1, <1>7 DEF SessionInv, Authenticity, TypeOK
<1>9. QueueFromAbove'
  BY <1>1 DEF SessionInv, QueueFromAbove
<1>10. BootInv' /\ HelloInv' /\ DataInv' /\ KeyInv'
  BY <1>1, <1>2, SteadyStep
<1> QED BY <1>8, <1>9, <1>10 DEF SessionInv

\* Silence, a lost packet or a teardown: fewer packets, fewer sessions.
LEMMA ShrinkingStep ==
    ASSUME SessionInv, TypeOK', net' \subseteq net,
           UNCHANGED <<boot, helloseq, rxKey, txKey, peerFlags, packetQueue, handedDown, handedUp>>,
           \A n, p \in Node : negotiated'[n][p] => negotiated[n][p]
    PROVE  SessionInv'
<1>1. BootInv' /\ HelloInv' /\ DataInv' /\ KeyInv'
  BY SteadyStep
<1>2. QueueFromAbove' /\ Authenticity'
  BY HandedDownStep
<1> QED BY <1>1, <1>2 DEF SessionInv

-----------------------------------------------------------------------------
(* Accepting a hello. *)

\* What AcceptHello does to the sequence number: n moves to a value that no
\* hello in flight echoes.
LEMMA AcceptOutdates ==
    ASSUME SessionInv, NEW n \in Node, NEW p \in Node, NEW m \in net, AcceptHello(n, p, m)
    PROVE  /\ boot' = boot
           /\ helloseq'[n].boot = boot[n] /\ helloseq'[n].count = helloseq[n].count + 1
           /\ \A k \in Node \ {n} : helloseq'[k] = helloseq[k]
           /\ \A s \in HelloSeq : Reached(s, n) => s # helloseq'[n]
           /\ \A s \in HelloSeq, k \in Node : Reached(s, k) => Reached(s, k)'
<1>1. boot' = boot /\ helloseq' = NextHelloseq(n)
  BY DEF AcceptHello
<1>2. helloseq[n].count \in Nat /\ boot[n] \in Nat /\ helloseq[n].boot = boot[n]
  BY DEF SessionInv, BootInv, TypeOK, HelloSeq
<1>3. helloseq'[n].boot = boot[n] /\ helloseq'[n].count = helloseq[n].count + 1
  <2>1. TypeOK
    BY DEF SessionInv
  <2>2. helloseq'[n] = [boot |-> helloseq[n].boot, count |-> helloseq[n].count + 1]
    BY <1>1, <2>1, NextHelloseqType
  <2> QED BY <1>2, <2>2
<1>4. \A k \in Node \ {n} : helloseq'[k] = helloseq[k]
  BY <1>1, NextHelloseqType DEF SessionInv
<1>5. \A s \in HelloSeq : Reached(s, n) => s # helloseq'[n]
  BY <1>2, <1>3 DEF Reached, HelloSeq
<1>6. ASSUME NEW s \in HelloSeq, NEW k \in Node, Reached(s, k)
      PROVE  Reached(s, k)'
  <2>1. CASE k = n
    BY <1>1, <1>2, <1>3, <1>6, <2>1 DEF Reached, HelloSeq
  <2>2. CASE k # n
    BY <1>1, <1>4, <1>6, <2>2 DEF Reached
  <2> QED BY <2>1, <2>2
<1> QED BY <1>1, <1>3, <1>4, <1>5, <1>6

\* handleHelloPacket with a hello 2 or 3 that is fresh.
LEMMA AcceptStep ==
    ASSUME SessionInv, TypeOK', NEW n \in Node, NEW p \in Node, NEW m \in net,
           AcceptHello(n, p, m)
    PROVE  SessionInv'
<1> DEFINE b == m.kx.boot
<1>1. m \in HelloPacket /\ m.type = "hello" /\ m.src = p /\ m.dst = n /\ p # n
  BY DEF AcceptHello, GenuineHello, getOrCreatePeer, SessionInv, TypeOK, DataPacket
<1>2. GoodHello(m) /\ SignedHello(m) /\ b \in 1..boot[p]
  BY <1>1 DEF SessionInv, HelloInv, GoodHello, SignedHello
<1>3. /\ NewRxKey(n, p, m) = KeyTerm(p, n, b, boot[n])
      /\ NewTxKey(n, p, m) = KeyTerm(n, p, boot[n], b)
  BY <1>1, <1>2, NewKeys DEF SessionInv
<1>4. boot' = boot /\ handedDown' = handedDown /\ handedUp' = handedUp
  BY DEF AcceptHello, historyVars
<1>5. /\ rxKey'[n][p] = KeyTerm(p, n, b, boot[n])
      /\ txKey'[n][p] = KeyTerm(n, p, boot[n], b)
      /\ peerFlags'[n][p] = FlagsOf(p, b)
  BY <1>2, <1>1, <1>3 DEF AcceptHello, SessionInv, TypeOK, SignedHello
<1>6. \A k, q \in Node : ~(k = n /\ q = p) =>
        /\ rxKey'[k][q] = rxKey[k][q] /\ txKey'[k][q] = txKey[k][q]
        /\ peerFlags'[k][q] = peerFlags[k][q]
  BY DEF AcceptHello, SessionInv, TypeOK
<1>7. \A k, q \in Node : ~(k = n /\ q = p) =>
        negotiated'[k][q] = negotiated[k][q] /\ packetQueue'[k][q] = packetQueue[k][q]
  BY DEF AcceptHello, SessionInv, TypeOK
<1>8. KeyInv'
  <2> SUFFICES ASSUME NEW k \in Node, NEW q \in Node
               PROVE  \/ rxKey'[k][q] = NoKey /\ ~negotiated'[k][q]
                      \/ q # k /\ \E c \in 1..boot'[q] : KeysWith(k, q, c)'
    BY DEF KeyInv
  <2>1. CASE k = n /\ q = p
    <3>1. KeysWith(n, p, b)'
      BY <1>4, <1>5 DEF KeysWith
    <3> QED BY <1>1, <1>2, <1>4, <2>1, <3>1
  <2>2. CASE ~(k = n /\ q = p)
    BY <1>4, <1>6, <1>7, <2>2 DEF SessionInv, KeyInv, KeysWith
  <2> QED BY <2>1, <2>2
<1>9. \A k, q \in Node : ~(k = n /\ q = p) => PeerBoot(k, q)' = PeerBoot(k, q)
  BY <1>6 DEF PeerBoot
<1>10. BootInv'
  BY AcceptOutdates, <1>4 DEF SessionInv, BootInv
<1>11. \A x \in net' : \/ x \in net
                      \/ x = Hello(n, p, 3, helloseq'[n], m.seq)
                      \/ \E i \in DOMAIN packetQueue[n][p] :
                            x = Data(n, p, KeyTerm(n, p, boot[n], b), packetQueue[n][p][i])
  BY <1>3 DEF AcceptHello, AcceptReplies, FlushedQueue, InFlight
<1>12. HelloInv'
  <2> SUFFICES ASSUME NEW x \in net', x.type = "hello" PROVE GoodHello(x)'
    BY DEF HelloInv
  <2>1. x \in HelloPacket
    BY DEF TypeOK, DataPacket
  <2>2. /\ x.src \in Node /\ x.dst \in Node /\ x.seq \in HelloSeq /\ x.echo \in HelloSeq
        /\ x.kx.boot \in Nat
    BY <2>1 DEF HelloPacket, KxKey
  <2>3. CASE x \in net
    <3>1. GoodHello(x)
      BY <2>3 DEF SessionInv, HelloInv
    <3>2. SignedHello(x)'
      BY <1>4, <3>1 DEF GoodHello, SignedHello
    <3>3. Reached(x.seq, x.src)' /\ Reached(x.echo, x.dst)'
      BY <2>2, <3>1, AcceptOutdates DEF GoodHello
    <3>4. CASE x.dst = n
      <4>1. x.echo # helloseq'[x.dst]
        BY <2>2, <3>1, <3>4, AcceptOutdates DEF GoodHello
      <4> QED BY <3>2, <3>3, <4>1 DEF GoodHello
    <3>5. CASE x.dst # n
      <4>1. helloseq'[x.dst] = helloseq[x.dst]
        BY <2>2, <3>5, AcceptOutdates
      <4>2. PeerBoot(x.dst, x.src)' = PeerBoot(x.dst, x.src)
        BY <1>9, <2>2, <3>5
      <4> QED BY <3>1, <3>2, <3>3, <4>1, <4>2 DEF GoodHello
    <3> QED BY <3>4, <3>5
  <2>4. CASE x = Hello(n, p, 3, helloseq'[n], m.seq)
    <3>1. /\ x.src = n /\ x.dst = p /\ x.seq = helloseq'[n] /\ x.echo = m.seq
          /\ x.kx = Kx(n, p, boot[n]) /\ x.flags = FlagsOf(n, boot[n])
      BY <2>4 DEF Hello, kxPubkey, Kx
    <3>2. boot[n] \in 1..boot[n] /\ x.kx.boot = boot[n]
      BY <3>1, BoundAssumption DEF SessionInv, TypeOK, Kx
    <3>3. SignedHello(x)'
      BY <1>1, <1>4, <3>1, <3>2 DEF SignedHello
    <3>4. Reached(x.seq, x.src)'
      <4>1. helloseq'[n].count \in Nat
        BY DEF TypeOK, HelloSeq
      <4>2. helloseq'[n].boot = boot'[n]
        BY AcceptOutdates
      <4> QED BY <3>1, <4>1, <4>2 DEF Reached
    <3>5. Reached(x.echo, x.dst)'
      <4>1. Reached(m.seq, p) /\ m.seq \in HelloSeq
        BY <1>1, <1>2 DEF GoodHello, HelloPacket
      <4>2. Reached(m.seq, p)'
        BY <4>1, AcceptOutdates
      <4> QED BY <3>1, <4>2
    <3>6. PeerBoot(p, n)' <= x.kx.boot
      BY <1>1, <1>9, <3>2, PeerBootBound DEF SessionInv
    <3> QED BY <3>1, <3>3, <3>4, <3>5, <3>6 DEF GoodHello
  <2> QED BY <1>11, <2>3, <2>4 DEF Data
<1>13. DataInv'
  <2> SUFFICES ASSUME NEW x \in net', x.type = "data" PROVE GoodData(x)'
    BY DEF DataInv
  <2>1. CASE x \in net
    BY <1>4, <2>1 DEF SessionInv, DataInv, GoodData, GoodKey
  <2>2. CASE \E i \in DOMAIN packetQueue[n][p] :
               x = Data(n, p, KeyTerm(n, p, boot[n], b), packetQueue[n][p][i])
    <3>1. PICK i \in DOMAIN packetQueue[n][p] :
               x = Data(n, p, KeyTerm(n, p, boot[n], b), packetQueue[n][p][i])
      BY <2>2
    <3>2. /\ x.src = n /\ x.dst = p /\ x.key = KeyTerm(n, p, boot[n], b)
          /\ x.payload \in handedDown[n][p]
      BY <3>1 DEF Data, SessionInv, QueueFromAbove
    <3>3. boot[n] \in 1..boot[n]
      BY BoundAssumption DEF SessionInv, TypeOK
    <3> QED BY <1>1, <1>2, <1>4, <3>2, <3>3 DEF GoodData, GoodKey
  <2> QED BY <1>11, <2>1, <2>2 DEF Hello
<1>14. QueueFromAbove'
  <2>1. packetQueue'[n][p] = <<>>
    BY DEF AcceptHello, SessionInv, TypeOK
  <2> SUFFICES ASSUME NEW k \in Node, NEW q \in Node, NEW i \in DOMAIN packetQueue'[k][q]
               PROVE  packetQueue'[k][q][i] \in handedDown'[k][q]
    BY DEF QueueFromAbove
  <2>2. ~(k = n /\ q = p)
    BY <2>1
  <2> QED BY <1>4, <1>7, <2>2 DEF SessionInv, QueueFromAbove
<1>15. Authenticity'
  BY <1>4 DEF SessionInv, Authenticity
<1> QED BY <1>8, <1>10, <1>12, <1>13, <1>14, <1>15 DEF SessionInv

-----------------------------------------------------------------------------
(* A restart. *)

\* The new process of n has no keys and a helloseq that is ahead of every
\* earlier one; the others keep the keys they have with its earlier boots.
LEMMA RestartStep ==
    ASSUME SessionInv, TypeOK', NEW n \in Node, Restart(n)
    PROVE  SessionInv'
<1>1. /\ boot'[n] = boot[n] + 1 /\ boot[n] \in Nat
      /\ helloseq'[n] = [boot |-> boot[n] + 1, count |-> 0]
  BY DEF Restart, SessionInv, TypeOK
<1>2. \A k \in Node \ {n} : boot'[k] = boot[k] /\ helloseq'[k] = helloseq[k]
  BY DEF Restart, SessionInv, TypeOK
<1>3. \A k \in Node : boot[k] \in Nat /\ boot'[k] \in Nat /\ boot[k] <= boot'[k]
  <2>1. \A k \in Node : boot[k] \in Nat
    BY DEF SessionInv, TypeOK
  <2> QED BY <1>1, <1>2, <2>1
<1>4. \A q \in Node : rxKey'[n][q] = NoKey /\ ~negotiated'[n][q] /\ packetQueue'[n][q] = <<>>
  BY DEF Restart, SessionInv, TypeOK
<1>5. \A k \in Node \ {n}, q \in Node :
        /\ rxKey'[k][q] = rxKey[k][q] /\ txKey'[k][q] = txKey[k][q]
        /\ peerFlags'[k][q] = peerFlags[k][q] /\ negotiated'[k][q] = negotiated[k][q]
        /\ packetQueue'[k][q] = packetQueue[k][q]
  BY DEF Restart, SessionInv, TypeOK
<1>6. net' = net /\ handedDown' = handedDown /\ handedUp' = handedUp
  BY DEF Restart, historyVars
<1>7. BootInv'
  BY <1>1, <1>2 DEF SessionInv, BootInv
<1>8. KeyInv'
  <2> SUFFICES ASSUME NEW k \in Node, NEW q \in Node
               PROVE  \/ rxKey'[k][q] = NoKey /\ ~negotiated'[k][q]
                      \/ q # k /\ \E b \in 1..boot'[q] : KeysWith(k, q, b)'
    BY DEF KeyInv
  <2>1. CASE k = n
    BY <1>4, <2>1
  <2>2. CASE k # n /\ rxKey[k][q] = NoKey /\ ~negotiated[k][q]
    BY <1>5, <2>2
  <2>3. CASE k # n /\ ~(rxKey[k][q] = NoKey /\ ~negotiated[k][q])
    <3>1. PICK b \in 1..boot[q] : q # k /\ KeysWith(k, q, b)
      BY <2>3 DEF SessionInv, KeyInv
    <3>2. KeysWith(k, q, b)'
      BY <1>2, <1>5, <2>3, <3>1 DEF KeysWith
    <3>3. b \in 1..boot'[q]
      BY <1>3
    <3> QED BY <3>1, <3>2, <3>3
  <2> QED BY <2>1, <2>2, <2>3
<1>9. \A q \in Node : PeerBoot(n, q)' = 0
  BY <1>4 DEF PeerBoot
<1>10. \A k \in Node \ {n}, q \in Node : PeerBoot(k, q)' = PeerBoot(k, q)
  BY <1>5 DEF PeerBoot
<1>11. \A s \in HelloSeq, k \in Node : Reached(s, k) => Reached(s, k)'
  <2> SUFFICES ASSUME NEW s \in HelloSeq, NEW k \in Node, Reached(s, k)
               PROVE  Reached(s, k)'
    OBVIOUS
  <2>1. CASE k = n
    BY <1>1, <2>1 DEF Reached, HelloSeq
  <2>2. CASE k # n
    BY <1>2, <2>2 DEF Reached
  <2> QED BY <2>1, <2>2
<1>12. HelloInv'
  <2> SUFFICES ASSUME NEW x \in net, x.type = "hello" PROVE GoodHello(x)'
    BY <1>6 DEF HelloInv
  <2>1. GoodHello(x)
    BY DEF SessionInv, HelloInv
  <2>2. /\ x.src \in Node /\ x.dst \in Node /\ x.seq \in HelloSeq /\ x.echo \in HelloSeq
        /\ x.kx.boot \in Nat
    BY DEF SessionInv, TypeOK, HelloPacket, DataPacket, KxKey
  <2>3. SignedHello(x)'
    BY <1>3, <2>1, <2>2 DEF GoodHello, SignedHello
  <2>4. Reached(x.seq, x.src)' /\ Reached(x.echo, x.dst)'
    BY <1>11, <2>1, <2>2 DEF GoodHello
  <2>5. CASE x.dst = n
    <3>1. PeerBoot(x.dst, x.src)' = 0
      BY <1>9, <2>2, <2>5
    <3>2. PeerBoot(x.dst, x.src)' <= x.kx.boot
      BY <2>2, <3>1
    <3> QED BY <2>3, <2>4, <3>2 DEF GoodHello
  <2>6. CASE x.dst # n
    <3>1. PeerBoot(x.dst, x.src)' = PeerBoot(x.dst, x.src) /\ helloseq'[x.dst] = helloseq[x.dst]
      BY <1>2, <1>10, <2>2, <2>6
    <3> QED BY <2>1, <2>3, <2>4, <3>1 DEF GoodHello
  <2> QED BY <2>5, <2>6
<1>13. DataInv'
  <2> SUFFICES ASSUME NEW x \in net, x.type = "data" PROVE GoodData(x)'
    BY <1>6 DEF DataInv
  <2>1. x.src \in Node /\ x.dst \in Node
    BY DEF SessionInv, TypeOK, HelloPacket, DataPacket
  <2>2. GoodKey(x) /\ x.payload \in handedDown[x.src][x.dst]
    BY DEF SessionInv, DataInv, GoodData
  <2>3. PICK bf \in 1..boot[x.src], bt \in 1..boot[x.dst] : x.key = KeyTerm(x.src, x.dst, bf, bt)
    BY <2>2 DEF GoodKey
  <2>4. bf \in 1..boot'[x.src] /\ bt \in 1..boot'[x.dst]
    BY <1>3, <2>1
  <2> QED BY <1>6, <2>2, <2>3, <2>4 DEF GoodData, GoodKey
<1>14. QueueFromAbove'
  <2> SUFFICES ASSUME NEW k \in Node, NEW q \in Node, NEW i \in DOMAIN packetQueue'[k][q]
               PROVE  packetQueue'[k][q][i] \in handedDown'[k][q]
    BY DEF QueueFromAbove
  <2>1. k # n
    BY <1>4
  <2> QED BY <1>5, <1>6, <2>1 DEF SessionInv, QueueFromAbove
<1>15. Authenticity'
  BY <1>6 DEF SessionInv, Authenticity
<1> QED BY <1>7, <1>8, <1>12, <1>13, <1>14, <1>15 DEF SessionInv

\* Every step of the system preserves the session invariant.
LEMMA SessionStep == SessionInv /\ [Next]_vars => SessionInv'
<1> SUFFICES ASSUME SessionInv, [Next]_vars PROVE SessionInv' OBVIOUS
<1>0. TypeOK'
  BY TypeStep DEF SessionInv
<1>1. ASSUME NEW n \in Node, NEW p \in Node, NEW d \in Payload, onUpperLayerData(n, p, d)
      PROVE  SessionInv'
  BY <1>0, <1>1, SendStep, QueueingStep DEF onUpperLayerData
<1>2. ASSUME NEW n \in Node, NEW p \in Node, NEW m \in net, onLowerLayerData(n, p, m)
      PROVE  SessionInv'
  BY <1>0, <1>2, AnswerStep, ValidDataStep, AcceptStep DEF onLowerLayerData
<1>3. ASSUME NEW n \in Node, NEW p \in Node, Silence(n, p)
      PROVE  SessionInv'
  BY <1>0, <1>3, ShrinkingStep DEF Silence, sessionVars, historyVars
<1>4. ASSUME NEW n \in Node, NEW p \in Node, periodicPeer(n, p)
      PROVE  SessionInv'
  <2>1. \A k, q \in Node : negotiated'[k][q] => negotiated[k][q]
    BY <1>4 DEF periodicPeer, SessionInv, TypeOK
  <2> QED BY <1>0, <1>4, <2>1, ShrinkingStep DEF periodicPeer, historyVars
<1>5. ASSUME NEW n \in Node, Restart(n)
      PROVE  SessionInv'
  BY <1>0, <1>5, RestartStep
<1>6. ASSUME NEW m \in net, Lose(m)
      PROVE  SessionInv'
  BY <1>0, <1>6, ShrinkingStep DEF Lose, sessionVars, historyVars
<1>7. CASE UNCHANGED vars
  BY <1>0, <1>7, ShrinkingStep DEF vars, sessionVars, historyVars
<1> QED
  BY <1>1, <1>2, <1>3, <1>4, <1>5, <1>6, <1>7 DEF Next

\* The session invariant holds in every reachable state.
LEMMA SessionHolds == Spec => []SessionInv
BY SessionInit, SessionStep, PTL DEF Spec

-----------------------------------------------------------------------------
(* The results. *)

\* What a node hands up as coming from p was handed down at p for this node,
\* whatever the network duplicates, replays, misroutes or misattributes.
THEOREM Authentic == Spec => []Authenticity
<1>1. SessionInv => Authenticity
  BY DEF SessionInv
<1> QED BY <1>1, SessionHolds, PTL

\* Two nodes in session with each other's present boot have matching keys and
\* know each other's flags.
THEOREM KeysAgree == Spec => []KeyAgreement
<1>1. SessionInv => KeyAgreement
  <2> SUFFICES ASSUME SessionInv, NEW n \in Node, NEW p \in Node,
                      negotiated[n][p], PeerBoot(n, p) = boot[p],
                      negotiated[p][n], PeerBoot(p, n) = boot[n]
               PROVE  InSync(n, p) /\ peerFlags[n][p] = FlagsOf(p, boot[p])
    BY DEF KeyAgreement
  <2>1. TypeOK
    BY DEF SessionInv
  <2>2. PICK b \in 1..boot[p] : p # n /\ KeysWith(n, p, b)
    BY DEF SessionInv, KeyInv
  <2>3. PICK c \in 1..boot[n] : KeysWith(p, n, c)
    BY <2>2 DEF SessionInv, KeyInv
  <2>4. b = boot[p]
    BY <2>1, <2>2, KeysPeerBoot
  <2>5. c = boot[n]
    BY <2>1, <2>2, <2>3, KeysPeerBoot
  <2> QED BY <2>2, <2>3, <2>4, <2>5 DEF KeysWith, InSync
<1> QED BY <1>1, SessionHolds, PTL

\* Within one boot of n, only an accepted hello of p changes the keys for p.
LEMMA OnlyAcceptRekeys ==
    ASSUME SessionInv, [Next]_vars, NEW n \in Node, NEW p \in Node,
           boot'[n] = boot[n], rxKey'[n][p] # rxKey[n][p]
    PROVE  \E m \in net : AcceptHello(n, p, m)
<1> USE DEF sessionVars
<1>1. rxKey' # rxKey /\ rxKey \in [Node -> [Node -> KeyOrNone]]
  BY DEF SessionInv, TypeOK
<1>2. ASSUME NEW k \in Node, Restart(k) PROVE FALSE
  <2>1. k = n
    BY <1>1, <1>2 DEF Restart
  <2>2. boot \in [Node -> Nat] /\ boot'[n] = boot[n] + 1
    BY <1>2, <2>1 DEF Restart, SessionInv, TypeOK
  <2> QED BY <2>2
<1>3. ASSUME NEW k \in Node, NEW q \in Node, NEW m \in net, onLowerLayerData(k, q, m)
      PROVE  AcceptHello(n, p, m)
  <2>1. AcceptHello(k, q, m)
    BY <1>1, <1>3 DEF onLowerLayerData, DataBeforeHello, ValidData, AnswerHello, DropPacket
  <2>2. k = n /\ q = p
    BY <1>1, <2>1 DEF AcceptHello
  <2> QED BY <2>1, <2>2
<1>4. Next
  BY <1>1 DEF vars
<1> QED
  BY <1>1, <1>2, <1>3, <1>4
  DEF Next, onUpperLayerData, SendDataPacket, QueueDataPacket, Silence, periodicPeer, Lose

\* A hello of a process that is gone, delayed or replayed, never replaces the
\* keys agreed with its successor.
THEOREM NeverRollsBack == Spec => NoRollback
<1>1. ASSUME SessionInv, SessionInv', [Next]_vars, NEW n \in Node, NEW p \in Node,
             boot'[n] = boot[n]
      PROVE  PeerBoot(n, p) <= PeerBoot(n, p)'
  <2>1. CASE rxKey'[n][p] = rxKey[n][p]
    BY <1>1, <2>1, PeerBootBound DEF PeerBoot, SessionInv
  <2>2. CASE rxKey'[n][p] # rxKey[n][p]
    <3>1. PICK m \in net : AcceptHello(n, p, m)
      BY <1>1, <2>2, OnlyAcceptRekeys
    <3>2. /\ m \in HelloPacket /\ m.type = "hello" /\ m.src = p /\ m.dst = n /\ p # n
          /\ m.echo = helloseq[n] /\ rxKey'[n][p] = NewRxKey(n, p, m)
      BY <1>1, <3>1
      DEF AcceptHello, GenuineHello, FreshHello, getOrCreatePeer, SessionInv, TypeOK, DataPacket
    <3>3. GoodHello(m)
      BY <1>1, <3>2 DEF SessionInv, HelloInv
    <3>4. PeerBoot(n, p) <= m.kx.boot
      BY <3>2, <3>3 DEF GoodHello
    <3>5. NewRxKey(n, p, m) = KeyTerm(p, n, m.kx.boot, boot[n])
      BY <1>1, <3>2, <3>3, NewKeys DEF GoodHello, SessionInv
    <3>6. NewRxKey(n, p, m) # NoKey
      BY <1>1, <3>2, NewKeyType, NoKeyAssumption DEF SessionInv
    <3>7. PeerBoot(n, p)' = m.kx.boot
      BY <3>2, <3>5, <3>6, KeyTermPeer DEF PeerBoot
    <3> QED BY <3>4, <3>7
  <2> QED BY <2>1, <2>2
<1>2. SessionInv /\ SessionInv' /\ [Next]_vars
        => [\A n, p \in Node : boot'[n] = boot[n] => PeerBoot(n, p) <= PeerBoot(n, p)']_vars
  BY <1>1
<1> QED BY <1>2, SessionHolds, PTL DEF NoRollback, Spec
=============================================================================
