-------------------------- MODULE ConnectionProofs --------------------------
(***************************************************************************)
(* Proofs about the connections of the daemon, for all values of the       *)
(* constants: BaseConnection (any number of bases, networks, queued tasks, *)
(* datagrams in flight and failures), TcpStream (any threads, packets and  *)
(* sizes of the buffers) and HttpClient, as MCTcpStream puts it beside     *)
(* TcpStream (any number of calls, any length of the request).             *)
(***************************************************************************)
EXTENDS BaseConnection, MCTcpStream, TLAPS

(***************************************************************************)
(* BaseConnection.  Types and OneConnection need each other: the name of a *)
(* new connection is one that is not in use, which exists because at most  *)
(* one connection is left open; and a NAT_INIT carries a cookie because    *)
(* one is only ever outstanding once there is a cookie.                    *)
(***************************************************************************)
NatInitHasCookie == cookie = None => natInitConfirmed

BaseInv == TypeOK /\ OneConnection /\ NatInitHasCookie

LEMMA BaseZero == 0 \in Base /\ \A n \in Base : (n + 1) % Bases \in Base
  BY BasesAssumption DEF Base

LEMMA BaseInit == Init => BaseInv
  <1> SUFFICES ASSUME Init PROVE BaseInv
    OBVIOUS
  <1>1. natInitConfirmed \in BOOLEAN /\ natFresh \in BOOLEAN /\ udpWorks \in BOOLEAN /\ natInitConfirmed
    BY DEF Init
  <1>2. inbox \in [Conn -> Seq({"HELLO", "STATE", "REDIRECT"})]
    BY DEF Init
  <1> QED
    BY <1>1, <1>2, BaseZero, LimitAssumption, SetAssumption
    DEF Init, BaseInv, TypeOK, OneConnection, NatInitHasCookie, Idle, Nothing

-----------------------------------------------------------------------------
(* The operators the handlers are made of. *)

LEMMA NewNameFree ==
  ASSUME TypeOK
  PROVE  /\ NewName({}) \in Conn
         /\ NewName({}) \notin {cookie} \cup SerialisedCookie
  <1> DEFINE j == cookie
             k == IF worker.step = "write" THEN worker.cookie ELSE None
  <1>1. j \in Conn \cup {None} /\ k \in Conn \cup {None}
    BY DEF TypeOK, Idle
  <1>2. PICK n \in Conn : n \notin {j, k}
    BY <1>1, SetAssumption
  <1>3. n \notin {} \cup {cookie} \cup SerialisedCookie
    BY <1>2 DEF SerialisedCookie
  <1> QED
    BY <1>3 DEF NewName

LEMMA QueuedBounded ==
  ASSUME NEW n \in Nat, workerQueue \in 0..WorkerQueueSize
  PROVE  Queued(n) \in 0..WorkerQueueSize
  BY LimitAssumption DEF Queued

LEMMA NatInitTyped ==
  ASSUME TypeOK, NEW c, cookie # None
  PROVE  NatInitPackets(c) \subseteq Datagram
  BY DEF TypeOK, NatInitPackets, NatInit, Datagram

LEMMA WriteInfoTyped ==
  ASSUME TypeOK, NEW c, NEW k, NEW addresses \in Location, WriteInfo(c, k, addresses)
  PROVE  knows' \in [addresses : Location \cup {None}, mapping : Location \cup {None}]
  BY DEF TypeOK, WriteInfo

\* connectToBase leaves at most the new connection open.
LEMMA ConnectTyped ==
  ASSUME BaseInv, connectToBase
  PROVE  /\ tcpAge' \in 0..2 /\ baseConnectRetries' \in Base
         /\ baseConnection' \in Conn \cup {None}
         /\ baseOf' \in [Conn -> Base \cup {None}]
         /\ inbox' \in [Conn -> Seq({"HELLO", "STATE", "REDIRECT"})]
         /\ isOpen' \subseteq Conn /\ live' \subseteq Conn
         /\ isOpen' \subseteq {baseConnection'}
  <1> DEFINE b == baseConnectRetries
             k == NewName({})
  <1>1. isOpen \ {baseConnection} = {} /\ b \in Base
    BY DEF BaseInv, TypeOK, OneConnection
  <1>2. k \in Conn
    BY NewNameFree DEF BaseInv
  <1>3. Greeting(b) \in Seq({"HELLO", "STATE", "REDIRECT"})
    <2>1. <<"HELLO", "STATE">> \in Seq({"HELLO", "STATE", "REDIRECT"})
      OBVIOUS
    <2>2. <<>> \in Seq({"HELLO", "STATE", "REDIRECT"})
      OBVIOUS
    <2> QED
      BY <2>1, <2>2 DEF Greeting
  <1>4. \/ baseConnection' = None /\ isOpen' = {} /\ live' \subseteq live
        \/ baseConnection' = k /\ isOpen' = {k} /\ live' \subseteq live \cup {k}
    BY <1>1 DEF connectToBase, ConnectTo
  <1>5. baseOf' \in [Conn -> Base \cup {None}]
    BY <1>1 DEF connectToBase, ConnectTo
  <1>6. inbox' \in [Conn -> Seq({"HELLO", "STATE", "REDIRECT"})]
    BY <1>1, <1>3 DEF connectToBase, ConnectTo
  <1>7. tcpAge' \in 0..2 /\ baseConnectRetries' \in Base
    BY <1>1, BaseZero DEF connectToBase, ConnectTo
  <1> QED
    BY <1>2, <1>4, <1>5, <1>6, <1>7 DEF BaseInv, TypeOK

-----------------------------------------------------------------------------
(* The main thread. *)

LEMMA PeriodicKeeps ==
  ASSUME BaseInv, NEW natDue \in BOOLEAN, NEW refreshDue \in BOOLEAN, Periodic(natDue, refreshDue)
  PROVE  BaseInv'
  <1>1. workerQueue' \in 0..WorkerQueueSize
    <2> DEFINE n == (IF AddressesChanged THEN 1 ELSE 0) + (IF refreshDue THEN 1 ELSE 0)
    <2>1. n \in Nat
      OBVIOUS
    <2> QED
      BY <2>1, QueuedBounded DEF BaseInv, TypeOK, Periodic
  <1>2. udp' \subseteq Datagram
    <2>1. CASE ~natInitConfirmed /\ natDue
      BY <2>1, NatInitTyped DEF BaseInv, TypeOK, NatInitHasCookie, Periodic, Meaningful
    <2>2. CASE ~(~natInitConfirmed /\ natDue)
      BY <2>2 DEF BaseInv, TypeOK, Periodic, Meaningful
    <2> QED
      BY <2>1, <2>2
  <1>3. natInitConfirmed' \in BOOLEAN /\ (cookie' = None => natInitConfirmed')
    BY DEF BaseInv, TypeOK, NatInitHasCookie, Periodic, NatInitTries
  <1>4. CASE ReconnectsEarly \/ tcpAge >= TcpTimeout
    <2>1. connectToBase /\ knows' = Nothing
      BY <1>4 DEF Periodic
    <2> QED
      BY <1>1, <1>2, <1>3, <2>1, ConnectTyped
      DEF BaseInv, TypeOK, OneConnection, NatInitHasCookie, Periodic, Nothing, envVars
  <1>5. CASE ~(ReconnectsEarly \/ tcpAge >= TcpTimeout)
    BY <1>1, <1>2, <1>3, <1>5
    DEF BaseInv, TypeOK, OneConnection, NatInitHasCookie, Periodic, envVars, connVars
  <1> QED
    BY <1>4, <1>5

\* A message of any open connection is one of the current connection.
LEMMA ReceivedKeeps ==
  ASSUME BaseInv, NEW k \in Conn, baseMessageReceivedTcp(k)
  PROVE  BaseInv'
  <1>1. inbox' \in [Conn -> Seq({"HELLO", "STATE", "REDIRECT"})]
    BY DEF BaseInv, TypeOK, baseMessageReceivedTcp
  <1>2. cookie' \in Conn \cup {None} /\ (cookie' = None => cookie = None)
    <2>1. None \notin Conn
      BY SetAssumption
    <2>2. cookie' = k \/ cookie' = cookie
      BY DEF baseMessageReceivedTcp, baseHello, baseState, baseInvalid
    <2> QED
      BY <2>1, <2>2 DEF BaseInv, TypeOK
  <1>3. knows' \in [addresses : Location \cup {None}, mapping : Location \cup {None}]
    BY WriteInfoTyped
    DEF BaseInv, TypeOK, baseMessageReceivedTcp, baseHello, baseState, baseInvalid
  <1>4. workerQueue' \in 0..WorkerQueueSize
    <2>1. Queued(1) \in 0..WorkerQueueSize
      BY QueuedBounded DEF BaseInv, TypeOK
    <2>2. workerQueue' = Queued(1) \/ workerQueue' = workerQueue
      BY DEF baseMessageReceivedTcp, baseHello, baseState, baseInvalid, requestRefresh
    <2> QED
      BY <2>1, <2>2 DEF BaseInv, TypeOK
  <1>5. baseUdpAddress' \in Base \cup {None}
    BY DEF BaseInv, TypeOK, baseMessageReceivedTcp, baseHello, baseState, baseInvalid
  <1> QED
    BY <1>1, <1>2, <1>3, <1>4, <1>5, BaseZero
    DEF BaseInv, TypeOK, OneConnection, NatInitHasCookie, baseMessageReceivedTcp, envVars

LEMMA LostKeeps ==
  ASSUME BaseInv, NEW k \in Conn, baseConnectionLost(k)
  PROVE  BaseInv'
  BY DEF BaseInv, TypeOK, OneConnection, NatInitHasCookie, baseConnectionLost, envVars

LEMMA UdpKeeps ==
  ASSUME BaseInv, NEW b \in Base, baseMessageReceivedUdp(b)
  PROVE  BaseInv'
<1>1. /\ TypeOK /\ OneConnection /\ NatInitHasCookie
  BY DEF BaseInv
<1>2. NatInitHasCookie'
  BY <1>1 DEF NatInitHasCookie, baseMessageReceivedUdp, envVars, connVars
<1>3. OneConnection'
  BY <1>1 DEF OneConnection, baseMessageReceivedUdp, envVars, connVars
<1>4. TypeOK'
  BY <1>1 DEF TypeOK, baseMessageReceivedUdp, envVars, connVars
<1> QED BY <1>2, <1>3, <1>4 DEF BaseInv

-----------------------------------------------------------------------------
(* The worker thread. *)

LEMMA WorkerKeeps ==
  ASSUME BaseInv, WorkerThread
  PROVE  BaseInv'
  <1> USE DEF BaseInv, TypeOK, OneConnection, NatInitHasCookie, envVars, connVars
  <1>1. CASE refreshStart
    <2>1. workerQueue' \in 0..WorkerQueueSize
      BY <1>1, LimitAssumption DEF refreshStart
    <2>2. worker' \in {Idle, [step |-> "nat"]} \cup [step : {"write"}, cookie : Conn, addresses : Location]
      BY <1>1 DEF refreshStart, serializePeerToBaseMessage
    <2> QED
      BY <1>1, <2>1, <2>2 DEF refreshStart
  <1>2. CASE refreshWrite
    <2>1. worker.addresses \in Location
      BY <1>2 DEF refreshWrite, Idle
    <2> QED
      BY <1>2, <2>1, WriteInfoTyped DEF refreshWrite
  <1>3. CASE refreshNat
    <2>1. udp' \subseteq Datagram
      BY <1>3, NatInitTyped DEF refreshNat
    <2>2. natInitConfirmed' \in BOOLEAN /\ (cookie' = None => natInitConfirmed')
      BY <1>3 DEF refreshNat, NatInitTries
    <2> QED
      BY <1>3, <2>1, <2>2 DEF refreshNat
  <1> QED
    BY <1>1, <1>2, <1>3 DEF WorkerThread

-----------------------------------------------------------------------------
(* The environment. *)

LEMMA EnvironmentKeeps ==
  ASSUME BaseInv, Environment
  PROVE  BaseInv'
  <1> USE LimitAssumption DEF BaseInv, TypeOK, OneConnection, NatInitHasCookie, nodeVars, connVars, envVars
  <1>1. ASSUME NEW d \in udp, BaseTakesNatInit(d) PROVE BaseInv'
    <2>1. d.base \in Base /\ d.from \in Location
      BY <1>1 DEF BaseTakesNatInit, Datagram
    <2>2. udp' \subseteq Datagram
      BY <1>1, <2>1 DEF BaseTakesNatInit, NatOk, Datagram
    <2>3. knows' \in [addresses : Location \cup {None}, mapping : Location \cup {None}]
      BY <1>1, <2>1 DEF BaseTakesNatInit
    <2> QED
      BY <1>1, <2>2, <2>3 DEF BaseTakesNatInit
  <1>2. ASSUME NEW d \in udp, LoseDatagram(d) PROVE BaseInv'
    BY <1>2 DEF LoseDatagram, Fault
  <1>3. ASSUME NEW k \in Conn, BaseTalks(k) PROVE BaseInv'
    BY <1>3 DEF BaseTalks
  <1>4. ASSUME NEW k \in Conn, BaseRedirects(k) PROVE BaseInv'
    BY <1>4 DEF BaseRedirects, Fault
  <1>5. ASSUME NEW b \in Base, NEW h \in {"up", "refuses", "silent"}, BaseChanges(b, h) PROVE BaseInv'
    BY <1>5 DEF BaseChanges, Fault, Nothing
  <1>6. ASSUME NEW l \in Location, Moves(l) PROVE BaseInv'
    BY <1>6 DEF Moves, Fault, Nothing
  <1>7. ASSUME NEW l \in Location, Remaps(l) PROVE BaseInv'
    <2>1. knows' \in [addresses : Location \cup {None}, mapping : Location \cup {None}]
      BY <1>7 DEF Remaps
    <2> QED
      BY <1>7, <2>1 DEF Remaps, Fault
  <1>8. CASE UdpBlocked
    <2>1. udpWorks' \in BOOLEAN
      BY <1>8 DEF UdpBlocked
    <2> QED
      BY <1>8, <2>1 DEF UdpBlocked, Fault
  <1>9. CASE TcpTime
    BY <1>9 DEF TcpTime
  <1>10. CASE TcpLate
    BY <1>10 DEF TcpLate, Fault
  <1>11. CASE UdpTime
    BY <1>11 DEF UdpTime
  <1> QED
    BY <1>1, <1>2, <1>3, <1>4, <1>5, <1>6, <1>7, <1>8, <1>9, <1>10, <1>11 DEF Environment

-----------------------------------------------------------------------------
LEMMA BaseStep == BaseInv /\ [Next]_vars => BaseInv'
  <1> SUFFICES ASSUME BaseInv, [Next]_vars PROVE BaseInv'
    OBVIOUS
  <1>1. CASE periodic
    BY <1>1, PeriodicKeeps DEF periodic
  <1>2. CASE WorkerThread
    BY <1>2, WorkerKeeps
  <1>3. CASE Environment
    BY <1>3, EnvironmentKeeps
  <1>4. CASE UNCHANGED vars
    BY <1>4 DEF vars, nodeVars, connVars, envVars, BaseInv, TypeOK, OneConnection, NatInitHasCookie
  <1> QED
    BY <1>1, <1>2, <1>3, <1>4, ReceivedKeeps, LostKeeps, UdpKeeps DEF Next, MainThread

LEMMA BaseInvariant == Spec => []BaseInv
  <1>1. QED BY BaseInit, BaseStep, PTL DEF Spec

\* The fields of NgSocket and the state of the bases keep their types: the worker
\* queue stays within its bound, and every NAT_INIT is signed with a cookie.
THEOREM TypeCorrect == Spec => []TypeOK
  <1>1. QED BY BaseInvariant, PTL DEF BaseInv

\* The node never holds the socket of a connection other than baseConnection,
\* however connections fail, time out and are replaced (connectToBase,
\* errorCallback).
THEOREM SingleConnection == Spec => []OneConnection
  <1>1. QED BY BaseInvariant, PTL DEF BaseInv

\* The cookie becomes that of the connection in use and of no other, although
\* dataCallback does not look where a HELLO came from.
THEOREM CookieIsCurrent == Spec => CookieOfCurrent
  <1>1. BaseInv /\ [Next]_vars => [cookie' # cookie => cookie' = baseConnection']_vars
    <2> SUFFICES ASSUME BaseInv, Next, cookie' # cookie PROVE cookie' = baseConnection'
      OBVIOUS
    <2>1. PICK k \in Conn : baseMessageReceivedTcp(k)
      BY DEF Next, MainThread, WorkerThread, Environment, periodic, Periodic, baseConnectionLost,
             baseMessageReceivedUdp, refreshStart, refreshWrite, refreshNat, BaseTakesNatInit,
             LoseDatagram, BaseTalks, BaseRedirects, BaseChanges, Moves, Remaps, UdpBlocked, TcpTime,
             TcpLate, UdpTime, nodeVars
    <2>2. cookie' = k /\ k \in isOpen /\ baseConnection' = baseConnection
      BY <2>1 DEF baseMessageReceivedTcp, baseHello, baseState, baseInvalid
    <2> QED
      BY <2>2 DEF BaseInv, OneConnection
  <1>2. QED BY <1>1, BaseInvariant, PTL DEF Spec, CookieOfCurrent

-----------------------------------------------------------------------------
(***************************************************************************)
(* TcpStream implements FrameChannel.  The invariant says that the bytes   *)
(* on their way are the frames of the packets on their way, by the places  *)
(* at which the frames end (Carries): a packet accepted puts a frame       *)
(* behind them, a packet delivered takes the first one off, and recv()     *)
(* only moves bytes from one part to the other.                            *)
(***************************************************************************)
Byte == 0..255

\* Two sequences one after the other, by places
LEMMA Joined ==
    ASSUME NEW S, NEW one \in Seq(S), NEW two \in Seq(S)
    PROVE  /\ one \o two \in Seq(S) /\ Len(one \o two) = Len(one) + Len(two)
           /\ Len(one) \in Nat /\ Len(two) \in Nat
           /\ \A i \in 1..Len(one) : (one \o two)[i] = one[i]
           /\ \A i \in 1..Len(two) : (one \o two)[Len(one) + i] = two[i]
OBVIOUS

LEMMA Regrouped ==
    ASSUME NEW S, NEW one \in Seq(S), NEW two \in Seq(S), NEW three \in Seq(S)
    PROVE  (one \o two) \o three = one \o (two \o three) /\ one \o two \in Seq(S)
OBVIOUS

\* A piece of a sequence, by places
LEMMA Piece ==
    ASSUME NEW S, NEW one \in Seq(S), NEW m \in Nat, NEW n \in Nat, 1 <= m, n <= Len(one), m <= n + 1
    PROVE  /\ SubSeq(one, m, n) \in Seq(S) /\ Len(SubSeq(one, m, n)) = n - m + 1
           /\ \A i \in 1..(n - m + 1) : SubSeq(one, m, n)[i] = one[m + i - 1]
OBVIOUS

\* Sequences with the same elements at the same places are the same.
LEMMA SameElements ==
    ASSUME NEW S, NEW one \in Seq(S), NEW two \in Seq(S), Len(one) = Len(two),
           \A i \in 1..Len(one) : one[i] = two[i]
    PROVE  one = two
OBVIOUS

\* The bytes of a frame, by their place
LEMMA FrameBytes ==
    ASSUME NEW p \in Packet
    PROVE  /\ Frame(p) \in Seq(Byte) /\ Len(p) \in Nat /\ Len(p) > 0 /\ Len(Frame(p)) = HeaderSize + Len(p)
           /\ Frame(p)[1] = 23 /\ Frame(p)[2] = 3 /\ Frame(p)[3] = 3
           /\ Frame(p)[4] = Len(p) % 256 /\ Frame(p)[5] = (Len(p) % 65536) \div 256
           /\ \A i \in 1..Len(p) : Frame(p)[HeaderSize + i] = p[i]
<1>1. p \in Seq(Byte) /\ p # <<>> /\ Len(p) < 65536
  BY PacketAssumption DEF Byte
<1>2. Len(p) \in Nat /\ Len(p) > 0
  BY <1>1
<1> DEFINE n == Len(p)
<1>3. n % 256 \in Byte /\ (n % 65536) \div 256 \in Byte
  <2> HIDE DEF n
  <2>1. n \in Nat /\ n < 65536
    BY <1>1, <1>2 DEF n
  <2> QED BY <2>1 DEF Byte
<1> DEFINE a == n % 256
<1> DEFINE b == (n % 65536) \div 256
<1> HIDE DEF a, b
<1> DEFINE head == <<23, 3, 3>> \o <<a, b>>
<1>4. /\ head \in Seq(Byte) /\ Len(head) = 5
      /\ head[1] = 23 /\ head[2] = 3 /\ head[3] = 3 /\ head[4] = a /\ head[5] = b
  <2>1. <<23, 3, 3>> \in Seq(Byte) /\ <<a, b>> \in Seq(Byte)
    BY <1>3 DEF Byte, a, b
  <2> QED BY <2>1
<1>5. Frame(p) = head \o p
  BY DEF Frame, TLS_HEADER, Pack, a, b
<1> HIDE DEF head
<1>6. head \in Seq(Byte) /\ p \in Seq(Byte) /\ Len(head) = 5
  BY <1>1, <1>4
<1>7. /\ Frame(p) \in Seq(Byte) /\ Len(Frame(p)) = 5 + n
      /\ \A i \in 1..5 : Frame(p)[i] = head[i]
      /\ \A i \in 1..n : Frame(p)[5 + i] = p[i]
  <2>1. /\ head \o p \in Seq(Byte) /\ Len(head \o p) = Len(head) + Len(p)
        /\ \A i \in 1..Len(head) : (head \o p)[i] = head[i]
        /\ \A i \in 1..Len(p) : (head \o p)[Len(head) + i] = p[i]
    <3>1. head \in Seq(Byte) /\ p \in Seq(Byte)
      BY <1>6
    <3> QED BY <3>1, Joined
  <2> QED BY <1>5, <1>6, <2>1, Zenon
<1> QED BY <1>2, <1>4, <1>7 DEF HeaderSize, a, b

\* The length comes out of the header as it went in.
LEMMA UnpackPack ==
    ASSUME NEW n \in Nat, n < 65536
    PROVE  (n % 256) + ((n % 65536) \div 256) * 256 = n
OBVIOUS

\* `stream` holds the frames of `q` and nothing else; cut[i] bytes of it are the first i frames.
Cuts(cut, stream, q) ==
    /\ cut[0] = 0 /\ cut[Len(q)] = Len(stream)
    /\ \A i, j \in 0..Len(q) : i <= j => cut[i] <= cut[j]
    /\ \A i \in 1..Len(q) : cut[i] = cut[i - 1] + Len(Frame(q[i]))
    /\ \A i \in 1..Len(q) : \A x \in 1..Len(Frame(q[i])) : stream[cut[i - 1] + x] = Frame(q[i])[x]
Carries(stream, q) == \E cut \in [0..Len(q) -> Nat] : Cuts(cut, stream, q)

LEMMA CarriesNone ==
    /\ Carries(<<>>, <<>>)
    /\ \A stream \in Seq(Byte) : Carries(stream, <<>>) => Len(stream) = 0
<1>1. Len(<<>>) = 0
  OBVIOUS
<1>2. Carries(<<>>, <<>>)
  <2> DEFINE cut == [i \in 0..0 |-> 0]
  <2>1. cut \in [0..0 -> Nat] /\ cut[0] = 0
    OBVIOUS
  <2> HIDE DEF cut
  <2>2. Cuts(cut, <<>>, <<>>)
    BY <1>1, <2>1 DEF Cuts
  <2> QED BY <1>1, <2>1, <2>2 DEF Carries
<1>3. ASSUME NEW stream \in Seq(Byte), Carries(stream, <<>>) PROVE Len(stream) = 0
  <2>1. PICK cut : cut[0] = 0 /\ cut[Len(<<>>)] = Len(stream)
    BY <1>3, Zenon DEF Carries, Cuts
  <2> QED BY <1>1, <2>1
<1> QED BY <1>2, <1>3

\* A packet is written.
LEMMA CarriesMore ==
    ASSUME NEW stream \in Seq(Byte), NEW q \in Seq(Packet), NEW p \in Packet, Carries(stream, q)
    PROVE  Carries(stream \o Frame(p), Append(q, p))
<1> DEFINE k == Len(q)
<1> DEFINE q2 == Append(q, p)
<1> DEFINE all == stream \o Frame(p)
<1>1. Frame(p) \in Seq(Byte)
  BY FrameBytes
<1>2. /\ Len(all) = Len(stream) + Len(Frame(p)) /\ Len(stream) \in Nat /\ Len(Frame(p)) \in Nat
      /\ \A i \in 1..Len(stream) : all[i] = stream[i]
      /\ \A i \in 1..Len(Frame(p)) : all[Len(stream) + i] = Frame(p)[i]
  BY <1>1, Joined
<1>3. k \in Nat /\ Len(q2) = k + 1 /\ q2[k + 1] = p /\ \A i \in 1..k : q2[i] = q[i] /\ q[i] \in Packet
  OBVIOUS
<1>4. PICK cut \in [0..k -> Nat] : Cuts(cut, stream, q)
  BY Zenon DEF Carries
<1> DEFINE cut2 == [i \in 0..(k + 1) |-> IF i = k + 1 THEN Len(all) ELSE cut[i]]
<1> HIDE DEF all, k, q2
<1>5. \A i \in 0..(k + 1) : i = k + 1 \/ i \in 0..k
  BY <1>3
<1>6. cut2[k + 1] = Len(all) /\ \A i \in 0..k : cut2[i] = cut[i] /\ cut[i] \in Nat
  BY <1>3, <1>4
<1>7. cut2 \in [0..(k + 1) -> Nat]
  <2>1. Len(all) \in Nat
    BY <1>2
  <2> QED BY <1>3, <1>5, <1>6, <2>1
<1> HIDE DEF cut2
<1>8. cut2[0] = 0 /\ cut2[k] = Len(stream) /\ cut[k] = Len(stream) /\ 0 \in 0..k /\ k \in 0..k
  BY <1>3, <1>4, <1>6 DEF Cuts, k
<1>9. \A i \in 0..k : cut[i] <= Len(stream)
  BY <1>3, <1>4, <1>8 DEF Cuts, k
<1>10. \A i, j \in 0..(k + 1) : i <= j => cut2[i] <= cut2[j]
  <2> SUFFICES ASSUME NEW i \in 0..(k + 1), NEW j \in 0..(k + 1), i <= j PROVE cut2[i] <= cut2[j]
    OBVIOUS
  <2>1. CASE j \in 0..k
    <3>1. i \in 0..k
      BY <1>3, <2>1
    <3> QED BY <1>4, <1>6, <2>1, <3>1 DEF Cuts, k
  <2>2. CASE j = k + 1 /\ i \in 0..k
    BY <1>2, <1>6, <1>9, <2>2
  <2>3. CASE j = k + 1 /\ i = k + 1
    BY <1>2, <1>6, <2>3
  <2> QED BY <1>5, <2>1, <2>2, <2>3
<1>11. ASSUME NEW i \in 1..(k + 1)
       PROVE  /\ cut2[i] = cut2[i - 1] + Len(Frame(q2[i]))
              /\ \A x \in 1..Len(Frame(q2[i])) : all[cut2[i - 1] + x] = Frame(q2[i])[x]
  <2>1. CASE i = k + 1
    <3>1. i - 1 = k /\ q2[i] = p
      BY <1>3, <2>1
    <3>2. cut2[i] = Len(all) /\ cut2[i - 1] = Len(stream)
      BY <1>6, <1>8, <2>1, <3>1, Zenon
    <3>3. \A x \in 1..Len(Frame(p)) : all[cut2[i - 1] + x] = Frame(p)[x]
      BY <1>2, <3>2, Zenon
    <3>4. Len(all) = Len(stream) + Len(Frame(p))
      BY <1>2
    <3> QED BY <3>1, <3>2, <3>3, <3>4, Zenon
  <2>2. CASE i # k + 1
    <3>1. i \in 1..k /\ i \in 0..k /\ i - 1 \in 0..k
      BY <1>3, <2>2
    <3>2. q2[i] = q[i] /\ cut2[i] = cut[i] /\ cut2[i - 1] = cut[i - 1] /\ cut[i - 1] \in Nat /\ cut[i] \in Nat
      BY <1>3, <1>6, <3>1
    <3>3. cut[i] = cut[i - 1] + Len(Frame(q[i]))
      BY <1>4, <3>1 DEF Cuts, k
    <3>4. ASSUME NEW x \in 1..Len(Frame(q[i])) PROVE all[cut[i - 1] + x] = Frame(q[i])[x]
      <4>1. stream[cut[i - 1] + x] = Frame(q[i])[x]
        BY <1>4, <3>1 DEF Cuts, k
      <4>2. Len(Frame(q[i])) \in Nat
        BY <1>3, <3>1, FrameBytes
      <4>3. cut[i - 1] + x \in 1..Len(stream)
        BY <1>2, <1>9, <3>1, <3>2, <3>3, <4>2
      <4> QED BY <1>2, <4>1, <4>3
    <3> QED BY <3>2, <3>3, <3>4
  <2> QED BY <2>1, <2>2
<1>12. Len(q2) = k + 1
  BY <1>3
<1>13. Cuts(cut2, all, q2)
  BY <1>6, <1>8, <1>10, <1>11, <1>12 DEF Cuts
<1>14. Carries(all, q2)
  BY <1>7, <1>12, <1>13 DEF Carries
<1> QED BY <1>14 DEF all, q2

LEMMA Shift ==
    ASSUME NEW c \in Nat, NEW n \in Nat, NEW m \in Nat, NEW x \in Nat, NEW l \in Nat,
           1 <= x, x <= m, n <= c, c + m <= l
    PROVE  (c - n) + x \in 1..(l - n) /\ n + ((c - n) + x) = c + x
OBVIOUS

\* A packet is read: its frame is what the stream begins with, and the rest carries the others.
LEMMA CarriesLess ==
    ASSUME NEW stream \in Seq(Byte), NEW q \in Seq(Packet), Len(q) > 0, Carries(stream, q)
    PROVE  /\ q[1] \in Packet /\ Len(Frame(q[1])) <= Len(stream)
           /\ \A i \in 1..Len(Frame(q[1])) : stream[i] = Frame(q[1])[i]
           /\ Carries(SubSeq(stream, Len(Frame(q[1])) + 1, Len(stream)), Tail(q))
<1> DEFINE k == Len(q)
<1> DEFINE q2 == Tail(q)
<1> DEFINE n == Len(Frame(q[1]))
<1> DEFINE rest == SubSeq(stream, n + 1, Len(stream))
<1>1. /\ k \in Nat /\ k > 0 /\ Len(q2) = k - 1 /\ Len(stream) \in Nat
      /\ \A i \in 1..k : q[i] \in Packet
      /\ \A i \in 1..(k - 1) : q2[i] = q[i + 1]
  OBVIOUS
<1>2. PICK cut \in [0..k -> Nat] : Cuts(cut, stream, q)
  BY Zenon DEF Carries
<1>3. \A i \in 1..k : Len(Frame(q[i])) \in Nat
  BY <1>1, FrameBytes
<1>4. n \in Nat /\ q[1] \in Packet
  BY <1>1, <1>3
<1> HIDE DEF k, q2, n, rest
<1>5. cut[0] = 0 /\ cut[k] = Len(stream) /\ \A i, j \in 0..k : i <= j => cut[i] <= cut[j]
  BY <1>2 DEF Cuts, k
<1>6. /\ \A i \in 1..k : cut[i] = cut[i - 1] + Len(Frame(q[i]))
      /\ \A i \in 1..k : \A x \in 1..Len(Frame(q[i])) : stream[cut[i - 1] + x] = Frame(q[i])[x]
  BY <1>2 DEF Cuts, k
<1>7. 1 \in 1..k /\ 1 \in 0..k /\ k \in 0..k /\ 1 <= k /\ 1 - 1 = 0
  BY <1>1
<1>8. cut[1] = n /\ n <= Len(stream)
  <2>1. cut[1] = cut[1 - 1] + Len(Frame(q[1]))
    BY <1>6, <1>7, Zenon
  <2>2. cut[1] = n
    BY <1>4, <1>5, <1>7, <2>1 DEF n
  <2> QED BY <1>5, <1>7, <2>2
<1>9. \A i \in 1..n : stream[i] = Frame(q[1])[i]
  <2>1. ASSUME NEW i \in 1..n PROVE stream[i] = Frame(q[1])[i]
    <3>1. stream[cut[1 - 1] + i] = Frame(q[1])[i]
      BY <1>6, <1>7, <2>1 DEF n
    <3>2. cut[1 - 1] + i = i
      BY <1>5, <1>7, <2>1
    <3> QED BY <3>1, <3>2
  <2> QED BY <2>1
<1>10. /\ rest \in Seq(Byte) /\ Len(rest) = Len(stream) - n
       /\ \A i \in 1..(Len(stream) - n) : rest[i] = stream[n + i]
  <2>1. n + 1 \in Nat /\ Len(stream) \in Nat /\ 1 <= n + 1 /\ n + 1 <= Len(stream) + 1
    BY <1>1, <1>4, <1>8
  <2>2. /\ rest \in Seq(Byte) /\ Len(rest) = Len(stream) - (n + 1) + 1
        /\ \A i \in 1..(Len(stream) - (n + 1) + 1) : rest[i] = stream[(n + 1) + i - 1]
    BY <2>1, Piece DEF rest
  <2>3. Len(stream) - (n + 1) + 1 = Len(stream) - n
    BY <1>1, <1>4
  <2>4. \A i \in 1..(Len(stream) - n) : (n + 1) + i - 1 = n + i
    BY <1>1, <1>4
  <2> QED BY <2>2, <2>3, <2>4
<1> DEFINE cut2 == [i \in 0..(k - 1) |-> cut[i + 1] - n]
<1>11. \A i \in 0..(k - 1) : /\ i + 1 \in 0..k /\ i + 1 \in 1..k
                             /\ cut2[i] = cut[i + 1] - n /\ cut[i + 1] \in Nat /\ n <= cut[i + 1]
  <2>1. ASSUME NEW i \in 0..(k - 1)
        PROVE  i + 1 \in 0..k /\ i + 1 \in 1..k /\ 1 <= i + 1
    BY <1>1
  <2>2. ASSUME NEW i \in 0..(k - 1) PROVE cut[i + 1] \in Nat /\ cut[1] <= cut[i + 1]
    BY <1>5, <1>7, <2>1
  <2> QED BY <1>8, <2>1, <2>2
<1>12. cut2 \in [0..(k - 1) -> Nat]
  BY <1>4, <1>11
<1> HIDE DEF cut2
<1>13. cut2[0] = 0 /\ cut2[k - 1] = Len(rest)
  <2>1. 0 \in 0..(k - 1) /\ k - 1 \in 0..(k - 1) /\ 0 + 1 = 1 /\ (k - 1) + 1 = k
    BY <1>1
  <2>2. cut2[0] = cut[0 + 1] - n /\ cut2[k - 1] = cut[(k - 1) + 1] - n
    BY <1>11, <2>1
  <2>3. cut2[0] = n - n /\ cut2[k - 1] = Len(stream) - n
    BY <1>5, <1>8, <2>1, <2>2, Zenon
  <2>4. n - n = 0
    BY <1>4
  <2> QED BY <1>10, <2>3, <2>4, Zenon
<1>14. \A i, j \in 0..(k - 1) : i <= j => cut2[i] <= cut2[j]
  <2>1. ASSUME NEW i \in 0..(k - 1), NEW j \in 0..(k - 1), i <= j PROVE cut2[i] <= cut2[j]
    <3>1. i + 1 \in 0..k /\ j + 1 \in 0..k /\ i + 1 <= j + 1
      BY <1>1, <2>1
    <3>2. cut[i + 1] <= cut[j + 1]
      BY <1>5, <3>1
    <3>3. cut2[i] = cut[i + 1] - n /\ cut2[j] = cut[j + 1] - n /\ cut[i + 1] \in Nat /\ cut[j + 1] \in Nat
      BY <1>11
    <3> QED BY <1>4, <3>2, <3>3
  <2> QED BY <2>1
<1>15. ASSUME NEW i \in 1..(k - 1)
       PROVE  /\ cut2[i] = cut2[i - 1] + Len(Frame(q2[i]))
              /\ \A x \in 1..Len(Frame(q2[i])) : rest[cut2[i - 1] + x] = Frame(q2[i])[x]
  <2>1. /\ i \in 0..(k - 1) /\ i - 1 \in 0..(k - 1) /\ (i - 1) + 1 = i /\ (i + 1) - 1 = i
        /\ i + 1 \in 1..k /\ i + 1 \in 0..k /\ i \in 0..k /\ 1 <= i
    BY <1>1
  <2>2. q2[i] = q[i + 1]
    BY <1>1
  <2> DEFINE m == Len(Frame(q[i + 1]))
  <2>3. m \in Nat
    BY <1>3, <2>1
  <2>4. cut2[i] = cut[i + 1] - n /\ cut[i + 1] \in Nat /\ n <= cut[i + 1]
    BY <1>11, <2>1
  <2>5. cut2[i - 1] = cut[i] - n /\ cut[i] \in Nat /\ n <= cut[i]
    <3>1. cut2[i - 1] = cut[(i - 1) + 1] - n /\ cut[(i - 1) + 1] \in Nat /\ n <= cut[(i - 1) + 1]
      BY <1>11, <2>1
    <3> QED BY <2>1, <3>1
  <2>6. cut[i + 1] = cut[i] + m
    <3>1. cut[i + 1] = cut[(i + 1) - 1] + Len(Frame(q[i + 1]))
      BY <1>6, <2>1
    <3> QED BY <2>1, <3>1
  <2> HIDE DEF m
  <2>7. cut2[i] = cut2[i - 1] + m
    BY <1>4, <2>3, <2>4, <2>5, <2>6
  <2>8. cut[i + 1] <= Len(stream)
    BY <1>5, <1>7, <2>1
  <2>9. ASSUME NEW x \in 1..m PROVE rest[cut2[i - 1] + x] = Frame(q[i + 1])[x]
    <3>1. stream[cut[i] + x] = Frame(q[i + 1])[x]
      <4>1. stream[cut[(i + 1) - 1] + x] = Frame(q[i + 1])[x]
        BY <1>6, <2>1, <2>9 DEF m
      <4> QED BY <2>1, <4>1
    <3>2. cut2[i - 1] + x \in 1..(Len(stream) - n) /\ n + (cut2[i - 1] + x) = cut[i] + x
      <4>1. /\ x \in Nat /\ 1 <= x /\ x <= m /\ cut[i] \in Nat /\ n \in Nat /\ n <= cut[i] /\ m \in Nat
            /\ cut[i] + m <= Len(stream) /\ Len(stream) \in Nat
        <5>1. x \in Nat /\ 1 <= x /\ x <= m
          BY <2>3, <2>9
        <5>2. cut[i] + m <= Len(stream)
          BY <2>6, <2>8, Zenon
        <5> QED BY <1>1, <1>4, <2>3, <2>5, <5>1, <5>2, Zenon
      <4>2. (cut[i] - n) + x \in 1..(Len(stream) - n) /\ n + ((cut[i] - n) + x) = cut[i] + x
        <5> DEFINE c == cut[i]
        <5> DEFINE l == Len(stream)
        <5>1. c \in Nat /\ n \in Nat /\ m \in Nat /\ x \in Nat /\ l \in Nat /\ 1 <= x /\ x <= m /\ n <= c /\ c + m <= l
          BY <4>1, Zenon
        <5> HIDE DEF c, l
        <5>2. (c - n) + x \in 1..(l - n) /\ n + ((c - n) + x) = c + x
          BY <5>1, Shift
        <5> QED BY <5>2 DEF c, l
      <4> QED BY <2>5, <4>2, Zenon
    <3>3. rest[cut2[i - 1] + x] = stream[n + (cut2[i - 1] + x)]
      BY <1>10, <3>2
    <3> QED BY <3>1, <3>2, <3>3
  <2> QED BY <2>2, <2>7, <2>9 DEF m
<1>16. Len(q2) = k - 1
  BY <1>1
<1>17. Cuts(cut2, rest, q2)
  BY <1>13, <1>14, <1>15, <1>16 DEF Cuts
<1>18. Carries(rest, q2)
  BY <1>12, <1>16, <1>17 DEF Carries
<1> QED BY <1>4, <1>8, <1>9, <1>18 DEF rest, q2, n

-----------------------------------------------------------------------------
\* What has been sent and not delivered
Pending == SubSeq(sent, Len(received) + 1, Len(sent))
Write(p) == [packet |-> p, rest |-> Frame(p)]

\* The bytes on their way, in the read buffer and before it, are the frames of the
\* packets on their way; a thread in write() has its frame still whole.
StreamTypes ==
    /\ pipe \in Seq(Byte) /\ readBuffer \in Seq(Byte)
    /\ sent \in Seq(Packet) /\ received \in Seq(Packet) /\ Len(received) <= Len(sent)
    /\ DOMAIN writing = Thread
    /\ \A t \in Thread : writing[t] = NotWriting \/ \E p \in Packet : writing[t] = Write(p)
    /\ parsing => open
StreamInv == StreamTypes /\ (open => Carries(readBuffer \o pipe, Pending))

\* What the theorem takes from the kernel: a send() finds room for all it is given.
WholeSend == \A t \in Thread : send(t) => Len(writing[t].rest) <= Room

LEMMA Remainder ==
    ASSUME NEW S, NEW one \in Seq(S), NEW m \in Nat, m <= Len(one)
    PROVE  /\ SubSeq(one, m + 1, Len(one)) \in Seq(S) /\ Len(SubSeq(one, m + 1, Len(one))) = Len(one) - m
           /\ \A i \in 1..(Len(one) - m) : SubSeq(one, m + 1, Len(one))[i] = one[m + i]
<1> DEFINE n == Len(one)
<1>1. n \in Nat /\ m <= n
  OBVIOUS
<1> HIDE DEF n
<1>2. m + 1 \in Nat /\ n \in Nat /\ 1 <= m + 1 /\ n <= Len(one) /\ m + 1 <= n + 1
  BY <1>1 DEF n
<1>3. /\ SubSeq(one, m + 1, n) \in Seq(S) /\ Len(SubSeq(one, m + 1, n)) = n - (m + 1) + 1
      /\ \A i \in 1..(n - (m + 1) + 1) : SubSeq(one, m + 1, n)[i] = one[(m + 1) + i - 1]
  BY <1>1, <1>2, Piece
<1>4. n - (m + 1) + 1 = n - m /\ \A i \in 1..(n - m) : (m + 1) + i - 1 = m + i
  BY <1>1
<1>5. /\ SubSeq(one, m + 1, n) \in Seq(S) /\ Len(SubSeq(one, m + 1, n)) = n - m
      /\ \A i \in 1..(n - m) : SubSeq(one, m + 1, n)[i] = one[m + i]
  BY <1>3, <1>4
<1> QED BY <1>5 DEF n

\* A frame goes into the pipe whole, and its packet is accepted.
LEMMA SendStep ==
    ASSUME StreamInv, NEW t \in Thread, send(t), WholeSend
    PROVE  StreamInv' /\ \E p \in Packet : Channel!Accept(p)
<1>1. writing[t] # NotWriting /\ open /\ Len(writing[t].rest) <= Room
  BY DEF send, WholeSend
<1>2. PICK p \in Packet : writing[t] = Write(p)
  BY <1>1 DEF StreamInv, StreamTypes
<1>3. writing[t].packet = p /\ writing[t].rest = Frame(p)
  BY <1>2 DEF Write
<1>4. Frame(p) \in Seq(Byte) /\ SubSeq(Frame(p), 1, Len(Frame(p))) = Frame(p) /\ Len(Frame(p)) \in Nat
  BY FrameBytes
<1>5. /\ pipe' = pipe \o Frame(p)
      /\ writing' = [writing EXCEPT ![t] = NotWriting]
      /\ sent' = Append(sent, p)
      /\ UNCHANGED <<readBuffer, parsing, open, received>>
  <2> DEFINE n == IF Len(Frame(p)) <= Room THEN Len(Frame(p)) ELSE Room
  <2>1. n = Len(Frame(p))
    BY <1>1, <1>3
  <2> QED BY <1>3, <1>4, <2>1 DEF send
<1>6. /\ pipe \in Seq(Byte) /\ readBuffer \in Seq(Byte) /\ sent \in Seq(Packet) /\ received \in Seq(Packet)
      /\ Len(received) <= Len(sent) /\ DOMAIN writing = Thread /\ (parsing => open)
  BY DEF StreamInv, StreamTypes
<1>7. pipe' \in Seq(Byte)
  BY <1>4, <1>5, <1>6
<1>8. sent' \in Seq(Packet) /\ Len(sent') = Len(sent) + 1 /\ Len(received') <= Len(sent')
  <2>1. sent' \in Seq(Packet) /\ Len(sent') = Len(sent) + 1
    BY <1>5, <1>6
  <2> QED BY <1>5, <1>6, <2>1
<1>9. DOMAIN writing' = Thread /\ \A u \in Thread : writing'[u] = NotWriting \/ \E r \in Packet : writing'[u] = Write(r)
  BY <1>5, <1>6 DEF StreamInv, StreamTypes
<1>10. StreamTypes'
  <2>1. parsing' => open'
    BY <1>5, <1>6, Zenon
  <2>2. readBuffer' \in Seq(Byte) /\ received' \in Seq(Packet)
    BY <1>5, <1>6
  <2> QED BY <1>7, <1>8, <1>9, <2>1, <2>2, Zenon DEF StreamTypes
<1>11. readBuffer' \o pipe' = (readBuffer \o pipe) \o Frame(p)
  <2>1. readBuffer' \o pipe' = readBuffer \o (pipe \o Frame(p))
    BY <1>5, Zenon
  <2>2. readBuffer \in Seq(Byte) /\ pipe \in Seq(Byte) /\ Frame(p) \in Seq(Byte)
    BY <1>4, <1>6, Zenon
  <2>3. (readBuffer \o pipe) \o Frame(p) = readBuffer \o (pipe \o Frame(p))
    BY <2>2, Regrouped
  <2> QED BY <2>1, <2>3, Zenon
<1>12. Pending' = Append(Pending, p)
  <2> DEFINE d == Len(sent) - Len(received)
  <2> DEFINE m == Len(received)
  <2>1. /\ Pending \in Seq(Packet) /\ Len(Pending) = d /\ d \in Nat /\ m \in Nat
        /\ \A i \in 1..d : Pending[i] = sent[m + i]
    <3>1. sent \in Seq(Packet) /\ m \in Nat /\ m <= Len(sent) /\ d \in Nat
      BY <1>6
    <3>2. /\ SubSeq(sent, m + 1, Len(sent)) \in Seq(Packet) /\ Len(SubSeq(sent, m + 1, Len(sent))) = Len(sent) - m
          /\ \A i \in 1..(Len(sent) - m) : SubSeq(sent, m + 1, Len(sent))[i] = sent[m + i]
      BY <3>1, Remainder
    <3> QED BY <3>1, <3>2 DEF Pending
  <2>2. /\ Pending' \in Seq(Packet) /\ Len(Pending') = Len(sent') - m
        /\ \A i \in 1..(Len(sent') - m) : Pending'[i] = sent'[m + i]
    <3>1. sent' \in Seq(Packet) /\ m \in Nat /\ m <= Len(sent')
      BY <1>5, <1>6, <1>8
    <3>2. /\ SubSeq(sent', m + 1, Len(sent')) \in Seq(Packet)
          /\ Len(SubSeq(sent', m + 1, Len(sent'))) = Len(sent') - m
          /\ \A i \in 1..(Len(sent') - m) : SubSeq(sent', m + 1, Len(sent'))[i] = sent'[m + i]
      BY <3>1, Remainder
    <3>3. Pending' = SubSeq(sent', m + 1, Len(sent'))
      BY <1>5 DEF Pending
    <3> QED BY <3>2, <3>3
  <2>3. Len(sent') - m = d + 1 /\ Len(sent) = m + d
    BY <1>6, <1>8, <2>1
  <2>4. sent'[m + (d + 1)] = p /\ \A i \in 1..d : sent'[m + i] = sent[m + i]
    <3>1. Len(sent) \in Nat /\ sent'[Len(sent) + 1] = p /\ \A i \in 1..Len(sent) : sent'[i] = sent[i]
      BY <1>5, <1>6
    <3> HIDE DEF d, m
    <3>2. m + (d + 1) = Len(sent) + 1 /\ \A i \in 1..d : m + i \in 1..Len(sent)
      BY <2>1, <2>3
    <3> QED BY <3>1, <3>2
  <2> HIDE DEF d, m
  <2> DEFINE two == Append(Pending, p)
  <2>5. two \in Seq(Packet) /\ Len(two) = d + 1 /\ two[d + 1] = p /\ \A i \in 1..d : two[i] = Pending[i]
    BY <2>1
  <2> HIDE DEF two
  <2>6. ASSUME NEW i \in 1..(d + 1) PROVE Pending'[i] = two[i]
    <3>1. CASE i = d + 1
      BY <2>1, <2>2, <2>3, <2>4, <2>5, <3>1
    <3>2. CASE i \in 1..d
      BY <2>1, <2>2, <2>3, <2>4, <2>5, <3>2
    <3> QED BY <2>1, <3>1, <3>2
  <2>7. Len(Pending') = d + 1
    BY <2>2, <2>3
  <2>8. Pending' = two
    BY <2>2, <2>5, <2>6, <2>7, SameElements
  <2> QED BY <2>8 DEF two
<1>13. Carries((readBuffer \o pipe) \o Frame(p), Append(Pending, p))
  <2>1. readBuffer \o pipe \in Seq(Byte) /\ Pending \in Seq(Packet) /\ Carries(readBuffer \o pipe, Pending)
    BY <1>1, <1>6, Remainder DEF StreamInv, Pending
  <2> QED BY <2>1, CarriesMore
<1>14. StreamInv'
  BY <1>10, <1>11, <1>12, <1>13 DEF StreamInv
<1>15. Channel!Accept(p)
  BY <1>1, <1>5 DEF Channel!Accept
<1> QED BY <1>14, <1>15

\* A packet comes out of the buffer: the one that was accepted first of those on their way.
LEMMA ParseStep ==
    ASSUME StreamInv, parsePacket
    PROVE  StreamInv' /\ Channel!Deliver
<1> DEFINE stream == readBuffer \o pipe
<1> DEFINE m == Len(received)
<1> DEFINE f == Frame(Pending[1])
<1> DEFINE p == Pending[1]
<1> DEFINE b == Len(readBuffer)
<1>1. /\ pipe \in Seq(Byte) /\ readBuffer \in Seq(Byte) /\ sent \in Seq(Packet) /\ received \in Seq(Packet)
      /\ m <= Len(sent) /\ m \in Nat /\ Len(sent) \in Nat /\ b \in Nat /\ Len(pipe) \in Nat
  BY DEF StreamInv, StreamTypes
<1>2. open /\ parsing /\ b > 5 /\ ~BadHeader /\ b >= PacketLen
  BY DEF parsePacket, StreamInv, StreamTypes, HasHeader, HeaderSize
<1>3. Carries(stream, Pending)
  BY <1>2 DEF StreamInv
<1>4. /\ stream \in Seq(Byte) /\ Len(stream) = b + Len(pipe)
      /\ \A i \in 1..b : stream[i] = readBuffer[i]
      /\ \A i \in 1..Len(pipe) : stream[b + i] = pipe[i]
  BY <1>1, Joined
<1>5. /\ Pending \in Seq(Packet) /\ Len(Pending) = Len(sent) - m
      /\ \A i \in 1..(Len(sent) - m) : Pending[i] = sent[m + i]
  BY <1>1, Remainder DEF Pending
<1> HIDE DEF stream, m, f, p, b
<1>6. Len(Pending) > 0
  <2>1. Len(Pending) = 0 => Pending = <<>>
    BY <1>5
  <2>2. Len(stream) > 0
    BY <1>1, <1>2, <1>4
  <2>3. Len(Pending) # 0
    BY <1>3, <1>4, <2>1, <2>2, CarriesNone
  <2> QED BY <1>1, <1>5, <2>3
<1>7. m < Len(sent) /\ p = sent[m + 1]
  <2>1. m < Len(sent) /\ 1 \in 1..(Len(sent) - m)
    BY <1>1, <1>5, <1>6
  <2> QED BY <1>5, <2>1 DEF p
<1>8. /\ p \in Packet /\ Len(f) <= Len(stream) /\ \A i \in 1..Len(f) : stream[i] = f[i]
      /\ Carries(SubSeq(stream, Len(f) + 1, Len(stream)), Tail(Pending))
  BY <1>3, <1>4, <1>5, <1>6, CarriesLess DEF p, f
<1>9. /\ Len(p) \in Nat /\ Len(p) > 0 /\ Len(f) = 5 + Len(p)
      /\ f[4] = Len(p) % 256 /\ f[5] = (Len(p) % 65536) \div 256
      /\ \A i \in 1..Len(p) : f[5 + i] = p[i]
  <2>1. /\ Len(Frame(p)) = HeaderSize + Len(p) /\ Len(p) \in Nat /\ Len(p) > 0
        /\ Frame(p)[4] = Len(p) % 256 /\ Frame(p)[5] = (Len(p) % 65536) \div 256
        /\ \A i \in 1..Len(p) : Frame(p)[HeaderSize + i] = p[i]
    <3>1. p \in Packet
      BY <1>8
    <3> QED BY <3>1, FrameBytes
  <2>2. f = Frame(p) /\ HeaderSize = 5
    BY DEF f, p, HeaderSize
  <2>3. ASSUME NEW i \in 1..Len(p) PROVE f[5 + i] = p[i]
    BY <2>1, <2>2
  <2>4. Len(f) = 5 + Len(p) /\ f[4] = Len(p) % 256 /\ f[5] = (Len(p) % 65536) \div 256
    BY <2>1, <2>2
  <2> QED BY <2>1, <2>3, <2>4
<1>10. PacketLen = 5 + Len(p)
  <2>1. /\ SubSeq(readBuffer, 4, 5)[1] = readBuffer[4]
        /\ SubSeq(readBuffer, 4, 5)[2] = readBuffer[5]
    <3>1. /\ 4 \in Nat /\ 5 \in Nat /\ 1 <= 4 /\ 5 <= Len(readBuffer) /\ 4 <= 5 + 1
      BY <1>1, <1>2 DEF b
    <3>2. \A i \in 1..(5 - 4 + 1) : SubSeq(readBuffer, 4, 5)[i] = readBuffer[4 + i - 1]
      BY <1>1, <3>1, Piece
    <3> QED BY <3>2
  <2>2. 4 \in 1..b /\ 5 \in 1..b /\ 4 \in 1..Len(f) /\ 5 \in 1..Len(f)
    BY <1>1, <1>2, <1>9
  <2>3. readBuffer[4] = Len(p) % 256 /\ readBuffer[5] = (Len(p) % 65536) \div 256
    BY <1>4, <1>8, <1>9, <2>2
  <2>4. Unpack(SubSeq(readBuffer, 4, 5)) = (Len(p) % 256) + ((Len(p) % 65536) \div 256) * 256
    BY <2>1, <2>3 DEF Unpack
  <2>5. Len(p) < 65536
    BY <1>8, PacketAssumption
  <2>6. (Len(p) % 256) + ((Len(p) % 65536) \div 256) * 256 = Len(p)
    BY <1>9, <2>5, UnpackPack
  <2> QED BY <2>4, <2>6 DEF PacketLen, HeaderSize
<1>11. Len(f) = PacketLen /\ Len(f) \in Nat /\ Len(f) <= b
  BY <1>2, <1>9, <1>10
<1>12. SubSeq(readBuffer, 5 + 1, PacketLen) = p
  <2> DEFINE n == Len(p)
  <2> DEFINE got == SubSeq(readBuffer, 6, 5 + n)
  <2>1. n \in Nat /\ n > 0 /\ 5 + n <= b
    BY <1>9, <1>11
  <2>2. p \in Seq(Byte)
    BY <1>8, PacketAssumption DEF Byte
  <2> HIDE DEF n
  <2>3. 6 \in Nat /\ 5 + n \in Nat /\ 1 <= 6 /\ 5 + n <= Len(readBuffer) /\ 6 <= (5 + n) + 1
    BY <2>1 DEF b
  <2>4. /\ got \in Seq(Byte) /\ Len(got) = (5 + n) - 6 + 1
        /\ \A i \in 1..((5 + n) - 6 + 1) : got[i] = readBuffer[6 + i - 1]
    BY <1>1, <2>3, Piece
  <2>5. (5 + n) - 6 + 1 = n /\ \A i \in 1..n : 6 + i - 1 = 5 + i
    BY <2>1
  <2>6. got \in Seq(Byte) /\ Len(got) = n /\ \A i \in 1..n : got[i] = readBuffer[5 + i]
    BY <2>4, <2>5
  <2> HIDE DEF got
  <2>7. ASSUME NEW i \in 1..n PROVE got[i] = p[i]
    <3>1. 5 + i \in 1..b /\ 5 + i \in 1..Len(f)
      <4>1. Len(f) = 5 + n
        BY <1>9 DEF n
      <4> QED BY <1>1, <2>1, <2>7, <4>1
    <3>2. readBuffer[5 + i] = f[5 + i]
      BY <1>4, <1>8, <3>1
    <3>3. f[5 + i] = p[i]
      BY <1>9, <2>7 DEF n
    <3> QED BY <2>6, <3>2, <3>3
  <2>8. got = p
    BY <2>2, <2>6, <2>7, SameElements DEF n
  <2>9. 5 + 1 = 6
    OBVIOUS
  <2> QED BY <1>10, <2>8, <2>9 DEF got, n
<1>13. /\ received' = Append(received, p) /\ readBuffer' = SubSeq(readBuffer, Len(f) + 1, b)
       /\ UNCHANGED <<writing, pipe, parsing, open, sent>>
  BY <1>11, <1>12 DEF parsePacket, AfterPacket, HeaderSize, b
<1>14. Channel!Deliver
  BY <1>2, <1>7, <1>13 DEF Channel!Deliver, m
<1>15. /\ readBuffer' \in Seq(Byte) /\ Len(readBuffer') = b - Len(f)
       /\ \A i \in 1..(b - Len(f)) : readBuffer'[i] = readBuffer[Len(f) + i]
  <2>1. readBuffer \in Seq(Byte) /\ Len(f) \in Nat /\ Len(f) <= Len(readBuffer)
    BY <1>1, <1>11 DEF b
  <2> DEFINE k == Len(f)
  <2> HIDE DEF k
  <2>2. k \in Nat /\ k <= Len(readBuffer)
    BY <2>1 DEF k
  <2>3. /\ SubSeq(readBuffer, k + 1, Len(readBuffer)) \in Seq(Byte)
        /\ Len(SubSeq(readBuffer, k + 1, Len(readBuffer))) = Len(readBuffer) - k
        /\ \A i \in 1..(Len(readBuffer) - k) : SubSeq(readBuffer, k + 1, Len(readBuffer))[i] = readBuffer[k + i]
    BY <2>1, <2>2, Remainder
  <2> QED BY <1>13, <2>3 DEF k, b
<1>16. readBuffer' \o pipe' = SubSeq(stream, Len(f) + 1, Len(stream))
  <2> DEFINE one == readBuffer' \o pipe
  <2> DEFINE two == SubSeq(stream, Len(f) + 1, Len(stream))
  <2> DEFINE rb == readBuffer'
  <2> DEFINE k == Len(f)
  <2> HIDE DEF rb
  <2>1. /\ one \in Seq(Byte) /\ Len(one) = Len(rb) + Len(pipe)
        /\ \A i \in 1..Len(rb) : one[i] = rb[i]
        /\ \A i \in 1..Len(pipe) : one[Len(rb) + i] = pipe[i]
    <3>1. rb \in Seq(Byte)
      BY <1>15 DEF rb
    <3> QED BY <1>1, <3>1, Joined DEF rb
  <2>2. /\ two \in Seq(Byte) /\ Len(two) = Len(stream) - Len(f)
        /\ \A i \in 1..(Len(stream) - Len(f)) : two[i] = stream[Len(f) + i]
    <3>1. Len(f) \in Nat /\ Len(f) <= Len(stream)
      BY <1>8, <1>11
    <3> QED BY <1>4, <3>1, Remainder
  <2> HIDE DEF one, two, k
  <2>3. k \in Nat /\ k <= b /\ Len(rb) = b - k /\ Len(one) = (b - k) + Len(pipe) /\ Len(two) = (b + Len(pipe)) - k
    BY <1>4, <1>11, <1>15, <2>1, <2>2 DEF k, rb
  <2>4. Len(one) = Len(two)
    BY <1>1, <2>3
  <2>5. ASSUME NEW i \in 1..Len(one) PROVE one[i] = two[i]
    <3>1. two[i] = stream[k + i]
      <4>1. i \in 1..(Len(stream) - Len(f))
        BY <2>2, <2>4, <2>5
      <4> QED BY <2>2, <4>1 DEF k
    <3>2. CASE i \in 1..(b - k)
      <4>1. one[i] = readBuffer[k + i]
        BY <1>15, <2>1, <2>3, <3>2 DEF k, rb
      <4>2. k + i \in 1..b
        BY <1>1, <2>3, <3>2
      <4> QED BY <1>4, <3>1, <4>1, <4>2
    <3>3. CASE i \notin 1..(b - k)
      <4> DEFINE j == i - (b - k)
      <4>1. j \in 1..Len(pipe) /\ (b - k) + j = i /\ b + j = k + i
        BY <1>1, <2>3, <2>5, <3>3
      <4> HIDE DEF j
      <4>2. one[i] = pipe[j]
        BY <2>1, <2>3, <4>1
      <4>3. stream[b + j] = pipe[j]
        BY <1>4, <4>1
      <4> QED BY <3>1, <4>1, <4>2, <4>3
    <3> QED BY <3>2, <3>3
  <2>6. one = two
    BY <2>1, <2>2, <2>4, <2>5, SameElements
  <2> QED BY <1>13, <2>6 DEF one, two
<1>17. /\ received' \in Seq(Packet) /\ Len(received') = m + 1 /\ Len(received') <= Len(sent')
  <2>1. received' \in Seq(Packet) /\ Len(received') = m + 1
    BY <1>1, <1>8, <1>13 DEF m
  <2> QED BY <1>1, <1>7, <1>13, <2>1
<1>18. Pending' = Tail(Pending)
  <2> DEFINE one == SubSeq(sent, (m + 1) + 1, Len(sent))
  <2> DEFINE two == Tail(Pending)
  <2>1. Pending' = one
    BY <1>13, <1>17 DEF Pending
  <2>2. /\ one \in Seq(Packet) /\ Len(one) = Len(sent) - (m + 1)
        /\ \A i \in 1..(Len(sent) - (m + 1)) : one[i] = sent[(m + 1) + i]
    <3>1. m + 1 \in Nat /\ m + 1 <= Len(sent)
      BY <1>1, <1>7
    <3> DEFINE k == m + 1
    <3> HIDE DEF k
    <3>2. k \in Nat /\ k <= Len(sent)
      BY <3>1 DEF k
    <3>3. /\ SubSeq(sent, k + 1, Len(sent)) \in Seq(Packet)
          /\ Len(SubSeq(sent, k + 1, Len(sent))) = Len(sent) - k
          /\ \A i \in 1..(Len(sent) - k) : SubSeq(sent, k + 1, Len(sent))[i] = sent[k + i]
      BY <1>1, <3>2, Remainder
    <3> QED BY <3>3 DEF k
  <2>3. /\ two \in Seq(Packet) /\ Len(two) = Len(Pending) - 1
        /\ \A i \in 1..(Len(Pending) - 1) : two[i] = Pending[i + 1]
    BY <1>5, <1>6
  <2> HIDE DEF one, two
  <2>4. Len(one) = Len(two) /\ Len(one) = Len(sent) - (m + 1)
    BY <1>1, <1>5, <2>2, <2>3
  <2>5. ASSUME NEW i \in 1..Len(one) PROVE one[i] = two[i]
    <3>1. i \in 1..(Len(Pending) - 1) /\ i + 1 \in 1..(Len(sent) - m) /\ m + (i + 1) = (m + 1) + i
      BY <1>1, <1>5, <2>4, <2>5
    <3> QED BY <1>5, <2>2, <2>3, <2>4, <3>1
  <2>6. one = two
    BY <2>2, <2>3, <2>4, <2>5, SameElements
  <2> QED BY <2>1, <2>6 DEF two
<1>19. StreamTypes'
  <2>1. DOMAIN writing' = Thread /\ \A t \in Thread : writing'[t] = NotWriting \/ \E r \in Packet : writing'[t] = Write(r)
    BY <1>13, Zenon DEF StreamInv, StreamTypes
  <2>2. (parsing' => open') /\ pipe' \in Seq(Byte) /\ sent' \in Seq(Packet)
    BY <1>1, <1>2, <1>13, Zenon
  <2> QED BY <1>15, <1>17, <2>1, <2>2, Zenon DEF StreamTypes
<1>20. StreamInv'
  BY <1>8, <1>16, <1>18, <1>19 DEF StreamInv
<1> QED BY <1>14, <1>20

\* recv() moves bytes from the pipe to the buffer: together they stay the same.
LEMMA RecvStep ==
    ASSUME StreamInv, NEW n \in 1..TCP_READ_BUFFER, recv(n)
    PROVE  StreamInv' /\ UNCHANGED Channel!channelVars
<1>1. /\ pipe \in Seq(Byte) /\ readBuffer \in Seq(Byte) /\ open /\ n \in Nat /\ n <= Len(pipe) /\ 1 <= n
      /\ Len(pipe) \in Nat
  BY BufferAssumption DEF StreamInv, StreamTypes, recv
<1> DEFINE one == SubSeq(pipe, 1, n)
<1> DEFINE two == SubSeq(pipe, n + 1, Len(pipe))
<1>2. readBuffer' = readBuffer \o one /\ pipe' = two /\ parsing' = TRUE /\ UNCHANGED <<writing, open, sent, received>>
  BY DEF recv
<1>3. /\ one \in Seq(Byte) /\ Len(one) = n /\ \A i \in 1..n : one[i] = pipe[i]
  <2>1. 1 \in Nat /\ 1 <= 1 /\ n <= Len(pipe) /\ 1 <= n + 1 /\ n - 1 + 1 = n /\ \A i \in 1..n : 1 + i - 1 = i
    BY <1>1
  <2>2. /\ one \in Seq(Byte) /\ Len(one) = n - 1 + 1 /\ \A i \in 1..(n - 1 + 1) : one[i] = pipe[1 + i - 1]
    BY <1>1, <2>1, Piece
  <2> QED BY <2>1, <2>2
<1>4. /\ two \in Seq(Byte) /\ Len(two) = Len(pipe) - n
      /\ \A i \in 1..(Len(pipe) - n) : two[i] = pipe[n + i]
  BY <1>1, Remainder
<1> HIDE DEF one, two
<1>5. one \o two = pipe
  <2> DEFINE both == one \o two
  <2>1. /\ both \in Seq(Byte) /\ Len(both) = Len(one) + Len(two)
        /\ \A i \in 1..Len(one) : both[i] = one[i]
        /\ \A i \in 1..Len(two) : both[Len(one) + i] = two[i]
    <3>1. one \in Seq(Byte) /\ two \in Seq(Byte)
      BY <1>3, <1>4
    <3> QED BY <3>1, Joined
  <2> HIDE DEF both
  <2>2. Len(both) = Len(pipe)
    BY <1>1, <1>3, <1>4, <2>1
  <2>3. ASSUME NEW i \in 1..Len(both) PROVE both[i] = pipe[i]
    <3>1. CASE i \in 1..n
      BY <1>3, <2>1, <3>1
    <3>2. CASE i \notin 1..n
      <4> DEFINE j == i - n
      <4>1. j \in 1..(Len(pipe) - n) /\ n + j = i
        BY <1>1, <2>2, <2>3, <3>2
      <4> HIDE DEF j
      <4> QED BY <1>3, <1>4, <2>1, <4>1
    <3> QED BY <3>1, <3>2
  <2>4. both = pipe
    BY <1>1, <2>1, <2>2, <2>3, SameElements
  <2> QED BY <2>4 DEF both
<1>6. readBuffer' \o pipe' = readBuffer \o pipe /\ readBuffer' \in Seq(Byte)
  <2>1. (readBuffer \o one) \o two = readBuffer \o (one \o two) /\ readBuffer \o one \in Seq(Byte)
    <3>1. readBuffer \in Seq(Byte) /\ one \in Seq(Byte) /\ two \in Seq(Byte)
      BY <1>1, <1>3, <1>4, Zenon
    <3> QED BY <3>1, Regrouped
  <2> QED BY <1>2, <1>5, <2>1
<1>7. Pending' = Pending
  BY <1>2 DEF Pending
<1>8. StreamTypes'
  <2>1. DOMAIN writing' = Thread /\ \A t \in Thread : writing'[t] = NotWriting \/ \E r \in Packet : writing'[t] = Write(r)
    BY <1>2, Zenon DEF StreamInv, StreamTypes
  <2>2. sent' \in Seq(Packet) /\ received' \in Seq(Packet) /\ Len(received') <= Len(sent')
    BY <1>2 DEF StreamInv, StreamTypes
  <2>3. (parsing' => open') /\ pipe' \in Seq(Byte)
    BY <1>1, <1>2, <1>4
  <2> QED BY <1>6, <2>1, <2>2, <2>3, Zenon DEF StreamTypes
<1>9. StreamInv'
  BY <1>1, <1>6, <1>7, <1>8 DEF StreamInv
<1> QED BY <1>2, <1>9 DEF Channel!channelVars

LEMMA CloseStep ==
    ASSUME StreamInv, open, close
    PROVE  StreamInv' /\ Channel!Break
<1>1. /\ open' = FALSE /\ parsing' = FALSE /\ pipe' = <<>> /\ UNCHANGED <<writing, readBuffer, sent, received>>
  BY DEF close
<1>2. StreamTypes'
  <2>1. DOMAIN writing' = Thread /\ \A t \in Thread : writing'[t] = NotWriting \/ \E r \in Packet : writing'[t] = Write(r)
    BY <1>1, Zenon DEF StreamInv, StreamTypes
  <2>2. /\ sent' \in Seq(Packet) /\ received' \in Seq(Packet) /\ Len(received') <= Len(sent')
        /\ readBuffer' \in Seq(Byte) /\ pipe' \in Seq(Byte) /\ (parsing' => open')
    BY <1>1 DEF StreamInv, StreamTypes
  <2> QED BY <2>1, <2>2, Zenon DEF StreamTypes
<1> QED BY <1>1, <1>2 DEF StreamInv, Channel!Break

\* A thread goes into write(), or out of it with nothing sent.
LEMMA WriterStep ==
    ASSUME StreamInv, NEW t \in Thread, sendFails(t) \/ \E p \in Packet : write(t, p)
    PROVE  StreamInv' /\ UNCHANGED Channel!channelVars
<1>1. PICK w : /\ writing' = [writing EXCEPT ![t] = w]
               /\ w = NotWriting \/ \E p \in Packet : w = Write(p)
               /\ UNCHANGED <<pipe, readBuffer, parsing, open, sent, received>>
  <2>1. CASE sendFails(t)
    BY <2>1, Zenon DEF sendFails
  <2>2. ASSUME NEW p \in Packet, write(t, p)
        PROVE  /\ writing' = [writing EXCEPT ![t] = Write(p)]
               /\ UNCHANGED <<pipe, readBuffer, parsing, open, sent, received>>
    BY <2>2 DEF write, Write
  <2> QED BY <2>1, <2>2, Zenon
<1>2. StreamTypes'
  <2>1. DOMAIN writing' = Thread /\ \A u \in Thread : writing'[u] = NotWriting \/ \E r \in Packet : writing'[u] = Write(r)
    BY <1>1 DEF StreamInv, StreamTypes
  <2>2. /\ sent' \in Seq(Packet) /\ received' \in Seq(Packet) /\ Len(received') <= Len(sent')
        /\ readBuffer' \in Seq(Byte) /\ pipe' \in Seq(Byte)
    BY <1>1 DEF StreamInv, StreamTypes
  <2>3. parsing' => open'
    BY <1>1, Zenon DEF StreamInv, StreamTypes
  <2> QED BY <2>1, <2>2, <2>3, Zenon DEF StreamTypes
<1>3. Pending' = Pending
  BY <1>1 DEF Pending
<1>4. StreamInv'
  BY <1>1, <1>2, <1>3 DEF StreamInv
<1> QED BY <1>1, <1>4 DEF Channel!channelVars

LEMMA StreamStart == StreamInit => StreamInv /\ Channel!ChannelInit
<1> SUFFICES ASSUME StreamInit PROVE StreamInv /\ Channel!ChannelInit
  OBVIOUS
<1>1. /\ writing = [t \in Thread |-> NotWriting] /\ pipe = <<>> /\ readBuffer = <<>>
      /\ parsing = FALSE /\ open = TRUE /\ sent = <<>> /\ received = <<>>
  BY DEF StreamInit
<1>2. StreamTypes
  BY <1>1 DEF StreamTypes
<1>3. readBuffer \o pipe = <<>> /\ Pending = <<>>
  <2>1. <<>> \o <<>> = <<>>
    OBVIOUS
  <2>2. Len(<<>>) = 0 /\ SubSeq(<<>>, 0 + 1, 0) = <<>>
    OBVIOUS
  <2> QED BY <1>1, <2>1, <2>2 DEF Pending
<1> QED BY <1>1, <1>2, <1>3, CarriesNone DEF StreamInv, Channel!ChannelInit

LEMMA StreamStep ==
    StreamInv /\ [StreamNext]_streamVars /\ [WholeSend]_streamVars
        => StreamInv' /\ [Channel!ChannelNext]_(Channel!channelVars)
<1> SUFFICES ASSUME StreamInv, [StreamNext]_streamVars, [WholeSend]_streamVars
             PROVE  StreamInv' /\ [Channel!ChannelNext]_(Channel!channelVars)
  OBVIOUS
<1>1. CASE UNCHANGED streamVars
  <2>1. UNCHANGED <<writing, pipe, readBuffer, parsing, open, sent, received>>
    BY <1>1 DEF streamVars
  <2>2. StreamInv'
    BY <2>1, Zenon DEF StreamInv, StreamTypes, Pending
  <2> QED BY <2>1, <2>2 DEF Channel!channelVars
<1>2. ASSUME NEW t \in Thread, send(t), WholeSend PROVE StreamInv' /\ Channel!ChannelNext
  BY <1>2, SendStep DEF Channel!ChannelNext
<1>3. ASSUME NEW t \in Thread, sendFails(t) \/ \E p \in Packet : write(t, p)
      PROVE  StreamInv' /\ UNCHANGED Channel!channelVars
  BY <1>3, WriterStep
<1>4. ASSUME NEW n \in 1..TCP_READ_BUFFER, recv(n) PROVE StreamInv' /\ UNCHANGED Channel!channelVars
  BY <1>4, RecvStep
<1>5. CASE parsePacket
  BY <1>5, ParseStep DEF Channel!ChannelNext
<1>6. CASE parseRejects \/ recvFails
  <2>1. open /\ close
    BY <1>6 DEF parseRejects, recvFails, StreamInv, StreamTypes
  <2> QED BY <2>1, CloseStep DEF Channel!ChannelNext
<1>7. CASE parseEnds
  <2>1. parsing' = FALSE /\ UNCHANGED <<writing, pipe, readBuffer, open, sent, received>>
    BY <1>7 DEF parseEnds
  <2>2. StreamInv'
    BY <2>1, Zenon DEF StreamInv, StreamTypes, Pending
  <2> QED BY <2>1, <2>2 DEF Channel!channelVars
<1>8. ASSUME StreamNext, WholeSend PROVE StreamInv' /\ [Channel!ChannelNext]_(Channel!channelVars)
  BY <1>2, <1>3, <1>4, <1>5, <1>6, <1>7, <1>8, Zenon DEF StreamNext, Writers, handleRead
<1> QED BY <1>1, <1>8, Zenon

\* A framed connection (TcpConnection::write and _handleRead) implements the channel
\* of packets: every packet accepted reaches the data callback whole, once and in
\* order, whatever the chunks in which recv() brings the bytes, with any number of
\* threads in write() and any contents, as long as no send() takes a part of a frame.
THEOREM FramedIsChannel ==
    StreamSpec /\ [][WholeSend]_streamVars
        => Channel!ChannelInit /\ [][Channel!ChannelNext]_(Channel!channelVars)
BY StreamStart, StreamStep, PTL DEF StreamSpec

-----------------------------------------------------------------------------
(***************************************************************************)
(* HttpClient.  What the client has received is at any time a beginning of *)
(* the answer; what parse() makes of a beginning of an answer that         *)
(* declares its length is the answer or nothing, by the places of its      *)
(* tokens.                                                                 *)
(***************************************************************************)
\* The tokens of an answer
Sign == {Http!Token(kind, value) : kind \in {"start", "header", "Content-Length", "CR", "LF", "char"}, value \in Nat}
CR == Http!Token("CR", 0)
LF == Http!Token("LF", 0)

LEMMA MinIs ==
    ASSUME NEW S \in SUBSET Nat, NEW x \in S, \A y \in S : x <= y
    PROVE  Http!Min(S) = x
<1>1. \A y \in S : (\A z \in S : y <= z) => y = x
  OBVIOUS
<1> QED BY <1>1 DEF Http!Min

LEMMA Signs == CR \in Sign /\ LF \in Sign
BY DEF CR, LF, Sign

LEMMA Tokens ==
    ASSUME NEW v \in Nat
    PROVE  Http!Token("start", v) \in Sign /\ Http!Token("header", v) \in Sign /\ Http!Token("Content-Length", v) \in Sign
BY DEF Sign

LEMMA Pair ==
    ASSUME NEW S, NEW one \in Seq(S), NEW a \in S, NEW b \in S, Len(one) = 2
    PROVE  one = <<a, b>> <=> one[1] = a /\ one[2] = b
<1> DEFINE two == <<a, b>>
<1>1. two \in Seq(S) /\ Len(two) = 2 /\ two[1] = a /\ two[2] = b
  OBVIOUS
<1> HIDE DEF two
<1>2. ASSUME one[1] = a, one[2] = b PROVE one = two
  <2>1. \A i \in 1..2 : i = 1 \/ i = 2
    OBVIOUS
  <2>2. \A i \in 1..Len(one) : one[i] = two[i]
    BY <1>1, <1>2, <2>1
  <2> QED BY <1>1, <2>2, SameElements
<1> QED BY <1>1, <1>2 DEF two

LEMMA Four ==
    ASSUME NEW S, NEW one \in Seq(S), NEW a \in S, NEW b \in S, Len(one) = 4
    PROVE  one = <<a, b>> \o <<a, b>> <=> one[1] = a /\ one[2] = b /\ one[3] = a /\ one[4] = b
<1> DEFINE pair == <<a, b>>
<1>1. pair \in Seq(S) /\ Len(pair) = 2 /\ pair[1] = a /\ pair[2] = b
  OBVIOUS
<1> HIDE DEF pair
<1> DEFINE two == pair \o pair
<1>2. /\ two \in Seq(S) /\ Len(two) = Len(pair) + Len(pair)
      /\ \A i \in 1..Len(pair) : two[i] = pair[i]
      /\ \A i \in 1..Len(pair) : two[Len(pair) + i] = pair[i]
  <2>1. pair \in Seq(S)
    BY <1>1
  <2> QED BY <2>1, Joined
<1> HIDE DEF two
<1>3. Len(two) = 4 /\ two[1] = a /\ two[2] = b /\ two[2 + 1] = a /\ two[2 + 2] = b
  BY <1>1, <1>2
<1>4. 2 + 1 = 3 /\ 2 + 2 = 4
  OBVIOUS
<1>5. ASSUME one[1] = a, one[2] = b, one[3] = a, one[4] = b PROVE one = two
  <2>1. \A i \in 1..4 : i = 1 \/ i = 2 \/ i = 3 \/ i = 4
    OBVIOUS
  <2>2. \A i \in 1..Len(one) : one[i] = two[i]
    BY <1>3, <1>4, <1>5, <2>1
  <2> QED BY <1>2, <1>3, <2>2, SameElements
<1> QED BY <1>3, <1>4, <1>5 DEF two, pair

LEMMA MatchesEOL ==
    ASSUME NEW chunk \in Seq(Sign)
    PROVE  Http!Matches(chunk, Http!EOL) = {i \in 1..(Len(chunk) - 1) : chunk[i] = CR /\ chunk[i + 1] = LF}
<1>1. Http!EOL = <<CR, LF>> /\ Len(Http!EOL) = 2
  BY DEF Http!EOL, CR, LF
<1>2. Len(chunk) \in Nat /\ Len(chunk) - 2 + 1 = Len(chunk) - 1
  OBVIOUS
<1>3. ASSUME NEW i \in 1..(Len(chunk) - 1)
      PROVE  SubSeq(chunk, i, i + 2 - 1) = <<CR, LF>> <=> chunk[i] = CR /\ chunk[i + 1] = LF
  <2>1. i \in Nat /\ i + 2 - 1 \in Nat /\ 1 <= i /\ i + 2 - 1 <= Len(chunk) /\ i <= (i + 2 - 1) + 1
    BY <1>2, <1>3
  <2> DEFINE got == SubSeq(chunk, i, i + 2 - 1)
  <2>2. /\ got \in Seq(Sign) /\ Len(got) = (i + 2 - 1) - i + 1
        /\ \A j \in 1..((i + 2 - 1) - i + 1) : got[j] = chunk[i + j - 1]
    BY <2>1, Piece
  <2> HIDE DEF got
  <2>3. (i + 2 - 1) - i + 1 = 2 /\ 1 \in 1..2 /\ 2 \in 1..2 /\ i + 1 - 1 = i /\ i + 2 - 1 = i + 1
    BY <2>1
  <2>4. got[1] = chunk[i] /\ got[2] = chunk[i + 1] /\ Len(got) = 2
    BY <2>2, <2>3
  <2>5. got = <<CR, LF>> <=> got[1] = CR /\ got[2] = LF
    BY <2>2, <2>4, Pair, Signs
  <2> QED BY <2>4, <2>5 DEF got
<1> QED BY <1>1, <1>2, <1>3 DEF Http!Matches

LEMMA MatchesBlank ==
    ASSUME NEW chunk \in Seq(Sign)
    PROVE  Http!Matches(chunk, Http!EOL \o Http!EOL)
            = {i \in 1..(Len(chunk) - 3) : /\ chunk[i] = CR /\ chunk[i + 1] = LF
                                          /\ chunk[i + 2] = CR /\ chunk[i + 3] = LF}
<1> DEFINE blank == <<CR, LF>> \o <<CR, LF>>
<1>1. Http!EOL \o Http!EOL = blank /\ Len(Http!EOL \o Http!EOL) = 4
  <2>1. Http!EOL = <<CR, LF>>
    BY DEF Http!EOL, CR, LF
  <2>2. Len(blank) = 4
    <3>1. <<CR, LF>> \in Seq(Sign) /\ Len(<<CR, LF>>) = 2
      BY Signs
    <3> QED BY <3>1
  <2> QED BY <2>1, <2>2
<1>2. Len(chunk) \in Nat /\ Len(chunk) - 4 + 1 = Len(chunk) - 3
  OBVIOUS
<1>3. ASSUME NEW i \in 1..(Len(chunk) - 3)
      PROVE  SubSeq(chunk, i, i + 4 - 1) = blank
                <=> /\ chunk[i] = CR /\ chunk[i + 1] = LF
                    /\ chunk[i + 2] = CR /\ chunk[i + 3] = LF
  <2>1. i \in Nat /\ i + 4 - 1 \in Nat /\ 1 <= i /\ i + 4 - 1 <= Len(chunk) /\ i <= (i + 4 - 1) + 1
    BY <1>2, <1>3
  <2> DEFINE got == SubSeq(chunk, i, i + 4 - 1)
  <2>2. /\ got \in Seq(Sign) /\ Len(got) = (i + 4 - 1) - i + 1
        /\ \A j \in 1..((i + 4 - 1) - i + 1) : got[j] = chunk[i + j - 1]
    BY <2>1, Piece
  <2> HIDE DEF got
  <2>3. (i + 4 - 1) - i + 1 = 4 /\ i + 1 - 1 = i /\ i + 2 - 1 = i + 1 /\ i + 3 - 1 = i + 2 /\ i + 4 - 1 = i + 3
    BY <2>1
  <2>4. got[1] = chunk[i] /\ got[2] = chunk[i + 1] /\ got[3] = chunk[i + 2] /\ got[4] = chunk[i + 3] /\ Len(got) = 4
    BY <2>2, <2>3
  <2>5. got = blank <=> got[1] = CR /\ got[2] = LF /\ got[3] = CR /\ got[4] = LF
    <3>1. got \in Seq(Sign) /\ Len(got) = 4 /\ CR \in Sign /\ LF \in Sign
      BY <2>2, <2>4, Signs
    <3> HIDE DEF got
    <3>2. got = <<CR, LF>> \o <<CR, LF>> <=> got[1] = CR /\ got[2] = LF /\ got[3] = CR /\ got[4] = LF
      BY <3>1, Four
    <3> QED BY <3>2
  <2> QED BY <2>4, <2>5 DEF got
<1> QED BY <1>1, <1>2, <1>3 DEF Http!Matches

-----------------------------------------------------------------------------
\* A line, by places
LEMMA LineSays ==
    ASSUME NEW token \in Sign
    PROVE  /\ Http!LineOf(FALSE, token) = <<>>
           /\ Http!LineOf(TRUE, token) \in Seq(Sign) /\ Len(Http!LineOf(TRUE, token)) = 3
           /\ Http!LineOf(TRUE, token)[1] = token
           /\ Http!LineOf(TRUE, token)[2] = CR /\ Http!LineOf(TRUE, token)[3] = LF
<1> DEFINE one == <<token>>
<1> DEFINE two == <<CR, LF>>
<1>1. one \in Seq(Sign) /\ two \in Seq(Sign)
  BY Signs
<1>2. Len(one) = 1 /\ Len(two) = 2 /\ one[1] = token /\ two[1] = CR /\ two[2] = LF
  OBVIOUS
<1>3. Http!LineOf(FALSE, token) = <<>> /\ Http!LineOf(TRUE, token) = one \o two
  BY DEF Http!LineOf, Http!EOL, CR, LF
<1> HIDE DEF one, two
<1>4. /\ one \o two \in Seq(Sign) /\ Len(one \o two) = Len(one) + Len(two)
      /\ \A i \in 1..Len(one) : (one \o two)[i] = one[i]
      /\ \A i \in 1..Len(two) : (one \o two)[Len(one) + i] = two[i]
  BY <1>1, Joined
<1>5. 1 \in 1..1 /\ 1 \in 1..2 /\ 2 \in 1..2 /\ 1 + 1 = 2 /\ 1 + 2 = 3
  OBVIOUS
<1>6. /\ Len(one \o two) = 3 /\ (one \o two)[1] = token /\ (one \o two)[1 + 1] = CR /\ (one \o two)[1 + 2] = LF
  BY <1>2, <1>4, <1>5, Zenon
<1> QED BY <1>3, <1>4, <1>5, <1>6

\* What an honest server answers
LEMMA HonestSays ==
    ASSUME NEW r \in Http!Honest
    PROVE  /\ r.status \in Nat /\ r.other \in BOOLEAN
           /\ r.body \in Seq(Sign)
           /\ r.length # Undeclared => r.length \in Nat /\ r.length = Len(r.body)
<1>1. PICK st \in Status, l \in BodyLength \cup {Undeclared}, o \in BOOLEAN, n \in BodyLength :
        r = [status |-> st, length |-> l, other |-> o, body |-> Http!Body(n)]
  BY DEF Http!Honest, Http!Response
<1>2. r.status = st /\ r.length = l /\ r.other = o /\ r.body = Http!Body(n)
  BY <1>1
<1>3. r.length \in {Len(r.body), Undeclared}
  BY DEF Http!Honest
<1>4. n \in Nat /\ \A i \in 1..n : Http!Token("char", i) \in Sign
  BY AnswerAssumption DEF Sign
<1>5. Http!Body(n) \in Seq(Sign)
  BY <1>4 DEF Http!Body
<1>6. st \in Nat /\ (l # Undeclared => l \in Nat)
  BY AnswerAssumption
<1> QED BY <1>2, <1>3, <1>5, <1>6

LEMMA EncodedStart ==
    ASSUME NEW r \in Http!Honest
    PROVE  /\ Http!Encoded(r) \in Seq(Sign) /\ Len(Http!Encoded(r)) >= 3
           /\ Http!Encoded(r)[1] = Http!Token("start", r.status)
           /\ Http!Encoded(r)[2] = CR /\ Http!Encoded(r)[3] = LF
           /\ r.length # Undeclared =>
                \E h \in {0, 3} :
                  /\ Len(Http!Encoded(r)) = 8 + h + Len(r.body)
                  /\ h = 3 => /\ Http!Encoded(r)[4] = Http!Token("header", 0)
                              /\ Http!Encoded(r)[5] = CR /\ Http!Encoded(r)[6] = LF
                  /\ Http!Encoded(r)[4 + h] = Http!Token("Content-Length", r.length)
                  /\ Http!Encoded(r)[5 + h] = CR /\ Http!Encoded(r)[6 + h] = LF
                  /\ Http!Encoded(r)[7 + h] = CR /\ Http!Encoded(r)[8 + h] = LF
                  /\ \A i \in 1..Len(r.body) : Http!Encoded(r)[8 + h + i] = r.body[i]
<1> DEFINE start == Http!Token("start", r.status)
<1> DEFINE other == Http!Token("header", 0)
<1> DEFINE declared == Http!Token("Content-Length", r.length)
<1>1. start \in Sign /\ other \in Sign /\ (r.length # Undeclared => declared \in Sign)
  <2>1. r.status \in Nat /\ (r.length # Undeclared => r.length \in Nat) /\ 0 \in Nat
    BY HonestSays
  <2> QED BY <2>1, Tokens
<1> DEFINE a == Http!LineOf(TRUE, start)
<1> DEFINE b == Http!LineOf(r.other, other)
<1> DEFINE c == Http!LineOf(r.length # Undeclared, declared)
<1> DEFINE d == <<CR, LF>>
<1> DEFINE e == r.body
<1>2. Http!Encoded(r) = (((a \o b) \o c) \o d) \o e
  BY DEF Http!Encoded, Http!LineOf, Http!EOL, CR, LF
<1> HIDE DEF start, other, declared
<1>3. a \in Seq(Sign) /\ Len(a) = 3 /\ a[1] = start /\ a[2] = CR /\ a[3] = LF
  BY <1>1, LineSays
<1>4. /\ b \in Seq(Sign) /\ Len(b) \in {0, 3}
      /\ Len(b) = 3 => b[1] = other /\ b[2] = CR /\ b[3] = LF
  <2>1. CASE r.other = TRUE
    BY <1>1, <2>1, LineSays
  <2>2. CASE r.other = FALSE
    <3>1. b = <<>>
      BY <1>1, <2>2, LineSays
    <3> QED BY <3>1
  <2> QED BY <2>1, <2>2, HonestSays
<1>5. /\ c \in Seq(Sign)
      /\ r.length # Undeclared => Len(c) = 3 /\ c[1] = declared /\ c[2] = CR /\ c[3] = LF
  <2>1. CASE r.length # Undeclared
    <3>1. (r.length # Undeclared) = TRUE
      BY <2>1
    <3>2. declared \in Sign
      BY <1>1, <2>1
    <3> QED BY <3>1, <3>2, LineSays
  <2>2. CASE r.length = Undeclared
    <3>1. (r.length # Undeclared) = FALSE
      BY <2>2
    <3>2. c = <<>>
      BY <3>1 DEF Http!LineOf
    <3> HIDE DEF c
    <3>3. c \in Seq(Sign)
      BY <3>2
    <3> QED BY <2>2, <3>3, Zenon
  <2> QED BY <2>1, <2>2
<1>6. d \in Seq(Sign) /\ Len(d) = 2 /\ d[1] = CR /\ d[2] = LF /\ e \in Seq(Sign)
  BY Signs, HonestSays
<1> HIDE DEF a, b, c, d, e
<1> DEFINE ab == a \o b
<1> DEFINE abc == ab \o c
<1> DEFINE abcd == abc \o d
<1> DEFINE all == abcd \o e
<1>7. /\ ab \in Seq(Sign) /\ Len(ab) = Len(a) + Len(b) /\ Len(a) \in Nat /\ Len(b) \in Nat
      /\ \A i \in 1..Len(a) : ab[i] = a[i]
      /\ \A i \in 1..Len(b) : ab[Len(a) + i] = b[i]
  <2>1. a \in Seq(Sign) /\ b \in Seq(Sign)
    BY <1>3, <1>4
  <2> QED BY <2>1, Joined
<1> HIDE DEF ab
<1>8. /\ abc \in Seq(Sign) /\ Len(abc) = Len(ab) + Len(c) /\ Len(ab) \in Nat /\ Len(c) \in Nat
      /\ \A i \in 1..Len(ab) : abc[i] = ab[i]
      /\ \A i \in 1..Len(c) : abc[Len(ab) + i] = c[i]
  <2>1. ab \in Seq(Sign) /\ c \in Seq(Sign)
    BY <1>5, <1>7
  <2> QED BY <2>1, Joined
<1> HIDE DEF abc
<1>9. /\ abcd \in Seq(Sign) /\ Len(abcd) = Len(abc) + Len(d) /\ Len(abc) \in Nat /\ Len(d) \in Nat
      /\ \A i \in 1..Len(abc) : abcd[i] = abc[i]
      /\ \A i \in 1..Len(d) : abcd[Len(abc) + i] = d[i]
  <2>1. abc \in Seq(Sign) /\ d \in Seq(Sign)
    BY <1>6, <1>8
  <2> QED BY <2>1, Joined
<1> HIDE DEF abcd
<1>10. /\ all \in Seq(Sign) /\ Len(all) = Len(abcd) + Len(e) /\ Len(abcd) \in Nat /\ Len(e) \in Nat
       /\ \A i \in 1..Len(abcd) : all[i] = abcd[i]
       /\ \A i \in 1..Len(e) : all[Len(abcd) + i] = e[i]
  <2>1. abcd \in Seq(Sign) /\ e \in Seq(Sign)
    BY <1>6, <1>9
  <2> QED BY <2>1, Joined
<1> HIDE DEF all
<1>11. /\ Len(all) >= 3 /\ all[1] = start /\ all[2] = CR /\ all[3] = LF
  <2>1. \A i \in 1..3 : i \in 1..Len(a) /\ i \in 1..Len(ab) /\ i \in 1..Len(abc) /\ i \in 1..Len(abcd)
    BY <1>3, <1>7, <1>8, <1>9
  <2>2. \A i \in 1..3 : all[i] = a[i]
    <3>1. ASSUME NEW i \in 1..3 PROVE all[i] = a[i]
      <4>1. all[i] = abcd[i] /\ abcd[i] = abc[i]
        BY <1>9, <1>10, <2>1, Zenon
      <4>2. abc[i] = ab[i] /\ ab[i] = a[i]
        BY <1>7, <1>8, <2>1, Zenon
      <4> QED BY <4>1, <4>2, Zenon
    <3> QED BY <3>1
  <2>3. Len(ab) >= 3
    BY <1>3, <1>7
  <2>4. Len(abcd) >= 3
    BY <1>8, <1>9, <2>3
  <2>5. Len(all) >= 3
    BY <1>10, <2>4
  <2> QED BY <1>3, <2>2, <2>5
<1>12. ASSUME r.length # Undeclared
       PROVE \E h \in {0, 3} :
               /\ Len(all) = 8 + h + Len(e)
               /\ h = 3 => /\ all[4] = other /\ all[5] = CR /\ all[6] = LF
               /\ all[4 + h] = declared /\ all[5 + h] = CR /\ all[6 + h] = LF
               /\ all[7 + h] = CR /\ all[8 + h] = LF
               /\ \A i \in 1..Len(e) : all[8 + h + i] = e[i]
  <2> DEFINE h == Len(b)
  <2> HIDE DEF h
  <2>1. /\ h \in {0, 3} /\ Len(a) = 3 /\ Len(b) = h /\ Len(ab) = 3 + h /\ Len(c) = 3 /\ Len(abc) = 6 + h
        /\ Len(d) = 2 /\ Len(abcd) = 8 + h /\ Len(all) = 8 + h + Len(e)
    <3>1. h \in {0, 3} /\ Len(a) = 3 /\ Len(b) = h /\ Len(c) = 3 /\ Len(d) = 2
      BY <1>3, <1>4, <1>5, <1>6, <1>12 DEF h
    <3>2. Len(ab) = 3 + h /\ Len(abc) = Len(ab) + 3 /\ Len(abcd) = Len(abc) + 2 /\ Len(all) = Len(abcd) + Len(e)
      BY <1>7, <1>8, <1>9, <1>10, <3>1
    <3>3. (3 + h) + 3 = 6 + h /\ (6 + h) + 2 = 8 + h
      BY <3>1
    <3> QED BY <3>1, <3>2, <3>3
  <2>2. ASSUME NEW i \in 1..3, h = 3 PROVE all[3 + i] = b[i]
    <3>1. i \in 1..Len(b) /\ 3 + i \in 1..Len(ab) /\ 3 + i \in 1..Len(abc) /\ 3 + i \in 1..Len(abcd)
      BY <2>1, <2>2
    <3>2. ab[3 + i] = b[i]
      BY <1>7, <2>1, <3>1
    <3> QED BY <1>8, <1>9, <1>10, <3>1, <3>2
  <2>3. ASSUME NEW i \in 1..3 PROVE all[(3 + h) + i] = c[i]
    <3>1. i \in 1..Len(c) /\ (3 + h) + i \in 1..Len(abc) /\ (3 + h) + i \in 1..Len(abcd)
      BY <2>1, <2>3
    <3>2. abc[(3 + h) + i] = c[i]
      BY <1>8, <2>1, <3>1
    <3> QED BY <1>9, <1>10, <3>1, <3>2
  <2>4. ASSUME NEW i \in 1..2 PROVE all[(6 + h) + i] = d[i]
    <3>1. i \in 1..Len(d) /\ (6 + h) + i \in 1..Len(abcd)
      BY <2>1, <2>4
    <3>2. abcd[(6 + h) + i] = d[i]
      BY <1>9, <2>1, <3>1
    <3> QED BY <1>10, <3>1, <3>2
  <2>5. \A i \in 1..Len(e) : all[8 + h + i] = e[i]
    BY <1>10, <2>1
  <2>6. /\ (3 + h) + 1 = 4 + h /\ (3 + h) + 2 = 5 + h /\ (3 + h) + 3 = 6 + h
        /\ (6 + h) + 1 = 7 + h /\ (6 + h) + 2 = 8 + h
    BY <2>1
  <2>7. /\ h = 3 => /\ all[3 + 1] = b[1] /\ all[3 + 2] = b[2] /\ all[3 + 3] = b[3]
        /\ all[(3 + h) + 1] = c[1] /\ all[(3 + h) + 2] = c[2] /\ all[(3 + h) + 3] = c[3]
        /\ all[(6 + h) + 1] = d[1] /\ all[(6 + h) + 2] = d[2]
    BY <2>2, <2>3, <2>4
  <2>8. 3 + 1 = 4 /\ 3 + 2 = 5 /\ 3 + 3 = 6
    OBVIOUS
  <2>9. /\ h = 3 => all[4] = other /\ all[5] = CR /\ all[6] = LF
        /\ all[4 + h] = declared /\ all[5 + h] = CR /\ all[6 + h] = LF
        /\ all[7 + h] = CR /\ all[8 + h] = LF
    BY <1>4, <1>5, <1>6, <1>12, <2>1, <2>6, <2>7, <2>8
  <2> QED BY <2>1, <2>5, <2>9, Zenon
<1>13. Http!Encoded(r) = all
  BY <1>2 DEF all, abcd, abc, ab
<1> HIDE DEF all
<1> QED BY <1>10, <1>11, <1>12, <1>13, Zenon DEF start, other, declared, e

\* `chunk` is what has come of the answer r
Prefix(chunk, r) ==
    /\ chunk \in Seq(Sign) /\ Len(chunk) <= Len(Http!Encoded(r))
    /\ \A i \in 1..Len(chunk) : chunk[i] = Http!Encoded(r)[i]

\* Tokens of different kinds differ.
LEMMA Differ ==
    ASSUME NEW v \in Nat
    PROVE  /\ CR # LF /\ CR.kind = "CR" /\ LF.kind = "LF"
           /\ Http!Token("start", v) # CR /\ Http!Token("start", v).kind = "start"
           /\ Http!Token("start", v).value = v
           /\ Http!Token("header", v) # CR /\ Http!Token("header", v).kind = "header"
           /\ Http!Token("Content-Length", v) # CR /\ Http!Token("Content-Length", v).kind = "Content-Length"
           /\ Http!Token("Content-Length", v).value = v
BY DEF CR, LF, Http!Token

\* The start line: all of it, or nothing.
LEMMA StartLine ==
    ASSUME NEW r \in Http!Honest, NEW chunk, Prefix(chunk, r)
    PROVE  LET start == Http!parseStartLine(chunk) IN
           \/ start.result # "OK"
           \/ /\ start = [result |-> "OK", status |-> r.status, rest |-> SubSeq(chunk, 4, Len(chunk))]
              /\ 3 <= Len(chunk)
<1> DEFINE E == Http!Encoded(r)
<1> DEFINE M == Http!Matches(chunk, Http!EOL)
<1>1. /\ chunk \in Seq(Sign) /\ Len(chunk) \in Nat /\ Len(chunk) <= Len(E)
      /\ \A i \in 1..Len(chunk) : chunk[i] = E[i]
  BY DEF Prefix
<1>2. E[1] = Http!Token("start", r.status) /\ E[2] = CR /\ E[3] = LF /\ r.status \in Nat
  BY EncodedStart, HonestSays
<1>3. M = {i \in 1..(Len(chunk) - 1) : chunk[i] = CR /\ chunk[i + 1] = LF}
  BY <1>1, MatchesEOL
<1>4. E[1] # CR /\ E[1].kind = "start" /\ E[1].value = r.status
  BY <1>2, Differ
<1> HIDE DEF E, M
<1>5. CASE M = {}
  BY <1>5 DEF Http!parseStartLine, M
<1>6. CASE M # {}
  <2>1. PICK i \in 1..(Len(chunk) - 1) : chunk[i] = CR /\ chunk[i + 1] = LF
    BY <1>3, <1>6
  <2>2. i # 1
    <3>1. CASE i = 1
      <4>1. 1 \in 1..Len(chunk)
        BY <1>1, <2>1, <3>1
      <4> QED BY <1>1, <1>4, <2>1, <3>1, <4>1
    <3> QED BY <3>1
  <2>3. 3 <= Len(chunk) /\ 1 \in 1..Len(chunk) /\ 2 \in 1..Len(chunk) /\ 3 \in 1..Len(chunk) /\ 2 \in 1..(Len(chunk) - 1)
    BY <1>1, <2>1, <2>2
  <2>4. chunk[1] = E[1] /\ chunk[2] = CR /\ chunk[2 + 1] = LF
    BY <1>1, <1>2, <2>3
  <2>5. 2 \in M /\ 1 \notin M /\ M \in SUBSET Nat
    BY <1>3, <1>4, <2>3, <2>4
  <2>6. \A j \in M : 2 <= j
    BY <1>1, <1>3, <2>5
  <2>7. Http!Min(M) = 2
    BY <2>5, <2>6, MinIs
  <2>8. chunk[1].kind = "start" /\ chunk[1].value = r.status
    BY <1>4, <2>4
  <2>9. Http!Min(M) + 2 = 4
    BY <2>7
  <2> QED BY <1>6, <2>3, <2>8, <2>9 DEF Http!parseStartLine, Http!From, M
<1> QED BY <1>5, <1>6

LEMMA Below ==
    ASSUME NEW n \in Nat, NEW i \in 1..(n - 3)
    PROVE  i \in 1..n /\ i + 1 \in 1..n /\ i + 2 \in 1..n /\ i \in Nat /\ i <= n - 3 /\ 1 <= i
OBVIOUS

\* `all` declares the length of r, behind the first h of its header tokens; `rest` is
\* what has come of it behind the start line.
Declares(all, r, h) ==
    /\ h = 3 => all[4] = Http!Token("header", 0) /\ all[5] = CR /\ all[6] = LF
    /\ all[4 + h] = Http!Token("Content-Length", r.length)
    /\ all[5 + h] = CR /\ all[6 + h] = LF /\ all[7 + h] = CR /\ all[8 + h] = LF
Behind(rest, all) == rest \in Seq(Sign) /\ \A i \in 1..Len(rest) : rest[i] = all[3 + i]
Headed(head, rest, r, h) ==
    /\ head = [result |-> "OK", length |-> r.length, rest |-> SubSeq(rest, 6 + h, Len(rest))]
    /\ 5 + h <= Len(rest)

\* The headers of an answer that declares its length: all of them, or nothing.
LEMMA HeaderLines ==
    ASSUME NEW r \in Http!Honest, r.length # Undeclared,
           NEW h \in {0, 3}, NEW E, NEW rest, NEW known, Declares(E, r, h), Behind(rest, E)
    PROVE  \/ Http!parseHeader(rest, known).result # "OK"
           \/ Headed(Http!parseHeader(rest, known), rest, r, h)
<1>0. /\ rest \in Seq(Sign) /\ \A i \in 1..Len(rest) : rest[i] = E[3 + i]
      /\ h = 3 => E[4] = Http!Token("header", 0) /\ E[5] = CR /\ E[6] = LF
      /\ E[4 + h] = Http!Token("Content-Length", r.length)
      /\ E[5 + h] = CR /\ E[6 + h] = LF /\ E[7 + h] = CR /\ E[8 + h] = LF
  BY DEF Declares, Behind
<1> DEFINE M == Http!Matches(rest, Http!EOL \o Http!EOL)
<1> DEFINE n == Len(rest)
<1>1. n \in Nat /\ r.length \in Nat
  BY <1>0, HonestSays
<1>2. M = {i \in 1..(n - 3) : rest[i] = CR /\ rest[i + 1] = LF /\ rest[i + 2] = CR /\ rest[i + 3] = LF}
  BY <1>0, MatchesBlank
<1>3. E[4 + h] # CR /\ E[4 + h].kind = "Content-Length" /\ E[4 + h].value = r.length
  BY <1>0, <1>1, Differ
<1>4. h = 3 => /\ E[4] # CR /\ E[4].kind = "header" /\ E[5] # LF /\ E[5].kind = "CR"
               /\ E[6] # CR /\ E[6].kind = "LF"
  BY <1>0, Differ
<1> HIDE DEF M, n
<1>5. CASE M = {}
  BY <1>5 DEF Http!parseHeader, M
<1>6. CASE M # {}
  <2>1. ASSUME NEW i \in M PROVE i \in Nat /\ 2 + h <= i /\ i <= n - 3
    <3>1. i \in 1..(n - 3) /\ rest[i] = CR /\ rest[i + 1] = LF /\ rest[i + 2] = CR
      BY <1>2, <2>1
    <3>2. i \in 1..n /\ i + 1 \in 1..n /\ i + 2 \in 1..n /\ i \in Nat /\ i <= n - 3 /\ 1 <= i
      <4>1. i \in 1..(n - 3) /\ n \in Nat
        BY <1>1, <3>1, Zenon
      <4> QED BY <4>1, Below
    <3>3. E[3 + i] = CR /\ E[3 + (i + 2)] = CR
      BY <1>0, <3>1, <3>2 DEF n
    <3>4. i # 1 + h
      <4>1. CASE i = 1 + h
        <5>1. 3 + i = 4 + h
          BY <4>1
        <5> QED BY <1>3, <3>3, <5>1
      <4> QED BY <4>1
    <3>5. h = 3 => i # 1 /\ i # 2 /\ i # 3
      <4>1. CASE h = 3 /\ i = 1
        <5>1. 3 + i = 4
          BY <4>1
        <5> QED BY <1>4, <3>3, <4>1, <5>1
      <4>2. CASE h = 3 /\ i = 2
        <5>1. 3 + (i + 2) = 4 + h
          BY <4>2
        <5> QED BY <1>3, <3>3, <4>2, <5>1
      <4>3. CASE h = 3 /\ i = 3
        <5>1. 3 + i = 6
          BY <4>3
        <5> QED BY <1>4, <3>3, <4>3, <5>1
      <4> QED BY <4>1, <4>2, <4>3
    <3> QED BY <3>2, <3>4, <3>5
  <2>2. 5 + h <= n
    BY <1>1, <1>6, <2>1
  <2>3. /\ 1 + h \in 1..n /\ 2 + h \in 1..n /\ 3 + h \in 1..n /\ 4 + h \in 1..n /\ 5 + h \in 1..n
        /\ 3 + (1 + h) = 4 + h /\ 3 + (2 + h) = 5 + h /\ 3 + (3 + h) = 6 + h
        /\ 3 + (4 + h) = 7 + h /\ 3 + (5 + h) = 8 + h
        /\ (2 + h) + 1 = 3 + h /\ (2 + h) + 2 = 4 + h /\ (2 + h) + 3 = 5 + h /\ 2 + h \in 1..(n - 3)
    BY <1>1, <2>2
  <2>4. \A i \in 1..n : rest[i] = E[3 + i]
    BY <1>0 DEF n
  <2>5. rest[1 + h] = E[4 + h] /\ rest[2 + h] = CR /\ rest[3 + h] = LF /\ rest[4 + h] = CR /\ rest[5 + h] = LF
    BY <1>0, <2>3, <2>4
  <2>6. 2 + h \in M /\ M \in SUBSET Nat
    BY <1>2, <2>1, <2>3, <2>5
  <2> DEFINE sep == Http!Min(M)
  <2>7. sep = 2 + h
    BY <2>1, <2>6, MinIs
  <2> HIDE DEF sep
  <2> DEFINE declared == {i \in 1..(sep - 1) : rest[i].kind = "Content-Length"}
  <2>8. declared = {1 + h}
    <3>1. sep - 1 = 1 + h /\ 1 + h \in 1..(sep - 1)
      BY <2>7
    <3>2. 1 + h \in declared
      <4>1. rest[1 + h].kind = "Content-Length"
        BY <1>3, <2>5, Zenon
      <4> QED BY <3>1, <4>1
    <3>3. ASSUME NEW i \in declared PROVE i = 1 + h
      <4>1. i \in 1..(1 + h) /\ i \in 1..n /\ rest[i].kind = "Content-Length"
        BY <1>1, <2>2, <3>1, <3>3
      <4>2. E[3 + i].kind = "Content-Length"
        BY <2>4, <4>1
      <4>3. CASE h = 3 /\ i = 1
        <5>1. 3 + i = 4
          BY <4>3
        <5> QED BY <1>4, <4>2, <4>3, <5>1
      <4>4. CASE h = 3 /\ i = 2
        <5>1. 3 + i = 5
          BY <4>4
        <5> QED BY <1>4, <4>2, <4>4, <5>1
      <4>5. CASE h = 3 /\ i = 3
        <5>1. 3 + i = 6
          BY <4>5
        <5> QED BY <1>4, <4>2, <4>5, <5>1
      <4> QED BY <4>1, <4>3, <4>4, <4>5
    <3> QED BY <3>2, <3>3
  <2> HIDE DEF declared
  <2>9. Http!Max(declared) = 1 + h /\ declared # {}
    <3>1. 1 + h \in declared /\ \A y \in declared : y = 1 + h
      BY <2>8
    <3>2. 1 + h >= 1 + h
      OBVIOUS
    <3>3. \A y \in declared : 1 + h >= y
      BY <3>1, <3>2
    <3> QED BY <3>1, <3>3 DEF Http!Max
  <2>10. rest[Http!Max(declared)].value = r.length
    BY <1>3, <2>5, <2>9
  <2>11. sep + 4 = 6 + h
    BY <2>7
  <2>12. Http!parseHeader(rest, known)
           = [result |-> "OK",
              length |-> IF declared = {} THEN known ELSE rest[Http!Max(declared)].value,
              rest |-> SubSeq(rest, sep + 4, Len(rest))]
    BY <1>6 DEF Http!parseHeader, Http!From, M, sep, declared
  <2>13. Http!parseHeader(rest, known) = [result |-> "OK", length |-> r.length, rest |-> SubSeq(rest, 6 + h, Len(rest))]
    BY <2>9, <2>10, <2>11, <2>12, Zenon
  <2> QED BY <2>2, <2>13 DEF n, Headed
<1> QED BY <1>5, <1>6

\* What is parsed of the beginning of an answer, however long: the answer, or nothing.
LEMMA ParsedWhole ==
    ASSUME NEW r \in Http!Honest, NEW chunk, Prefix(chunk, r)
    PROVE  \/ Http!Parsed(chunk) = Http!Failure
           \/ /\ Http!Parsed(chunk).status = r.status
              /\ r.length # Undeclared => Http!Parsed(chunk).body = r.body
<1> DEFINE start == Http!parseStartLine(chunk)
<1> DEFINE head == Http!parseHeader(start.rest, headers)
<1> DEFINE body == Http!parseBody(head.rest, head.length)
<1> DEFINE got == Http!Parsed(chunk)
<1>1. \/ got = Http!Failure
      \/ /\ start.result = "OK" /\ head.result = "OK" /\ body.result = "OK"
         /\ got.status = start.status /\ got.body = body.body
  BY DEF Http!Parsed
<1> HIDE DEF start, head, body, got
<1> SUFFICES ASSUME start.result = "OK", head.result = "OK", body.result = "OK",
                    got.status = start.status, got.body = body.body
             PROVE  /\ got.status = r.status
                    /\ r.length # Undeclared => got.body = r.body
  BY <1>1 DEF got
<1>2. start = [result |-> "OK", status |-> r.status, rest |-> SubSeq(chunk, 4, Len(chunk))] /\ 3 <= Len(chunk)
  BY StartLine DEF start
<1>3. start.status = r.status /\ start.rest = SubSeq(chunk, 4, Len(chunk))
  BY <1>2
<1>4. ASSUME r.length # Undeclared PROVE got.body = r.body
  <2> DEFINE E == Http!Encoded(r)
  <2>1. PICK h \in {0, 3} :
          /\ Len(E) = 8 + h + Len(r.body)
          /\ h = 3 => E[4] = Http!Token("header", 0) /\ E[5] = CR /\ E[6] = LF
          /\ E[4 + h] = Http!Token("Content-Length", r.length)
          /\ E[5 + h] = CR /\ E[6 + h] = LF /\ E[7 + h] = CR /\ E[8 + h] = LF
          /\ \A i \in 1..Len(r.body) : E[8 + h + i] = r.body[i]
    BY <1>4, EncodedStart
  <2>2. /\ chunk \in Seq(Sign) /\ Len(chunk) \in Nat /\ Len(chunk) <= Len(E)
        /\ \A i \in 1..Len(chunk) : chunk[i] = E[i]
    BY DEF Prefix
  <2>3. r.body \in Seq(Sign) /\ r.length = Len(r.body) /\ r.length \in Nat
    BY <1>4, HonestSays
  <2> HIDE DEF E
  <2> DEFINE rest == SubSeq(chunk, 4, Len(chunk))
  <2>4. /\ rest \in Seq(Sign) /\ Len(rest) = Len(chunk) - 3
        /\ \A i \in 1..(Len(chunk) - 3) : rest[i] = chunk[3 + i]
    <3>1. chunk \in Seq(Sign) /\ 3 \in Nat /\ 3 <= Len(chunk)
      BY <1>2, <2>2
    <3>2. /\ SubSeq(chunk, 3 + 1, Len(chunk)) \in Seq(Sign)
          /\ Len(SubSeq(chunk, 3 + 1, Len(chunk))) = Len(chunk) - 3
          /\ \A i \in 1..(Len(chunk) - 3) : SubSeq(chunk, 3 + 1, Len(chunk))[i] = chunk[3 + i]
      BY <3>1, Remainder
    <3>3. 3 + 1 = 4
      OBVIOUS
    <3> QED BY <3>2, <3>3
  <2> HIDE DEF rest
  <2>5. Len(rest) \in Nat /\ Len(rest) <= 5 + h + Len(r.body) /\ \A i \in 1..Len(rest) : rest[i] = E[3 + i]
    <3>1. Len(rest) \in Nat /\ Len(rest) <= 5 + h + Len(r.body)
      <4> DEFINE b == Len(r.body)
      <4> DEFINE c == Len(chunk)
      <4>1. Len(rest) = c - 3 /\ c \in Nat /\ c <= 8 + h + b /\ b \in Nat /\ 3 <= c
        BY <1>2, <2>1, <2>2, <2>3, <2>4
      <4> HIDE DEF b, c
      <4>2. c - 3 \in Nat /\ c - 3 <= 5 + h + b
        BY <4>1
      <4> QED BY <4>1, <4>2 DEF b
    <3>2. \A i \in 1..Len(rest) : 3 + i \in 1..Len(chunk) /\ i \in 1..(Len(chunk) - 3)
      BY <1>2, <2>2, <2>4
    <3> QED BY <2>2, <2>4, <3>1, <3>2
  <2>6. /\ head = [result |-> "OK", length |-> r.length, rest |-> SubSeq(rest, 6 + h, Len(rest))]
        /\ 5 + h <= Len(rest)
    <3>1. head = Http!parseHeader(rest, headers)
      BY <1>3 DEF head, rest
    <3>2. Declares(E, r, h) /\ Behind(rest, E)
      BY <2>1, <2>4, <2>5, Zenon DEF Declares, Behind
    <3>3. \/ Http!parseHeader(rest, headers).result # "OK"
          \/ Headed(Http!parseHeader(rest, headers), rest, r, h)
      BY <1>4, <3>2, HeaderLines
    <3>4. Headed(head, rest, r, h)
      BY <3>1, <3>3
    <3> QED BY <3>4 DEF Headed
  <2> DEFINE last == SubSeq(rest, 6 + h, Len(rest))
  <2>7. head.length = r.length /\ head.rest = last
    BY <2>6
  <2>8. /\ last \in Seq(Sign) /\ Len(last) = Len(rest) - (5 + h)
        /\ \A i \in 1..(Len(rest) - (5 + h)) : last[i] = rest[(5 + h) + i]
    <3> DEFINE k == 5 + h
    <3>1. k \in Nat /\ k <= Len(rest) /\ k + 1 = 6 + h
      BY <2>6
    <3> HIDE DEF k
    <3>2. /\ SubSeq(rest, k + 1, Len(rest)) \in Seq(Sign)
          /\ Len(SubSeq(rest, k + 1, Len(rest))) = Len(rest) - k
          /\ \A i \in 1..(Len(rest) - k) : SubSeq(rest, k + 1, Len(rest))[i] = rest[k + i]
      BY <2>4, <3>1, Remainder
    <3>3. /\ last \in Seq(Sign) /\ Len(last) = Len(rest) - k
          /\ \A i \in 1..(Len(rest) - k) : last[i] = rest[k + i]
      BY <3>1, <3>2
    <3> QED BY <3>3 DEF k
  <2> HIDE DEF last
  <2> DEFINE n == r.length
  <2>9. ~(Len(last) < n) /\ body.body = SubSeq(last, 1, n)
    BY <1>4, <2>7 DEF Http!parseBody, body
  <2> HIDE DEF n
  <2>10. n \in Nat /\ n <= Len(last) /\ Len(last) = Len(rest) - (5 + h) /\ n = Len(r.body)
    BY <2>3, <2>5, <2>6, <2>8, <2>9 DEF n
  <2> DEFINE found == SubSeq(last, 1, n)
  <2>11. /\ found \in Seq(Sign) /\ Len(found) = n /\ \A i \in 1..n : found[i] = last[i]
    <3>1. 1 \in Nat /\ 1 <= 1 /\ n <= Len(last) /\ 1 <= n + 1 /\ n - 1 + 1 = n /\ \A i \in 1..n : 1 + i - 1 = i
      BY <2>10
    <3>2. /\ found \in Seq(Sign) /\ Len(found) = n - 1 + 1 /\ \A i \in 1..(n - 1 + 1) : found[i] = last[1 + i - 1]
      <4>1. last \in Seq(Sign) /\ n \in Nat
        BY <2>8, <2>10
      <4> QED BY <3>1, <4>1, Piece
    <3> QED BY <3>1, <3>2
  <2> HIDE DEF found
  <2>12. ASSUME NEW i \in 1..n PROVE found[i] = r.body[i]
    <3>1. i \in 1..(Len(rest) - (5 + h)) /\ (5 + h) + i \in 1..Len(rest) /\ 3 + ((5 + h) + i) = 8 + h + i
      <4>1. n \in Nat /\ Len(rest) \in Nat /\ n <= Len(rest) - (5 + h)
        BY <2>5, <2>10
      <4> QED BY <2>12, <4>1
    <3>2. last[i] = rest[(5 + h) + i]
      BY <2>8, <3>1
    <3>3. rest[(5 + h) + i] = E[8 + h + i]
      BY <2>5, <3>1
    <3>4. E[8 + h + i] = r.body[i]
      <4>1. i \in 1..Len(r.body)
        BY <2>10, <2>12
      <4> QED BY <2>1, <4>1
    <3> QED BY <2>11, <3>2, <3>3, <3>4
  <2>13. found = r.body
    BY <2>3, <2>10, <2>11, <2>12, SameElements
  <2> QED BY <2>9, <2>13 DEF found
<1> QED BY <1>3, <1>4

-----------------------------------------------------------------------------
\* While the client waits, what it has been sent is the beginning of the answer the
\* server has chosen, and what is still to be sent, if anything, goes on from there.
Rest(some, before, r) ==
    /\ some \in Seq(Sign)
    /\ some # <<>> => /\ Len(before) + Len(some) = Len(Http!Encoded(r))
                      /\ \A i \in 1..Len(some) : some[i] = Http!Encoded(r)[Len(before) + i]
AnswerInv ==
    /\ response \in Http!Honest
    /\ client = "recv" => Prefix(wire, response) /\ Rest(unsent, wire, response)
    /\ WholeAnswer

\* A segment more is a longer beginning.
LEMMA SegmentStep ==
    ASSUME NEW r \in Http!Honest, NEW got, NEW some, Prefix(got, r), Rest(some, got, r), NEW n \in 1..Len(some)
    PROVE  /\ Prefix(got \o SubSeq(some, 1, n), r)
           /\ Rest(SubSeq(some, n + 1, Len(some)), got \o SubSeq(some, 1, n), r)
<1> DEFINE E == Http!Encoded(r)
<1> DEFINE g == Len(got)
<1> DEFINE m == Len(some)
<1> DEFINE one == SubSeq(some, 1, n)
<1> DEFINE two == SubSeq(some, n + 1, m)
<1> DEFINE more == got \o one
<1>1. got \in Seq(Sign) /\ g \in Nat /\ \A i \in 1..g : got[i] = E[i]
  BY DEF Prefix
<1>2. /\ some \in Seq(Sign) /\ m \in Nat /\ n \in Nat /\ 1 <= n /\ n <= m
  BY DEF Rest
<1>3. some # <<>>
  BY <1>2
<1>4. g + m = Len(E) /\ \A i \in 1..m : some[i] = E[g + i]
  BY <1>3 DEF Rest
<1>5. one \in Seq(Sign) /\ Len(one) = n /\ \A i \in 1..n : one[i] = some[i]
  <2>1. 1 \in Nat /\ 1 <= 1 /\ n <= Len(some) /\ 1 <= n + 1 /\ n - 1 + 1 = n /\ \A i \in 1..n : 1 + i - 1 = i
    BY <1>2
  <2>2. one \in Seq(Sign) /\ Len(one) = n - 1 + 1 /\ \A i \in 1..(n - 1 + 1) : one[i] = some[1 + i - 1]
    BY <1>2, <2>1, Piece
  <2> QED BY <2>1, <2>2
<1>6. two \in Seq(Sign) /\ Len(two) = m - n /\ \A i \in 1..(m - n) : two[i] = some[n + i]
  BY <1>2, Remainder
<1> HIDE DEF one, two
<1>7. /\ more \in Seq(Sign) /\ Len(more) = g + Len(one)
      /\ \A i \in 1..g : more[i] = got[i]
      /\ \A i \in 1..Len(one) : more[g + i] = one[i]
  <2>1. got \in Seq(Sign) /\ one \in Seq(Sign)
    BY <1>1, <1>5
  <2> QED BY <2>1, Joined
<1> HIDE DEF E, g, m, more
<1>8. Len(more) = g + n /\ Len(more) <= Len(E)
  <2>1. Len(more) = g + n
    BY <1>5, <1>7
  <2> QED BY <1>1, <1>2, <1>4, <2>1
<1>9. ASSUME NEW i \in 1..Len(more) PROVE more[i] = E[i]
  <2>1. CASE i \in 1..g
    BY <1>1, <1>7, <2>1
  <2>2. CASE i \notin 1..g
    <3> DEFINE j == i - g
    <3>1. j \in 1..n /\ j \in 1..m /\ g + j = i
      BY <1>1, <1>2, <1>8, <1>9, <2>2
    <3> HIDE DEF j
    <3>2. more[g + j] = one[j]
      BY <1>5, <1>7, <3>1
    <3> QED BY <1>4, <1>5, <3>1, <3>2
  <2> QED BY <2>1, <2>2
<1>10. Prefix(more, r)
  BY <1>7, <1>8, <1>9 DEF Prefix, E
<1>11. Len(more) + Len(two) = Len(E)
  <2>1. Len(two) = m - n
    BY <1>6
  <2>2. g \in Nat /\ n \in Nat /\ m \in Nat
    BY <1>1, <1>2
  <2>3. (g + n) + (m - n) = g + m
    BY <2>2
  <2>4. Len(more) = g + n /\ g + m = Len(E)
    BY <1>4, <1>8
  <2> QED BY <2>1, <2>3, <2>4
<1>12. ASSUME NEW i \in 1..Len(two) PROVE two[i] = E[Len(more) + i]
  <2>1. i \in 1..(m - n) /\ n + i \in 1..m /\ g + (n + i) = Len(more) + i
    <3>1. i \in 1..(m - n)
      BY <1>6, <1>12
    <3> QED BY <1>1, <1>2, <1>8, <3>1
  <2> QED BY <1>4, <1>6, <2>1
<1>13. Rest(two, more, r)
  BY <1>6, <1>11, <1>12 DEF Rest, E
<1> QED BY <1>10, <1>13 DEF more, one, two, m

Answers(Statuses, Lengths, Others, Bodies) ==
    {[status |-> st, length |-> l, other |-> o, body |-> Http!Body(n)] :
        st \in Statuses, l \in Lengths, o \in Others, n \in Bodies}

LEMMA SomeAnswer ==
    ASSUME NEW Statuses, NEW Lengths, NEW Others, NEW Bodies,
           NEW st \in Statuses, NEW l \in Lengths, NEW o \in Others, NEW n \in Bodies
    PROVE  [status |-> st, length |-> l, other |-> o, body |-> Http!Body(n)]
             \in Answers(Statuses, Lengths, Others, Bodies)
<1> DEFINE r == [status |-> st, length |-> l, other |-> o, body |-> Http!Body(n)]
<1>1. \E x \in Statuses, y \in Lengths, z \in Others, m \in Bodies :
         r = [status |-> x, length |-> y, other |-> z, body |-> Http!Body(m)]
  BY Zenon
<1> HIDE DEF r
<1>2. r \in Answers(Statuses, Lengths, Others, Bodies)
  BY <1>1 DEF Answers
<1> QED BY <1>2 DEF r

LEMMA AnswerStart == MCInit => AnswerInv
<1> SUFFICES ASSUME Http!HttpInit PROVE AnswerInv
  BY DEF MCInit
<1>1. client = "idle" /\ result = Http!Failure /\ response = CHOOSE r \in Http!Honest : TRUE
  BY DEF Http!HttpInit
<1>2. \E r : r \in Http!Honest
  <2>0. PICK ok \in Status, n \in BodyLength : TRUE
    BY AnswerAssumption
  <2> DEFINE r == [status |-> ok, length |-> Undeclared, other |-> TRUE, body |-> Http!Body(n)]
  <2>1. r \in Http!Response
    <3>1. Http!Response = Answers(Status, BodyLength \cup {Undeclared}, BOOLEAN, BodyLength)
      BY DEF Http!Response, Answers
    <3>2. Undeclared \in BodyLength \cup {Undeclared} /\ TRUE \in BOOLEAN
      OBVIOUS
    <3> QED BY <2>0, <3>1, <3>2, SomeAnswer, Zenon
  <2>2. r.length = Undeclared
    OBVIOUS
  <2>3. r \in Http!Honest
    BY <2>1, <2>2 DEF Http!Honest
  <2> QED BY <2>3
<1>3. response \in Http!Honest
  BY <1>1, <1>2
<1> QED BY <1>1, <1>3 DEF AnswerInv, WholeAnswer, Http!WholeAnswer

LEMMA AnswerStep == AnswerInv /\ [MCNext]_<<explored, streamVars, httpState, spelling>> => AnswerInv'
<1> SUFFICES ASSUME AnswerInv, [MCNext]_<<explored, streamVars, httpState, spelling>> PROVE AnswerInv'
  OBVIOUS
<1>1. CASE UNCHANGED httpState
  <2>1. UNCHANGED <<client, result, response, unsent, wire>>
    BY <1>1 DEF httpState
  <2> QED BY <2>1, Zenon DEF AnswerInv, WholeAnswer, Http!WholeAnswer
<1>2. CASE Http!httpGet \/ Http!httpPost
  <2>1. client' = "connect" /\ response' = response
    BY <1>2 DEF Http!httpGet, Http!httpPost, Http!call
  <2> QED BY <2>1 DEF AnswerInv, WholeAnswer, Http!WholeAnswer
<1>3. CASE Http!connectFails \/ Http!recvFails
  <2>1. client' = "idle" /\ response' = response /\ result' = Http!Failure
    BY <1>3 DEF Http!connectFails, Http!recvFails, Http!Return
  <2> QED BY <2>1 DEF AnswerInv, WholeAnswer, Http!WholeAnswer
<1>4. CASE Http!sendRequest
  <2>1. client' = "recv" /\ response' \in Http!Honest /\ unsent' = Http!Encoded(response') /\ wire' = <<>>
    BY <1>4 DEF Http!sendRequest
  <2>2. Http!Encoded(response') \in Seq(Sign)
    BY <2>1, EncodedStart
  <2>3. <<>> \in Seq(Sign) /\ Len(<<>>) = 0 /\ \A i \in 1..0 : FALSE
    OBVIOUS
  <2> DEFINE E == Http!Encoded(response')
  <2>4. Len(E) \in Nat /\ 0 + Len(E) = Len(E) /\ \A i \in 1..Len(E) : 0 + i = i
    BY <2>2
  <2>5. Prefix(wire', response')
    BY <2>1, <2>3, <2>4 DEF Prefix
  <2>6. Rest(unsent', wire', response')
    BY <2>1, <2>2, <2>3, <2>4 DEF Rest
  <2> QED BY <2>1, <2>5, <2>6 DEF AnswerInv, WholeAnswer, Http!WholeAnswer
<1>5. CASE Http!recvAnswer
  <2>1. /\ client = "recv" /\ client' = "idle" /\ result' = Http!Parsed(wire) /\ response' = response
    BY <1>5 DEF Http!recvAnswer, Http!Return
  <2>2. response \in Http!Honest /\ Prefix(wire, response)
    BY <2>1 DEF AnswerInv
  <2>3. \/ Http!Parsed(wire) = Http!Failure
        \/ /\ Http!Parsed(wire).status = response.status
           /\ response.length # Undeclared => Http!Parsed(wire).body = response.body
    BY <2>2, ParsedWhole
  <2> QED BY <2>1, <2>2, <2>3 DEF AnswerInv, WholeAnswer, Http!WholeAnswer
<1>6. CASE Http!ServerSends
  <2>1. /\ client = "recv" /\ client' = "recv" /\ response' = response
    BY <1>6 DEF Http!ServerSends
  <2>2. PICK n \in 1..Len(unsent) : /\ wire' = wire \o SubSeq(unsent, 1, n)
                                    /\ unsent' = SubSeq(unsent, n + 1, Len(unsent))
    BY <1>6 DEF Http!ServerSends, Http!From
  <2>3. response \in Http!Honest /\ Prefix(wire, response) /\ Rest(unsent, wire, response)
    BY <2>1 DEF AnswerInv
  <2>4. /\ Prefix(wire \o SubSeq(unsent, 1, n), response)
        /\ Rest(SubSeq(unsent, n + 1, Len(unsent)), wire \o SubSeq(unsent, 1, n), response)
    BY <2>3, SegmentStep
  <2>5. Prefix(wire', response') /\ Rest(unsent', wire', response')
    BY <2>1, <2>2, <2>4
  <2> QED BY <2>1, <2>3, <2>5 DEF AnswerInv, WholeAnswer, Http!WholeAnswer
<1>7. CASE Http!ServerCloses
  <2>1. client = "recv" /\ client' = "recv" /\ response' = response /\ wire' = wire /\ unsent' = <<>>
    BY <1>7 DEF Http!ServerCloses
  <2>2. Rest(unsent', wire', response')
    BY <2>1 DEF Rest
  <2> QED BY <2>1, <2>2 DEF AnswerInv, WholeAnswer, Http!WholeAnswer
<1>8. CASE MCNext
  <2>1. UNCHANGED httpState \/ Http!HttpNext
    BY <1>8 DEF MCNext, httpState
  <2> QED BY <1>1, <1>2, <1>3, <1>4, <1>5, <1>6, <1>7, <2>1 DEF Http!HttpNext
<1>9. CASE UNCHANGED <<explored, streamVars, httpState, spelling>>
  BY <1>1, <1>9
<1> QED BY <1>8, <1>9

\* httpGet and httpPost of the ESP32 port return an answer whose length is declared
\* whole or not at all, for any lengths of requests and answers, any number of calls
\* and wherever the answer is cut into segments or broken off.
THEOREM AnswersAreWhole == MCSpec => []WholeAnswer
<1>1. AnswerInv => WholeAnswer
  BY DEF AnswerInv
<1> QED BY <1>1, AnswerStart, AnswerStep, PTL DEF MCSpec
=============================================================================
