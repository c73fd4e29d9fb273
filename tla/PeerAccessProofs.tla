-------------------------- MODULE PeerAccessProofs --------------------------
(***************************************************************************)
(* What PeerAccess guarantees for any number of nodes, packets, Peers and  *)
(* changes of who is allowed, although the container has no lock: the      *)
(* properties of the run, each under the condition it states.              *)
(***************************************************************************)
EXTENDS MCPeerAccess, SequenceTheorems, TLAPS

Threads == {"main", "worker"}
Places == {"compare", "cached", "check", "find", "cacheId", "cachePeer", "none", "create"}
Packets == {NoPacket} \cup UNION {PacketTo(i) \cup PacketFrom(i) : i \in Others}
Task == [at : Places, id : Id, purpose : {"key", "address", "receive", "hello"},
         creates : BOOLEAN, packet : Packets, key : Nat, found : Nat]

TypeInv ==
    /\ allowed \subseteq Others
    /\ peers \in [Id -> Nat] /\ created \in Seq(Id)
    /\ cachedPeerId \in Id \cup {NoId} /\ cachedPeer \in Nat
    /\ thread \in [Threads -> {Idle} \cup Task]
    /\ \A d \in todo : d.id \in Others /\ d.packet \in PacketTo(d.id)
    /\ overlap \in BOOLEAN /\ midway \in BOOLEAN /\ revoked \subseteq Others

USE IdAssumption

-----------------------------------------------------------------------------
(* Tasks. *)

LEMMA IdleIsNoTask == Idle.at = "idle" /\ \A k \in Task : k.at # "idle"
BY DEF Idle, Task, Places

\* A thread that is somewhere in getPeer has a task.
LEMMA HasTask ==
    ASSUME TypeInv, NEW t \in Threads, thread[t].at # "idle"
    PROVE  thread[t] \in Task
BY IdleIsNoTask DEF TypeInv

\* The same task at another place.
SameTask(k, l) ==
    /\ l.id = k.id /\ l.purpose = k.purpose /\ l.packet = k.packet /\ l.key = k.key
    /\ l.creates = k.creates

LEMMA GoesTo ==
    ASSUME TypeInv, NEW t \in Threads, thread[t].at # "idle", NEW to \in Places, Goes(t, to)
    PROVE  /\ thread' \in [Threads -> {Idle} \cup Task]
           /\ \A u \in Threads : u # t => thread'[u] = thread[u]
           /\ thread'[t] \in Task /\ thread'[t].at = to /\ thread'[t].found = thread[t].found
           /\ SameTask(thread[t], thread'[t])
<1>1. thread[t] \in Task
  BY HasTask
<1>2. thread \in [Threads -> {Idle} \cup Task]
  BY DEF TypeInv
<1>3. thread' = [thread EXCEPT ![t] = [thread[t] EXCEPT !.at = to]]
  BY DEF Goes
<1>4. [thread[t] EXCEPT !.at = to] \in Task
  BY <1>1 DEF Task
<1>5. thread'[t] = [thread[t] EXCEPT !.at = to] /\ \A u \in Threads : u # t => thread'[u] = thread[u]
  BY <1>2, <1>3
<1>6. thread' \in [Threads -> {Idle} \cup Task]
  BY <1>2, <1>3, <1>4
<1>7. thread'[t].at = to /\ thread'[t].found = thread[t].found /\ SameTask(thread[t], thread'[t])
  BY <1>1, <1>5 DEF Task, SameTask
<1> QED BY <1>4, <1>5, <1>6, <1>7

\* find moves a thread and tells it what has been found.
LEMMA Finds ==
    ASSUME TypeInv, NEW t \in Threads, find(t)
    PROVE  /\ thread' \in [Threads -> {Idle} \cup Task]
           /\ \A u \in Threads : u # t => thread'[u] = thread[u]
           /\ thread'[t] \in Task /\ thread[t] \in Task
           /\ thread'[t].at = IF peers[thread[t].id] = NULL THEN "none" ELSE "cacheId"
           /\ thread'[t].found = peers[thread[t].id]
           /\ SameTask(thread[t], thread'[t])
<1>1. thread[t] \in Task
  BY HasTask DEF find
<1>2. thread \in [Threads -> {Idle} \cup Task]
  BY DEF TypeInv
<1>3. peers[thread[t].id] \in Nat
  BY <1>1 DEF TypeInv, Task
<1> DEFINE to == IF peers[thread[t].id] = NULL THEN "none" ELSE "cacheId"
           k == [thread[t] EXCEPT !.at = to, !.found = peers[thread[t].id]]
<1>4. thread' = [thread EXCEPT ![t] = k]
  BY <1>1, <1>2 DEF find
<1>5. k \in Task /\ k.at = to /\ k.found = peers[thread[t].id] /\ SameTask(thread[t], k)
  BY <1>1, <1>3 DEF Task, SameTask, Places
<1> HIDE DEF k
<1>6. thread'[t] = k /\ \A u \in Threads : u # t => thread'[u] = thread[u]
  BY <1>2, <1>4
<1>7. thread' \in [Threads -> {Idle} \cup Task]
  BY <1>2, <1>4, <1>5
<1> QED BY <1>1, <1>5, <1>6, <1>7

\* What the caller does with what getOrCreatePeer returns.
Onward(t, peer) ==
    /\ thread[t].purpose = "key" /\ peer # NULL
    /\ thread'[t] \in Task
    /\ thread'[t].at = "compare" /\ thread'[t].id = thread[t].id
    /\ thread'[t].purpose = "address" /\ thread'[t].packet = thread[t].packet
    /\ thread'[t].key = peer
    /\ UNCHANGED <<sent, tun>>
Sends(t, peer) ==
    /\ thread[t].purpose = "address" /\ peer # NULL
    /\ thread'[t] = Idle
    /\ sent' = [to |-> created'[peer], key |-> created'[thread[t].key], packet |-> thread[t].packet,
                meant |-> thread[t].id, message |-> Message(thread[t].packet)]
    /\ UNCHANGED tun
Receives(t, peer) ==
    /\ thread[t].purpose = "receive" /\ peer # NULL
    /\ thread'[t] = Idle
    /\ tun' = IF created'[peer] = thread[t].id
              THEN Decoded(thread[t].id, Me, Message(thread[t].packet)) ELSE tun
    /\ UNCHANGED sent
GivesUp(t, peer) ==
    /\ peer = NULL \/ thread[t].purpose = "hello"
    /\ thread'[t] = Idle
    /\ UNCHANGED <<sent, tun>>

LEMMA ReturnedCases ==
    ASSUME TypeInv, NEW t \in Threads, thread[t].at # "idle", NEW peer \in Nat, Returned(t, peer)
    PROVE  /\ thread' \in [Threads -> {Idle} \cup Task]
           /\ \A u \in Threads : u # t => thread'[u] = thread[u]
           /\ Onward(t, peer) \/ Sends(t, peer) \/ Receives(t, peer) \/ GivesUp(t, peer)
<1>1. thread[t] \in Task
  BY HasTask
<1>2. /\ thread[t].id \in Id /\ thread[t].packet \in Packets
      /\ thread[t].purpose \in {"key", "address", "receive", "hello"}
  BY <1>1 DEF Task
<1>3. thread \in [Threads -> {Idle} \cup Task]
  BY DEF TypeInv
<1>4. CASE thread[t].purpose = "key" /\ peer # NULL
  <2> DEFINE k == Lookup(thread[t].id, "address", TRUE, thread[t].packet, peer)
  <2>1. thread' = [thread EXCEPT ![t] = k] /\ UNCHANGED <<sent, tun>>
    BY <1>4 DEF Returned
  <2>2. /\ k \in Task /\ k.at = "compare" /\ k.id = thread[t].id /\ k.purpose = "address"
        /\ k.packet = thread[t].packet /\ k.key = peer
    BY <1>2 DEF Lookup, Task, Places, NULL
  <2> HIDE DEF k
  <2>3. thread'[t] = k /\ thread' \in [Threads -> {Idle} \cup Task]
        /\ \A u \in Threads : u # t => thread'[u] = thread[u]
    BY <1>3, <2>1, <2>2
  <2> QED BY <1>4, <2>1, <2>2, <2>3 DEF Onward
<1>5. CASE ~(thread[t].purpose = "key" /\ peer # NULL)
  <2>1. thread' = [thread EXCEPT ![t] = Idle]
    BY <1>5 DEF Returned
  <2>2. thread'[t] = Idle /\ thread' \in [Threads -> {Idle} \cup Task]
        /\ \A u \in Threads : u # t => thread'[u] = thread[u]
    BY <1>3, <2>1
  <2>3. CASE thread[t].purpose = "address" /\ peer # NULL
    BY <2>2, <2>3 DEF Returned, Sends
  <2>4. CASE thread[t].purpose = "receive" /\ peer # NULL
    BY <2>2, <2>4 DEF Returned, Receives
  <2>5. CASE peer = NULL \/ thread[t].purpose = "hello"
    BY <2>2, <2>5 DEF Returned, GivesUp
  <2> QED BY <1>2, <1>5, <2>2, <2>3, <2>4, <2>5
<1> QED BY <1>4, <1>5

-----------------------------------------------------------------------------
(* Types. *)

LEMMA InitTyped == Init => TypeInv
<1> SUFFICES ASSUME Init PROVE TypeInv
  OBVIOUS
<1>1. created \in Seq(Id)
  BY DEF Init
<1> QED BY <1>1 DEF Init, TypeInv, Threads, NULL

\* A new task of t, and the other thread as it was.
LEMMA StartsTask ==
    ASSUME TypeInv, NEW t \in Threads, NEW k \in Task, thread' = [thread EXCEPT ![t] = k]
    PROVE  /\ thread' \in [Threads -> {Idle} \cup Task]
           /\ thread'[t] = k
           /\ \A u \in Threads : u # t => thread'[u] = thread[u]
BY DEF TypeInv

\* What starts a lookup: the task that the thread gets.
Starts(t) ==
    /\ ~Busy(t)
    /\ thread' \in [Threads -> {Idle} \cup Task]
    /\ thread'[t] \in Task /\ thread'[t].at = "compare"
    /\ \/ thread'[t].purpose = "key" /\ thread'[t].id \in Others
          /\ thread'[t].packet \in PacketTo(thread'[t].id)
       \/ thread'[t].purpose \in {"receive", "hello"}
    /\ \A u \in Threads : u # t => thread'[u] = thread[u]
    /\ Enters(t)
    /\ sent' \in {sent, Nothing} /\ tun' \in {tun, NoPacket}
    /\ todo' \subseteq todo
    /\ UNCHANGED <<allowed, containerVars, midway, revoked, changes>>

LEMMA SendNextStarts ==
    ASSUME TypeInv, NEW d \in todo, sendNext(d)
    PROVE  Starts("main")
<1> DEFINE k == Lookup(d.id, "key", TRUE, d.packet, NULL)
<1>1. d.id \in Others /\ d.packet \in PacketTo(d.id)
  BY DEF TypeInv
<1>2. d.packet \in Packets /\ d.id \in Id
  BY <1>1 DEF Packets, Id
<1>3. /\ k \in Task /\ k.at = "compare" /\ k.purpose = "key"
      /\ k.id = d.id /\ k.packet = d.packet
  BY <1>2 DEF Lookup, Task, Places, NULL
<1>4. thread' = [thread EXCEPT !["main"] = k]
  BY DEF sendNext
<1> HIDE DEF k
<1>5. /\ thread' \in [Threads -> {Idle} \cup Task] /\ thread'["main"] = k
      /\ \A u \in Threads : u # "main" => thread'[u] = thread[u]
  BY <1>3, <1>4, StartsTask DEF Threads
<1> QED BY <1>1, <1>3, <1>5 DEF Starts, sendNext

LEMMA DataStarts ==
    ASSUME TypeInv, NEW i \in Others, NEW p \in PacketFrom(i), dataReceived(i, p)
    PROVE  Starts("main")
<1> DEFINE k == Lookup(i, "receive", TRUE, p, NULL)
<1>1. p \in Packets /\ i \in Id
  BY DEF Packets, Id
<1>2. k \in Task /\ k.at = "compare" /\ k.purpose = "receive"
  BY <1>1 DEF Lookup, Task, Places, NULL
<1>3. thread' = [thread EXCEPT !["main"] = k]
  BY DEF dataReceived
<1> HIDE DEF k
<1>4. /\ thread' \in [Threads -> {Idle} \cup Task] /\ thread'["main"] = k
      /\ \A u \in Threads : u # "main" => thread'[u] = thread[u]
  BY <1>2, <1>3, StartsTask DEF Threads
<1> QED BY <1>2, <1>4 DEF Starts, dataReceived

LEMMA HelloStarts ==
    ASSUME TypeInv, NEW i \in Id, NEW creates \in BOOLEAN, helloReceived(i, creates)
    PROVE  Starts("worker")
<1> DEFINE k == Lookup(i, "hello", creates, NoPacket, NULL)
<1>1. NoPacket \in Packets
  BY DEF Packets
<1>2. k \in Task /\ k.at = "compare" /\ k.purpose = "hello"
  BY <1>1 DEF Lookup, Task, Places, NULL
<1>3. thread' = [thread EXCEPT !["worker"] = k]
  BY DEF helloReceived
<1> HIDE DEF k
<1>4. /\ thread' \in [Threads -> {Idle} \cup Task] /\ thread'["worker"] = k
      /\ \A u \in Threads : u # "worker" => thread'[u] = thread[u]
  BY <1>2, <1>3, StartsTask DEF Threads
<1> QED BY <1>2, <1>4 DEF Starts, helloReceived

-----------------------------------------------------------------------------
(* MulticastLayer: a packet survives the way to the peer. *)

LEMMA AfterOne ==
    ASSUME NEW x \in 0..255, NEW s \in Seq(0..255)
    PROVE  /\ (<<x>> \o s)[1] = x /\ Len(<<x>> \o s) = Len(s) + 1
           /\ Tail(<<x>> \o s) = s
<1>1. <<x>> \in Seq(0..255) /\ Len(<<x>>) = 1 /\ <<x>>[1] = x
  OBVIOUS
<1>2. <<x>> \o s \in Seq(0..255) /\ Len(<<x>> \o s) = Len(s) + 1 /\ (<<x>> \o s)[1] = x
  BY <1>1
<1>3. \A i \in 1..Len(s) : (<<x>> \o s)[i + 1] = s[i]
  BY <1>1
<1>4. Tail(<<x>> \o s) \in Seq(0..255) /\ Len(Tail(<<x>> \o s)) = Len(s)
      /\ \A i \in 1..Len(s) : Tail(<<x>> \o s)[i] = (<<x>> \o s)[i + 1]
  BY <1>2
<1>5. Tail(<<x>> \o s) = s
  BY <1>3, <1>4, SeqEqual
<1> QED BY <1>2, <1>5

LEMMA AfterThree ==
    ASSUME NEW h \in Seq(0..255), Len(h) = 3, NEW s \in Seq(0..255)
    PROVE  /\ Len(h \o s) = Len(s) + 3
           /\ (h \o s)[1] = h[1] /\ (h \o s)[2] = h[2] /\ (h \o s)[3] = h[3]
           /\ SubSeq(h \o s, 4, Len(h \o s)) = s
<1> DEFINE b == h \o s
<1>1. Len(s) \in Nat
  OBVIOUS
<1>2. /\ b \in Seq(0..255) /\ Len(b) = Len(h) + Len(s)
      /\ \A i \in 1..Len(h) + Len(s) : b[i] = IF i <= Len(h) THEN h[i] ELSE s[i - Len(h)]
  BY ConcatProperties
<1> HIDE DEF b
<1>3. Len(b) = Len(s) + 3 /\ b[1] = h[1] /\ b[2] = h[2] /\ b[3] = h[3]
  BY <1>1, <1>2
<1>4. \A i \in 1..Len(s) : b[i + 3] = s[i]
  BY <1>1, <1>2
<1>5. \A i \in 4..Len(b) : b[i] \in 0..255
  <2>1. \A i \in 1..Len(b) : b[i] \in 0..255
    BY <1>2, ElementOfSeq, Zenon
  <2>2. \A i \in 4..Len(b) : i \in 1..Len(b)
    BY <1>1, <1>3
  <2> QED BY <2>1, <2>2, Zenon
<1>6. /\ SubSeq(b, 4, Len(b)) \in Seq(0..255)
      /\ Len(SubSeq(b, 4, Len(b))) = IF 4 <= Len(b) THEN Len(b) - 4 + 1 ELSE 0
      /\ \A i \in 1..Len(b) - 4 + 1 : SubSeq(b, 4, Len(b))[i] = b[4 + i - 1]
  <2>1. 4 \in Int /\ Len(b) \in Int
    BY <1>1, <1>3
  <2> QED BY <1>5, <2>1, SubSeqProperties
<1>7. Len(b) - 4 + 1 = Len(s) /\ \A i \in 1..Len(s) : 4 + i - 1 = i + 3
  BY <1>1, <1>3
<1>8. Len(SubSeq(b, 4, Len(b))) = Len(s) /\ \A i \in 1..Len(s) : SubSeq(b, 4, Len(b))[i] = s[i]
  BY <1>1, <1>3, <1>4, <1>6, <1>7
<1>9. SubSeq(b, 4, Len(b)) = s
  BY <1>6, <1>8, SeqEqual
<1> QED BY <1>3, <1>9 DEF b

\* What MulticastLayer makes of a packet for i reads, at i, as the packet it was.
LEMMA DecodesAsSent ==
    ASSUME NEW i \in Others, NEW p \in PacketTo(i)
    PROVE  Decoded(Me, i, Message(p)) = p
<1>1. /\ p.source = Me /\ p.target \in {i} \cup Group /\ p.protocol \in 0..254
      /\ p.payload \in Seq(0..255)
  BY ProtocolAssumption DEF PacketTo
<1>r. p = [source |-> p.source, target |-> p.target, protocol |-> p.protocol, payload |-> p.payload]
  BY DEF PacketTo
<1>2. CASE p.target \in Group
  <2> DEFINE m == Message(p)
             b == <<255, 1, p.protocol>> \o p.payload
  <2>1. m.group = p.target /\ Bytes(m) = b
    BY <1>2 DEF Message, Bytes
  <2>2. /\ Len(b) = Len(p.payload) + 3 /\ b[1] = 255 /\ b[2] = 1 /\ b[3] = p.protocol
        /\ SubSeq(b, 4, Len(b)) = p.payload
    <3> DEFINE h == <<255, 1, p.protocol>>
    <3>1. p.protocol \in 0..255
      BY <1>1
    <3>2. h \in Seq(0..255) /\ Len(h) = 3 /\ h[1] = 255 /\ h[2] = 1 /\ h[3] = p.protocol
      BY <3>1
    <3> HIDE DEF h
    <3>3. Len(h \o p.payload) = Len(p.payload) + 3
          /\ (h \o p.payload)[1] = h[1] /\ (h \o p.payload)[2] = h[2] /\ (h \o p.payload)[3] = h[3]
          /\ SubSeq(h \o p.payload, 4, Len(h \o p.payload)) = p.payload
      BY <1>1, <3>2, AfterThree
    <3> QED BY <3>2, <3>3 DEF h
  <2>3. Len(b) >= 2
    BY <1>1, <2>2
  <2> HIDE DEF m, b
  <2>4. Decoded(Me, i, m) = [source |-> Me, target |-> p.target, protocol |-> p.protocol,
                             payload |-> p.payload]
    BY <2>1, <2>2, <2>3 DEF Decoded
  <2> QED BY <1>1, <1>r, <2>4 DEF m
<1>3. CASE p.target = i /\ p.target \notin Group
  <2> DEFINE m == Message(p)
             b == <<p.protocol>> \o p.payload
  <2>1. Bytes(m) = b
    BY <1>3 DEF Message, Bytes
  <2>2. b[1] = p.protocol /\ Tail(b) = p.payload
    <3>1. p.protocol \in 0..255
      BY <1>1
    <3> QED BY <1>1, <3>1, AfterOne
  <2>3. p.protocol # 255
    <3>1. \A x \in 0..254 : x # 255
      OBVIOUS
    <3> QED BY <1>1, <3>1, Zenon
  <2> HIDE DEF m, b
  <2>4. Decoded(Me, i, m) = [source |-> Me, target |-> i, protocol |-> p.protocol,
                             payload |-> p.payload]
    BY <2>1, <2>2, <2>3 DEF Decoded
  <2> QED BY <1>1, <1>r, <1>3, <2>4 DEF m
<1> QED BY <1>1, <1>2, <1>3

-----------------------------------------------------------------------------
(***************************************************************************)
(* The inductive invariant.  What a thread knows in the middle of a lookup *)
(* is still true when it uses it: always (TaskInv), while the two threads  *)
(* have not met (TaskQuiet), and while also nobody has changed who is      *)
(* allowed in the middle of a lookup (TaskSingle).                         *)
(***************************************************************************)
\* The map holds exactly the latest Peer of each id that has one.
MapInv ==
    \A i \in Id :
        IF peers[i] = NULL THEN \A n \in 1..Len(created) : created[n] # i
                           ELSE peers[i] \in 1..Len(created) /\ created[peers[i]] = i

TaskInv(t) ==
    /\ thread[t].at \in {"cacheId", "cachePeer"} =>
           thread[t].found \in 1..Len(created) /\ created[thread[t].found] = thread[t].id
    /\ Busy(t) /\ thread[t].purpose = "address" => thread[t].key \in 1..Len(created)
    /\ Busy(t) /\ thread[t].purpose \in {"key", "address"} =>
           thread[t].id \in Others /\ thread[t].packet \in PacketTo(thread[t].id)

TaskQuiet(t) ==
    ~overlap =>
        /\ thread[t].at \in {"cached", "cachePeer"} => cachedPeerId = thread[t].id
        /\ Busy(t) /\ thread[t].purpose = "address" => created[thread[t].key] = thread[t].id

TaskSingle(t) ==
    ~overlap /\ ~midway =>
        /\ thread[t].at = "none" => thread[t].id \notin allowed \/ peers[thread[t].id] = NULL
        /\ thread[t].at = "create" => peers[thread[t].id] = NULL

\* A thread past the check is not looking up somebody who has been disallowed.
TaskAllowed(t) ==
    thread[t].at \in {"cached", "find", "cacheId", "cachePeer", "create"}
        => thread[t].id \notin revoked

\* The cached id and the cached Peer belong together.
CacheInv ==
    /\ cachedPeer \in 0..Len(created)
    /\ ~overlap /\ cachedPeerId # NoId /\ (\A t \in Threads : thread[t].at # "cachePeer") =>
           cachedPeer # NULL /\ created[cachedPeer] = cachedPeerId

OneBusy == ~overlap => \A t, u \in Threads : Busy(t) /\ Busy(u) => t = u
RevokedInv == revoked \cap allowed = {} /\ cachedPeerId \notin revoked

TasksInv == \A t \in Threads : TaskInv(t) /\ TaskQuiet(t) /\ TaskSingle(t) /\ TaskAllowed(t)
PeerInv ==
    /\ TypeInv /\ MapInv /\ CacheInv /\ OneBusy /\ RevokedInv /\ TasksInv
    /\ RightPeer /\ OnePeerEach

-----------------------------------------------------------------------------
(* A step of one thread. *)

\* Peers are never removed.
Extends == \A n \in 1..Len(created) : n \in 1..Len(created') /\ created'[n] = created[n]

\* What a thread knows is not disturbed by a step of the other.
LEMMA OtherThread ==
    ASSUME PeerInv, NEW t \in Threads, NEW u \in Threads, u # t, Busy(t),
           thread'[u] = thread[u], Extends, UNCHANGED <<overlap, midway, revoked>>
    PROVE  TaskInv(u)' /\ TaskQuiet(u)' /\ TaskSingle(u)' /\ TaskAllowed(u)'
<1>1. TaskInv(u) /\ TaskAllowed(u)
  BY DEF PeerInv, TasksInv
<1>2. ~overlap => thread[u].at = "idle"
  BY DEF PeerInv, OneBusy, Busy
<1>3. TaskInv(u)'
  BY <1>1 DEF TaskInv, Extends, Busy
<1>4. TaskAllowed(u)'
  BY <1>1 DEF TaskAllowed
<1>5. TaskQuiet(u)' /\ TaskSingle(u)'
  BY <1>2 DEF TaskQuiet, TaskSingle, Busy
<1> QED BY <1>3, <1>4, <1>5

\* t moves on with the same task; of what is shared it changes cachedPeerId at most.
Walks(t) ==
    /\ thread[t] \in Task /\ thread'[t] \in Task /\ SameTask(thread[t], thread'[t])
    /\ thread' \in [Threads -> {Idle} \cup Task]
    /\ \A u \in Threads : u # t => thread'[u] = thread[u]
    /\ UNCHANGED <<allowed, todo, historyVars, peers, created, cachedPeer, sent, tun>>

\* What has to be shown of the place t moves to.
Arrives(t) ==
    LET k == thread'[t] IN
    /\ k.at \in {"cacheId", "cachePeer"} => k.found \in 1..Len(created) /\ created[k.found] = k.id
    /\ ~overlap /\ k.at \in {"cached", "cachePeer"} => cachedPeerId' = k.id
    /\ ~overlap /\ ~midway /\ k.at = "none" => k.id \notin allowed \/ peers[k.id] = NULL
    /\ ~overlap /\ ~midway /\ k.at = "create" => peers[k.id] = NULL
    /\ k.at \in {"cached", "find", "cacheId", "cachePeer", "create"} => k.id \notin revoked
    /\ \/ UNCHANGED cachedPeerId /\ thread[t].at # "cachePeer"
       \/ k.at = "cachePeer" /\ cachedPeerId' = k.id

LEMMA WalkKeeps ==
    ASSUME PeerInv, NEW t \in Threads, Walks(t), Arrives(t)
    PROVE  PeerInv'
<1> USE DEF historyVars
<1>1. /\ thread[t].at # "idle" /\ thread'[t].at # "idle" /\ thread'[t].id \in Id
      /\ Busy(t) /\ Busy(t)'
  BY IdleIsNoTask DEF Walks, Busy, Task
<1>2. Extends /\ UNCHANGED <<overlap, midway, revoked>>
  BY DEF Walks, Extends
<1>3. TypeInv'
  BY <1>1 DEF PeerInv, TypeInv, Walks, Arrives
<1>4. MapInv'
  BY DEF PeerInv, MapInv, Walks
<1>5. CacheInv'
  <2>1. CASE UNCHANGED cachedPeerId /\ thread[t].at # "cachePeer"
    BY <2>1 DEF PeerInv, CacheInv, Walks
  <2>2. CASE thread'[t].at = "cachePeer"
    BY <2>2 DEF PeerInv, CacheInv, Walks
  <2> QED BY <2>1, <2>2 DEF Arrives
<1>6. OneBusy'
  BY <1>1 DEF PeerInv, OneBusy, Busy, Walks
<1>7. RevokedInv'
  BY DEF PeerInv, RevokedInv, Walks, Arrives
<1>8. RightPeer' /\ OnePeerEach'
  BY DEF PeerInv, RightPeer, OnePeerEach, Walks
<1>9. TaskInv(t)'
  <2>1. TaskInv(t)
    BY DEF PeerInv, TasksInv
  <2> QED BY <1>1, <2>1 DEF TaskInv, Walks, Arrives, SameTask
<1>10. TaskQuiet(t)'
  <2>1. TaskQuiet(t)
    BY DEF PeerInv, TasksInv
  <2> QED BY <1>1, <2>1 DEF TaskQuiet, Walks, Arrives, SameTask
<1>11. TaskSingle(t)' /\ TaskAllowed(t)'
  BY DEF TaskSingle, TaskAllowed, Walks, Arrives
<1>12. TasksInv'
  BY <1>1, <1>2, <1>9, <1>10, <1>11, OtherThread DEF TasksInv, Walks
<1> QED BY <1>3, <1>4, <1>5, <1>6, <1>7, <1>8, <1>12 DEF PeerInv

\* t has found a Peer, or none, and goes on to what it wanted it for.
LEMMA ReturnKeeps ==
    ASSUME PeerInv, NEW t \in Threads, thread[t] \in Task, NEW peer \in 0..Len(created'),
           Returned(t, peer), Extends,
           UNCHANGED <<allowed, todo, historyVars, cachedPeerId>>,
           created' \in Seq(Id), peers' \in [Id -> Nat], cachedPeer' \in Nat,
           peer # NULL /\ ~overlap => created'[peer] = thread[t].id,
           MapInv', CacheInv', OnePeerEach'
    PROVE  PeerInv'
<1> USE DEF historyVars
<1>1. thread[t].at # "idle" /\ Busy(t)
  BY IdleIsNoTask DEF Busy
<1>2. peer \in Nat
  OBVIOUS
<1>3. /\ thread' \in [Threads -> {Idle} \cup Task]
      /\ \A u \in Threads : u # t => thread'[u] = thread[u]
      /\ Onward(t, peer) \/ Sends(t, peer) \/ Receives(t, peer) \/ GivesUp(t, peer)
  BY <1>1, <1>2, ReturnedCases DEF PeerInv
<1>4. TypeInv'
  BY <1>3 DEF PeerInv, TypeInv
<1>5. \A u \in Threads : u # t => (thread[u].at = "idle" \/ overlap)
  BY <1>1 DEF PeerInv, OneBusy, Busy
<1>6. OneBusy'
  BY <1>3, <1>5 DEF OneBusy, Busy
<1>7. RevokedInv'
  BY DEF PeerInv, RevokedInv
<1>8. \/ thread'[t] = Idle
      \/ Onward(t, peer)
  BY <1>3 DEF Sends, Receives, GivesUp
<1>9. TaskInv(t) /\ TaskQuiet(t)
  BY DEF PeerInv, TasksInv
<1>10. TaskInv(t)' /\ TaskQuiet(t)' /\ TaskSingle(t)' /\ TaskAllowed(t)'
  <2>1. CASE thread'[t] = Idle
    BY <2>1, IdleIsNoTask DEF TaskInv, TaskQuiet, TaskSingle, TaskAllowed, Busy
  <2>2. CASE Onward(t, peer)
    <3>1. /\ thread'[t].at = "compare" /\ thread'[t].purpose = "address"
          /\ thread'[t].id = thread[t].id /\ thread'[t].packet = thread[t].packet
          /\ thread'[t].key = peer /\ peer # NULL /\ thread[t].purpose = "key"
      BY <2>2 DEF Onward
    <3>2. thread[t].id \in Others /\ thread[t].packet \in PacketTo(thread[t].id)
      BY <1>1, <1>9, <3>1 DEF TaskInv
    <3>3. peer \in 1..Len(created')
      BY <3>1 DEF NULL
    <3>4. TaskInv(t)'
      BY <3>1, <3>2, <3>3 DEF TaskInv
    <3>5. TaskQuiet(t)' /\ TaskSingle(t)' /\ TaskAllowed(t)'
      BY <3>1 DEF TaskQuiet, TaskSingle, TaskAllowed
    <3> QED BY <3>4, <3>5
  <2> QED BY <1>8, <2>1, <2>2
<1>11. TasksInv'
  BY <1>1, <1>3, <1>10, OtherThread DEF TasksInv
<1>12. RightPeer'
  <2>1. CASE Sends(t, peer)
    <3>1. /\ thread[t].purpose = "address" /\ peer # NULL
          /\ sent'.to = created'[peer] /\ sent'.key = created'[thread[t].key]
          /\ sent'.packet = thread[t].packet /\ sent'.meant = thread[t].id
          /\ sent'.message = Message(thread[t].packet)
      BY <2>1 DEF Sends
    <3>2. /\ thread[t].id \in Others /\ thread[t].packet \in PacketTo(thread[t].id)
          /\ thread[t].key \in 1..Len(created)
      BY <1>1, <1>9, <3>1 DEF TaskInv
    <3>3. ~overlap => created'[thread[t].key] = thread[t].id
      BY <1>1, <1>9, <3>1, <3>2 DEF TaskQuiet, Extends
    <3>4. Decoded(Me, thread[t].id, Message(thread[t].packet)) = thread[t].packet
      BY <3>2, DecodesAsSent
    <3> QED BY <3>1, <3>3, <3>4 DEF RightPeer
  <2>2. CASE UNCHANGED sent
    BY <2>2 DEF PeerInv, RightPeer
  <2> QED BY <1>3, <2>1, <2>2 DEF Onward, Receives, GivesUp
<1> QED BY <1>4, <1>6, <1>7, <1>11, <1>12 DEF PeerInv

-----------------------------------------------------------------------------
(* The steps of getOrCreatePeer. *)

LEMMA AtPlace ==
    ASSUME PeerInv, NEW t \in Threads, thread[t].at \in Places
    PROVE  thread[t] \in Task /\ thread[t].at # "idle" /\ thread[t].id \in Id
<1>1. thread[t].at # "idle"
  BY DEF Places
<1>2. thread[t] \in Task
  BY <1>1, HasTask DEF PeerInv
<1> QED BY <1>1, <1>2 DEF Task

\* A thread that goes elsewhere and changes nothing shared.
LEMMA LocalWalk ==
    ASSUME PeerInv, NEW t \in Threads, thread[t].at \in Places, NEW to \in Places, Goes(t, to),
           UNCHANGED <<allowed, todo, historyVars, peers, created, cachedPeer, sent, tun>>
    PROVE  /\ Walks(t) /\ thread'[t].at = to /\ thread'[t].found = thread[t].found
           /\ thread'[t].id = thread[t].id /\ thread'[t].creates = thread[t].creates
<1>1. thread[t] \in Task /\ thread[t].at # "idle"
  BY AtPlace
<1>2. /\ thread' \in [Threads -> {Idle} \cup Task]
      /\ \A u \in Threads : u # t => thread'[u] = thread[u]
      /\ thread'[t] \in Task /\ thread'[t].at = to /\ thread'[t].found = thread[t].found
      /\ SameTask(thread[t], thread'[t])
  BY <1>1, GoesTo DEF PeerInv
<1> QED BY <1>1, <1>2 DEF Walks, SameTask

LEMMA CompareKeeps ==
    ASSUME PeerInv, NEW t \in Threads, compareCached(t)
    PROVE  PeerInv'
<1> DEFINE to == IF cachedPeerId = thread[t].id THEN "cached"
                 ELSE IF thread[t].id = Me THEN "none" ELSE "check"
<1>1. thread[t].at = "compare" /\ Goes(t, to)
  BY DEF compareCached
<1>2. UNCHANGED <<allowed, todo, historyVars, containerVars, sent, tun>>
  BY DEF compareCached, Locally, Elsewhere
<1>3. thread[t].at \in Places /\ to \in Places
  BY <1>1 DEF Places
<1> HIDE DEF to
<1>4. Walks(t) /\ thread'[t].at = to /\ thread'[t].id = thread[t].id
  BY <1>1, <1>2, <1>3, LocalWalk DEF containerVars
<1>5. Arrives(t)
  BY <1>1, <1>2, <1>4 DEF Arrives, to, containerVars, PeerInv, TypeInv, RevokedInv
<1> QED BY <1>4, <1>5, WalkKeeps

LEMMA CheckKeeps ==
    ASSUME PeerInv, NEW t \in Threads, checkAllowed(t)
    PROVE  PeerInv'
<1> DEFINE to == IF thread[t].id \in allowed THEN "find" ELSE "none"
<1>1. thread[t].at = "check" /\ Goes(t, to)
  BY DEF checkAllowed
<1>2. UNCHANGED <<allowed, todo, historyVars, containerVars, sent, tun>>
  BY DEF checkAllowed, Locally, Elsewhere
<1>3. thread[t].at \in Places /\ to \in Places
  BY <1>1 DEF Places
<1> HIDE DEF to
<1>4. Walks(t) /\ thread'[t].at = to /\ thread'[t].id = thread[t].id
  BY <1>1, <1>2, <1>3, LocalWalk DEF containerVars
<1>5. Arrives(t)
  BY <1>1, <1>2, <1>4 DEF Arrives, to, containerVars, PeerInv, RevokedInv
<1> QED BY <1>4, <1>5, WalkKeeps

LEMMA FindKeeps ==
    ASSUME PeerInv, NEW t \in Threads, find(t)
    PROVE  PeerInv'
<1>1. thread[t].at = "find" /\ thread[t].id \in Id
  BY AtPlace DEF find, Places
<1>2. UNCHANGED <<allowed, todo, historyVars, containerVars, sent, tun>>
  BY DEF find, Locally, Elsewhere
<1>3. /\ thread' \in [Threads -> {Idle} \cup Task]
      /\ \A u \in Threads : u # t => thread'[u] = thread[u]
      /\ thread'[t] \in Task /\ thread[t] \in Task
      /\ thread'[t].at = IF peers[thread[t].id] = NULL THEN "none" ELSE "cacheId"
      /\ thread'[t].found = peers[thread[t].id]
      /\ SameTask(thread[t], thread'[t])
  BY Finds DEF PeerInv
<1>4. Walks(t) /\ thread'[t].id = thread[t].id
  BY <1>2, <1>3 DEF Walks, SameTask, containerVars
<1>5. TaskAllowed(t) /\ MapInv
  BY DEF PeerInv, TasksInv
<1>6. Arrives(t)
  BY <1>1, <1>2, <1>3, <1>4, <1>5 DEF Arrives, TaskAllowed, MapInv, containerVars
<1> QED BY <1>4, <1>6, WalkKeeps

LEMMA CacheIdKeeps ==
    ASSUME PeerInv, NEW t \in Threads, cacheId(t)
    PROVE  PeerInv'
<1>1. thread[t].at = "cacheId" /\ Goes(t, "cachePeer") /\ cachedPeerId' = thread[t].id
  BY DEF cacheId
<1>2. UNCHANGED <<allowed, todo, historyVars, peers, created, cachedPeer, sent, tun>>
  BY DEF cacheId, Elsewhere
<1>3. thread[t].at \in Places /\ "cachePeer" \in Places
  BY <1>1 DEF Places
<1>4. /\ Walks(t) /\ thread'[t].at = "cachePeer" /\ thread'[t].found = thread[t].found
      /\ thread'[t].id = thread[t].id
  BY <1>1, <1>2, <1>3, LocalWalk
<1>5. TaskAllowed(t) /\ TaskInv(t)
  BY DEF PeerInv, TasksInv
<1>6. Arrives(t)
  BY <1>1, <1>4, <1>5 DEF Arrives, TaskAllowed, TaskInv
<1> QED BY <1>4, <1>6, WalkKeeps

LEMMA CachedKeeps ==
    ASSUME PeerInv, NEW t \in Threads, returnCached(t)
    PROVE  PeerInv'
<1>1. thread[t].at = "cached" /\ thread[t].at \in Places
  BY DEF returnCached, Places
<1>2. thread[t] \in Task /\ thread[t].id \in Id
  BY <1>1, AtPlace
<1>3. UNCHANGED <<allowed, todo, historyVars, peers, created, cachedPeerId, cachedPeer>>
  BY DEF returnCached, Elsewhere
<1>4. TaskQuiet(t) /\ CacheInv /\ cachedPeer \in 0..Len(created)
  BY DEF PeerInv, TasksInv, CacheInv
<1>5. ~overlap => cachedPeer # NULL /\ created[cachedPeer] = thread[t].id
  <2>1. ASSUME ~overlap PROVE \A u \in Threads : thread[u].at # "cachePeer"
    BY <1>1, <2>1 DEF PeerInv, OneBusy, Busy
  <2> QED BY <1>1, <1>2, <1>4, <2>1 DEF TaskQuiet, CacheInv, Id
<1>6. CASE cachedPeer = NULL
  <2>1. Goes(t, "none") /\ UNCHANGED <<sent, tun>>
    BY <1>6 DEF returnCached
  <2>2. Walks(t) /\ thread'[t].at = "none" /\ thread'[t].id = thread[t].id
    BY <1>1, <1>3, <2>1, LocalWalk DEF Places
  <2>3. Arrives(t)
    BY <1>1, <1>3, <1>5, <1>6, <2>2 DEF Arrives
  <2> QED BY <2>2, <2>3, WalkKeeps
<1>7. CASE cachedPeer # NULL
  <2>1. Returned(t, cachedPeer)
    BY <1>7 DEF returnCached
  <2>2. Extends /\ cachedPeer \in 0..Len(created')
    BY <1>3, <1>4 DEF Extends
  <2>3. created' \in Seq(Id) /\ peers' \in [Id -> Nat] /\ cachedPeer' \in Nat
    BY <1>3 DEF PeerInv, TypeInv
  <2>4. MapInv' /\ OnePeerEach'
    BY <1>3 DEF PeerInv, MapInv, OnePeerEach, historyVars
  <2>5. CacheInv'
    <3>1. ~overlap => cachedPeer # NULL /\ created[cachedPeer] = cachedPeerId
      BY <1>1, <1>4, <1>5 DEF TaskQuiet
    <3> QED BY <1>3, <1>4, <3>1 DEF CacheInv, historyVars
  <2>6. cachedPeer # NULL /\ ~overlap => created'[cachedPeer] = thread[t].id
    BY <1>3, <1>5
  <2> QED BY <1>2, <1>3, <2>1, <2>2, <2>3, <2>4, <2>5, <2>6, ReturnKeeps
<1> QED BY <1>6, <1>7

LEMMA CachePeerKeeps ==
    ASSUME PeerInv, NEW t \in Threads, cachePeer(t)
    PROVE  PeerInv'
<1>1. thread[t].at = "cachePeer" /\ thread[t].at \in Places
  BY DEF cachePeer, Places
<1>2. thread[t] \in Task /\ thread[t].id \in Id
  BY <1>1, AtPlace
<1>3. /\ UNCHANGED <<allowed, todo, historyVars, peers, created, cachedPeerId>>
      /\ cachedPeer' = thread[t].found /\ Returned(t, thread[t].found)
  BY DEF cachePeer, Elsewhere
<1>4. thread[t].found \in 1..Len(created) /\ created[thread[t].found] = thread[t].id
  BY <1>1 DEF PeerInv, TasksInv, TaskInv
<1>5. ~overlap => cachedPeerId = thread[t].id
  BY <1>1 DEF PeerInv, TasksInv, TaskQuiet
<1>6. Extends /\ thread[t].found \in 0..Len(created')
  BY <1>3, <1>4 DEF Extends
<1>7. created' \in Seq(Id) /\ peers' \in [Id -> Nat] /\ cachedPeer' \in Nat
  BY <1>3, <1>4 DEF PeerInv, TypeInv
<1>8. MapInv' /\ OnePeerEach'
  BY <1>3 DEF PeerInv, MapInv, OnePeerEach, historyVars
<1>9. CacheInv'
  BY <1>3, <1>4, <1>5 DEF CacheInv, historyVars, NULL
<1> QED BY <1>2, <1>3, <1>4, <1>6, <1>7, <1>8, <1>9, ReturnKeeps

LEMMA FailsKeeps ==
    ASSUME PeerInv, NEW t \in Threads, getPeerFails(t)
    PROVE  PeerInv'
<1>1. thread[t].at = "none" /\ thread[t].at \in Places
  BY DEF getPeerFails, Places
<1>2. thread[t] \in Task /\ thread[t].id \in Id
  BY <1>1, AtPlace
<1>3. UNCHANGED <<allowed, todo, historyVars, peers, created, cachedPeerId, cachedPeer>>
  BY DEF getPeerFails, Elsewhere
<1>4. CASE thread[t].creates /\ thread[t].id \in allowed
  <2>1. Goes(t, "create") /\ UNCHANGED <<sent, tun>>
    BY <1>4 DEF getPeerFails
  <2>2. Walks(t) /\ thread'[t].at = "create" /\ thread'[t].id = thread[t].id
    BY <1>1, <1>3, <2>1, LocalWalk DEF Places
  <2>3. TaskSingle(t) /\ RevokedInv
    BY DEF PeerInv, TasksInv
  <2>4. Arrives(t)
    BY <1>1, <1>3, <1>4, <2>2, <2>3 DEF Arrives, TaskSingle, RevokedInv
  <2> QED BY <2>2, <2>4, WalkKeeps
<1>5. CASE ~(thread[t].creates /\ thread[t].id \in allowed)
  <2>1. Returned(t, NULL)
    BY <1>5 DEF getPeerFails
  <2>2. NULL \in 0..Len(created') /\ Extends
    BY <1>3 DEF PeerInv, TypeInv, NULL, Extends
  <2>3. created' \in Seq(Id) /\ peers' \in [Id -> Nat] /\ cachedPeer' \in Nat
    BY <1>3 DEF PeerInv, TypeInv
  <2>4. MapInv' /\ OnePeerEach'
    BY <1>3 DEF PeerInv, MapInv, OnePeerEach, historyVars
  <2>5. /\ thread' \in [Threads -> {Idle} \cup Task]
        /\ \A u \in Threads : u # t => thread'[u] = thread[u]
        /\ thread'[t] = Idle
    BY <1>1, <2>1, ReturnedCases DEF PeerInv, Onward, Sends, Receives, GivesUp, NULL
  <2>6. CacheInv'
    BY <1>1, <1>3, <2>5 DEF PeerInv, CacheInv, historyVars
  <2> QED BY <1>2, <1>3, <2>1, <2>2, <2>3, <2>4, <2>6, ReturnKeeps
<1> QED BY <1>4, <1>5

LEMMA CreateKeeps ==
    ASSUME PeerInv, NEW t \in Threads, createPeer(t)
    PROVE  PeerInv'
<1> DEFINE id == thread[t].id
           n == Len(created')
<1>1. thread[t].at = "create" /\ thread[t].at \in Places
  BY DEF createPeer, Places
<1>2. thread[t] \in Task /\ id \in Id
  BY <1>1, AtPlace
<1> HIDE DEF id
<1>3. created \in Seq(Id) /\ Len(created) \in Nat /\ peers \in [Id -> Nat]
  BY DEF PeerInv, TypeInv
<1>4. /\ created' = Append(created, id) /\ peers' = [peers EXCEPT ![id] = n]
      /\ Returned(t, n) /\ UNCHANGED <<allowed, todo, historyVars, cachedPeerId, cachedPeer>>
  BY DEF createPeer, Elsewhere, id
<1>5. created' \in Seq(Id) /\ n = Len(created) + 1 /\ created'[n] = id
      /\ \A m \in 1..Len(created) : created'[m] = created[m]
  BY <1>2, <1>3, <1>4
<1> HIDE DEF n
<1>6. Extends /\ n \in 0..Len(created')
  BY <1>3, <1>5 DEF Extends, n
<1>7. peers' \in [Id -> Nat] /\ cachedPeer' \in Nat
  BY <1>3, <1>4, <1>5 DEF PeerInv, TypeInv
<1>8. MapInv'
  <2> SUFFICES ASSUME NEW i \in Id
               PROVE  IF peers'[i] = NULL THEN \A m \in 1..n : created'[m] # i
                                          ELSE peers'[i] \in 1..n /\ created'[peers'[i]] = i
    BY DEF MapInv, n
  <2>1. CASE i = id
    BY <1>3, <1>4, <1>5, <2>1 DEF NULL
  <2>2. CASE i # id
    <3>1. peers'[i] = peers[i]
      BY <1>3, <1>4, <2>2
    <3>2. IF peers[i] = NULL THEN \A m \in 1..Len(created) : created[m] # i
                             ELSE peers[i] \in 1..Len(created) /\ created[peers[i]] = i
      BY DEF PeerInv, MapInv
    <3>3. \A m \in 1..n : m = n \/ m \in 1..Len(created)
      BY <1>3, <1>5
    <3>4. CASE peers[i] = NULL
      BY <1>5, <2>2, <3>1, <3>2, <3>3, <3>4
    <3>5. CASE peers[i] # NULL
      <4>1. peers[i] \in 1..Len(created) /\ created[peers[i]] = i
        BY <3>2, <3>5
      <4>2. peers[i] \in 1..n
        BY <1>3, <1>5, <4>1
      <4> QED BY <1>5, <3>1, <3>5, <4>1, <4>2
    <3> QED BY <3>4, <3>5
  <2> QED BY <2>1, <2>2
<1>9. /\ thread' \in [Threads -> {Idle} \cup Task]
      /\ \A u \in Threads : u # t => thread'[u] = thread[u]
      /\ thread'[t].at # "cachePeer"
  <2>1. n \in Nat /\ thread[t].at # "idle"
    BY <1>1, <1>3, <1>5
  <2>2. /\ thread' \in [Threads -> {Idle} \cup Task]
        /\ \A u \in Threads : u # t => thread'[u] = thread[u]
        /\ Onward(t, n) \/ Sends(t, n) \/ Receives(t, n) \/ GivesUp(t, n)
    BY <1>4, <2>1, ReturnedCases DEF PeerInv
  <2> QED BY <2>2, IdleIsNoTask DEF Onward, Sends, Receives, GivesUp
<1>10. CacheInv'
  <2>1. CacheInv /\ cachedPeer \in 0..Len(created)
    BY DEF PeerInv, CacheInv
  <2>2. cachedPeer' \in 0..Len(created')
    BY <1>3, <1>4, <1>5, <2>1 DEF n
  <2>3. cachedPeer # NULL => created'[cachedPeer] = created[cachedPeer]
    BY <1>3, <1>5, <2>1 DEF NULL
  <2> QED BY <1>1, <1>4, <1>9, <2>1, <2>2, <2>3 DEF CacheInv, historyVars
<1>11. OnePeerEach'
  <2> SUFFICES ASSUME ~overlap, ~midway, NEW l \in 1..n, NEW m \in 1..n, created'[l] = created'[m]
               PROVE  l = m
    BY <1>4 DEF OnePeerEach, n, historyVars
  <2>1. peers[id] = NULL
    BY <1>1 DEF PeerInv, TasksInv, TaskSingle, id
  <2>2. \A k \in 1..Len(created) : created[k] # id
    BY <1>2, <2>1 DEF PeerInv, MapInv
  <2>3. \A k \in 1..n : k = n \/ k \in 1..Len(created)
    BY <1>3, <1>5
  <2>4. \A j, k \in 1..Len(created) : created[j] = created[k] => j = k
    BY DEF PeerInv, OnePeerEach
  <2> QED BY <1>5, <2>2, <2>3, <2>4
<1>12. created'[n] = thread[t].id
  BY <1>5 DEF id
<1> QED BY <1>2, <1>4, <1>5, <1>6, <1>7, <1>8, <1>10, <1>11, <1>12, ReturnKeeps

LEMMA StartKeeps ==
    ASSUME PeerInv, NEW t \in Threads, Starts(t)
    PROVE  PeerInv'
<1>1. UNCHANGED <<allowed, peers, created, cachedPeerId, cachedPeer, midway, revoked>>
  BY DEF Starts, containerVars
<1>2. overlap' = (overlap \/ \E u \in Threads \ {t} : Busy(u))
  BY DEF Starts, Enters, PeerInv, TypeInv
<1>3. overlap' \in BOOLEAN
  BY <1>2
<1>4. ~overlap' => ~overlap /\ \A u \in Threads : u # t => thread[u].at = "idle"
  BY <1>2 DEF Busy, PeerInv, TypeInv
<1>5. TypeInv'
  BY <1>1, <1>3 DEF PeerInv, TypeInv, Starts
<1>6. MapInv' /\ RevokedInv'
  BY <1>1 DEF PeerInv, MapInv, RevokedInv
<1>7. OnePeerEach'
  BY <1>1, <1>4 DEF PeerInv, OnePeerEach
<1>8. OneBusy'
  BY <1>4 DEF Starts, OneBusy, Busy
<1>9. CacheInv'
  <2>1. ~Busy(t) /\ \A u \in Threads : u # t => thread'[u] = thread[u]
    BY DEF Starts
  <2>2. thread[t].at # "cachePeer"
    BY <2>1 DEF Busy
  <2> QED BY <1>1, <1>4, <2>1, <2>2 DEF PeerInv, CacheInv
<1>10. RightPeer'
  BY <1>4 DEF PeerInv, RightPeer, Starts
<1>11. TaskInv(t)' /\ TaskQuiet(t)' /\ TaskSingle(t)' /\ TaskAllowed(t)'
  BY DEF Starts, TaskInv, TaskQuiet, TaskSingle, TaskAllowed
<1>12. ASSUME NEW u \in Threads, u # t
       PROVE  TaskInv(u)' /\ TaskQuiet(u)' /\ TaskSingle(u)' /\ TaskAllowed(u)'
  <2>1. thread'[u] = thread[u] /\ TaskInv(u) /\ TaskAllowed(u)
    BY <1>12 DEF Starts, PeerInv, TasksInv
  <2>2. TaskInv(u)' /\ TaskAllowed(u)'
    BY <1>1, <2>1 DEF TaskInv, TaskAllowed, Busy
  <2>3. TaskQuiet(u)' /\ TaskSingle(u)'
    BY <1>4, <1>12, <2>1 DEF TaskQuiet, TaskSingle, Busy
  <2> QED BY <2>2, <2>3
<1>13. TasksInv'
  BY <1>11, <1>12 DEF TasksInv
<1> QED BY <1>5, <1>6, <1>7, <1>8, <1>9, <1>10, <1>13 DEF PeerInv

LEMMA TunKeeps ==
    ASSUME PeerInv, NEW i \in Others, NEW p \in PacketTo(i), onTunData(p)
    PROVE  PeerInv'
<1>1. UNCHANGED <<allowed, containerVars, thread, sent, tun, historyVars>>
  BY DEF onTunData
<1>2. \A d \in todo' : d.id \in Others /\ d.packet \in PacketTo(d.id)
  <2>1. CASE p.target \in Group
    <3>1. \A j \in allowed : j \in Others /\ p \in PacketTo(j)
      BY <2>1 DEF PeerInv, TypeInv, PacketTo
    <3>2. todo' = {[id |-> j, packet |-> p] : j \in allowed}
      BY <2>1 DEF onTunData
    <3> QED BY <3>1, <3>2
  <2>2. CASE p.target \notin Group
    <3>1. p.target = i
      BY <2>2 DEF PacketTo
    <3>2. todo' = {[id |-> p.target, packet |-> p]}
      BY <2>2 DEF onTunData
    <3> QED BY <3>1, <3>2
  <2> QED BY <2>1, <2>2
<1>3. TypeInv'
  BY <1>1, <1>2 DEF PeerInv, TypeInv, containerVars, historyVars
<1> QED BY <1>1, <1>3 DEF PeerInv, MapInv, CacheInv, OneBusy, RevokedInv, TasksInv, TaskInv,
           TaskQuiet, TaskSingle, TaskAllowed, Busy, RightPeer, OnePeerEach, containerVars, historyVars

LEMMA ConfigKeeps ==
    ASSUME PeerInv, NEW S \in SUBSET Others, configChanges(S)
    PROVE  PeerInv'
<1> DEFINE busy == {u \in Threads : Busy(u)}
           held == {cachedPeerId} \cup {thread[u].id : u \in busy}
<1>1. UNCHANGED <<peers, created, cachedPeerId, cachedPeer, thread, todo, sent, tun, overlap>>
  BY DEF configChanges, containerVars
<1>2. /\ allowed' = S /\ revoked' = (revoked \cup (allowed \ held)) \ S
      /\ midway' = (midway \/ \E u \in Threads : Busy(u))
  BY DEF configChanges, PeerInv, TypeInv
<1>3. midway' \in BOOLEAN
  BY <1>2
<1>4. cachedPeerId \in held /\ \A u \in Threads : Busy(u) => thread[u].id \in held
  OBVIOUS
<1> HIDE DEF held
<1>5. TypeInv'
  BY <1>1, <1>2, <1>3 DEF PeerInv, TypeInv
<1>6. MapInv' /\ CacheInv' /\ OneBusy' /\ RightPeer'
  BY <1>1 DEF PeerInv, MapInv, CacheInv, OneBusy, Busy, RightPeer
<1>7. OnePeerEach'
  BY <1>1, <1>2 DEF PeerInv, OnePeerEach, TypeInv
<1>8. RevokedInv'
  BY <1>1, <1>2, <1>4 DEF PeerInv, RevokedInv
<1>9. ASSUME NEW t \in Threads
      PROVE  TaskInv(t)' /\ TaskQuiet(t)' /\ TaskSingle(t)' /\ TaskAllowed(t)'
  <2>1. TaskInv(t) /\ TaskQuiet(t) /\ TaskSingle(t) /\ TaskAllowed(t)
    BY DEF PeerInv, TasksInv
  <2>2. TaskInv(t)' /\ TaskQuiet(t)'
    BY <1>1, <2>1 DEF TaskInv, TaskQuiet, Busy
  <2>3. TaskSingle(t)'
    <3>1. ~midway' => thread[t].at = "idle"
      BY <1>2 DEF Busy
    <3> QED BY <1>1, <3>1 DEF TaskSingle
  <2>4. TaskAllowed(t)'
    BY <1>1, <1>2, <1>4, <2>1 DEF TaskAllowed, Busy
  <2> QED BY <2>2, <2>3, <2>4
<1> QED BY <1>5, <1>6, <1>7, <1>8, <1>9 DEF PeerInv, TasksInv

LEMMA InitPeer == Init => PeerInv
<1> SUFFICES ASSUME Init PROVE PeerInv
  OBVIOUS
<1>1. TypeInv
  BY InitTyped
<1>2. Len(created) = 0 /\ \A t \in Threads : thread[t].at = "idle"
  BY DEF Init, Threads, Idle
<1>3. MapInv /\ CacheInv /\ OneBusy /\ RevokedInv /\ OnePeerEach /\ RightPeer
  BY <1>2 DEF Init, MapInv, CacheInv, OneBusy, Busy, RevokedInv, OnePeerEach, RightPeer, NULL
<1>4. TasksInv
  BY <1>2 DEF TasksInv, TaskInv, TaskQuiet, TaskSingle, TaskAllowed, Busy
<1> QED BY <1>1, <1>3, <1>4 DEF PeerInv

LEMMA NextPeer == PeerInv /\ [Next]_vars => PeerInv'
<1> SUFFICES ASSUME PeerInv, [Next]_vars PROVE PeerInv'
  OBVIOUS
<1>1. ASSUME NEW i \in Others, NEW p \in PacketTo(i), onTunData(p) PROVE PeerInv'
  BY <1>1, TunKeeps
<1>2. ASSUME NEW i \in Others, NEW p \in PacketFrom(i), dataReceived(i, p) PROVE PeerInv'
  BY <1>2, DataStarts, StartKeeps DEF Threads, PeerInv
<1>3. ASSUME NEW d \in todo, sendNext(d) PROVE PeerInv'
  BY <1>3, SendNextStarts, StartKeeps DEF Threads, PeerInv
<1>4. ASSUME NEW i \in Id, NEW creates \in BOOLEAN, helloReceived(i, creates) PROVE PeerInv'
  BY <1>4, HelloStarts, StartKeeps DEF Threads, PeerInv
<1>5. ASSUME NEW t \in DOMAIN thread, getOrCreatePeer(t) PROVE PeerInv'
  <2>1. t \in Threads
    BY DEF PeerInv, TypeInv
  <2> QED BY <1>5, <2>1, CompareKeeps, CachedKeeps, CheckKeeps, FindKeeps, CacheIdKeeps,
             CachePeerKeeps, FailsKeeps, CreateKeeps DEF getOrCreatePeer, getPeer
<1>6. ASSUME NEW S \in SUBSET Others, configChanges(S) PROVE PeerInv'
  BY <1>6, ConfigKeeps
<1>7. CASE UNCHANGED vars
  <2> USE <1>7 DEF vars, containerVars, historyVars
  <2>1. TypeInv'
    BY DEF PeerInv, TypeInv
  <2> QED BY <2>1 DEF PeerInv, MapInv, CacheInv, OneBusy, RevokedInv, TasksInv, TaskInv,
             TaskQuiet, TaskSingle, TaskAllowed, Busy, RightPeer, OnePeerEach
<1> QED BY <1>1, <1>2, <1>3, <1>4, <1>5, <1>6, <1>7 DEF Next

LEMMA PeerInvariant == Spec => []PeerInv
BY InitPeer, NextPeer, PTL DEF Spec

\* A packet given to the tun interface goes to the peer it is meant for, under
\* that peer's key, and reads there as it was, for as long as the two threads
\* have not met in the container (PeerContainer, MulticastLayer).
THEOREM SentToRightPeer == Spec => []RightPeer
BY PeerInvariant, PTL DEF PeerInv

\* There is one Peer for each other node unless the two threads met in the
\* container or who is allowed changed in the middle of a lookup
\* (getOrCreatePeer).
THEOREM OneSessionEach == Spec => []OnePeerEach
BY PeerInvariant, PTL DEF PeerInv

-----------------------------------------------------------------------------
(* Peers that are no longer allowed. *)

\* What reaches the transport or the tun interface comes from a lookup that
\* found a Peer whose id has not been revoked.
LEMMA ReturnedAllowed ==
    ASSUME PeerInv, NEW t \in Threads, thread[t] \in Task, NEW peer \in Nat, Returned(t, peer),
           UNCHANGED overlap, Extends,
           peer # NULL => thread[t].id \notin revoked
    PROVE  /\ sent' # sent /\ ~overlap' => sent'.key \notin revoked
           /\ tun' # tun => tun'.source \notin revoked
<1>1. thread[t].at # "idle" /\ Busy(t)
  BY IdleIsNoTask DEF Busy
<1>2. Onward(t, peer) \/ Sends(t, peer) \/ Receives(t, peer) \/ GivesUp(t, peer)
  BY <1>1, ReturnedCases DEF PeerInv
<1>3. CASE Sends(t, peer)
  <2>1. /\ thread[t].purpose = "address" /\ peer # NULL /\ UNCHANGED tun
        /\ sent'.key = created'[thread[t].key]
    BY <1>3 DEF Sends
  <2>2. thread[t].key \in 1..Len(created) /\ (~overlap => created[thread[t].key] = thread[t].id)
    BY <1>1, <2>1 DEF PeerInv, TasksInv, TaskInv, TaskQuiet
  <2> QED BY <2>1, <2>2 DEF Extends
<1>4. CASE Receives(t, peer)
  <2>1. /\ peer # NULL /\ UNCHANGED sent
        /\ tun' # tun => tun' = Decoded(thread[t].id, Me, Message(thread[t].packet))
    BY <1>4 DEF Receives
  <2>2. Decoded(thread[t].id, Me, Message(thread[t].packet)).source = thread[t].id
    BY DEF Decoded
  <2> QED BY <2>1, <2>2
<1>5. CASE Onward(t, peer) \/ GivesUp(t, peer)
  BY <1>5 DEF Onward, GivesUp
<1> QED BY <1>2, <1>3, <1>4, <1>5

LEMMA LookupAllowed ==
    ASSUME PeerInv, NEW t \in Threads, getOrCreatePeer(t)
    PROVE  /\ sent' # sent /\ ~overlap' => sent'.key \notin revoked
           /\ tun' # tun => tun'.source \notin revoked
<1>1. TaskAllowed(t) /\ created \in Seq(Id) /\ cachedPeer \in Nat
  BY DEF PeerInv, TasksInv, TypeInv
<1>2. CASE compareCached(t) \/ checkAllowed(t) \/ find(t) \/ cacheId(t)
  BY <1>2 DEF compareCached, checkAllowed, find, cacheId, Locally
<1>3. CASE returnCached(t)
  <2>1. thread[t].at = "cached" /\ UNCHANGED <<created, overlap>> /\ thread[t] \in Task
    BY <1>3, AtPlace DEF returnCached, Elsewhere, historyVars, Places
  <2>2. CASE cachedPeer = NULL
    BY <1>3, <2>2 DEF returnCached
  <2>3. CASE cachedPeer # NULL
    <3>1. Returned(t, cachedPeer) /\ Extends /\ thread[t].id \notin revoked
      BY <1>1, <1>3, <2>1, <2>3 DEF returnCached, Extends, TaskAllowed
    <3> QED BY <1>1, <2>1, <3>1, ReturnedAllowed
  <2> QED BY <2>2, <2>3
<1>4. CASE cachePeer(t)
  <2>1. thread[t].at = "cachePeer" /\ UNCHANGED <<created, overlap>> /\ thread[t] \in Task
    BY <1>4, AtPlace DEF cachePeer, Elsewhere, historyVars, Places
  <2>2. /\ Returned(t, thread[t].found) /\ Extends /\ thread[t].id \notin revoked
        /\ thread[t].found \in Nat
    BY <1>1, <1>4, <2>1 DEF cachePeer, Extends, TaskAllowed, Task
  <2> QED BY <2>1, <2>2, ReturnedAllowed
<1>5. CASE getPeerFails(t)
  <2>1. thread[t].at = "none" /\ UNCHANGED <<created, overlap>> /\ thread[t] \in Task
    BY <1>5, AtPlace DEF getPeerFails, Elsewhere, historyVars, Places
  <2>2. Extends /\ NULL \in Nat
    BY <2>1 DEF Extends, NULL
  <2>3. UNCHANGED <<sent, tun>> \/ Returned(t, NULL)
    BY <1>5 DEF getPeerFails
  <2>4. CASE UNCHANGED <<sent, tun>>
    BY <2>4
  <2>5. CASE Returned(t, NULL)
    BY <2>1, <2>2, <2>5, ReturnedAllowed
  <2> QED BY <2>3, <2>4, <2>5
<1>6. CASE createPeer(t)
  <2>1. thread[t].at = "create" /\ UNCHANGED overlap /\ thread[t] \in Task
    BY <1>6, AtPlace DEF createPeer, Elsewhere, historyVars, Places
  <2>2. thread[t].id \in Id /\ created' = Append(created, thread[t].id) /\ Returned(t, Len(created'))
    BY <1>6, <2>1 DEF createPeer, Task
  <2>3. Len(created') \in Nat /\ Extends
    BY <1>1, <2>2 DEF Extends
  <2>4. thread[t].id \notin revoked
    BY <1>1, <2>1 DEF TaskAllowed
  <2> QED BY <2>1, <2>2, <2>3, <2>4, ReturnedAllowed
<1> QED BY <1>2, <1>3, <1>4, <1>5, <1>6 DEF getOrCreatePeer, getPeer

\* Once a peer has been disallowed, it is neither sent to nor received from,
\* whatever lookups were under way, except from the cache or by a lookup of
\* that very peer (isPeerAllowed in getPeer and createPeer).
THEOREM RevokedKeptOut == Spec => RevokedStaysOut
<1> DEFINE Step ==
        /\ sent' # sent /\ sent' # Nothing /\ ~overlap' => sent'.key \notin revoked
        /\ tun' # tun /\ tun' # NoPacket => tun'.source \notin revoked
<1>1. ASSUME PeerInv, [Next]_vars PROVE [Step]_vars
  <2>1. CASE \E t \in DOMAIN thread : getOrCreatePeer(t)
    <3>1. PICK t \in Threads : getOrCreatePeer(t)
      BY <1>1, <2>1 DEF PeerInv, TypeInv
    <3> QED BY <1>1, <3>1, LookupAllowed
  <2>2. CASE UNCHANGED vars
    BY <2>2
  <2>3. CASE ~(\E t \in DOMAIN thread : getOrCreatePeer(t)) /\ Next
    <3>1. sent' \in {sent, Nothing} /\ tun' \in {tun, NoPacket}
      BY <2>3 DEF Next, onTunData, dataReceived, sendNext, helloReceived, configChanges
    <3> QED BY <3>1
  <2> QED BY <1>1, <2>1, <2>2, <2>3
<1> QED BY <1>1, PeerInvariant, PTL DEF Spec, RevokedStaysOut

-----------------------------------------------------------------------------
(* The other way to a Peer, by the address of a packet. *)

LinkProofs == INSTANCE PeerLinkProofs

\* The index of addresses beside the container, as MCPeerAccess holds it, finds
\* the peer that has the address, for any number of peers and addresses
\* (addSourceAddress, removeSourceAddress, udpPacketReceived).
THEOREM IndexFindsOwner == LinkProofs!Spec => []SourceIndex
<1>1. LinkProofs!SetAssumption /\ LinkProofs!LimitAssumption
  BY IndexAssumption DEF Link!SetAssumption, Link!LimitAssumption,
                         LinkProofs!SetAssumption, LinkProofs!LimitAssumption
<1>2. LinkProofs!Spec => []LinkProofs!SourceIndex
  BY <1>1, LinkProofs!IndexAgrees
<1>3. LinkProofs!SourceIndex => SourceIndex
  BY DEF SourceIndex, Link!SourceIndex, LinkProofs!SourceIndex, LinkProofs!Cardinality, Link!Cardinality
<1> QED BY <1>2, <1>3, PTL
=============================================================================
