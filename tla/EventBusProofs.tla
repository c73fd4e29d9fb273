--------------------------- MODULE EventBusProofs ---------------------------
(***************************************************************************)
(* Proofs about EventBus, for any set of TcpConnection objects, segments   *)
(* of any length, and builds with and without assertions.                  *)
(*                                                                         *)
(* The properties are about the WebSocket; what makes them inductive is    *)
(* where the event bus thread is.  While it is anywhere in _connectSocket  *)
(* the WebSocket is SOCK_CLOSED, so that the main thread reads no frames;  *)
(* and a WebSocket that is SOCK_CLOSED has an open connection only between *)
(* the assignment of conn and that of state.                               *)
(***************************************************************************)
EXTENDS EventBus, TLAPS

-----------------------------------------------------------------------------
(* Types. *)

\* What TypeOK needs to be inductive: connect has returned a connection when the
\* event bus thread puts it on the list.
HasNewConn == ebPc \in {"push", "assign"} => newConn \in Conn
TypeInv == TypeOK /\ HasNewConn

LEMMA TypeInit == Init => TypeInv
  BY ConnAssumption DEF Init, TypeInv, TypeOK, HasNewConn

LEMMA CloseType ==
  ASSUME TypeOK, close
  PROVE  /\ state' \in {"SOCK_CLOSED", "WS_CONNECTING", "WS_OPEN"} /\ conn' \in Conn \cup {None}
         /\ open' \subseteq Conn /\ errored' \subseteq Conn /\ open' \cap errored' = {}
         /\ errored \subseteq errored'
  BY DEF TypeOK, close, TcpClose, wsVars

LEMMA EventBusThreadType == TypeInv /\ EventBusThread => TypeInv'
  <1> SUFFICES ASSUME TypeInv, EventBusThread PROVE TypeInv'
    OBVIOUS
  <1> USE DEF wsVars, ebVars, tcpVars, serverVars, outVars, TypeInv, HasNewConn
  <1>1. CASE periodicClosed
    BY <1>1 DEF TypeOK, periodicClosed
  <1>2. CASE periodicOpen
    BY <1>2 DEF TypeOK, periodicOpen
  <1>3. CASE connectFails
    BY <1>3 DEF TypeOK, connectFails
  <1>4. CASE connectSucceeds
    BY <1>4 DEF TypeOK, connectSucceeds
  <1>5. CASE pushConn
    BY <1>5 DEF TypeOK, pushConn
  <1>6. CASE assignConn
    BY <1>6 DEF TypeOK, assignConn
  <1>7. CASE checkConn
    BY <1>7 DEF TypeOK, checkConn
  <1>8. CASE sendClientHandshake
    BY <1>8, CloseType DEF TypeOK, sendClientHandshake
  <1>9. CASE awaitHandshake
    BY <1>9 DEF TypeOK, awaitHandshake
  <1> QED
    BY <1>1, <1>2, <1>3, <1>4, <1>5, <1>6, <1>7, <1>8, <1>9 DEF EventBusThread

LEMMA MainThreadType == TypeInv /\ MainThread => TypeInv'
  <1> SUFFICES ASSUME TypeInv, MainThread PROVE TypeInv'
    OBVIOUS
  <1> USE DEF wsVars, ebVars, tcpVars, serverVars, outVars, TypeInv, HasNewConn
  <1>1. CASE beginRunOnce
    BY <1>1 DEF TypeOK, beginRunOnce
  <1>2. CASE endRunOnce
    BY <1>2, CloseType DEF TypeOK, endRunOnce
  <1>3. ASSUME NEW c \in Conn, handleUnexpected(c) PROVE TypeInv'
    BY <1>3 DEF TypeOK, handleUnexpected, Reads
  <1>4. ASSUME NEW c \in Conn, handleHandshake(c) PROVE TypeInv'
    BY <1>4, CloseType DEF TypeOK, handleHandshake, Reads
  <1>5. ASSUME NEW c \in Conn, handleData(c) PROVE TypeInv'
    <2>1. crashed' \in BOOLEAN /\ getConfigOrdered' \in BOOLEAN
      BY <1>5 DEF TypeOK, handleData, AnswersAfterClose
    <2> QED
      BY <1>5, <2>1, CloseType DEF TypeOK, handleData, Reads
  <1>6. ASSUME NEW c \in Conn, handleEnd(c) PROVE TypeInv'
    BY <1>6 DEF TypeOK, handleEnd, TcpClose
  <1> QED
    BY <1>1, <1>2, <1>3, <1>4, <1>5, <1>6 DEF MainThread

LEMMA TypeStep == TypeInv /\ [Next]_vars => TypeInv'
  <1> SUFFICES ASSUME TypeInv, [Next]_vars PROVE TypeInv'
    OBVIOUS
  <1> USE DEF wsVars, ebVars, tcpVars, serverVars, outVars, TypeInv, HasNewConn
  <1>1. CASE EventBusThread
    BY <1>1, EventBusThreadType
  <1>2. CASE MainThread
    BY <1>2, MainThreadType
  <1>3. CASE ConfigPulls
    BY <1>3 DEF TypeOK, ConfigPulls
  <1>4. ASSUME NEW c \in Conn, serverLeaves(c) PROVE TypeInv'
    BY <1>4 DEF TypeOK, serverLeaves
  <1>5. ASSUME NEW c \in Conn, NEW s \in Segment, serverSends(c, s) PROVE TypeInv'
    BY <1>5 DEF TypeOK, serverSends
  <1>6. CASE Restart
    BY <1>6, ConnAssumption DEF TypeOK, Restart
  <1>7. CASE UNCHANGED vars
    BY <1>7 DEF TypeOK, vars
  <1> QED
    BY <1>1, <1>2, <1>3, <1>4, <1>5, <1>6, <1>7 DEF Next

\* Every variable of the event bus client, its connections and its server keeps
\* its type, and a connection that has errored has no descriptor.
THEOREM TypeCorrect == Spec => []TypeOK
  <1>1. QED BY TypeInit, TypeStep, PTL DEF Spec, TypeInv

-----------------------------------------------------------------------------
(* Connections. *)

\* While the event bus thread connects, the WebSocket is closed and isConnected says so.
ClosedWhileConnecting == ebPc # "idle" => state = "SOCK_CLOSED" /\ ~connected

\* A closed WebSocket has a connection that is open only once conn is assigned.
ClosedHasNone ==
    state = "SOCK_CLOSED" /\ ebPc \in {"idle", "connect", "push", "assign"} => conn \notin open

\* isConnected outlives the session, but does not precede it.
ConnectedLags == connected => state \in {"WS_OPEN", "SOCK_CLOSED"}

BusInv ==
    /\ TypeInv /\ NoLeak /\ OnlyVerifiedRead
    /\ ClosedWhileConnecting /\ ClosedHasNone /\ ConnectedLags

LEMMA BusInit == Init => BusInv
  BY TypeInit, ConnAssumption
  DEF Init, BusInv, NoLeak, OnlyVerifiedRead, ClosedWhileConnecting, ClosedHasNone, ConnectedLags

LEMMA EventBusThreadSafe == BusInv /\ EventBusThread => BusInv'
  <1> SUFFICES ASSUME BusInv, EventBusThread PROVE BusInv'
    OBVIOUS
  <1>0. TypeInv'
    BY EventBusThreadType DEF BusInv
  <1> USE <1>0 DEF wsVars, ebVars, tcpVars, serverVars, outVars, BusInv, TypeInv, TypeOK, HasNewConn,
              NoLeak, OnlyVerifiedRead, ClosedWhileConnecting, ClosedHasNone, ConnectedLags
  <1>1. CASE periodicClosed
    BY <1>1 DEF periodicClosed
  <1>2. CASE periodicOpen
    BY <1>2 DEF periodicOpen
  <1>3. CASE connectFails
    BY <1>3, ConnAssumption DEF connectFails
  <1>4. CASE connectSucceeds
    BY <1>4 DEF connectSucceeds
  <1>5. CASE pushConn
    BY <1>5 DEF pushConn
  <1>6. CASE assignConn
    BY <1>6 DEF assignConn
  <1>7. CASE checkConn
    BY <1>7 DEF checkConn
  <1>8. CASE sendClientHandshake
    BY <1>8, ConnAssumption DEF sendClientHandshake, close, TcpClose
  <1>9. CASE awaitHandshake
    BY <1>9 DEF awaitHandshake
  <1> QED
    BY <1>1, <1>2, <1>3, <1>4, <1>5, <1>6, <1>7, <1>8, <1>9 DEF EventBusThread

LEMMA MainThreadSafe == BusInv /\ MainThread => BusInv'
  <1> SUFFICES ASSUME BusInv, MainThread PROVE BusInv'
    OBVIOUS
  <1>0. TypeInv'
    BY MainThreadType DEF BusInv
  <1> USE <1>0 DEF wsVars, ebVars, tcpVars, serverVars, outVars, BusInv, TypeInv, TypeOK, HasNewConn,
              NoLeak, OnlyVerifiedRead, ClosedWhileConnecting, ClosedHasNone, ConnectedLags
  <1>1. CASE beginRunOnce
    BY <1>1 DEF beginRunOnce
  <1>2. CASE endRunOnce
    BY <1>2, ConnAssumption DEF endRunOnce, close, TcpClose
  <1>3. ASSUME NEW c \in Conn, handleUnexpected(c) PROVE BusInv'
    BY <1>3 DEF handleUnexpected, Reads
  <1>4. ASSUME NEW c \in Conn, handleHandshake(c) PROVE BusInv'
    \* the segment was read from the connection the WebSocket has
    <2>1. c = conn
      BY <1>4 DEF handleHandshake, Reads
    <2> QED
      BY <1>4, <2>1, ConnAssumption DEF handleHandshake, Reads, close, TcpClose
  <1>5. ASSUME NEW c \in Conn, handleData(c) PROVE BusInv'
    BY <1>5, ConnAssumption DEF handleData, Reads, close, TcpClose
  <1>6. ASSUME NEW c \in Conn, handleEnd(c) PROVE BusInv'
    BY <1>6 DEF handleEnd, TcpClose
  <1> QED
    BY <1>1, <1>2, <1>3, <1>4, <1>5, <1>6 DEF MainThread

LEMMA BusStep == BusInv /\ [Next]_vars => BusInv'
  <1> SUFFICES ASSUME BusInv, [Next]_vars PROVE BusInv'
    OBVIOUS
  <1>0. TypeInv'
    BY TypeStep DEF BusInv
  <1> USE <1>0 DEF wsVars, ebVars, tcpVars, serverVars, outVars, BusInv,
              NoLeak, OnlyVerifiedRead, ClosedWhileConnecting, ClosedHasNone, ConnectedLags
  <1>1. CASE EventBusThread
    BY <1>1, EventBusThreadSafe
  <1>2. CASE MainThread
    BY <1>2, MainThreadSafe
  <1>3. CASE ConfigPulls
    BY <1>3 DEF ConfigPulls
  <1>4. ASSUME NEW c \in Conn, serverLeaves(c) PROVE BusInv'
    BY <1>4 DEF serverLeaves
  <1>5. ASSUME NEW c \in Conn, NEW s \in Segment, serverSends(c, s) PROVE BusInv'
    BY <1>5 DEF serverSends
  <1>6. CASE Restart
    BY <1>6 DEF Restart
  <1>7. CASE UNCHANGED vars
    BY <1>7 DEF vars
  <1> QED
    BY <1>1, <1>2, <1>3, <1>4, <1>5, <1>6, <1>7 DEF Next

LEMMA BusInvariant == Spec => []BusInv
  <1>1. QED BY BusInit, BusStep, PTL DEF Spec

\* Messages are acted upon only over a connection on which the server has proved
\* that it read this client's nonce, however errors and frames of several
\* connections interleave with the event bus thread (WebSocket::_handleRead).
THEOREM ReadsOnlyVerified == Spec => []OnlyVerifiedRead
  <1>1. BusInv => OnlyVerifiedRead
    BY DEF BusInv
  <1>2. QED BY <1>1, BusInvariant, PTL

\* No connection is left open that neither the WebSocket nor the event bus thread
\* knows of (WebSocket::close, _connectSocket), in any build.
THEOREM NeverLeaks == Spec => []NoLeak
  <1>1. BusInv => NoLeak
    BY DEF BusInv
  <1>2. QED BY <1>1, BusInvariant, PTL

\* The part of StatusCatchesUp that is a safety property: isConnected is never TRUE
\* while a handshake is under way.
THEOREM StatusLags == Spec => []ConnectedLags
  <1>1. BusInv => ConnectedLags
    BY DEF BusInv
  <1>2. QED BY <1>1, BusInvariant, PTL
=============================================================================
