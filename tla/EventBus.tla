------------------------------ MODULE EventBus ------------------------------
(***************************************************************************)
(* The event bus client: core/husarnet/eventbus.cpp on a thread of its     *)
(* own, the WebSocket it connects (websocket.cpp), and the TcpConnections  *)
(* under it (ports/sockets.cpp), which the main thread serves in runOnce.  *)
(*                                                                         *)
(* The event bus thread opens a connection and sends the handshake; reads, *)
(* the answers to them and error callbacks happen on the main thread.  The *)
(* two share the WebSocket object without a lock.  runOnce holds           *)
(* tcpConnectionsMutex, which TcpConnection::connect needs for one moment, *)
(* to put the new connection on the list.  The steps of                    *)
(* WebSocket::_connectSocket are separate actions; a callback of the main  *)
(* thread is one.                                                          *)
(*                                                                         *)
(* The server may accept or refuse, send any frames cut into segments in   *)
(* any way, and go away at any time; only the valid answer to a handshake  *)
(* needs the nonce and hence the request.                                  *)
(***************************************************************************)
EXTENDS Naturals, Sequences, FiniteSets

CONSTANTS
    Conn,           \* TcpConnection objects, used again once off the list
    None,           \* the null pointer
    Asserts,        \* TRUE: a build with assertions (nightly), FALSE: without (stable)
    MaxFrames       \* bound: frames in one segment

ASSUME ConnAssumption == None \notin Conn
ASSUME BoundAssumption == Asserts \in BOOLEAN /\ MaxFrames \in Nat

VARIABLES
    state, conn,        \* WebSocket::state and conn
    connected,          \* EventBus::connected
    ebPc, newConn,      \* event bus thread: where it is, what connect returned
    getConfigOrdered,   \* ConfigManager: triggerGetConfig was called, no pull since
    inRunOnce,          \* main thread: it is in runOnce and holds the mutex
    tcpConnections,     \* OsSocket: the list
    open, errored,      \* the connections with fd # -1, and with _hasErrored
    server,             \* environment: server[c], the far end of c
    inbox,              \* environment: inbox[c], the segment to be read next
    crashed,            \* an assertion failed or a null pointer was used
    verified            \* history: connections whose handshake answer was accepted

wsVars == <<state, conn>>
ebVars == <<connected, ebPc, newConn>>
tcpVars == <<tcpConnections, open, errored>>
serverVars == <<server, inbox>>
outVars == <<getConfigOrdered, verified>>
vars == <<wsVars, ebVars, inRunOnce, tcpVars, serverVars, crashed, outVars>>

-----------------------------------------------------------------------------
\* A frame as the client understands it.  "handshake" is the valid answer to
\* the client's handshake, "get_config" the text message; "other" is a frame
\* without consequence, "cut" anything WebSocket::Message::parse returns 0 on,
\* such as the part of a frame that happened to arrive.
Frame == {"handshake", "get_config", "other", "PING", "CLOSE", "cut"}
Segment == UNION {[1..n -> Frame] : n \in 1..MaxFrames}

\* The frames of segment s that _handleData gets to, whether EventBus::
\* _handleMessage passes one on to ConfigManager::triggerGetConfig, and whether
\* one is sent an answer after the CLOSE that has dropped the connection.
Parsed(s) == {i \in DOMAIN s : \A j \in 1..i : s[j] \notin {"cut", "handshake"}}
OrdersGetConfig(s) == \E i \in Parsed(s) : s[i] = "get_config"
Closes(s) == \E i \in Parsed(s) : s[i] = "CLOSE"
AnswersAfterClose(s) ==
    \E i, j \in Parsed(s) : i < j /\ s[i] = "CLOSE" /\ s[j] \in {"PING", "CLOSE"}

Init ==
    /\ state = "SOCK_CLOSED" /\ conn = None /\ connected = FALSE
    /\ ebPc = "idle" /\ newConn = None /\ inRunOnce = FALSE
    /\ tcpConnections = {} /\ open = {} /\ errored = {}
    /\ server = [c \in Conn |-> "none"] /\ inbox = [c \in Conn |-> <<>>]
    /\ crashed = FALSE /\ verified = {} /\ getConfigOrdered = FALSE

\* TcpConnection::close.
TcpCloseLeavesFd(c) == open' = open /\ errored' = errored \cup {c}  \* wrong on purpose
TcpClose(c) == open' = open \ {c} /\ errored' = errored \cup {c}

\* WebSocket::close: nothing to do without a connection.
closeDropsPointer ==            \* wrong on purpose: the connection itself is not closed
    conn' = None /\ state' = "SOCK_CLOSED" /\ UNCHANGED <<open, errored>>
close ==
    IF conn = None
    THEN UNCHANGED <<wsVars, open, errored>>
    ELSE conn' = None /\ state' = "SOCK_CLOSED" /\ TcpClose(conn)

-----------------------------------------------------------------------------
(* The event bus thread. *)

\* EventBus::periodic when the socket is closed: another attempt is made,
\* unless the last one is less than a second old or no server is known yet.
\* _connectSocket first asserts that there is no connection.
periodicKeepsFlag ==            \* wrong on purpose: connected is not reset
    /\ ebPc = "idle"
    /\ state = "SOCK_CLOSED"
    /\ UNCHANGED connected
    /\ \E throttled \in BOOLEAN :
          /\ ebPc' = IF throttled \/ (Asserts /\ conn # None) THEN "idle" ELSE "connect"
          /\ crashed' = (~throttled /\ Asserts /\ conn # None)
    /\ UNCHANGED <<wsVars, newConn, inRunOnce, tcpVars, serverVars, outVars>>
periodicClosed ==
    /\ ebPc = "idle"
    /\ state = "SOCK_CLOSED"
    /\ connected' = FALSE
    /\ \E throttled \in BOOLEAN :
          /\ ebPc' = IF throttled \/ (Asserts /\ conn # None) THEN "idle" ELSE "connect"
          /\ crashed' = (~throttled /\ Asserts /\ conn # None)
    /\ UNCHANGED <<wsVars, newConn, inRunOnce, tcpVars, serverVars, outVars>>

\* EventBus::periodic when the WebSocket is open.
periodicOpen ==
    /\ ebPc = "idle"
    /\ state = "WS_OPEN"
    /\ connected' = TRUE
    /\ UNCHANGED <<wsVars, ebPc, newConn, inRunOnce, tcpVars, serverVars, crashed, outVars>>

\* TcpConnection::connect returns a null pointer.
connectFails ==
    /\ ebPc = "connect"
    /\ conn' = None
    /\ ebPc' = "idle"
    /\ UNCHANGED <<state, connected, newConn, inRunOnce, tcpVars, serverVars, crashed, outVars>>

\* TcpConnection::connect gets a connected socket ...
connectSucceeds ==
    /\ ebPc = "connect"
    /\ \E c \in Conn \ (tcpConnections \cup {conn}) :
          /\ newConn' = c
          /\ open' = open \cup {c} /\ errored' = errored \ {c}
          /\ server' = [server EXCEPT ![c] = "accepted"]
          /\ verified' = verified \ {c}
    /\ ebPc' = "push"
    /\ UNCHANGED <<wsVars, connected, inRunOnce, tcpConnections, inbox, crashed, getConfigOrdered>>

\* ... and puts it on the list, under the mutex: from here on runOnce serves it.
pushConn ==
    /\ ebPc = "push"
    /\ ~inRunOnce
    /\ tcpConnections' = tcpConnections \cup {newConn}
    /\ ebPc' = "assign"
    /\ UNCHANGED <<wsVars, connected, newConn, inRunOnce, open, errored, serverVars, crashed,
                   outVars>>

\* The rest of _connectSocket: conn is assigned, ...
assignConn ==
    /\ ebPc = "assign"
    /\ conn' = newConn
    /\ ebPc' = "check"
    /\ UNCHANGED <<state, connected, newConn, inRunOnce, tcpVars, serverVars, crashed, outVars>>

\* ... given up if it is closed already, ...
checkConn ==
    /\ ebPc = "check"
    /\ ebPc' = IF conn \in open THEN "send" ELSE "idle"
    /\ UNCHANGED <<wsVars, connected, newConn, inRunOnce, tcpVars, serverVars, crashed, outVars>>

\* ... sent the handshake (the write may fail), ...
sendClientHandshake ==
    /\ ebPc = "send"
    /\ \/ /\ conn \in open
          /\ server' = [server EXCEPT ![conn] = IF @ = "accepted" THEN "asked" ELSE @]
          /\ ebPc' = "set"
          /\ UNCHANGED <<wsVars, open, errored, crashed>>
       \/ /\ conn # None
          /\ close
          /\ ebPc' = "idle"
          /\ UNCHANGED <<server, crashed>>
       \/ /\ conn = None
          /\ crashed' = TRUE
          /\ UNCHANGED <<wsVars, ebPc, open, errored, server>>
    /\ UNCHANGED <<connected, newConn, inRunOnce, tcpConnections, inbox, outVars>>

\* ... and the answer is awaited.
awaitHandshake ==
    /\ ebPc = "set"
    /\ state' = "WS_CONNECTING"
    /\ ebPc' = "idle"
    /\ UNCHANGED <<conn, connected, newConn, inRunOnce, tcpVars, serverVars, crashed, outVars>>

EventBusThread ==
    \/ periodicClosed \/ periodicOpen
    \/ connectFails \/ connectSucceeds \/ pushConn
    \/ assignConn \/ checkConn \/ sendClientHandshake \/ awaitHandshake

-----------------------------------------------------------------------------
(* The main thread. *)

beginRunOnce ==
    /\ ~inRunOnce
    /\ inRunOnce' = TRUE
    /\ UNCHANGED <<wsVars, ebVars, tcpVars, serverVars, crashed, outVars>>

\* _handleRead hands a segment to the WebSocket, whatever its connection.
Reads(c) ==
    /\ inRunOnce
    /\ c \in tcpConnections \cap open
    /\ inbox[c] # <<>>
    /\ inbox' = [inbox EXCEPT ![c] = <<>>]
    /\ UNCHANGED <<ebVars, inRunOnce, tcpConnections, server>>

\* WebSocket::_handleRead without a handshake under way: ignored.
handleUnexpected(c) ==
    /\ Reads(c)
    /\ state = "SOCK_CLOSED"
    /\ UNCHANGED <<wsVars, open, errored, crashed, outVars>>

\* _verifyServerHandshake: the segment begins with the answer made of the nonce.
verifyServerHandshake(s) == Head(s) = "handshake"

\* WebSocket::_handleHandshake: what follows the answer in its segment is lost.
handleHandshakeAny(c) ==        \* wrong on purpose: the answer is not verified
    /\ Reads(c)
    /\ state = "WS_CONNECTING"
    /\ state' = "WS_OPEN"
    /\ verified' = IF verifyServerHandshake(inbox[c]) THEN verified \cup {c} ELSE verified
    /\ UNCHANGED <<conn, open, errored, crashed, getConfigOrdered>>
handleHandshake(c) ==
    /\ Reads(c)
    /\ state = "WS_CONNECTING"
    /\ IF verifyServerHandshake(inbox[c])
       THEN /\ state' = "WS_OPEN"
            /\ verified' = verified \cup {c}
            /\ UNCHANGED <<conn, open, errored>>
       ELSE close /\ UNCHANGED verified
    /\ UNCHANGED <<crashed, getConfigOrdered>>

\* WebSocket::_handleData.  PING and CLOSE are answered on conn; the loop goes
\* on after a CLOSE has dropped it.
handleData(c) ==
    /\ Reads(c)
    /\ state = "WS_OPEN"
    /\ IF Closes(inbox[c]) THEN close ELSE UNCHANGED <<wsVars, open, errored>>
    /\ crashed' = AnswersAfterClose(inbox[c])
    /\ getConfigOrdered' = (getConfigOrdered \/ OrdersGetConfig(inbox[c]))
    /\ UNCHANGED verified

\* TcpConnection::_handleRead meets the end of the stream.
handleEnd(c) ==
    /\ inRunOnce
    /\ c \in tcpConnections \cap open
    /\ inbox[c] = <<>> /\ server[c] = "gone"
    /\ TcpClose(c)
    /\ UNCHANGED <<wsVars, ebVars, inRunOnce, tcpConnections, serverVars, crashed, outVars>>

\* The end of runOnce: the error callback of every errored connection closes
\* the WebSocket, whichever connection it has now; then they leave the list.
endRunOnce ==
    /\ inRunOnce
    /\ inRunOnce' = FALSE
    /\ IF tcpConnections \cap errored # {} THEN close ELSE UNCHANGED <<wsVars, open, errored>>
    /\ tcpConnections' = tcpConnections \ errored'
    /\ server' = [c \in Conn |-> IF c \in errored' THEN "none" ELSE server[c]]
    /\ inbox' = [c \in Conn |-> IF c \in errored' THEN <<>> ELSE inbox[c]]
    /\ UNCHANGED <<ebVars, crashed, outVars>>

MainThread ==
    \/ beginRunOnce \/ endRunOnce
    \/ \E c \in Conn : handleUnexpected(c) \/ handleHandshake(c) \/ handleData(c) \/ handleEnd(c)

-----------------------------------------------------------------------------
(* The server, the config thread, and the service manager that restarts a crashed daemon. *)

serverSends(c, s) ==
    /\ c \in open
    /\ server[c] # "gone" /\ inbox[c] = <<>>
    /\ inbox' = [inbox EXCEPT ![c] = s]
    /\ IF \E i \in DOMAIN s : s[i] = "handshake"
       THEN server[c] = "asked" /\ server' = [server EXCEPT ![c] = "answered"]
       ELSE UNCHANGED server
    /\ UNCHANGED <<wsVars, ebVars, inRunOnce, tcpVars, crashed, outVars>>

serverLeaves(c) ==
    /\ c \in open
    /\ server[c] # "gone"
    /\ server' = [server EXCEPT ![c] = "gone"]
    /\ UNCHANGED <<wsVars, ebVars, inRunOnce, tcpVars, inbox, crashed, outVars>>

\* The config thread begins a pull.
ConfigPulls ==
    /\ getConfigOrdered
    /\ getConfigOrdered' = FALSE
    /\ UNCHANGED <<wsVars, ebVars, inRunOnce, tcpVars, serverVars, crashed, verified>>

Restart ==
    /\ crashed
    /\ state' = "SOCK_CLOSED" /\ conn' = None /\ connected' = FALSE
    /\ ebPc' = "idle" /\ newConn' = None /\ inRunOnce' = FALSE
    /\ tcpConnections' = {} /\ open' = {} /\ errored' = {}
    /\ server' = [c \in Conn |-> "none"] /\ inbox' = [c \in Conn |-> <<>>]
    /\ crashed' = FALSE /\ verified' = {} /\ getConfigOrdered' = FALSE

Next ==
    \/ ~crashed /\ (EventBusThread \/ MainThread \/ ConfigPulls)
    \/ ~crashed /\ \E c \in Conn : serverLeaves(c) \/ \E s \in Segment : serverSends(c, s)
    \/ Restart

Spec == Init /\ [][Next]_vars

\* Both threads run, the main thread takes part in runOnce again and again and
\* leaves it, the mutex is not withheld for ever from the thread that waits for
\* it, and a server that is asked again and again accepts a connection some day.
\* The server is not obliged to send anything.
Fairness ==
    /\ WF_vars(~crashed /\ EventBusThread)
    /\ WF_vars(~crashed /\ beginRunOnce) /\ WF_vars(~crashed /\ endRunOnce)
    /\ SF_vars(~crashed /\ connectSucceeds) /\ SF_vars(~crashed /\ pushConn)
    /\ WF_vars(Restart)
FairSpec == Spec /\ Fairness

-----------------------------------------------------------------------------
\* Every variable keeps the type its declaration comment gives it, and a
\* connection that has errored has no descriptor (TcpConnection::close).
TypeOK ==
    /\ state \in {"SOCK_CLOSED", "WS_CONNECTING", "WS_OPEN"}
    /\ conn \in Conn \cup {None} /\ newConn \in Conn \cup {None}
    /\ {connected, inRunOnce, crashed, getConfigOrdered} \subseteq BOOLEAN
    /\ ebPc \in {"idle", "connect", "push", "assign", "check", "send", "set"}
    /\ tcpConnections \subseteq Conn /\ verified \subseteq Conn
    /\ open \subseteq Conn /\ errored \subseteq Conn /\ open \cap errored = {}
    /\ server \in [Conn -> {"none", "accepted", "asked", "answered", "gone"}]
    /\ inbox \in [Conn -> Segment \cup {<<>>}]

\* A message is acted upon (which needs WS_OPEN) only if the server proved on
\* this very connection that it read the client's nonce, whatever errors of
\* earlier connections come late: an open WebSocket has a verified connection,
\* and no other connection is being read.
OnlyVerifiedRead ==
    state = "WS_OPEN" => conn \in verified /\ open \subseteq {conn}

\* No connection is left open and forgotten ("locking up resources",
\* WebSocket::close): the open one is the WebSocket's, or the event bus thread
\* is about to hand it over.
NoLeak == open \subseteq {conn} \cup (IF ebPc \in {"push", "assign"} THEN {newConn} ELSE {})

\* isConnected, the "dashboard connection" of the daemon's status, does not
\* stay wrong: it says true only while the session is open, or was until the
\* event bus thread last looked, and the thread looks again.
StatusCatchesUp ==
    /\ [](connected => state \in {"WS_OPEN", "SOCK_CLOSED"})
    /\ (connected /\ state # "WS_OPEN") ~> ~connected

-----------------------------------------------------------------------------
(* What the code says, and does not do. *)

\* "(Re)connect to the EventBus server" in EventBus::periodic: a WebSocket
\* without a connection gets one again.
Reconnects == conn = None ~> conn # None

\* assert(this->conn != nullptr) in _sendRaw and assert(this->conn == nullptr)
\* in _connectSocket: neither fails.
NeverCrashes == ~crashed
=============================================================================
