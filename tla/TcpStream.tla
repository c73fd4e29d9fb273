----------------------------- MODULE TcpStream -----------------------------
(***************************************************************************)
(* One direction of a TcpConnection that frames its packets                *)
(* (Encapsulation::FRAMED_TLS_MASKED of core/husarnet/ports/sockets.cpp):  *)
(* write() at one end, _handleRead() at the other, and between them a TCP  *)
(* connection that keeps bytes in order and hands them over in chunks of   *)
(* any size.  (At the end this repository does not hold, the base server   *)
(* frames what it sends, and reads, in the same way.)                      *)
(*                                                                         *)
(* The main thread and the worker thread both call write(), with no lock;  *)
(* the socket does not block, so that a send() that finds room for a part  *)
(* of the packet takes that part, and one that finds none fails.           *)
(***************************************************************************)
EXTENDS Naturals, Sequences

CONSTANTS
    Thread,         \* the threads that write
    Packet,         \* the packets they write: sequences of bytes
    TCP_READ_BUFFER,\* capacity of readBuffer
    SendBuffer,     \* bytes the two kernels hold for the connection
    MaxPackets      \* bound: packets written

\* A packet holds one message for the base server: as long as a packet of the tunnel at most.
ASSUME PacketAssumption == \A p \in Packet : p \in Seq(0..255) /\ p # <<>> /\ Len(p) < 65536
ASSUME BufferAssumption == TCP_READ_BUFFER \in Nat /\ TCP_READ_BUFFER > 5 /\ SendBuffer \in Nat

VARIABLES
    writing,     \* per thread: the packet it is in write() with, and the bytes still to send
    pipe,        \* bytes in the kernels' buffers and on the wire
    readBuffer,
    parsing,     \* _handleRead is in its inner loop
    open,        \* fd # -1 at both ends
    sent,        \* history: the packets write() has sent whole
    received     \* history: the packets given to dataCallback

streamVars == <<writing, pipe, readBuffer, parsing, open, sent, received>>

-----------------------------------------------------------------------------
TLS_HEADER == <<23, 3, 3>>
HeaderSize == 5

\* pack((uint16_t)size) and unpack: the bytes as they lie in memory, the low one first.
Pack(size) == <<size % 256, (size % 65536) \div 256>>
Unpack(bytes) == bytes[1] + bytes[2] * 256

Frame(p) == TLS_HEADER \o Pack(Len(p)) \o p

NotWriting == [packet |-> <<>>, rest |-> <<>>]

StreamInit ==
    /\ writing = [t \in Thread |-> NotWriting]
    /\ pipe = <<>> /\ readBuffer = <<>>
    /\ parsing = FALSE /\ open = TRUE
    /\ sent = <<>> /\ received = <<>>

-----------------------------------------------------------------------------
(***************************************************************************)
(* write(): the check of fd and the header, then one send() after another. *)
(***************************************************************************)
write(t, p) ==
    /\ writing[t] = NotWriting /\ open
    /\ Len(sent) < MaxPackets
    /\ writing' = [writing EXCEPT ![t] = [packet |-> p, rest |-> Frame(p)]]
    /\ UNCHANGED <<pipe, readBuffer, parsing, open, sent, received>>

Room == SendBuffer - Len(pipe)

\* send() fails: write returns false, and what has been sent of the packet is sent.
sendFails(t) ==
    /\ writing[t] # NotWriting
    /\ ~open \/ Room = 0
    /\ writing' = [writing EXCEPT ![t] = NotWriting]
    /\ UNCHANGED <<pipe, readBuffer, parsing, open, sent, received>>

send(t) ==
    /\ writing[t] # NotWriting
    /\ open /\ Room > 0
    /\ LET rest == writing[t].rest
           n == IF Len(rest) <= Room THEN Len(rest) ELSE Room IN
       /\ pipe' = pipe \o SubSeq(rest, 1, n)
       /\ IF n = Len(rest)
          THEN /\ writing' = [writing EXCEPT ![t] = NotWriting]
               /\ sent' = Append(sent, writing[t].packet)
          ELSE /\ writing' = [writing EXCEPT ![t].rest = SubSeq(rest, n + 1, Len(rest))]
               /\ UNCHANGED sent
    /\ UNCHANGED <<readBuffer, parsing, open, received>>

-----------------------------------------------------------------------------
(***************************************************************************)
(* _handleRead(): recv() into what is left of readBuffer, then packets out *)
(* of it until it holds none that is whole.                                *)
(***************************************************************************)
Available == TCP_READ_BUFFER - Len(readBuffer)

recv(n) ==
    /\ open /\ ~parsing
    /\ n \in 1..Available /\ n <= Len(pipe)
    /\ readBuffer' = readBuffer \o SubSeq(pipe, 1, n)
    /\ pipe' = SubSeq(pipe, n + 1, Len(pipe))
    /\ parsing' = TRUE
    /\ UNCHANGED <<writing, open, sent, received>>

PacketLen == HeaderSize + Unpack(SubSeq(readBuffer, 4, 5))
BadHeader == SubSeq(readBuffer, 1, 3) # TLS_HEADER
TooLarge == PacketLen >= TCP_READ_BUFFER
HasHeader == Len(readBuffer) > HeaderSize

close ==
    /\ open' = FALSE /\ parsing' = FALSE
    /\ pipe' = <<>>
    /\ UNCHANGED <<writing, readBuffer, sent, received>>

parseRejects ==
    /\ parsing /\ HasHeader /\ (BadHeader \/ TooLarge)
    /\ close

\* dataCallback, and the packet leaves the buffer.
AfterPacketCleared == <<>>  \* wrong on purpose: as without encapsulation, the buffer is cleared
AfterPacket == SubSeq(readBuffer, PacketLen + 1, Len(readBuffer))

parsePacket ==
    /\ parsing /\ HasHeader /\ ~BadHeader /\ ~TooLarge
    /\ Len(readBuffer) >= PacketLen
    /\ received' = Append(received, SubSeq(readBuffer, HeaderSize + 1, PacketLen))
    /\ readBuffer' = AfterPacket
    /\ UNCHANGED <<writing, pipe, parsing, open, sent>>

parseEnds ==
    /\ parsing
    /\ HasHeader => ~BadHeader /\ ~TooLarge /\ Len(readBuffer) < PacketLen
    /\ parsing' = FALSE
    /\ UNCHANGED <<writing, pipe, readBuffer, open, sent, received>>

\* recv() returns an error or the end of the stream.
recvFails == open /\ ~parsing /\ close

-----------------------------------------------------------------------------
Writers == \E t \in Thread : send(t) \/ sendFails(t) \/ \E p \in Packet : write(t, p)
handleRead == (\E n \in 1..TCP_READ_BUFFER : recv(n)) \/ parseRejects \/ parsePacket \/ parseEnds

StreamNext == Writers \/ handleRead \/ recvFails

\* The main loop comes back to a socket that has something to read.
StreamFairness == WF_streamVars(handleRead)

StreamSpec == StreamInit /\ [][StreamNext]_streamVars /\ StreamFairness

-----------------------------------------------------------------------------
Channel == INSTANCE FrameChannel

\* A framed connection is a channel of packets, although its bytes come in chunks
\* of any size and two threads write to it without a lock: as long as the kernel
\* takes each frame in one send().  It always goes on: a packet that can
\* never fit the read buffer breaks it instead of being waited for.
IsChannel == Channel!ChannelSpec
=============================================================================
