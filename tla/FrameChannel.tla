---------------------------- MODULE FrameChannel ----------------------------
(***************************************************************************)
(* What the rest of the daemon takes a framed TcpConnection to be          *)
(* (core/husarnet/ports/sockets.h): packets that write() accepted reach    *)
(* the data callback of the other end whole, once, in the order in which   *)
(* they were accepted, and all of them unless the connection breaks.       *)
(***************************************************************************)
EXTENDS Naturals, Sequences

CONSTANT Packet

VARIABLES sent, received, open

channelVars == <<sent, received, open>>

ChannelInit == sent = <<>> /\ received = <<>> /\ open = TRUE

Accept(p) ==
    /\ open
    /\ sent' = Append(sent, p)
    /\ UNCHANGED <<received, open>>

Deliver ==
    /\ open /\ Len(received) < Len(sent)
    /\ received' = Append(received, sent[Len(received) + 1])
    /\ UNCHANGED <<sent, open>>

Break ==
    /\ open /\ open' = FALSE
    /\ UNCHANGED <<sent, received>>

ChannelNext == Deliver \/ Break \/ \E p \in Packet : Accept(p)

ChannelSpec == ChannelInit /\ [][ChannelNext]_channelVars /\ WF_channelVars(Deliver)
=============================================================================
