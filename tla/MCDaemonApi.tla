---------------------------- MODULE MCDaemonApi ----------------------------
(***************************************************************************)
(* DaemonApi, through which programs of the host talk to a daemon, and     *)
(* beside it Esp32Port, through which the program on a chip does.  They    *)
(* share no state: one run explores first the one and then the other.      *)
(***************************************************************************)
EXTENDS DaemonApi

CONSTANTS Join, NoCode, Buffer, QueueSize, MaxPackets

ASSUME JoinAssumption == NoCode \subseteq Join
ASSUME TunAssumption == QueueSize \in Nat \ {0} /\ MaxPackets \in Nat /\ "none" \notin Buffer

VARIABLES explored, manager, notifyReadySemaphore, started, join, claims, aborted,
          lwip, tunTapMsgQueue, refs, holds, packets

chip == <<manager, notifyReadySemaphore, started, join, claims, aborted,
          lwip, tunTapMsgQueue, refs, holds, packets>>

Esp == INSTANCE Esp32Port

\* What is not explored starts in one of its states only.
MCInit ==
    /\ Init /\ Esp!PortInit
    /\ \/ explored = "daemon"
       \/ explored = "chip" /\ tokenFile = Absent

MCNext ==
    /\ UNCHANGED explored
    /\ \/ explored = "daemon" /\ Next /\ UNCHANGED chip
       \/ explored = "chip" /\ Esp!PortNext /\ UNCHANGED vars

MCSpec == MCInit /\ [][MCNext]_<<explored, vars, chip>> /\ Fairness

OneClaim == Esp!OneClaim
BuffersCounted == Esp!BuffersCounted
=============================================================================
