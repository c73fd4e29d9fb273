----------------------------- MODULE Esp32Port -----------------------------
(***************************************************************************)
(* What the ESP32 port does with tasks where other ports have a process of *)
(* their own: HusarnetClient, through which a program starts Husarnet and  *)
(* joins a network (core/husarnet/ports/esp32/user_interface.cpp), and the *)
(* tun interface, through which lwIP hands packets to the Husarnet task    *)
(* (core/husarnet/ports/esp32/tun.cpp).                                    *)
(*                                                                         *)
(* Each call of join() has a task of its own; the tasks share `started`    *)
(* without a lock and wait for one binary semaphore.  lwIP owns a packet   *)
(* buffer (pbuf), counts the references to it and frees it with the last   *)
(* one.  husarnet_netif_output, in lwIP's task, queues the buffer and then *)
(* adds the reference of the Husarnet task.                                *)
(*                                                                         *)
(* lwIP, its buffers and the Dashboard are the environment.  Nothing else  *)
(* uses the memory of a buffer that was freed too early.                   *)
(***************************************************************************)
EXTENDS Integers, Sequences, FiniteSets

CONSTANTS
    Join,        \* the calls of join(), at any time after the client exists
    NoCode,      \* those with an empty join code
    Buffer,      \* the pbufs of lwIP
    QueueSize,   \* capacity of tunTapMsgQueue
    MaxPackets   \* bound: packets lwIP routes to Husarnet

VARIABLES
    manager,         \* how far the Husarnet task is, and what it holds of the queue
    notifyReadySemaphore,
    started,
    join,            \* per call: the step of its task
    claims,          \* history: calls of postClaim
    aborted,         \* the chip restarts
    lwip,            \* lwIP's task in husarnet_netif_output
    tunTapMsgQueue,
    refs,            \* per buffer: its reference counter
    holds,           \* the buffers lwIP still needs: to free them, or to send again
    packets

clientVars == <<notifyReadySemaphore, started, join, claims>>
tunVars == <<lwip, tunTapMsgQueue, refs, holds, packets>>
portVars == <<manager, clientVars, aborted, tunVars>>

None == "none"
Idle == [at |-> "idle", buffer |-> None]

PortInit ==
    /\ manager = [at |-> "prepare", buffer |-> None]
    /\ notifyReadySemaphore = "null" /\ started = FALSE
    /\ join = [j \in Join |-> "none"] /\ claims = 0
    /\ aborted = FALSE
    /\ lwip = Idle /\ tunTapMsgQueue = <<>>
    /\ refs = [b \in Buffer |-> 0] /\ holds = {} /\ packets = 0

Abort == aborted' = TRUE /\ UNCHANGED <<manager, clientVars, tunVars>>
Alive == ~aborted /\ UNCHANGED aborted

-----------------------------------------------------------------------------
(***************************************************************************)
(* The Husarnet task: prepareHusarnet and runHusarnet.                     *)
(***************************************************************************)
\* Port::init: opens the storage, erasing it if need be, and makes the semaphore.
init ==
    /\ Alive /\ manager.at = "prepare"
    /\ manager' = [manager EXCEPT !.at = "waitInit"]
    /\ notifyReadySemaphore' = "taken"
    /\ UNCHANGED <<started, join, claims, tunVars>>

\* The storage cannot be opened, or there is no memory for the semaphore; later,
\* for the queue or the interface.
initFails == ~aborted /\ manager.at \in {"prepare", "waitInit"} /\ Abort

\* The configuration is there: startTun and, all threads started, notifyReady.
startTun ==
    /\ Alive /\ manager.at = "waitInit"
    /\ manager' = [manager EXCEPT !.at = "start"]
    /\ UNCHANGED <<clientVars, tunVars>>

notifyReady ==
    /\ Alive /\ manager.at = "start"
    /\ manager' = Idle
    /\ notifyReadySemaphore' = "given"
    /\ UNCHANGED <<started, join, claims, tunVars>>

TunExists == manager.at \in {"start", "idle", "process"}
Running == manager.at \in {"idle", "process"}

\* processQueuedPackets, in the event loop: a packet out of the queue goes down
\* the layers, then its buffer is freed.
xQueueReceive ==
    /\ Alive /\ manager = Idle /\ tunTapMsgQueue # <<>>
    /\ manager' = [at |-> "process", buffer |-> Head(tunTapMsgQueue)]
    /\ tunTapMsgQueue' = Tail(tunTapMsgQueue)
    /\ UNCHANGED <<clientVars, lwip, refs, holds, packets>>

pbuf_free ==
    /\ Alive /\ manager.at = "process"
    /\ refs' = [refs EXCEPT ![manager.buffer] = @ - 1]
    /\ manager' = Idle
    /\ UNCHANGED <<clientVars, lwip, tunTapMsgQueue, holds, packets>>

-----------------------------------------------------------------------------
(***************************************************************************)
(* join(): one task for each call.                                         *)
(***************************************************************************)
Goes(j, from, to) == join[j] = from /\ join' = [join EXCEPT ![j] = to]
OnlyJoin == UNCHANGED <<manager, claims, tunVars>>

\* threadStart: there is memory for the task, or abort.
joinCalled(j) ==
    \/ Alive /\ Goes(j, "none", "check") /\ OnlyJoin /\ UNCHANGED <<notifyReadySemaphore, started>>
    \/ ~aborted /\ join[j] = "none" /\ Abort

joinChecks(j) ==
    /\ Alive /\ Goes(j, "check", IF started \/ j \in NoCode THEN "ended" ELSE "start")
    /\ OnlyJoin /\ UNCHANGED <<notifyReadySemaphore, started>>

joinStarts(j) ==
    /\ Alive /\ Goes(j, "start", "wait")
    /\ started' = TRUE
    /\ OnlyJoin /\ UNCHANGED notifyReadySemaphore

joinWaitsUncounted(j) ==  \* wrong on purpose: the semaphore stays given
    /\ Alive /\ notifyReadySemaphore = "given"
    /\ Goes(j, "wait", "claim")
    /\ OnlyJoin /\ UNCHANGED <<notifyReadySemaphore, started>>
joinWaits(j) ==
    /\ Alive /\ notifyReadySemaphore = "given"
    /\ Goes(j, "wait", "claim")
    /\ notifyReadySemaphore' = "taken"
    /\ OnlyJoin /\ UNCHANGED started

\* xSemaphoreTake asserts that there is a semaphore.
joinTooEarly(j) == ~aborted /\ join[j] = "wait" /\ notifyReadySemaphore = "null" /\ Abort

\* Without an API address nothing is sent; otherwise postClaim, answered or not.
joinClaims(j) ==
    /\ Alive /\ Goes(j, "claim", "ended")
    /\ claims' \in {claims, claims + 1}
    /\ UNCHANGED <<manager, notifyReadySemaphore, started, tunVars>>

JoinTask(j) ==
    \/ joinCalled(j) \/ joinChecks(j) \/ joinStarts(j)
    \/ joinWaits(j) \/ joinTooEarly(j) \/ joinClaims(j)

-----------------------------------------------------------------------------
(***************************************************************************)
(* lwIP's task.  lwip_hook_ip6_route sends packets for Husarnet addresses  *)
(* here once the interface exists.                                         *)
(***************************************************************************)
Unused(b) ==
    /\ refs[b] = 0 /\ b \notin holds
    /\ \A i \in 1..Len(tunTapMsgQueue) : tunTapMsgQueue[i] # b
    /\ manager.buffer # b

lwip_hook_ip6_route(b) ==
    /\ Alive /\ TunExists /\ lwip = Idle /\ packets < MaxPackets /\ Unused(b)
    /\ packets' = packets + 1
    /\ refs' = [refs EXCEPT ![b] = 1] /\ holds' = holds \cup {b}
    /\ lwip' = [at |-> "output", buffer |-> b]
    /\ UNCHANGED <<manager, clientVars, tunTapMsgQueue>>

Refused == lwip' = Idle /\ UNCHANGED tunTapMsgQueue
RefusedAfterRef == lwip' = [lwip EXCEPT !.at = "ref"] /\ UNCHANGED tunTapMsgQueue  \* wrong on purpose: referenced all the same
RefusedByQueue == Refused

\* A chain of buffers, or a full queue, and the packet is refused.
husarnet_netif_output ==
    /\ Alive /\ lwip.at = "output"
    /\ \/ Refused
       \/ Len(tunTapMsgQueue) >= QueueSize /\ RefusedByQueue
       \/ /\ Len(tunTapMsgQueue) < QueueSize
          /\ tunTapMsgQueue' = Append(tunTapMsgQueue, lwip.buffer)
          /\ lwip' = [lwip EXCEPT !.at = "ref"]
    /\ UNCHANGED <<manager, clientVars, refs, holds, packets>>

pbuf_ref ==
    /\ Alive /\ lwip.at = "ref"
    /\ refs' = [refs EXCEPT ![lwip.buffer] = @ + 1]
    /\ lwip' = Idle
    /\ UNCHANGED <<manager, clientVars, tunTapMsgQueue, holds, packets>>

\* What sent the packet needs its buffer no longer.
LwipFrees(b) ==
    /\ Alive /\ b \in holds /\ lwip = Idle
    /\ refs' = [refs EXCEPT ![b] = @ - 1]
    /\ holds' = holds \ {b}
    /\ UNCHANGED <<manager, clientVars, lwip, tunTapMsgQueue, packets>>

-----------------------------------------------------------------------------
PortNext ==
    \/ init \/ initFails \/ startTun \/ notifyReady
    \/ xQueueReceive \/ pbuf_free
    \/ \E j \in Join : JoinTask(j)
    \/ \E b \in Buffer : lwip_hook_ip6_route(b) \/ LwipFrees(b)
    \/ husarnet_netif_output \/ pbuf_ref

-----------------------------------------------------------------------------
\* A device is claimed once at most, and only over a network stack that runs,
\* however many tasks call join() at whatever time: two of them may both find
\* `started` unset, but the semaphore lets one pass.
OneClaim ==
    /\ claims <= 1
    /\ \A j \in Join : join[j] = "claim" => claims = 0 /\ Running

\* The counter of a buffer and those who will free it agree, apart from the one
\* reference husarnet_netif_output has still to add: no packet, refused, waiting or
\* processed, costs lwIP a buffer, and none is freed twice.
Queued(b) == Cardinality({i \in 1..Len(tunTapMsgQueue) : tunTapMsgQueue[i] = b})
BuffersCounted ==
    \A b \in Buffer :
        refs[b] + (IF lwip = [at |-> "ref", buffer |-> b] THEN 1 ELSE 0)
          = Queued(b) + (IF manager.buffer = b THEN 1 ELSE 0) + (IF b \in holds THEN 1 ELSE 0)

\* "Increase packet's refcounter to prevent it from being freed" (tun.cpp): a buffer
\* lwIP holds is not freed.  It can be: the Husarnet task may take it out of the
\* queue and free it before husarnet_netif_output gets to add its reference.
NotFreedEarly == \A b \in holds : refs[b] > 0
=============================================================================
