---------------------------- MODULE PortManager ----------------------------
(***************************************************************************)
(* lambda-gateway/src/port: PortManager, the AllocatedPort guard it hands   *)
(* out, and the background task that brings dropped ports back.             *)
(*                                                                          *)
(* A port travels queue -> AllocatedPort -> release channel -> hands of the *)
(* background task -> queue.  The channel is bounded and AllocatedPort::drop *)
(* uses try_send, so a drop that meets a full channel loses its port.       *)
(* Every critical section on the available_ports mutex is free of awaits,   *)
(* so each is one atomic action and the mutex itself is not state.          *)
(***************************************************************************)
EXTENDS Sequences, Functions, FiniteSets, Naturals

CONSTANTS Ports,            \* the configured port_range
          Capacities,       \* what PORT_RELEASE_CHANNEL_CAPACITY may be
          NoPort

ASSUME PortAssumption ==
    /\ IsFiniteSet(Ports)
    /\ NoPort \notin Ports
    /\ Capacities \subseteq Nat \ {0}      \* mpsc::channel(0) panics

VARIABLES queue, set,       \* available_ports: QueueSet<u16>
          allocated,        \* the ports of the live AllocatedPort guards
          channel,          \* port_release channel
          capacity,         \* its capacity, fixed when it is made
          in_hand,          \* port received by the task, not yet pushed
          lost              \* ports of guards whose try_send failed

vars == <<queue, set, allocated, channel, capacity, in_hand, lost>>

QS == INSTANCE QueueSet

(***************************************************************************)
(* new: every port of the range, in range order.  The order among the ports *)
(* is irrelevant, so any enumeration of the range may be the initial queue. *)
(***************************************************************************)
Init ==
    /\ queue \in Bijection(1 .. Cardinality(Ports), Ports)
    /\ set = Range(queue)
    /\ allocated = {}
    /\ channel = << >> /\ capacity \in Capacities
    /\ in_hand = NoPort
    /\ lost = {}

(* allocate_port on a non-empty queue. *)
AllocatePort ==
    /\ QS!PopFront
    /\ allocated' = allocated \union {Head(queue)}
    /\ UNCHANGED <<channel, capacity, in_hand, lost>>

(* allocate_port on an empty queue answers NoAvailablePorts. *)
NoAvailablePorts == queue = << >> /\ UNCHANGED vars

(* Mutated: the channel is taken for unbounded. *)
DropPortUnbounded(p) ==
    /\ p \in allocated
    /\ allocated' = allocated \ {p}
    /\ channel' = Append(channel, p)
    /\ UNCHANGED <<queue, set, capacity, in_hand, lost>>

(* Mutated: a guard that can be dropped (release_now, then Drop) twice. *)
DropPortTwice(p) ==
    /\ p \in allocated
    /\ Len(channel) < capacity
    /\ allocated' = allocated
    /\ channel' = Append(channel, p)
    /\ UNCHANGED <<queue, set, capacity, in_hand, lost>>

(* AllocatedPort::drop, try_send = Ok. *)
DropPort(p) ==
    /\ p \in allocated
    /\ Len(channel) < capacity
    /\ allocated' = allocated \ {p}
    /\ channel' = Append(channel, p)
    /\ UNCHANGED <<queue, set, capacity, in_hand, lost>>

(* Mutated: try_send gives up one slot early. *)
DropPortFullEarly(p) ==
    /\ p \in allocated
    /\ Len(channel) >= capacity - 1
    /\ allocated' = allocated \ {p}
    /\ lost' = lost \union {p}
    /\ UNCHANGED <<queue, set, channel, capacity, in_hand>>

(* AllocatedPort::drop, try_send = Full. *)
DropPortFull(p) ==
    /\ p \in allocated
    /\ Len(channel) >= capacity
    /\ allocated' = allocated \ {p}
    /\ lost' = lost \union {p}
    /\ UNCHANGED <<queue, set, channel, capacity, in_hand>>

(* process_port_returns: recv().await *)
ReceivePort ==
    /\ in_hand = NoPort
    /\ channel # << >>
    /\ in_hand' = Head(channel)
    /\ channel' = Tail(channel)
    /\ UNCHANGED <<queue, set, allocated, capacity, lost>>

(* Mutated: the returned port is put where the next allocation finds it. *)
PushPortFront ==
    /\ in_hand # NoPort
    /\ set' = set \union {in_hand}
    /\ queue' = <<in_hand>> \o queue
    /\ in_hand' = NoPort
    /\ UNCHANGED <<allocated, channel, capacity, lost>>

(* Mutated: the received port is dropped instead of pushed. *)
PushPortForgets ==
    /\ in_hand # NoPort
    /\ set' = set
    /\ in_hand' = NoPort
    /\ UNCHANGED <<queue, allocated, channel, capacity, lost>>

(* process_port_returns: lock().await and push_back *)
PushPort ==
    /\ in_hand # NoPort
    /\ QS!PushBack(in_hand)
    /\ in_hand' = NoPort
    /\ UNCHANGED <<allocated, channel, capacity, lost>>

ProcessPortReturns == ReceivePort \/ PushPort

Next == \/ AllocatePort
        \/ NoAvailablePorts
        \/ \E p \in Ports : DropPort(p) \/ DropPortFull(p)
        \/ ProcessPortReturns

Spec == Init /\ [][Next]_vars
-----------------------------------------------------------------------------
(* Types; the release channel never exceeds its capacity. *)
TypeOK ==
    /\ queue \in Seq(Ports)
    /\ set \subseteq Ports
    /\ allocated \subseteq Ports
    /\ channel \in Seq(Ports)
    /\ capacity \in Capacities /\ Len(channel) <= capacity
    /\ in_hand \in Ports \union {NoPort}
    /\ lost \subseteq Ports

InHand == {in_hand} \ {NoPort}

(***************************************************************************)
(* Every port of the range is in exactly one place: never both available    *)
(* and owned (two containers bound to one port), never queued twice.        *)
(***************************************************************************)
PortConservation ==
    /\ set = Range(queue) /\ IsInjective(queue)
    /\ IsInjective(channel)
    /\ Ports = Range(queue) \union allocated \union Range(channel) \union InHand \union lost
    /\ Range(queue) \intersect (allocated \union Range(channel) \union InHand \union lost) = {}
    /\ allocated \intersect (Range(channel) \union InHand \union lost) = {}
    /\ Range(channel) \intersect (InHand \union lost) = {}
    /\ InHand \intersect lost = {}

(***************************************************************************)
(* The "may leak" branch of AllocatedPort::drop is dead as long as the port *)
(* range is no larger than the release channel.                             *)
(***************************************************************************)
NoPortLeak == Cardinality(Ports) <= capacity => lost = {}

(* A dropped port whose try_send succeeded becomes available again. *)
DroppedPortComesBack == \A p \in Ports : p \in Range(channel) ~> p \in set

(***************************************************************************)
(* The port manager implements the abstract pool of ports.                  *)
(***************************************************************************)
PortStateOf(p) ==
    IF p \in set THEN "free"
    ELSE IF p \in allocated THEN "held"
    ELSE IF p \in lost THEN "lost" ELSE "returning"

PortPoolImpl == INSTANCE PortPool WITH port_state <- [p \in Ports |-> PortStateOf(p)]

(* Every behaviour of the queue, channel and task is one of the abstract pool. *)
ImplementsPortPool == PortPoolImpl!Spec
=============================================================================
