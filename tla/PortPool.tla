------------------------------ MODULE PortPool ------------------------------
(***************************************************************************)
(* What the port manager promises the host pool, without its queue, channel *)
(* and background task: every port of the configured range has at most one  *)
(* owner at a time, a port that is given back passes through "returning"    *)
(* before it can be handed out again, and the only way to lose one is to    *)
(* give it back when the release channel is full.                           *)
(***************************************************************************)
CONSTANT Ports

VARIABLE port_state

PortStates == {"free", "held", "returning", "lost"}

Init == port_state = [p \in Ports |-> "free"]

Moves(p, from, to) ==
    /\ port_state[p] = from
    /\ port_state' = [port_state EXCEPT ![p] = to]

Acquire(p)  == Moves(p, "free", "held")           \* allocate_port
GiveBack(p) == Moves(p, "held", "returning")      \* the AllocatedPort is dropped
Lose(p)     == Moves(p, "held", "lost")           \* ... and its channel is full
Restore(p)  == Moves(p, "returning", "free")      \* process_port_returns

Next == \E p \in Ports : Acquire(p) \/ GiveBack(p) \/ Lose(p) \/ Restore(p)

Spec == Init /\ [][Next]_port_state
=============================================================================
