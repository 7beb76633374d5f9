------------------------- MODULE MCHostPoolShutdown -------------------------
(***************************************************************************)
(* Shutdowns of HostPool for TLC.  A shutdown can be spoilt: the signal     *)
(* comes while a call of lease_host is between its look at shutdown_flag    *)
(* and its lock, the listing of the final sweep fails, or one of its stops. *)
(***************************************************************************)
EXTENDS MCHostPool

VARIABLE spoilt     \* history: one of these has happened

UnquietSignal == sd_pc = "up" /\ sd_pc' = "drain" /\ \E r \in Requests : At(r, "lock")
SweepFails ==
    \/ sd_pc = "list" /\ sd_pc' = "exited"
    \/ sd_pc = "sweep" /\ \E c \in sd_list \ sd_list' : container'[c] = "running"

MCInit == Init /\ spoilt = FALSE
MCNext == Next /\ spoilt' = (spoilt \/ UnquietSignal \/ SweepFails)
MCSpec == MCInit /\ [][MCNext]_<<vars, spoilt>>

(***************************************************************************)
(* A graceful shutdown that is not spoilt leaves nothing running, whoever   *)
(* was using, starting, returning or reaping a host when it began, and      *)
(* although most of the drops it causes reach a dead cleanup task.          *)
(***************************************************************************)
CleanExit == sd_pc = "exited" /\ ~spoilt => \A c \in Containers : container[c] # "running"
=============================================================================
