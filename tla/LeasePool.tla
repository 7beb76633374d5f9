----------------------------- MODULE LeasePool -----------------------------
(***************************************************************************)
(* What HostPoolManager promises its callers: at most max_instances hosts,  *)
(* each spare, leased to one request, on its way back, or astray.  No       *)
(* mutex, channel, port or Docker call is visible.  HostPool implements     *)
(* this specification; Gateway uses it in place of HostPool.                *)
(***************************************************************************)
EXTENDS Naturals, FiniteSets

CONSTANTS Requests, Containers, max_instances,
          DrainTimesOut    \* the drain may give up before every lease is back

Places == {"none", "spare", "returning", "stray"}
Phases == {"up", "draining", "drained", "collected", "ended"}

(* What a module that uses this one assumes of its constants. *)
LeasePoolAssumption ==
    /\ Requests \intersect Places = {} /\ max_instances \in Nat \ {0}
    /\ IsFiniteSet(Containers) /\ DrainTimesOut \in BOOLEAN

VARIABLES caller,       \* progress of each request's lease_host and HostLease
          owner,        \* who has the host of a container
          tested,       \* hosts that passed a health check
          phase         \* of the process

vars == <<caller, owner, tested, phase>>

TypeOK ==
    /\ caller \in [Requests -> {"idle", "calling", "holding"}]
    /\ owner \in [Containers -> Places \union Requests]
    /\ tested \subseteq Containers
    /\ phase \in Phases

Init ==
    /\ caller = [r \in Requests |-> "idle"]
    /\ owner = [c \in Containers |-> "none"]
    /\ tested = {}
    /\ phase = "up"

At(place) == {c \in Containers : owner[c] = place}
Hosts == {c \in Containers : owner[c] # "none"}
Room == Cardinality(Hosts) < max_instances

Move(cs, place) ==
    /\ owner' = [c \in Containers |-> IF c \in cs THEN place ELSE owner[c]]
    /\ tested' = IF place = "none" THEN tested \ cs ELSE tested

Become(r, s) == caller' = [caller EXCEPT ![r] = s]
-----------------------------------------------------------------------------
(* lease_host, after its look at shutdown_flag. *)
Call(r) ==
    /\ phase = "up" /\ caller[r] = "idle"
    /\ Become(r, "calling")
    /\ UNCHANGED <<owner, tested, phase>>

(* A spare host, or a new one if there is none and there is room. *)
Reserve(r, c) ==
    /\ caller[r] = "calling" /\ At(r) = {}
    /\ owner[c] = "spare" \/ (owner[c] = "none" /\ At("spare") = {} /\ Room)
    /\ Move({c}, r)
    /\ IF c \in tested THEN Become(r, "holding") ELSE UNCHANGED caller
    /\ UNCHANGED phase

(* Every error of lease_host that leaves no lease: the limit, Docker, ports, InvalidLease. *)
Refuse(r) ==
    /\ caller[r] = "calling" /\ At(r) = {}
    /\ Become(r, "idle")
    /\ UNCHANGED <<owner, tested, phase>>

Ready(r) ==
    /\ caller[r] = "calling" /\ At(r) # {}
    /\ Become(r, "holding")
    /\ tested' = tested \union At(r)
    /\ UNCHANGED <<owner, phase>>

NotReady(r) ==
    /\ caller[r] = "calling" /\ At(r) # {}
    /\ Become(r, "idle")
    /\ Move(At(r), "none")
    /\ UNCHANGED phase

(* The HostLease is dropped; its message finds the channel open, or not. *)
GiveBack(r) ==
    /\ caller[r] = "holding"
    /\ Become(r, "idle")
    /\ Move(At(r), "returning") \/ Move(At(r), "stray")
    /\ UNCHANGED phase

(* The caller's future is dropped before it has its HostLease. *)
HangUp(r) ==
    /\ caller[r] = "calling"
    /\ Become(r, "idle")
    /\ Move(At(r), "stray")
    /\ UNCHANGED phase
-----------------------------------------------------------------------------
(* The background tasks. *)
Settle(c) ==
    /\ owner[c] = "returning"
    /\ Move({c}, "spare") \/ Move({c}, "none")
    /\ UNCHANGED <<caller, phase>>

Retire(cs) ==
    /\ cs # {} /\ cs \subseteq At("spare")
    /\ Move(cs, "none")
    /\ UNCHANGED <<caller, phase>>

Scale(c) ==
    /\ owner[c] = "none" /\ Room
    /\ Move({c}, "spare")
    /\ UNCHANGED <<caller, phase>>

(* The return task is aborted: what it has not settled goes astray or is dropped. *)
AbortReturns ==
    /\ phase \in {"drained", "collected"}
    /\ \E cs \in SUBSET At("returning") :
        /\ owner' = [c \in Containers |-> IF owner[c] # "returning" THEN owner[c]
                                          ELSE IF c \in cs THEN "none" ELSE "stray"]
        /\ tested' = tested \ cs
    /\ UNCHANGED <<caller, phase>>

(* main and shutdown_all_containers. *)
Enter(p) == phase' = p /\ UNCHANGED caller

ShutdownSignal == phase = "up" /\ Enter("draining") /\ UNCHANGED <<owner, tested>>

NothingLeased == Hosts \subseteq At("spare")

Drained ==
    /\ phase = "draining"
    /\ NothingLeased \/ DrainTimesOut
    /\ Enter("drained")
    /\ UNCHANGED <<owner, tested>>

CollectAllHosts == phase = "drained" /\ Move(Containers, "none") /\ Enter("collected")

End == phase \in {"up", "collected"} /\ Enter("ended") /\ UNCHANGED <<owner, tested>>

Next ==
    /\ phase # "ended"
    /\ \/ \E r \in Requests : \/ Call(r) \/ Refuse(r) \/ Ready(r) \/ NotReady(r)
                              \/ GiveBack(r) \/ HangUp(r)
                              \/ \E c \in Containers : Reserve(r, c)
       \/ \E c \in Containers : Settle(c) \/ Scale(c)
       \/ \E cs \in SUBSET At("spare") : Retire(cs)
       \/ AbortReturns \/ ShutdownSignal \/ Drained \/ CollectAllHosts \/ End

(* The first conjunct changes nothing; it spares TLC a search on hidden steps. *)
Spec == Init /\ [][vars' # vars /\ Next]_vars
=============================================================================
