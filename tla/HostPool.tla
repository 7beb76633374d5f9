------------------------------ MODULE HostPool ------------------------------
(***************************************************************************)
(* lambda-gateway/src/pool: HostPoolManager, the HostInstance and HostLease *)
(* guards, its four background tasks and its graceful shutdown, over the    *)
(* abstract PortPool and the Docker daemon.                                 *)
(*                                                                          *)
(* pc[t] names the await a task is suspended at; what runs between two      *)
(* awaits is one action.  The state mutex is `lock`: a section without an   *)
(* await needs it free and leaves it free; one that awaits Docker inside    *)
(* keeps it.  Names (lease ids, container ids) are fresh when nothing       *)
(* refers to them any more, which stands for Uuid::new_v4 and Docker's ids. *)
(* The order of available_hosts decides nothing the pool promises, so the   *)
(* VecDeque is a set and pop_front takes any member.                        *)
(***************************************************************************)
EXTENDS Naturals, Sequences, FiniteSets, Functions

CONSTANTS Requests,         \* concurrent callers of lease_host
          Containers, Ports, LeaseIds,
          max_instances, min_instances,
          LeaseCap,         \* capacity of the lease release channel
          CleanupCap,       \* capacity of the container cleanup channel
          Events,           \* what the environment does in this instance
          NoPort, NoContainer, NoLease, Nobody

Workers == {"return", "cleanup", "scale"}     \* the reaper has no local state
Tasks == Requests \union Workers
Spawners == Requests \union {"scale"}

AllEvents == {"shutdown", "cancel", "expire", "crash", "timeout", "server_err",
              "create_err", "start_err", "lost_reply", "inspect_err", "stop_err", "list_err"}

ASSUME PoolAssumption ==
    /\ IsFiniteSet(Containers) /\ IsFiniteSet(LeaseIds)
    /\ Requests \intersect (Workers \union {Nobody}) = {}
    /\ Nobody \notin Workers
    /\ NoPort \notin Ports /\ NoContainer \notin Containers /\ NoLease \notin LeaseIds
    /\ max_instances \in Nat \ {0} /\ min_instances \in 0 .. max_instances
    /\ LeaseCap \in Nat \ {0} /\ CleanupCap \in Nat \ {0}
    /\ Events \subseteq AllEvents

VARIABLES
    available_hosts,        \* HostPoolManagerState
    leased_hosts,
    host_port,              \* HostInstance.allocated_port of each live instance
    tested,                 \* ... whose health_check_tested is set
    expired,                \* ... that are older than instance_ttl
    container, port_of,     \* Docker
    port_state,             \* PortPool
    lease_chan,             \* lease_release channel
    cleanup_chan,           \* cleanup channel
    lock,                   \* holder of the state mutex
    pc, lease, port, cont,  \* locals of the tasks
    scale_left,             \* rounds left of run_scaling_policy's loop
    reap_hosts,             \* expired hosts the reaper is dropping
    sd_pc,                  \* progress of main / shutdown_all_containers
    sd_hosts,               \* hosts collect_all_hosts took out
    sd_list                 \* containers cleanup_all_containers has to stop

poolVars == <<available_hosts, leased_hosts>>
hostVars == <<host_port, tested, expired>>
dockerVars == <<container, port_of>>
chanVars == <<lease_chan, cleanup_chan>>
localVars == <<lease, port, cont>>
taskVars == <<lock, pc, localVars, scale_left, reap_hosts>>
sdVars == <<sd_pc, sd_hosts, sd_list>>
vars == <<poolVars, hostVars, dockerVars, port_state, chanVars, taskVars, sdVars>>

D == INSTANCE Docker
PP == INSTANCE PortPool

Init ==
    /\ available_hosts = {}
    /\ leased_hosts = [l \in LeaseIds |-> NoContainer]
    /\ host_port = [c \in Containers |-> NoPort]
    /\ tested = {} /\ expired = {}
    /\ D!Init /\ PP!Init
    /\ lease_chan = << >> /\ cleanup_chan = << >>
    /\ lock = Nobody
    /\ pc = [t \in Tasks |-> "idle"]
    /\ lease = [t \in Tasks |-> NoLease]
    /\ port = [t \in Tasks |-> NoPort]
    /\ cont = [t \in Tasks |-> NoContainer]
    /\ scale_left = 0 /\ reap_hosts = {}
    /\ sd_pc = "up" /\ sd_hosts = {} /\ sd_list = {}
-----------------------------------------------------------------------------
(* Views of the state. *)
Alive == sd_pc \notin {"exited", "failed"}      \* the process still runs
ShuttingDown == sd_pc # "up"                    \* shutdown_flag
Aborted == sd_pc \in {"collect", "drop", "list", "sweep"}
Live(c) == host_port[c] # NoPort                \* a HostInstance for c exists
Leases == {l \in LeaseIds : leased_hosts[l] # NoContainer}
LeasedContainers == {leased_hosts[l] : l \in Leases}
HostCount == Cardinality(available_hosts) + Cardinality(Leases)

FreshContainers ==
    {c \in Containers : /\ container[c] = "absent" /\ ~Live(c)
                        /\ c \notin Range(cleanup_chan) \union sd_list
                        /\ \A t \in Tasks : cont[t] # c}

FreshLeases ==
    {l \in LeaseIds : /\ leased_hosts[l] = NoContainer
                      /\ l \notin Range(lease_chan)
                      /\ \A t \in Tasks : lease[t] # l}

(* Mutated: the last slot of the channel is never used. *)
TrySendEarlyFull(chan, v, cap, open) ==
    IF open /\ Len(chan) + 1 < cap THEN Append(chan, v) ELSE chan

(* Sender::try_send on a channel of capacity cap. *)
TrySend(chan, v, cap, open) ==
    IF open /\ Len(chan) < cap THEN Append(chan, v) ELSE chan

(***************************************************************************)
(* HostInstance::drop, then the drop of its fields: the container goes to   *)
(* the cleanup channel, or is forgotten if that is full or closed, and the  *)
(* AllocatedPort starts its way back.                                       *)
(***************************************************************************)
DropHost(c) ==
    /\ cleanup_chan' = TrySend(cleanup_chan, c, CleanupCap, pc["cleanup"] # "dead")
    /\ PP!GiveBack(host_port[c])
    /\ host_port' = [host_port EXCEPT ![c] = NoPort]
    /\ tested' = tested \ {c}
    /\ expired' = expired \ {c}

At(t, place) == pc[t] = place
Goto(t, place) == pc' = [pc EXCEPT ![t] = place]
Forget(t) ==
    /\ lease' = [lease EXCEPT ![t] = NoLease]
    /\ port' = [port EXCEPT ![t] = NoPort]
    /\ cont' = [cont EXCEPT ![t] = NoContainer]
-----------------------------------------------------------------------------
(***************************************************************************)
(* spawn_new_host and DockerManager::create_container, called with the lock *)
(* held by lease_host and by run_scaling_policy.                            *)
(***************************************************************************)
(* Mutated: the loop runs once more than needed. *)
NextRoundTooMany ==
    /\ scale_left' = scale_left - 1
    /\ IF scale_left = 0 THEN Goto("scale", "idle") /\ lock' = Nobody
                         ELSE Goto("scale", "port") /\ UNCHANGED lock

NextRound ==      \* run_scaling_policy: the for loop, then the unlock
    /\ scale_left' = scale_left - 1
    /\ IF scale_left = 1 THEN Goto("scale", "idle") /\ lock' = Nobody
                         ELSE Goto("scale", "port") /\ UNCHANGED lock

SpawnFailed(t) ==
    /\ Forget(t)
    /\ IF t = "scale" THEN NextRound
                      ELSE Goto(t, "idle") /\ lock' = Nobody /\ UNCHANGED scale_left
    /\ UNCHANGED <<poolVars, hostVars, chanVars, reap_hosts, sdVars>>

AllocatePort(t) ==
    /\ At(t, "port")
    /\ \E p \in Ports :
        /\ PP!Acquire(p)
        /\ port' = [port EXCEPT ![t] = p]
    /\ Goto(t, "create")
    /\ UNCHANGED <<poolVars, hostVars, dockerVars, chanVars, lock, lease, cont,
                   scale_left, reap_hosts, sdVars>>

NoAvailablePorts(t) ==
    /\ At(t, "port")
    /\ \A p \in Ports : port_state[p] # "free"
    /\ SpawnFailed(t)
    /\ UNCHANGED <<dockerVars, port_state>>

CreateContainer(t) ==
    /\ At(t, "create")
    /\ \E c \in FreshContainers :
        /\ D!Create(c, port[t])
        /\ cont' = [cont EXCEPT ![t] = c]
    /\ Goto(t, "start")
    /\ UNCHANGED <<poolVars, hostVars, port_state, chanVars, lock, lease, port,
                   scale_left, reap_hosts, sdVars>>

(* Bound: with every name of Containers in use the daemon answers an error. *)
CreateFails(t) ==
    /\ At(t, "create")
    /\ "create_err" \in Events \/ FreshContainers = {}
    /\ PP!GiveBack(port[t])
    /\ SpawnFailed(t)
    /\ UNCHANGED dockerVars

StartContainer(t) ==
    /\ At(t, "start")
    /\ D!Start(cont[t])
    /\ Goto(t, "started")
    /\ UNCHANGED <<poolVars, hostVars, port_state, chanVars, lock, localVars,
                   scale_left, reap_hosts, sdVars>>

(* Mutated: the error path keeps only the number, and the port is not given back. *)
StartRefusedKeepsPort(t) ==
    /\ At(t, "start")
    /\ "start_err" \in Events \/ D!Published(port[t])
    /\ D!Refuse(cont[t])
    /\ SpawnFailed(t)
    /\ UNCHANGED port_state

(* Mutated: the error of the start call is ignored. *)
StartRefusedIgnored(t) ==
    /\ At(t, "start")
    /\ "start_err" \in Events \/ D!Published(port[t])
    /\ D!Refuse(cont[t])
    /\ Goto(t, "started")
    /\ UNCHANGED <<poolVars, hostVars, port_state, chanVars, lock, localVars,
                   scale_left, reap_hosts, sdVars>>

(* The daemon refuses, for one because the port is still published. *)
StartRefused(t) ==
    /\ At(t, "start")
    /\ "start_err" \in Events \/ D!Published(port[t])
    /\ D!Refuse(cont[t])
    /\ PP!GiveBack(port[t])
    /\ SpawnFailed(t)

(* The daemon starts the container but the caller sees an error. *)
StartReplyLost(t) ==
    /\ At(t, "start")
    /\ "lost_reply" \in Events
    /\ D!Start(cont[t])
    /\ PP!GiveBack(port[t])
    /\ SpawnFailed(t)

(* A new HostInstance around the started container (its inspection is only logged). *)
NewHost(t) ==
    /\ At(t, "started")
    /\ host_port' = [host_port EXCEPT ![cont[t]] = port[t]]
    /\ UNCHANGED <<tested, expired, dockerVars, port_state, chanVars, reap_hosts, sdVars>>

ScalerAddsHost ==
    /\ NewHost("scale")
    /\ available_hosts' = available_hosts \union {cont["scale"]}
    /\ Forget("scale")
    /\ NextRound
    /\ UNCHANGED leased_hosts

SpawnStep(t) ==
    \/ AllocatePort(t) \/ NoAvailablePorts(t)
    \/ CreateContainer(t) \/ CreateFails(t)
    \/ StartContainer(t) \/ StartRefused(t) \/ StartReplyLost(t)
-----------------------------------------------------------------------------
(***************************************************************************)
(* lease_host and the HostLease it returns, for a request r.                *)
(***************************************************************************)
LeaseHost(r) ==     \* after ShuttingDown was read as false
    /\ At(r, "idle")
    /\ ~ShuttingDown
    /\ Goto(r, "lock")
    /\ UNCHANGED <<poolVars, hostVars, dockerVars, port_state, chanVars, lock,
                   localVars, scale_left, reap_hosts, sdVars>>

(* Insert the host under a new lease id and let go of the lock. *)
InsertLease(r, c, p) ==
    /\ \E l \in FreshLeases :
        /\ leased_hosts' = [leased_hosts EXCEPT ![l] = c]
        /\ lease' = [lease EXCEPT ![r] = l]
    /\ cont' = [cont EXCEPT ![r] = c]
    /\ port' = [port EXCEPT ![r] = p]
    /\ lock' = Nobody
    /\ Goto(r, IF c \in tested THEN "holding" ELSE "health")
    /\ UNCHANGED scale_left

LeaseAvailable(r) ==
    /\ At(r, "lock") /\ lock = Nobody
    /\ \E c \in available_hosts :
        /\ available_hosts' = available_hosts \ {c}
        /\ InsertLease(r, c, host_port[c])
    /\ UNCHANGED <<hostVars, dockerVars, port_state, chanVars, reap_hosts, sdVars>>

MaxInstancesReached(r) ==
    /\ At(r, "lock") /\ lock = Nobody
    /\ available_hosts = {}
    /\ Cardinality(Leases) >= max_instances
    /\ Goto(r, "idle")
    /\ UNCHANGED <<poolVars, hostVars, dockerVars, port_state, chanVars, lock,
                   localVars, scale_left, reap_hosts, sdVars>>

(* Mutated: off by one at the capacity limit. *)
SpawnForLeaseOverMax(r) ==
    /\ At(r, "lock") /\ lock = Nobody
    /\ available_hosts = {}
    /\ Cardinality(Leases) <= max_instances
    /\ lock' = r
    /\ Goto(r, "port")
    /\ UNCHANGED <<poolVars, hostVars, dockerVars, port_state, chanVars, localVars,
                   scale_left, reap_hosts, sdVars>>

SpawnForLease(r) ==
    /\ At(r, "lock") /\ lock = Nobody
    /\ available_hosts = {}
    /\ Cardinality(Leases) < max_instances
    /\ lock' = r
    /\ Goto(r, "port")
    /\ UNCHANGED <<poolVars, hostVars, dockerVars, port_state, chanVars, localVars,
                   scale_left, reap_hosts, sdVars>>

LeaseSpawned(r) ==
    /\ NewHost(r)
    /\ InsertLease(r, cont[r], port[r])
    /\ UNCHANGED available_hosts

(* Mutated: probe until the port answers, without max_attempts. *)
HealthWaitForEver(r) ==
    /\ At(r, "health")
    /\ D!Published(port[r]) /\ Goto(r, "ready")
    /\ UNCHANGED <<poolVars, hostVars, dockerVars, port_state, chanVars, lock,
                   localVars, scale_left, reap_hosts, sdVars>>

(* wait_for_container_ready: one of ten probes of the port answered, or none did. *)
HealthWait(r) ==
    /\ At(r, "health")
    /\ \/ D!Published(port[r]) /\ Goto(r, "ready")
       \/ Goto(r, "unready")
    /\ UNCHANGED <<poolVars, hostVars, dockerVars, port_state, chanVars, lock,
                   localVars, scale_left, reap_hosts, sdVars>>

MarkTested(r) ==
    /\ At(r, "ready") /\ lock = Nobody
    /\ leased_hosts[lease[r]] # NoContainer
    /\ tested' = tested \union {leased_hosts[lease[r]]}
    /\ Goto(r, "holding")
    /\ UNCHANGED <<poolVars, host_port, expired, dockerVars, port_state, chanVars,
                   lock, localVars, scale_left, reap_hosts, sdVars>>

(* "This should never, ever happen": the entry is gone, no HostLease is made. *)
InvalidLease(r) ==
    /\ At(r, "ready") /\ lock = Nobody
    /\ leased_hosts[lease[r]] = NoContainer
    /\ Goto(r, "idle")
    /\ Forget(r)
    /\ UNCHANGED <<poolVars, hostVars, dockerVars, port_state, chanVars, lock,
                   scale_left, reap_hosts, sdVars>>

(* Remove an entry, if it is still there, and drop its host. *)
RemoveAndDrop(l) ==
    /\ leased_hosts' = [leased_hosts EXCEPT ![l] = NoContainer]
    /\ IF leased_hosts[l] = NoContainer
       THEN UNCHANGED <<hostVars, port_state, cleanup_chan>>
       ELSE DropHost(leased_hosts[l])

ContainerNotReady(r) ==
    /\ At(r, "unready") /\ lock = Nobody
    /\ RemoveAndDrop(lease[r])
    /\ Goto(r, "idle")
    /\ Forget(r)
    /\ UNCHANGED <<available_hosts, dockerVars, lease_chan, lock, scale_left,
                   reap_hosts, sdVars>>

(* HostLease::drop *)
DropLease(r) ==
    /\ At(r, "holding")
    /\ lease_chan' = TrySend(lease_chan, lease[r], LeaseCap, pc["return"] # "dead")
    /\ Goto(r, "idle")
    /\ Forget(r)
    /\ UNCHANGED <<poolVars, hostVars, dockerVars, port_state, cleanup_chan, lock,
                   scale_left, reap_hosts, sdVars>>

(***************************************************************************)
(* A future dropped at an await: the client hung up (hyper drops the        *)
(* service future) or the worker was aborted.  Guards run their Drop: the   *)
(* mutex guard, and the AllocatedPort of a spawn under way.  A Docker call  *)
(* in flight may still take effect.                                         *)
(***************************************************************************)
Abandon(t, place) ==
    /\ lock' = IF lock = t THEN Nobody ELSE lock
    /\ Goto(t, place)
    /\ Forget(t)

AbandonSpawn(t) ==
    /\ IF pc[t] \in {"create", "start", "started"}
       THEN PP!GiveBack(port[t]) ELSE UNCHANGED port_state
    /\ \/ UNCHANGED dockerVars
       \/ At(t, "create") /\ \E c \in FreshContainers : D!Create(c, port[t])
       \/ At(t, "start") /\ D!Start(cont[t])

Cancel(r) ==
    /\ "cancel" \in Events
    /\ pc[r] \notin {"idle", "holding"}
    /\ Abandon(r, "idle")
    /\ AbandonSpawn(r)
    /\ UNCHANGED <<poolVars, hostVars, chanVars, scale_left, reap_hosts, sdVars>>

RequestStep(r) ==
    /\ Alive
    /\ \/ LeaseHost(r)
       \/ LeaseAvailable(r) \/ MaxInstancesReached(r) \/ SpawnForLease(r)
       \/ SpawnStep(r) \/ LeaseSpawned(r)
       \/ HealthWait(r)
       \/ MarkTested(r) \/ InvalidLease(r) \/ ContainerNotReady(r)
       \/ DropLease(r)
       \/ Cancel(r)
-----------------------------------------------------------------------------
(* Mutated: the lease is only processed if try_lock succeeds. *)
ReceiveLeaseTryLock ==
    /\ At("return", "idle")
    /\ lease_chan # << >>
    /\ lease_chan' = Tail(lease_chan)
    /\ IF lock = Nobody
       THEN /\ lease' = [lease EXCEPT !["return"] = Head(lease_chan)]
            /\ Goto("return", "lock")
       ELSE UNCHANGED <<lease, pc>>
    /\ UNCHANGED <<poolVars, hostVars, dockerVars, port_state, cleanup_chan, lock,
                   port, cont, scale_left, reap_hosts, sdVars>>

(* process_host_lease_returns and return_host_internal. *)
ReceiveLease ==
    /\ At("return", "idle")
    /\ lease_chan # << >>
    /\ lease' = [lease EXCEPT !["return"] = Head(lease_chan)]
    /\ lease_chan' = Tail(lease_chan)
    /\ Goto("return", "lock")
    /\ UNCHANGED <<poolVars, hostVars, dockerVars, port_state, cleanup_chan, lock,
                   port, cont, scale_left, reap_hosts, sdVars>>

(* Mutated: an expired host is left to the reaper before its entry is removed. *)
ReturnDropsEarly ==
    /\ At("return", "lock") /\ lock = Nobody
    /\ leased_hosts[lease["return"]] \in expired \union {NoContainer}
    /\ Goto("return", "idle")
    /\ Forget("return")
    /\ UNCHANGED <<poolVars, hostVars, dockerVars, port_state, chanVars, lock, scale_left,
                   reap_hosts, sdVars>>

(* The host is unknown, or past its TTL and dropped. *)
ReturnDrops ==
    /\ At("return", "lock") /\ lock = Nobody
    /\ leased_hosts[lease["return"]] \in expired \union {NoContainer}
    /\ RemoveAndDrop(lease["return"])
    /\ Goto("return", "idle")
    /\ Forget("return")
    /\ UNCHANGED <<available_hosts, dockerVars, lease_chan, lock, scale_left,
                   reap_hosts, sdVars>>

ReturnTakes ==
    /\ At("return", "lock") /\ lock = Nobody
    /\ leased_hosts[lease["return"]] \notin expired \union {NoContainer}
    /\ leased_hosts' = [leased_hosts EXCEPT ![lease["return"]] = NoContainer]
    /\ cont' = [cont EXCEPT !["return"] = leased_hosts[lease["return"]]]
    /\ lock' = "return"
    /\ Goto("return", "inspect")
    /\ UNCHANGED <<available_hosts, hostVars, dockerVars, port_state, chanVars, lease,
                   port, scale_left, reap_hosts, sdVars>>

(* get_container_info = Err, the lock still held: drop the host. *)
InspectFails ==
    /\ At("return", "inspect")
    /\ "inspect_err" \in Events \/ container[cont["return"]] = "absent"
    /\ DropHost(cont["return"])
    /\ lock' = Nobody
    /\ Goto("return", "idle")
    /\ Forget("return")
    /\ UNCHANGED <<poolVars, dockerVars, lease_chan, scale_left, reap_hosts, sdVars>>

(* An exited container that is not removed yet also passes. *)
ReturnToPool ==
    /\ At("return", "inspect")
    /\ container[cont["return"]] # "absent"
    /\ available_hosts' = available_hosts \union {cont["return"]}
    /\ lock' = Nobody
    /\ Goto("return", "idle")
    /\ Forget("return")
    /\ UNCHANGED <<leased_hosts, hostVars, dockerVars, port_state, chanVars, scale_left,
                   reap_hosts, sdVars>>

ReturnStep == ReceiveLease \/ ReturnDrops \/ ReturnTakes \/ InspectFails \/ ReturnToPool

(* handle_container_cleanup; a failed stop is logged and forgotten. *)
ReceiveCleanup ==
    /\ At("cleanup", "idle")
    /\ cleanup_chan # << >>
    /\ cont' = [cont EXCEPT !["cleanup"] = Head(cleanup_chan)]
    /\ cleanup_chan' = Tail(cleanup_chan)
    /\ Goto("cleanup", "stop")
    /\ UNCHANGED <<poolVars, hostVars, dockerVars, port_state, lease_chan, lock, lease,
                   port, scale_left, reap_hosts, sdVars>>

CleanupStops ==
    /\ At("cleanup", "stop")
    /\ \/ D!Stop(cont["cleanup"])
       \/ "stop_err" \in Events /\ UNCHANGED dockerVars
    /\ Goto("cleanup", "idle")
    /\ Forget("cleanup")
    /\ UNCHANGED <<poolVars, hostVars, port_state, chanVars, lock, scale_left,
                   reap_hosts, sdVars>>

CleanupStep == ReceiveCleanup \/ CleanupStops

(* Mutated: the expired hosts are copied out of the pool, not drained. *)
ReapExpiredCopies ==
    /\ lock = Nobody
    /\ reap_hosts = {} /\ available_hosts \intersect expired # {}
    /\ reap_hosts' = available_hosts \intersect expired
    /\ UNCHANGED <<poolVars, hostVars, dockerVars, port_state, chanVars, lock, pc,
                   localVars, scale_left, sdVars>>

(* Mutated: expired hosts are reaped wherever they are, leased ones too. *)
ReapExpiredLeased ==
    /\ lock = Nobody
    /\ reap_hosts = {}
    /\ (available_hosts \union LeasedContainers) \intersect expired # {}
    /\ reap_hosts' = (available_hosts \union LeasedContainers) \intersect expired
    /\ available_hosts' = available_hosts \ expired
    /\ leased_hosts' = [l \in LeaseIds |->
                          IF leased_hosts[l] \in expired THEN NoContainer ELSE leased_hosts[l]]
    /\ UNCHANGED <<hostVars, dockerVars, port_state, chanVars, lock, pc,
                   localVars, scale_left, sdVars>>

(* reap_expired_hosts: partition under the lock, drop one by one after it. *)
ReapExpired ==
    /\ lock = Nobody
    /\ reap_hosts = {} /\ available_hosts \intersect expired # {}
    /\ reap_hosts' = available_hosts \intersect expired
    /\ available_hosts' = available_hosts \ expired
    /\ UNCHANGED <<leased_hosts, hostVars, dockerVars, port_state, chanVars, lock, pc,
                   localVars, scale_left, sdVars>>

DropReaped ==
    /\ \E c \in reap_hosts : DropHost(c) /\ reap_hosts' = reap_hosts \ {c}
    /\ UNCHANGED <<poolVars, dockerVars, lease_chan, lock, pc, localVars, scale_left, sdVars>>

(* Mutated: satisfied with one host fewer than min_instances. *)
RunScalingPolicyLate ==
    /\ At("scale", "idle") /\ lock = Nobody
    /\ HostCount + 1 < min_instances
    /\ scale_left' = min_instances - HostCount
    /\ lock' = "scale"
    /\ Goto("scale", "port")
    /\ UNCHANGED <<poolVars, hostVars, dockerVars, port_state, chanVars, localVars,
                   reap_hosts, sdVars>>

(* run_scaling_policy: how many to spawn is decided once, under the lock. *)
RunScalingPolicy ==
    /\ At("scale", "idle") /\ lock = Nobody
    /\ HostCount < min_instances
    /\ scale_left' = min_instances - HostCount
    /\ lock' = "scale"
    /\ Goto("scale", "port")
    /\ UNCHANGED <<poolVars, hostVars, dockerVars, port_state, chanVars, localVars,
                   reap_hosts, sdVars>>

ScaleStep == RunScalingPolicy \/ SpawnStep("scale") \/ ScalerAddsHost

WorkerStep ==
    /\ Alive /\ ~Aborted
    /\ ReturnStep \/ CleanupStep \/ ReapExpired \/ ScaleStep
-----------------------------------------------------------------------------
(***************************************************************************)
(* JoinHandle::abort: the task is dropped instead of being polled again,    *)
(* at some moment after the abort.  With it goes what the task owns: its    *)
(* channel's receiver, the host it is inspecting, the port of a spawn, the  *)
(* lock.  The reaper and an idle scaler own nothing when they are dropped.  *)
(***************************************************************************)
ReturnDies ==
    /\ pc["return"] # "dead"
    /\ Abandon("return", "dead")
    /\ lease_chan' = << >>
    /\ IF At("return", "inspect")
       THEN DropHost(cont["return"])
       ELSE UNCHANGED <<hostVars, port_state, cleanup_chan>>
    /\ UNCHANGED <<poolVars, dockerVars, scale_left, reap_hosts, sdVars>>

CleanupDies ==
    /\ pc["cleanup"] # "dead"
    /\ Abandon("cleanup", "dead")
    /\ cleanup_chan' = << >>
    /\ UNCHANGED <<poolVars, hostVars, dockerVars, port_state, lease_chan, scale_left,
                   reap_hosts, sdVars>>

ScaleDies ==
    /\ pc["scale"] # "idle"
    /\ Abandon("scale", "idle")
    /\ AbandonSpawn("scale")
    /\ scale_left' = 0
    /\ UNCHANGED <<poolVars, hostVars, chanVars, reap_hosts, sdVars>>

WorkerDies == Aborted /\ (ReturnDies \/ CleanupDies \/ ScaleDies)
-----------------------------------------------------------------------------
(* main and shutdown_all_containers. *)
Shutdown(from, to) ==
    /\ sd_pc = from
    /\ sd_pc' = to
    /\ UNCHANGED <<hostVars, dockerVars, port_state, chanVars, taskVars>>

ShutdownSignal ==
    /\ "shutdown" \in Events
    /\ Shutdown("up", "drain")
    /\ UNCHANGED <<poolVars, sd_hosts, sd_list>>

(* start_server returned an error: main returns without any cleanup. *)
ServerFails ==
    /\ "server_err" \in Events
    /\ Shutdown("up", "failed")
    /\ UNCHANGED <<poolVars, sd_hosts, sd_list>>

(* Mutated: no timeout. *)
DrainedForSure ==
    /\ Shutdown("drain", "abort")
    /\ lock = Nobody
    /\ Leases = {}
    /\ UNCHANGED <<poolVars, sd_hosts, sd_list>>

(* wait_for_requests_to_drain: a tick that finds leased hosts. *)
StillDraining ==
    /\ sd_pc = "drain" /\ lock = Nobody /\ Leases # {}
    /\ UNCHANGED vars

(* ... one that finds none, or comes after shutdown_timeout. *)
Drained ==
    /\ Shutdown("drain", "abort")
    /\ lock = Nobody
    /\ Leases = {} \/ "timeout" \in Events
    /\ UNCHANGED <<poolVars, sd_hosts, sd_list>>

AbortWorkers == Shutdown("abort", "collect") /\ UNCHANGED <<poolVars, sd_hosts, sd_list>>

(* Mutated: collects without waiting for the mutex. *)
CollectAllHostsUnlocked ==
    /\ Shutdown("collect", "drop")
    /\ sd_hosts' = available_hosts \union LeasedContainers
    /\ available_hosts' = {}
    /\ leased_hosts' = [l \in LeaseIds |-> NoContainer]
    /\ UNCHANGED sd_list

(* Mutated: leased_hosts is iterated over, not drained. *)
CollectAllHostsCopies ==
    /\ Shutdown("collect", "drop")
    /\ lock = Nobody
    /\ sd_hosts' = available_hosts \union LeasedContainers
    /\ available_hosts' = {}
    /\ UNCHANGED <<leased_hosts, sd_list>>

CollectAllHosts ==
    /\ Shutdown("collect", "drop")
    /\ lock = Nobody
    /\ sd_hosts' = available_hosts \union LeasedContainers
    /\ available_hosts' = {}
    /\ leased_hosts' = [l \in LeaseIds |-> NoContainer]
    /\ UNCHANGED sd_list

DropCollected ==
    /\ sd_pc = "drop"
    /\ \E c \in sd_hosts : DropHost(c) /\ sd_hosts' = sd_hosts \ {c}
    /\ UNCHANGED <<poolVars, dockerVars, lease_chan, taskVars, sd_pc, sd_list>>

AllDropped == sd_hosts = {} /\ Shutdown("drop", "list") /\ UNCHANGED <<poolVars, sd_hosts, sd_list>>

(* cleanup_all_containers *)
ListManaged ==
    /\ Shutdown("list", "sweep")
    /\ sd_list' = {c \in Containers : container[c] # "absent"}
    /\ UNCHANGED <<poolVars, sd_hosts>>

ListFails ==
    /\ "list_err" \in Events
    /\ Shutdown("list", "exited")
    /\ UNCHANGED <<poolVars, sd_hosts, sd_list>>

SweepStops ==
    /\ sd_pc = "sweep"
    /\ \E c \in sd_list :
        /\ D!Stop(c) \/ ("stop_err" \in Events /\ UNCHANGED dockerVars)
        /\ sd_list' = sd_list \ {c}
    /\ UNCHANGED <<poolVars, hostVars, port_state, chanVars, taskVars, sd_pc, sd_hosts>>

Exit == sd_list = {} /\ Shutdown("sweep", "exited") /\ UNCHANGED <<poolVars, sd_hosts, sd_list>>

ShutdownStep ==
    \/ StillDraining \/ Drained \/ AbortWorkers \/ CollectAllHosts
    \/ DropCollected \/ AllDropped
    \/ ListManaged \/ ListFails \/ SweepStops \/ Exit
-----------------------------------------------------------------------------
(* The environment: time, the containers, and the port manager's task. *)
Expire ==
    /\ "expire" \in Events
    /\ \E c \in Containers \ expired : Live(c) /\ expired' = expired \union {c}
    /\ UNCHANGED <<poolVars, host_port, tested, dockerVars, port_state, chanVars,
                   taskVars, sdVars>>

AutoRemove ==
    /\ \E c \in Containers : D!AutoRemove(c)
    /\ UNCHANGED <<poolVars, hostVars, port_state, chanVars, taskVars, sdVars>>

Crash ==
    /\ "crash" \in Events
    /\ \E c \in Containers : D!Crash(c)
    /\ UNCHANGED <<poolVars, hostVars, port_state, chanVars, taskVars, sdVars>>

PortReturned ==
    /\ \E p \in Ports : PP!Restore(p)
    /\ UNCHANGED <<poolVars, hostVars, dockerVars, chanVars, taskVars, sdVars>>

(* The process has ended. *)
Terminated == ~Alive /\ UNCHANGED vars

Next ==
    \/ \E r \in Requests : RequestStep(r)
    \/ WorkerStep
    \/ Alive /\ DropReaped
    \/ WorkerDies
    \/ ShutdownSignal \/ ServerFails \/ ShutdownStep
    \/ Alive /\ (Expire \/ PortReturned)
    \/ AutoRemove \/ Crash
    \/ Terminated

Spec == Init /\ [][Next]_vars

(***************************************************************************)
(* Fairness.  A task that can run is eventually polled; Docker calls and    *)
(* health probes end (both have timeouts), and so do the requests that hold *)
(* a lease (request_timeout).  tokio's Mutex queues its waiters first come  *)
(* first served, hence strong fairness for each step that takes the lock.   *)
(* The daemon removes exited containers.  Nothing forces a request to       *)
(* arrive, a client to hang up, a container to crash, or a signal.          *)
(***************************************************************************)
TakeLock(r) == Alive /\ (LeaseAvailable(r) \/ MaxInstancesReached(r) \/ SpawnForLease(r))
RetakeLock(r) == Alive /\ (MarkTested(r) \/ InvalidLease(r) \/ ContainerNotReady(r))
Proceed(r) == Alive /\ (SpawnStep(r) \/ LeaseSpawned(r) \/ HealthWait(r) \/ DropLease(r))
Unaborted(A) == Alive /\ ~Aborted /\ A

Fairness ==
    /\ \A r \in Requests : SF_vars(TakeLock(r)) /\ SF_vars(RetakeLock(r)) /\ WF_vars(Proceed(r))
    /\ SF_vars(Unaborted(ReturnDrops \/ ReturnTakes))
    /\ WF_vars(Unaborted(ReceiveLease \/ InspectFails \/ ReturnToPool))
    /\ WF_vars(Unaborted(CleanupStep))
    /\ SF_vars(Unaborted(ReapExpired)) /\ WF_vars(Alive /\ DropReaped)
    /\ SF_vars(Unaborted(RunScalingPolicy))
    /\ WF_vars(Unaborted(SpawnStep("scale") \/ ScalerAddsHost))
    /\ WF_vars(WorkerDies)
    /\ SF_vars(Drained) /\ SF_vars(CollectAllHosts)
    /\ WF_vars(AbortWorkers \/ DropCollected \/ AllDropped \/ ListManaged \/ SweepStops \/ Exit)
    /\ WF_vars(Alive /\ PortReturned)
    /\ WF_vars(AutoRemove)

FairSpec == Spec /\ Fairness
-----------------------------------------------------------------------------
RequestPlaces == {"idle", "lock", "port", "create", "start", "started",
                  "health", "ready", "unready", "holding"}
(* Types; no channel exceeds its capacity. *)
TypeOK ==
    /\ available_hosts \subseteq Containers
    /\ leased_hosts \in [LeaseIds -> Containers \union {NoContainer}]
    /\ host_port \in [Containers -> Ports \union {NoPort}]
    /\ tested \subseteq Containers /\ expired \subseteq Containers
    /\ D!TypeOK
    /\ port_state \in [Ports -> PP!PortStates]
    /\ lease_chan \in Seq(LeaseIds) /\ Len(lease_chan) <= LeaseCap
    /\ cleanup_chan \in Seq(Containers) /\ Len(cleanup_chan) <= CleanupCap
    /\ lock \in Tasks \union {Nobody}
    /\ pc \in [Tasks -> RequestPlaces \union {"inspect", "stop", "dead"}]
    /\ lease \in [Tasks -> LeaseIds \union {NoLease}]
    /\ port \in [Tasks -> Ports \union {NoPort}]
    /\ cont \in [Tasks -> Containers \union {NoContainer}]
    /\ scale_left \in 0 .. min_instances
    /\ reap_hosts \subseteq Containers
    /\ sd_pc \in {"up", "drain", "abort", "collect", "drop", "list", "sweep", "exited", "failed"}
    /\ sd_hosts \subseteq Containers /\ sd_list \subseteq Containers

(* Where a request is while it owns an entry of leased_hosts. *)
Owning == {"health", "ready", "unready", "holding"}
Spawning == {"create", "start", "started"}

(* collect_all_hosts has not run: the pool still answers for its leases. *)
InService == sd_pc \in {"up", "drain", "abort", "collect"}

Inspected == IF At("return", "inspect") THEN {cont["return"]} ELSE {}

(***************************************************************************)
(* available_hosts and leased_hosts together never exceed max_instances,    *)
(* although a returned host leaves leased_hosts before it enters            *)
(* available_hosts, the scaler decides its number of spawns once, and       *)
(* lease_host only looks at leased_hosts.                                   *)
(***************************************************************************)
PoolWithinMax == HostCount <= max_instances

(***************************************************************************)
(* Why PoolWithinMax holds.  Whoever may add a host holds the mutex, and    *)
(* has had room for it since it took the mutex: a request found no host     *)
(* available and leased_hosts below the limit, the return task has just     *)
(* taken its host out, the scaler needs scale_left more.                    *)
(***************************************************************************)
SpawnPlaces == {"port", "create", "start", "started"}
LockPlaces == SpawnPlaces \union {"inspect"}

LockHeld == \A t \in Tasks : pc[t] \in LockPlaces <=> lock = t

LocalsSet ==
    /\ \A r \in Requests : pc[r] \in Owning => lease[r] \in LeaseIds
    /\ \A t \in Spawners : pc[t] \in {"start", "started"} => cont[t] \in Containers
    /\ pc["return"] \in {"lock", "inspect"} => lease["return"] \in LeaseIds
    /\ pc["return"] = "inspect" => cont["return"] \in Containers

RoomKept ==
    /\ \A r \in Requests : pc[r] \in SpawnPlaces =>
          available_hosts = {} /\ Cardinality(Leases) < max_instances
    /\ pc["return"] = "inspect" => HostCount < max_instances
    /\ pc["scale"] \in SpawnPlaces => scale_left >= 1 /\ HostCount + scale_left <= min_instances

(* The inductive invariant behind TypeOK and PoolWithinMax. *)
PoolInv == TypeOK /\ LockHeld /\ LocalsSet /\ RoomKept /\ PoolWithinMax

(***************************************************************************)
(* Every HostInstance has exactly one owner: available_hosts, one entry of  *)
(* leased_hosts, the return task inspecting it, the reaper or the shutdown  *)
(* about to drop it.  Otherwise it is dropped twice or never.               *)
(***************************************************************************)
OneOwner ==
    /\ \A l, m \in Leases : leased_hosts[l] = leased_hosts[m] => l = m
    /\ {c \in Containers : Live(c)} =
         available_hosts \union LeasedContainers \union Inspected \union reap_hosts \union sd_hosts
    /\ available_hosts \intersect (LeasedContainers \union Inspected \union reap_hosts \union sd_hosts) = {}
    /\ LeasedContainers \intersect (Inspected \union reap_hosts \union sd_hosts) = {}
    /\ Inspected \intersect (reap_hosts \union sd_hosts) = {}
    /\ reap_hosts \intersect sd_hosts = {}

(***************************************************************************)
(* While the pool is in service, a request that owns a lease owns it alone: *)
(* the entry is there, it is the host the request was given, on the port it *)
(* was given, and nobody has queued that container for a stop.              *)
(***************************************************************************)
LeaseBacked ==
    InService => \A r \in Requests : pc[r] \in Owning =>
        /\ leased_hosts[lease[r]] = cont[r]
        /\ host_port[cont[r]] = port[r]
        /\ cont[r] \notin Range(cleanup_chan) \union {cont["cleanup"]}
        /\ pc[r] = "holding" => cont[r] \in tested
        /\ \A q \in Requests \ {r} : pc[q] \in Owning => lease[q] # lease[r]
        /\ lease[r] \notin Range(lease_chan) \union {lease["return"]}

(***************************************************************************)
(* A port never leads to the wrong container, although a dropped host gives *)
(* its port back before its container is stopped: whatever runs on a leased *)
(* port is the leased container.                                            *)
(***************************************************************************)
NoMisroute ==
    InService => \A r \in Requests, c \in Containers :
        pc[r] \in Owning /\ container[c] = "running" /\ port_of[c] = port[r] => c = cont[r]

(***************************************************************************)
(* Ports have one owner each: two live hosts, or a host and a spawn under   *)
(* way, never share one, and exactly the owned ports are held.              *)
(***************************************************************************)
PortsOwned ==
    LET held(p) == {c \in Containers : host_port[c] = p}
        spawning(p) == {t \in Spawners : pc[t] \in Spawning /\ port[t] = p}
    IN \A p \in Ports :
        Cardinality(held(p)) + Cardinality(spawning(p)) = (IF port_state[p] = "held" THEN 1 ELSE 0)

(* Containers that run although no guard, task or queue knows them. *)
Unaccounted ==
    {c \in Containers : /\ container[c] = "running" /\ ~Live(c)
                        /\ c \notin Range(cleanup_chan)
                        /\ \A t \in Spawners \union {"cleanup"} : cont[t] # c}

(***************************************************************************)
(* No container is forgotten while the gateway is up, except where the code *)
(* gives up on it: a spawn is cancelled or its start's reply is lost, a     *)
(* stop fails, or the cleanup channel is full.                              *)
(***************************************************************************)
NoContainerLost ==
    [][\/ Unaccounted' \subseteq Unaccounted
       \/ ShuttingDown \/ Len(cleanup_chan) = CleanupCap
       \/ \E r \in Requests : Cancel(r)
       \/ \E t \in Spawners : StartReplyLost(t)
       \/ CleanupStops]_vars

(***************************************************************************)
(* What a comment promises, and the code does not keep.                     *)
(***************************************************************************)
(* main.rs: "Cleanup all containers before exiting": after a graceful exit  *)
(* nothing the gateway started is still running.                            *)
NothingLeftRunning == sd_pc = "exited" => \A c \in Containers : container[c] # "running"

(* pool_manager.rs, lease_host: "leases will be automatically released when *)
(* the HostLease goes out of scope": an entry of leased_hosts belongs to a  *)
(* request, or its release is on the way to the return task.                *)
LeaseAccounted ==
    InService /\ pc["return"] # "dead" /\ max_instances <= LeaseCap =>
        \A l \in Leases :
            \/ \E r \in Requests : pc[r] \in Owning /\ lease[r] = l
            \/ l \in Range(lease_chan) \union {lease["return"]}

(***************************************************************************)
(* Every call of lease_host returns, with a lease or an error: nobody waits *)
(* for the state mutex for ever, whoever else holds it across Docker calls. *)
(***************************************************************************)
LeaseAnswered ==
    \A r \in Requests : At(r, "lock") ~> (pc[r] \in {"idle", "holding"} \/ ~Alive)

(* A released lease leaves leased_hosts. *)
ReleaseProcessed ==
    \A l \in LeaseIds : l \in Range(lease_chan) ~> (leased_hosts[l] = NoContainer \/ ~Alive)

(***************************************************************************)
(* The scaler keeps restoring min_instances, whatever leases, failed health *)
(* checks and expiries do in between.  As in the code leased hosts count    *)
(* too, although the task's comment speaks of available ones.               *)
(***************************************************************************)
MinInstancesRestored == []<>(HostCount >= min_instances \/ ShuttingDown)

(* A graceful shutdown ends, by drain or by timeout. *)
ShutdownEnds == sd_pc = "drain" ~> sd_pc = "exited"
-----------------------------------------------------------------------------
(***************************************************************************)
(* The pool implements the abstract LeasePool: however the mutex, the       *)
(* channels, the health waits and the background tasks interleave, each     *)
(* step moves hosts between owners only as LeasePool allows, or is hidden.  *)
(***************************************************************************)
Entries(ls) == {leased_hosts[l] : l \in ls} \ {NoContainer}
Returning == Entries(Range(lease_chan) \union ({lease["return"]} \ {NoLease})) \union Inspected

OwnedBy(r) == IF pc[r] \in Owning THEN Entries({lease[r]}) ELSE {}
Owned == UNION {OwnedBy(r) : r \in Requests}

OwnerOf(c) ==
    CASE c \in available_hosts -> "spare"
      [] c \in Owned -> CHOOSE r \in Requests : c \in OwnedBy(r)
      [] c \in Returning -> "returning"
      [] c \in LeasedContainers \ (Owned \union Returning) -> "stray"
      [] OTHER -> "none"

LP == INSTANCE LeasePool WITH
        DrainTimesOut <- "timeout" \in Events,
        caller <- [r \in Requests |-> CASE pc[r] = "idle" -> "idle"
                                        [] pc[r] = "holding" -> "holding"
                                        [] OTHER -> "calling"],
        owner <- [c \in Containers |-> OwnerOf(c)],
        tested <- {c \in tested : OwnerOf(c) # "none"},
        phase <- CASE sd_pc = "up" -> "up"
                   [] sd_pc = "drain" -> "draining"
                   [] sd_pc \in {"abort", "collect"} -> "drained"
                   [] sd_pc \in {"drop", "list", "sweep"} -> "collected"
                   [] OTHER -> "ended"

(* The abstract owners have names of their own. *)
ASSUME PlacesAssumption == Requests \intersect LP!Places = {}

ImplementsLeasePool == LP!Spec

(***************************************************************************)
(* No lease is forgotten while the gateway is up, except by a caller that   *)
(* hangs up before it has its HostLease: the release channel is as large as *)
(* the pool and its task drops no message.                                  *)
(***************************************************************************)
NoLeaseLost ==
    [][\A c \in Containers : OwnerOf(c)' = "stray" =>
          \/ OwnerOf(c) = "stray" \/ ShuttingDown \/ LeaseCap < max_instances
          \/ \E r \in Requests : Cancel(r)]_vars
=============================================================================
