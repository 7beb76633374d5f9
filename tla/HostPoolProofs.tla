--------------------------- MODULE HostPoolProofs ---------------------------
(***************************************************************************)
(* Theorems about HostPool, for every value of its constants: its types,    *)
(* the capacity of the pool, and that every HostInstance has one owner.     *)
(***************************************************************************)
EXTENDS HostPool, SeqLemmas

(***************************************************************************)
(* Types.  What a try_send, the drop of a HostInstance and the release of a *)
(* port leave behind.                                                       *)
(***************************************************************************)
LEMMA TrySendType ==
    ASSUME NEW S, NEW chan \in Seq(S), NEW v \in S, NEW cap \in Nat,
           Len(chan) <= cap, NEW open
    PROVE  TrySend(chan, v, cap, open) \in Seq(S) /\ Len(TrySend(chan, v, cap, open)) <= cap
BY DEF TrySend

LEMMA ReceiveType ==
    ASSUME NEW S, NEW chan \in Seq(S), NEW cap \in Nat, Len(chan) <= cap, chan # << >>
    PROVE  /\ Head(chan) \in S
           /\ Tail(chan) \in Seq(S) /\ Len(Tail(chan)) <= cap
BY HeadTailProperties, EmptySeq

LEMMA PortMoves ==
    ASSUME TypeOK, NEW p,
           PP!Acquire(p) \/ PP!GiveBack(p) \/ PP!Restore(p)
    PROVE  port_state' \in [Ports -> PP!PortStates]
BY DEF TypeOK, PP!Acquire, PP!GiveBack, PP!Restore, PP!Moves, PP!PortStates

LEMMA DropHostType ==
    ASSUME TypeOK, NEW c \in Containers, DropHost(c)
    PROVE  /\ cleanup_chan' \in Seq(Containers) /\ Len(cleanup_chan') <= CleanupCap
           /\ host_port' \in [Containers -> Ports \union {NoPort}]
           /\ tested' \subseteq Containers /\ expired' \subseteq Containers
           /\ port_state' \in [Ports -> PP!PortStates]
<1>1. cleanup_chan' \in Seq(Containers) /\ Len(cleanup_chan') <= CleanupCap
  BY TrySendType, PoolAssumption DEF TypeOK, DropHost
<1>2. port_state' \in [Ports -> PP!PortStates]
  BY PortMoves DEF DropHost
<1>3. QED
  BY <1>1, <1>2 DEF TypeOK, DropHost

LEMMA RemoveType ==
    ASSUME TypeOK, NEW l \in LeaseIds, RemoveAndDrop(l)
    PROVE  /\ leased_hosts' \in [LeaseIds -> Containers \union {NoContainer}]
           /\ cleanup_chan' \in Seq(Containers) /\ Len(cleanup_chan') <= CleanupCap
           /\ host_port' \in [Containers -> Ports \union {NoPort}]
           /\ tested' \subseteq Containers /\ expired' \subseteq Containers
           /\ port_state' \in [Ports -> PP!PortStates]
<1>1. leased_hosts' \in [LeaseIds -> Containers \union {NoContainer}]
  BY DEF TypeOK, RemoveAndDrop
<1>2. CASE leased_hosts[l] = NoContainer
  BY <1>1, <1>2 DEF TypeOK, RemoveAndDrop, hostVars
<1>3. CASE leased_hosts[l] # NoContainer
  <2>1. PICK c \in Containers : c = leased_hosts[l]
    BY <1>3 DEF TypeOK
  <2>2. DropHost(c)
    BY <1>3, <2>1 DEF RemoveAndDrop
  <2>3. QED
    BY <1>1, <2>2, DropHostType
<1>4. QED
  BY <1>2, <1>3

(* What the Docker calls do to the daemon's state. *)
LEMMA DockerType ==
    ASSUME TypeOK, NEW c, NEW p \in Ports \union {NoPort},
           \/ D!Create(c, p) \/ D!Start(c) \/ D!Refuse(c) \/ D!Stop(c)
           \/ D!Crash(c) \/ D!AutoRemove(c)
    PROVE  D!TypeOK'
BY DEF TypeOK, D!TypeOK, D!ContainerStates, D!Create, D!Start, D!Refuse, D!Stop, D!Crash,
       D!AutoRemove, D!Become, D!Vanish

(* The hosts of the pool can be counted. *)
LEMMA CountType ==
    ASSUME TypeOK
    PROVE  /\ IsFiniteSet(available_hosts) /\ Cardinality(available_hosts) \in Nat
           /\ IsFiniteSet(Leases) /\ Cardinality(Leases) \in Nat
           /\ HostCount \in Nat
<1>1. IsFiniteSet(available_hosts) /\ IsFiniteSet(Leases)
  BY FS_Subset, PoolAssumption DEF TypeOK, Leases
<1>2. QED
  BY <1>1, FS_CardinalityType DEF HostCount

LEMMA SpawnType ==
    ASSUME PoolInv, NEW t \in Spawners, SpawnStep(t)
    PROVE  TypeOK'
<1> USE DEF poolVars, hostVars, dockerVars, chanVars, localVars, sdVars
<1>1. t \in Tasks /\ "scale" \in Tasks
  BY DEF Spawners, Tasks, Workers
<1>2. ASSUME SpawnFailed(t), pc[t] \in SpawnPlaces,
             D!TypeOK', port_state' \in [Ports -> PP!PortStates]
      PROVE  TypeOK'
  <2>1. scale_left' \in 0 .. min_instances
    <3>1. scale_left \in 0 .. min_instances /\ min_instances \in Nat
      BY PoolAssumption DEF PoolInv, TypeOK
    <3>2. t = "scale" => scale_left >= 1
      BY <1>2 DEF PoolInv, RoomKept
    <3>3. scale_left' = IF t = "scale" THEN scale_left - 1 ELSE scale_left
      BY <1>2 DEF SpawnFailed, NextRound
    <3>4. QED
      BY <3>1, <3>2, <3>3
  <2>2. /\ pc' \in [Tasks -> RequestPlaces \union {"inspect", "stop", "dead"}]
        /\ lock' \in Tasks \union {Nobody}
    BY <1>1, <1>2 DEF PoolInv, TypeOK, SpawnFailed, NextRound, Goto, RequestPlaces
  <2>3. /\ lease' \in [Tasks -> LeaseIds \union {NoLease}]
        /\ port' \in [Tasks -> Ports \union {NoPort}]
        /\ cont' \in [Tasks -> Containers \union {NoContainer}]
    BY <1>2 DEF PoolInv, TypeOK, SpawnFailed, Forget
  <2>4. QED
    BY <1>2, <2>1, <2>2, <2>3 DEF PoolInv, TypeOK, SpawnFailed
<1>3. CASE AllocatePort(t)
  <2>1. port_state' \in [Ports -> PP!PortStates]
    BY <1>3, PortMoves DEF PoolInv, AllocatePort
  <2>2. QED
    BY <1>1, <1>3, <2>1 DEF PoolInv, TypeOK, D!TypeOK, AllocatePort, Goto, RequestPlaces
<1>4. CASE NoAvailablePorts(t)
  BY <1>2, <1>4 DEF PoolInv, TypeOK, D!TypeOK, NoAvailablePorts, At, SpawnPlaces
<1>5. CASE CreateContainer(t)
  <2>1. port[t] \in Ports \union {NoPort}
    BY <1>1 DEF PoolInv, TypeOK
  <2>2. D!TypeOK'
    BY <1>5, <2>1, DockerType DEF PoolInv, CreateContainer
  <2>3. QED
    BY <1>1, <1>5, <2>2 DEF PoolInv, TypeOK, CreateContainer, FreshContainers, Goto, RequestPlaces
<1>6. CASE CreateFails(t)
  <2>1. port_state' \in [Ports -> PP!PortStates]
    BY <1>6, PortMoves DEF PoolInv, CreateFails
  <2>2. QED
    BY <1>2, <1>6, <2>1 DEF PoolInv, TypeOK, D!TypeOK, CreateFails, At, SpawnPlaces
<1>7. CASE StartContainer(t)
  <2>1. D!TypeOK'
    BY <1>7, DockerType DEF PoolInv, StartContainer
  <2>2. QED
    BY <1>1, <1>7, <2>1 DEF PoolInv, TypeOK, StartContainer, Goto, RequestPlaces
<1>8. CASE StartRefused(t) \/ StartReplyLost(t)
  <2>1. D!TypeOK'
    BY <1>8, DockerType DEF PoolInv, StartRefused, StartReplyLost
  <2>2. port_state' \in [Ports -> PP!PortStates]
    BY <1>8, PortMoves DEF PoolInv, StartRefused, StartReplyLost
  <2>3. QED
    BY <1>2, <1>8, <2>1, <2>2 DEF StartRefused, StartReplyLost, At, SpawnPlaces
<1>9. QED
  BY <1>3, <1>4, <1>5, <1>6, <1>7, <1>8 DEF SpawnStep

LEMMA AbandonType ==
    ASSUME PoolInv, NEW t \in Tasks, AbandonSpawn(t)
    PROVE  D!TypeOK' /\ port_state' \in [Ports -> PP!PortStates]
<1>1. port_state' \in [Ports -> PP!PortStates]
  BY PortMoves DEF PoolInv, TypeOK, AbandonSpawn
<1>2. port[t] \in Ports \union {NoPort}
  BY DEF PoolInv, TypeOK
<1>3. D!TypeOK'
  <2>1. CASE UNCHANGED dockerVars
    BY <2>1 DEF PoolInv, TypeOK, D!TypeOK, dockerVars
  <2>2. CASE ~UNCHANGED dockerVars
    BY <1>2, <2>2, DockerType DEF PoolInv, AbandonSpawn
  <2>3. QED
    BY <2>1, <2>2
<1>4. QED
  BY <1>1, <1>3

(* A task that ends its future forgets its locals and lets go of the mutex. *)
LEMMA AbandonTaskType ==
    ASSUME TypeOK, NEW t \in Tasks, NEW place \in {"idle", "dead"}, Abandon(t, place)
    PROVE  /\ lock' \in Tasks \union {Nobody}
           /\ pc' \in [Tasks -> RequestPlaces \union {"inspect", "stop", "dead"}]
           /\ lease' \in [Tasks -> LeaseIds \union {NoLease}]
           /\ port' \in [Tasks -> Ports \union {NoPort}]
           /\ cont' \in [Tasks -> Containers \union {NoContainer}]
BY DEF TypeOK, Abandon, Goto, Forget, RequestPlaces

LEMMA RequestType ==
    ASSUME PoolInv, NEW r \in Requests, RequestStep(r)
    PROVE  TypeOK'
<1> USE DEF poolVars, hostVars, dockerVars, chanVars, localVars, sdVars
<1>1. r \in Tasks /\ r \in Spawners
  BY DEF Spawners, Tasks
<1>2. ASSUME NEW c \in Containers, NEW p \in Ports \union {NoPort}, InsertLease(r, c, p)
      PROVE  /\ leased_hosts' \in [LeaseIds -> Containers \union {NoContainer}]
             /\ lease' \in [Tasks -> LeaseIds \union {NoLease}]
             /\ port' \in [Tasks -> Ports \union {NoPort}]
             /\ cont' \in [Tasks -> Containers \union {NoContainer}]
             /\ lock' \in Tasks \union {Nobody}
             /\ pc' \in [Tasks -> RequestPlaces \union {"inspect", "stop", "dead"}]
  BY <1>1, <1>2 DEF PoolInv, TypeOK, InsertLease, FreshLeases, Goto, RequestPlaces
<1>3. CASE LeaseHost(r)
  BY <1>1, <1>3 DEF PoolInv, TypeOK, D!TypeOK, LeaseHost, Goto, RequestPlaces
<1>4. CASE LeaseAvailable(r)
  <2>1. PICK c \in available_hosts :
          available_hosts' = available_hosts \ {c} /\ InsertLease(r, c, host_port[c])
    BY <1>4 DEF LeaseAvailable
  <2>2. c \in Containers /\ host_port[c] \in Ports \union {NoPort}
    BY DEF PoolInv, TypeOK
  <2>3. PICK p \in Ports \union {NoPort} : p = host_port[c]
    BY <2>2
  <2>4. QED
    BY <1>2, <1>4, <2>1, <2>2, <2>3 DEF PoolInv, TypeOK, D!TypeOK, LeaseAvailable, InsertLease
<1>5. CASE MaxInstancesReached(r) \/ SpawnForLease(r)
  BY <1>1, <1>5 DEF PoolInv, TypeOK, D!TypeOK, MaxInstancesReached, SpawnForLease, Goto, RequestPlaces
<1>6. CASE SpawnStep(r)
  BY <1>1, <1>6, SpawnType
<1>7. CASE LeaseSpawned(r)
  <2>1. cont[r] \in Containers /\ port[r] \in Ports \union {NoPort}
    BY <1>1, <1>7 DEF PoolInv, TypeOK, LocalsSet, LeaseSpawned, NewHost, At
  <2>2. PICK c \in Containers, p \in Ports \union {NoPort} : c = cont[r] /\ p = port[r]
    BY <2>1
  <2>3. QED
    BY <1>2, <1>7, <2>2 DEF PoolInv, TypeOK, D!TypeOK, LeaseSpawned, NewHost, InsertLease
<1>8. CASE HealthWait(r) \/ InvalidLease(r)
  BY <1>1, <1>8 DEF PoolInv, TypeOK, D!TypeOK, HealthWait, InvalidLease, Goto, Forget, RequestPlaces
<1>9. CASE MarkTested(r)
  <2>1. lease[r] \in LeaseIds
    BY <1>9 DEF PoolInv, LocalsSet, MarkTested, At, Owning
  <2>2. QED
    BY <1>1, <1>9, <2>1 DEF PoolInv, TypeOK, D!TypeOK, MarkTested, Goto, RequestPlaces
<1>10. CASE ContainerNotReady(r)
  <2>1. lease[r] \in LeaseIds
    BY <1>10 DEF PoolInv, LocalsSet, ContainerNotReady, At, Owning
  <2>2. QED
    BY <1>1, <1>10, <2>1, RemoveType DEF PoolInv, TypeOK, D!TypeOK, ContainerNotReady, Goto, Forget, RequestPlaces
<1>11. CASE DropLease(r)
  <2>1. lease[r] \in LeaseIds
    BY <1>11 DEF PoolInv, LocalsSet, DropLease, At, Owning
  <2>2. lease_chan' \in Seq(LeaseIds) /\ Len(lease_chan') <= LeaseCap
    BY <1>11, <2>1, TrySendType, PoolAssumption DEF PoolInv, TypeOK, DropLease
  <2>3. QED
    BY <1>1, <1>11, <2>2 DEF PoolInv, TypeOK, D!TypeOK, DropLease, Goto, Forget, RequestPlaces
<1>12. CASE Cancel(r)
  BY <1>1, <1>12, AbandonType, AbandonTaskType DEF PoolInv, TypeOK, Cancel
<1>13. QED
  BY <1>3, <1>4, <1>5, <1>6, <1>7, <1>8, <1>9, <1>10, <1>11, <1>12 DEF RequestStep
LEMMA WorkerType ==
    ASSUME PoolInv, WorkerStep
    PROVE  TypeOK'
<1> USE DEF poolVars, hostVars, dockerVars, chanVars, localVars, sdVars
<1>1. {"return", "cleanup", "scale"} \subseteq Tasks /\ "scale" \in Spawners
  BY DEF Spawners, Tasks, Workers
<1>2. CASE ReceiveLease
  <2>1. /\ lease_chan' \in Seq(LeaseIds) /\ Len(lease_chan') <= LeaseCap
        /\ Head(lease_chan) \in LeaseIds
    BY <1>2, ReceiveType, PoolAssumption DEF PoolInv, TypeOK, ReceiveLease
  <2>2. QED
    BY <1>1, <1>2, <2>1 DEF PoolInv, TypeOK, D!TypeOK, ReceiveLease, Goto, RequestPlaces
<1>3. CASE ReturnDrops
  <2>1. lease["return"] \in LeaseIds
    BY <1>3 DEF PoolInv, LocalsSet, ReturnDrops, At
  <2>2. QED
    BY <1>1, <1>3, <2>1, RemoveType DEF PoolInv, TypeOK, D!TypeOK, ReturnDrops, Goto, Forget, RequestPlaces
<1>4. CASE ReturnTakes
  <2>1. lease["return"] \in LeaseIds
    BY <1>4 DEF PoolInv, LocalsSet, ReturnTakes, At
  <2>2. QED
    BY <1>1, <1>4, <2>1 DEF PoolInv, TypeOK, D!TypeOK, ReturnTakes, Goto, RequestPlaces
<1>5. CASE InspectFails
  <2>1. cont["return"] \in Containers
    BY <1>5 DEF PoolInv, LocalsSet, InspectFails, At
  <2>2. PICK c \in Containers : c = cont["return"]
    BY <2>1
  <2>3. QED
    BY <1>1, <1>5, <2>2, DropHostType DEF PoolInv, TypeOK, D!TypeOK, InspectFails, Goto, Forget, RequestPlaces
<1>6. CASE ReturnToPool
  <2>1. cont["return"] \in Containers
    BY <1>6 DEF PoolInv, LocalsSet, ReturnToPool, At
  <2>2. QED
    BY <1>1, <1>6, <2>1 DEF PoolInv, TypeOK, D!TypeOK, ReturnToPool, Goto, Forget, RequestPlaces
<1>7. CASE ReceiveCleanup
  <2>1. /\ cleanup_chan' \in Seq(Containers) /\ Len(cleanup_chan') <= CleanupCap
        /\ Head(cleanup_chan) \in Containers
    BY <1>7, ReceiveType, PoolAssumption DEF PoolInv, TypeOK, ReceiveCleanup
  <2>2. QED
    BY <1>1, <1>7, <2>1 DEF PoolInv, TypeOK, D!TypeOK, ReceiveCleanup, Goto, RequestPlaces
<1>8. CASE CleanupStops
  <2>1. D!TypeOK'
    <3>1. CASE UNCHANGED dockerVars
      BY <3>1 DEF PoolInv, TypeOK, D!TypeOK
    <3>2. CASE D!Stop(cont["cleanup"])
      BY <3>2, DockerType DEF PoolInv
    <3>3. QED
      BY <1>8, <3>1, <3>2 DEF CleanupStops
  <2>2. QED
    BY <1>1, <1>8, <2>1 DEF PoolInv, TypeOK, CleanupStops, Goto, Forget, RequestPlaces
<1>9. CASE ReapExpired
  BY <1>9 DEF PoolInv, TypeOK, D!TypeOK, ReapExpired
<1>10. CASE RunScalingPolicy
  <2>1. scale_left' \in 0 .. min_instances
    BY <1>10, CountType, PoolAssumption DEF PoolInv, RunScalingPolicy
  <2>2. QED
    BY <1>1, <1>10, <2>1 DEF PoolInv, TypeOK, D!TypeOK, RunScalingPolicy, Goto, RequestPlaces
<1>11. CASE SpawnStep("scale")
  BY <1>1, <1>11, SpawnType
<1>12. CASE ScalerAddsHost
  <2>1. cont["scale"] \in Containers
    BY <1>1, <1>12 DEF PoolInv, LocalsSet, ScalerAddsHost, NewHost, At
  <2>2. scale_left' \in 0 .. min_instances
    <3>1. scale_left \in 0 .. min_instances /\ min_instances \in Nat
      BY PoolAssumption DEF PoolInv, TypeOK
    <3>2. scale_left >= 1
      BY <1>12 DEF PoolInv, RoomKept, ScalerAddsHost, NewHost, At, SpawnPlaces
    <3>3. scale_left' = scale_left - 1
      BY <1>12 DEF ScalerAddsHost, NextRound
    <3>4. QED
      BY <3>1, <3>2, <3>3
  <2>3. /\ pc' \in [Tasks -> RequestPlaces \union {"inspect", "stop", "dead"}]
        /\ lock' \in Tasks \union {Nobody}
    BY <1>1, <1>12 DEF PoolInv, TypeOK, ScalerAddsHost, NextRound, Goto, RequestPlaces
  <2>4. QED
    BY <1>1, <1>12, <2>1, <2>2, <2>3 DEF PoolInv, TypeOK, D!TypeOK, ScalerAddsHost, NewHost, Forget
<1>13. QED
  BY <1>2, <1>3, <1>4, <1>5, <1>6, <1>7, <1>8, <1>9, <1>10, <1>11, <1>12
     DEF WorkerStep, ReturnStep, CleanupStep, ScaleStep

LEMMA WorkerDiesType ==
    ASSUME PoolInv, WorkerDies
    PROVE  TypeOK'
<1> USE DEF poolVars, hostVars, dockerVars, chanVars, localVars, sdVars
<1>1. {"return", "cleanup", "scale"} \subseteq Tasks
  BY DEF Tasks, Workers
<1>2. << >> \in Seq(LeaseIds) /\ << >> \in Seq(Containers) /\ LeaseCap \in Nat /\ CleanupCap \in Nat
  BY PoolAssumption
<1>3. CASE ReturnDies
  <2>1. /\ cleanup_chan' \in Seq(Containers) /\ Len(cleanup_chan') <= CleanupCap
        /\ host_port' \in [Containers -> Ports \union {NoPort}]
        /\ tested' \subseteq Containers /\ expired' \subseteq Containers
        /\ port_state' \in [Ports -> PP!PortStates]
    <3>1. CASE At("return", "inspect")
      <4>1. PICK c \in Containers : c = cont["return"]
        BY <3>1 DEF PoolInv, LocalsSet, At
      <4>2. QED
        BY <1>3, <3>1, <4>1, DropHostType DEF PoolInv, ReturnDies
    <3>2. CASE ~At("return", "inspect")
      BY <1>3, <3>2 DEF PoolInv, TypeOK, ReturnDies
    <3>3. QED
      BY <3>1, <3>2
  <2>2. QED
    BY <1>1, <1>2, <1>3, <2>1, AbandonTaskType DEF PoolInv, TypeOK, D!TypeOK, ReturnDies
<1>4. CASE CleanupDies
  BY <1>1, <1>2, <1>4, AbandonTaskType DEF PoolInv, TypeOK, D!TypeOK, CleanupDies
<1>5. CASE ScaleDies
  BY <1>1, <1>5, AbandonType, AbandonTaskType, PoolAssumption DEF PoolInv, TypeOK, ScaleDies
<1>6. QED
  BY <1>3, <1>4, <1>5 DEF WorkerDies

LEMMA ShutdownType ==
    ASSUME TypeOK, ShutdownSignal \/ ServerFails \/ ShutdownStep \/ DropReaped
    PROVE  TypeOK'
<1> USE DEF poolVars, hostVars, dockerVars, chanVars, localVars, taskVars, sdVars
<1>1. CASE ShutdownSignal \/ ServerFails \/ Drained \/ AbortWorkers \/ AllDropped
           \/ ListManaged \/ ListFails \/ Exit
  BY <1>1 DEF TypeOK, D!TypeOK, Shutdown, ShutdownSignal, ServerFails, Drained, AbortWorkers,
              AllDropped, ListManaged, ListFails, Exit
<1>2. CASE StillDraining
  BY <1>2 DEF TypeOK, D!TypeOK, StillDraining, vars
<1>3. CASE CollectAllHosts
  BY <1>3 DEF TypeOK, D!TypeOK, Shutdown, CollectAllHosts, LeasedContainers, Leases
<1>4. CASE DropCollected
  <2>1. PICK c \in sd_hosts : DropHost(c) /\ sd_hosts' = sd_hosts \ {c}
    BY <1>4 DEF DropCollected
  <2>2. c \in Containers
    BY <2>1 DEF TypeOK
  <2>3. QED
    BY <1>4, <2>1, <2>2, DropHostType DEF TypeOK, D!TypeOK, DropCollected
<1>5. CASE SweepStops
  <2>1. D!TypeOK'
    <3>1. CASE UNCHANGED dockerVars
      BY <3>1 DEF TypeOK, D!TypeOK
    <3>2. CASE ~UNCHANGED dockerVars
      BY <1>5, <3>2, DockerType DEF SweepStops
    <3>3. QED
      BY <3>1, <3>2
  <2>2. QED
    BY <1>5, <2>1 DEF TypeOK, SweepStops
<1>6. CASE DropReaped
  <2>1. PICK c \in reap_hosts : DropHost(c) /\ reap_hosts' = reap_hosts \ {c}
    BY <1>6 DEF DropReaped
  <2>2. c \in Containers
    BY <2>1 DEF TypeOK
  <2>3. QED
    BY <1>6, <2>1, <2>2, DropHostType DEF TypeOK, D!TypeOK, DropReaped
<1>7. QED
  BY <1>1, <1>2, <1>3, <1>4, <1>5, <1>6 DEF ShutdownStep

LEMMA EnvironmentType ==
    ASSUME TypeOK, Expire \/ PortReturned \/ AutoRemove \/ Crash \/ UNCHANGED vars
    PROVE  TypeOK'
<1> USE DEF poolVars, hostVars, dockerVars, chanVars, localVars, taskVars, sdVars
<1>1. CASE Expire
  BY <1>1 DEF TypeOK, D!TypeOK, Expire
<1>2. CASE PortReturned
  BY <1>2, PortMoves DEF TypeOK, D!TypeOK, PortReturned
<1>3. CASE AutoRemove \/ Crash
  <2>1. D!TypeOK'
    BY <1>3, DockerType DEF AutoRemove, Crash
  <2>2. QED
    BY <1>3, <2>1 DEF TypeOK, AutoRemove, Crash
<1>4. CASE UNCHANGED vars
  BY <1>4 DEF TypeOK, D!TypeOK, vars
<1>5. QED
  BY <1>1, <1>2, <1>3, <1>4
(***************************************************************************)
(* The mutex.  A task moves while its hold on the mutex stays as it is,     *)
(* takes the free mutex, lets go of it, or is abandoned.                    *)
(***************************************************************************)
LEMMA LockMoves ==
    ASSUME PoolInv, NEW t \in Tasks, NEW q, Goto(t, q),
           \/ UNCHANGED lock /\ (pc[t] \in LockPlaces <=> q \in LockPlaces)
           \/ lock = Nobody /\ lock' = t /\ q \in LockPlaces
           \/ pc[t] \in LockPlaces /\ q \notin LockPlaces /\ lock' = Nobody
           \/ q \notin LockPlaces /\ lock' = (IF lock = t THEN Nobody ELSE lock)
    PROVE  LockHeld'
<1>1. Nobody \notin Tasks
  BY PoolAssumption DEF Tasks
<1>2. pc' = [pc EXCEPT ![t] = q] /\ DOMAIN pc = Tasks
  BY DEF PoolInv, TypeOK, Goto
<1>3. \A u \in Tasks : pc'[u] = IF u = t THEN q ELSE pc[u]
  BY <1>2
<1>4. \A u \in Tasks : pc[u] \in LockPlaces <=> lock = u
  BY DEF PoolInv, LockHeld
<1>5. \A u \in Tasks : pc'[u] \in LockPlaces <=> lock' = u
  BY <1>1, <1>3, <1>4
<1>6. QED
  BY <1>5 DEF LockHeld, LockPlaces, SpawnPlaces

LEMMA SpawnLock ==
    ASSUME PoolInv, NEW t \in Spawners, SpawnStep(t)
    PROVE  LockHeld'
<1> USE DEF LockPlaces, SpawnPlaces
<1>1. t \in Tasks /\ "scale" \in Tasks
  BY DEF Spawners, Tasks, Workers
<1>2. ASSUME SpawnFailed(t), pc[t] \in SpawnPlaces
      PROVE  LockHeld'
  <2>1. CASE t # "scale"
    BY <1>1, <1>2, <2>1, LockMoves DEF SpawnFailed
  <2>2. CASE t = "scale"
    BY <1>1, <1>2, <2>2, LockMoves DEF SpawnFailed, NextRound
  <2>3. QED
    BY <2>1, <2>2
<1>3. CASE AllocatePort(t)
  BY <1>1, <1>3, LockMoves DEF AllocatePort, At
<1>4. CASE CreateContainer(t)
  BY <1>1, <1>4, LockMoves DEF CreateContainer, At
<1>5. CASE StartContainer(t)
  BY <1>1, <1>5, LockMoves DEF StartContainer, At
<1>6. CASE NoAvailablePorts(t) \/ CreateFails(t) \/ StartRefused(t) \/ StartReplyLost(t)
  BY <1>2, <1>6 DEF NoAvailablePorts, CreateFails, StartRefused, StartReplyLost, At
<1>7. QED
  BY <1>3, <1>4, <1>5, <1>6 DEF SpawnStep

LEMMA RequestLock ==
    ASSUME PoolInv, NEW r \in Requests, RequestStep(r)
    PROVE  LockHeld'
<1> USE DEF LockPlaces, SpawnPlaces
<1>1. r \in Tasks /\ r \in Spawners
  BY DEF Tasks, Spawners
<1>2. CASE LeaseHost(r) \/ MaxInstancesReached(r) \/ MarkTested(r) \/ InvalidLease(r)
           \/ ContainerNotReady(r) \/ DropLease(r)
  BY <1>1, <1>2, LockMoves DEF LeaseHost, MaxInstancesReached, MarkTested, InvalidLease,
     ContainerNotReady, DropLease, At
<1>3. CASE HealthWait(r)
  BY <1>1, <1>3, LockMoves DEF HealthWait, At
<1>4. CASE LeaseAvailable(r)
  <2>1. lock = Nobody /\ lock' = Nobody /\ pc[r] = "lock"
    BY <1>4 DEF LeaseAvailable, InsertLease, At
  <2>2. Goto(r, "holding") \/ Goto(r, "health")
    BY <1>4 DEF LeaseAvailable, InsertLease
  <2>3. QED
    BY <1>1, <2>1, <2>2, LockMoves
<1>5. CASE SpawnForLease(r)
  BY <1>1, <1>5, LockMoves DEF SpawnForLease
<1>6. CASE SpawnStep(r)
  BY <1>1, <1>6, SpawnLock
<1>7. CASE LeaseSpawned(r)
  <2>1. lock' = Nobody /\ pc[r] = "started"
    BY <1>7 DEF LeaseSpawned, NewHost, InsertLease, At
  <2>2. Goto(r, "holding") \/ Goto(r, "health")
    BY <1>7 DEF LeaseSpawned, InsertLease
  <2>3. QED
    BY <1>1, <2>1, <2>2, LockMoves
<1>8. CASE Cancel(r)
  BY <1>1, <1>8, LockMoves DEF Cancel, Abandon
<1>9. QED
  BY <1>2, <1>3, <1>4, <1>5, <1>6, <1>7, <1>8 DEF RequestStep

LEMMA WorkerLock ==
    ASSUME PoolInv, WorkerStep \/ WorkerDies
    PROVE  LockHeld'
<1> USE DEF LockPlaces, SpawnPlaces
<1>1. {"return", "cleanup", "scale"} \subseteq Tasks /\ "scale" \in Spawners
  BY DEF Tasks, Spawners, Workers
<1>2. CASE ReceiveLease \/ ReturnDrops \/ ReceiveCleanup \/ CleanupStops
  BY <1>1, <1>2, LockMoves DEF ReceiveLease, ReturnDrops, ReceiveCleanup, CleanupStops, At
<1>3. CASE ReturnTakes \/ RunScalingPolicy
  BY <1>1, <1>3, LockMoves DEF ReturnTakes, RunScalingPolicy
<1>4. CASE InspectFails \/ ReturnToPool
  BY <1>1, <1>4, LockMoves DEF InspectFails, ReturnToPool, At
<1>5. CASE ReapExpired
  BY <1>5 DEF PoolInv, LockHeld, ReapExpired
<1>6. CASE SpawnStep("scale")
  BY <1>1, <1>6, SpawnLock
<1>7. CASE ScalerAddsHost
  BY <1>1, <1>7, LockMoves DEF ScalerAddsHost, NewHost, NextRound, At
<1>8. CASE ReturnDies
  BY <1>1, <1>8, LockMoves DEF ReturnDies, Abandon
<1>9. CASE CleanupDies
  BY <1>1, <1>9, LockMoves DEF CleanupDies, Abandon
<1>10. CASE ScaleDies
  BY <1>1, <1>10, LockMoves DEF ScaleDies, Abandon
<1>11. QED
  BY <1>2, <1>3, <1>4, <1>5, <1>6, <1>7, <1>8, <1>9, <1>10
     DEF WorkerStep, ReturnStep, CleanupStep, ScaleStep, WorkerDies

(* Neither the shutdown, nor the reaper's drops, nor the environment moves a task. *)
LEMMA OthersMoveNoTask ==
    ASSUME \/ ShutdownSignal \/ ServerFails \/ ShutdownStep \/ DropReaped
           \/ Expire \/ PortReturned \/ AutoRemove \/ Crash \/ UNCHANGED vars
    PROVE  UNCHANGED <<pc, lock, lease, cont, scale_left>>
<1> USE DEF taskVars, localVars
<1>1. CASE ShutdownSignal \/ ServerFails \/ ShutdownStep
  BY <1>1 DEF ShutdownSignal, ServerFails, ShutdownStep, Shutdown, StillDraining, vars, Drained,
     AbortWorkers, CollectAllHosts, DropCollected, AllDropped, ListManaged, ListFails,
     SweepStops, Exit
<1>2. CASE DropReaped
  BY <1>2 DEF DropReaped
<1>3. CASE Expire \/ PortReturned \/ AutoRemove \/ Crash \/ UNCHANGED vars
  BY <1>3 DEF Expire, PortReturned, AutoRemove, Crash, vars
<1>4. QED
  BY <1>1, <1>2, <1>3

(***************************************************************************)
(* The locals a task has at each place.                                     *)
(***************************************************************************)
LEMMA LocalsMove ==
    ASSUME PoolInv, NEW t \in Tasks,
           \A u \in Tasks \ {t} : /\ pc'[u] = pc[u]
                                  /\ lease'[u] = lease[u]
                                  /\ cont'[u] = cont[u],
           t \in Requests /\ pc'[t] \in Owning => lease'[t] \in LeaseIds,
           t \in Spawners /\ pc'[t] \in {"start", "started"} => cont'[t] \in Containers,
           t = "return" /\ pc'[t] \in {"lock", "inspect"} => lease'[t] \in LeaseIds,
           t = "return" /\ pc'[t] = "inspect" => cont'[t] \in Containers
    PROVE  LocalsSet'
<1>1. Requests \subseteq Tasks /\ Spawners \subseteq Tasks /\ "return" \in Tasks
  BY DEF Tasks, Spawners, Workers
<1>2. LocalsSet
  BY DEF PoolInv
<1>3. QED
  BY <1>1, <1>2 DEF LocalsSet, Owning

(* A task that only moves, or forgets its locals. *)
LEMMA LocalsGoto ==
    ASSUME PoolInv, NEW t \in Tasks, NEW q, Goto(t, q),
           Forget(t) \/ UNCHANGED <<lease, cont>>,
           q \in {"idle", "dead", "port", "create"} \/ (q = "lock" /\ t # "return")
    PROVE  LocalsSet'
<1>1. /\ pc'[t] = q
      /\ \A u \in Tasks \ {t} : pc'[u] = pc[u] /\ lease'[u] = lease[u] /\ cont'[u] = cont[u]
  BY DEF PoolInv, TypeOK, Goto, Forget
<1>2. QED
  BY <1>1, LocalsMove DEF Owning

LEMMA SpawnLocals ==
    ASSUME PoolInv, NEW t \in Spawners, SpawnStep(t)
    PROVE  LocalsSet'
<1> USE DEF localVars
<1>1. t \in Tasks /\ t # "return"
  BY PoolAssumption DEF Spawners, Tasks, Workers
<1>2. ASSUME SpawnFailed(t)
      PROVE  LocalsSet'
  BY <1>1, <1>2, LocalsGoto DEF SpawnFailed, NextRound
<1>3. CASE AllocatePort(t)
  BY <1>1, <1>3, LocalsGoto DEF AllocatePort
<1>4. CASE CreateContainer(t)
  <2>1. /\ pc'[t] = "start" /\ cont'[t] \in Containers
        /\ \A u \in Tasks \ {t} : pc'[u] = pc[u] /\ lease'[u] = lease[u] /\ cont'[u] = cont[u]
    BY <1>1, <1>4 DEF PoolInv, TypeOK, CreateContainer, FreshContainers, Goto
  <2>2. QED
    BY <1>1, <2>1, LocalsMove DEF Owning
<1>5. CASE StartContainer(t)
  <2>1. /\ pc'[t] = "started" /\ cont'[t] = cont[t] /\ cont[t] \in Containers
        /\ \A u \in Tasks \ {t} : pc'[u] = pc[u] /\ lease'[u] = lease[u] /\ cont'[u] = cont[u]
    BY <1>1, <1>5 DEF PoolInv, TypeOK, LocalsSet, StartContainer, Goto, At
  <2>2. QED
    BY <1>1, <2>1, LocalsMove DEF Owning
<1>6. CASE NoAvailablePorts(t) \/ CreateFails(t) \/ StartRefused(t) \/ StartReplyLost(t)
  BY <1>2, <1>6 DEF NoAvailablePorts, CreateFails, StartRefused, StartReplyLost
<1>7. QED
  BY <1>3, <1>4, <1>5, <1>6 DEF SpawnStep
LEMMA RequestLocals ==
    ASSUME PoolInv, NEW r \in Requests, RequestStep(r)
    PROVE  LocalsSet'
<1> USE DEF localVars
<1>1. r \in Tasks /\ r \in Spawners /\ r # "return"
  BY PoolAssumption DEF Tasks, Spawners, Workers
<1>2. CASE LeaseHost(r) \/ MaxInstancesReached(r) \/ SpawnForLease(r) \/ InvalidLease(r)
           \/ ContainerNotReady(r) \/ DropLease(r)
  BY <1>1, <1>2, LocalsGoto DEF LeaseHost, MaxInstancesReached, SpawnForLease, InvalidLease,
     ContainerNotReady, DropLease
<1>3. ASSUME NEW c, NEW p, InsertLease(r, c, p)
      PROVE  LocalsSet'
  <2>1. /\ lease'[r] \in LeaseIds /\ pc'[r] \in {"holding", "health"}
        /\ \A u \in Tasks \ {r} : pc'[u] = pc[u] /\ lease'[u] = lease[u] /\ cont'[u] = cont[u]
    BY <1>1, <1>3 DEF PoolInv, TypeOK, InsertLease, FreshLeases, Goto
  <2>2. QED
    BY <1>1, <2>1, LocalsMove
<1>4. CASE LeaseAvailable(r)
  <2>1. PICK c \in available_hosts : InsertLease(r, c, host_port[c])
    BY <1>4 DEF LeaseAvailable
  <2>2. PICK p : p = host_port[c]
    OBVIOUS
  <2>3. QED
    BY <1>3, <2>1, <2>2
<1>5. CASE LeaseSpawned(r)
  <2>1. PICK c, p : c = cont[r] /\ p = port[r]
    OBVIOUS
  <2>2. QED
    BY <1>3, <1>5, <2>1 DEF LeaseSpawned
<1>6. CASE HealthWait(r) \/ MarkTested(r)
  <2>1. /\ lease[r] \in LeaseIds /\ UNCHANGED lease
        /\ pc'[r] \in {"ready", "unready", "holding"}
        /\ \A u \in Tasks \ {r} : pc'[u] = pc[u] /\ lease'[u] = lease[u] /\ cont'[u] = cont[u]
    BY <1>1, <1>6 DEF PoolInv, TypeOK, LocalsSet, HealthWait, MarkTested, Goto, At, Owning
  <2>2. QED
    BY <1>1, <2>1, LocalsMove
<1>7. CASE SpawnStep(r)
  BY <1>1, <1>7, SpawnLocals
<1>8. CASE Cancel(r)
  BY <1>1, <1>8, LocalsGoto DEF Cancel, Abandon
<1>9. QED
  BY <1>2, <1>4, <1>5, <1>6, <1>7, <1>8 DEF RequestStep

LEMMA WorkerLocals ==
    ASSUME PoolInv, WorkerStep \/ WorkerDies
    PROVE  LocalsSet'
<1> USE DEF localVars
<1>1. /\ {"return", "cleanup", "scale"} \subseteq Tasks /\ "scale" \in Spawners
      /\ {"return", "cleanup", "scale"} \intersect Requests = {}
      /\ "return" \notin Spawners /\ "cleanup" \notin Spawners
  BY PoolAssumption DEF Tasks, Spawners, Workers
<1>2. CASE ReceiveLease
  <2>1. Head(lease_chan) \in LeaseIds
    BY <1>2, ReceiveType, PoolAssumption DEF PoolInv, TypeOK, ReceiveLease
  <2>2. /\ lease'["return"] \in LeaseIds /\ pc'["return"] = "lock"
        /\ \A u \in Tasks \ {"return"} : pc'[u] = pc[u] /\ lease'[u] = lease[u] /\ cont'[u] = cont[u]
    BY <1>1, <1>2, <2>1 DEF PoolInv, TypeOK, ReceiveLease, Goto
  <2>3. QED
    BY <1>1, <2>2, LocalsMove
<1>3. CASE ReturnTakes
  <2>1. lease["return"] \in LeaseIds
    BY <1>3 DEF PoolInv, LocalsSet, ReturnTakes, At
  <2>2. leased_hosts[lease["return"]] \in Containers
    BY <1>3, <2>1 DEF PoolInv, TypeOK, ReturnTakes
  <2>3. /\ lease'["return"] \in LeaseIds /\ cont'["return"] \in Containers
        /\ \A u \in Tasks \ {"return"} : pc'[u] = pc[u] /\ lease'[u] = lease[u] /\ cont'[u] = cont[u]
    BY <1>1, <1>3, <2>1, <2>2 DEF PoolInv, TypeOK, ReturnTakes, Goto
  <2>4. QED
    BY <1>1, <2>3, LocalsMove
<1>4. CASE ReturnDrops \/ InspectFails \/ ReturnToPool
  BY <1>1, <1>4, LocalsGoto DEF ReturnDrops, InspectFails, ReturnToPool
<1>5. CASE ReceiveCleanup
  <2>1. \A u \in Tasks \ {"cleanup"} : pc'[u] = pc[u] /\ lease'[u] = lease[u] /\ cont'[u] = cont[u]
    BY <1>1, <1>5 DEF PoolInv, TypeOK, ReceiveCleanup, Goto
  <2>2. QED
    BY <1>1, <2>1, LocalsMove
<1>6. CASE CleanupStops
  BY <1>1, <1>6, LocalsGoto DEF CleanupStops
<1>7. CASE ReapExpired
  BY <1>7 DEF PoolInv, LocalsSet, ReapExpired
<1>8. CASE RunScalingPolicy
  BY <1>1, <1>8, LocalsGoto DEF RunScalingPolicy
<1>9. CASE SpawnStep("scale")
  BY <1>1, <1>9, SpawnLocals
<1>10. CASE ScalerAddsHost
  BY <1>1, <1>10, LocalsGoto DEF ScalerAddsHost, NextRound
<1>11. CASE ReturnDies
  BY <1>1, <1>11, LocalsGoto DEF ReturnDies, Abandon
<1>12. CASE CleanupDies
  BY <1>1, <1>12, LocalsGoto DEF CleanupDies, Abandon
<1>13. CASE ScaleDies
  BY <1>1, <1>13, LocalsGoto DEF ScaleDies, Abandon
<1>14. QED
  BY <1>2, <1>3, <1>4, <1>5, <1>6, <1>7, <1>8, <1>9, <1>10, <1>11, <1>12, <1>13
     DEF WorkerStep, ReturnStep, CleanupStep, ScaleStep, WorkerDies

(***************************************************************************)
(* Counting the pool's hosts.                                               *)
(***************************************************************************)
LEMMA CountInsert ==
    ASSUME TypeOK, NEW l \in LeaseIds, leased_hosts[l] = NoContainer, NEW c \in Containers,
           leased_hosts' = [leased_hosts EXCEPT ![l] = c]
    PROVE  Cardinality(Leases') = Cardinality(Leases) + 1
<1>1. Leases' = Leases \union {l} /\ l \notin Leases
  BY PoolAssumption DEF TypeOK, Leases
<1>2. QED
  BY <1>1, CountType, FS_AddElement

LEMMA CountRemove ==
    ASSUME TypeOK, NEW l \in LeaseIds, leased_hosts[l] # NoContainer,
           leased_hosts' = [leased_hosts EXCEPT ![l] = NoContainer]
    PROVE  Cardinality(Leases') = Cardinality(Leases) - 1
<1>1. Leases' = Leases \ {l} /\ l \in Leases
  BY DEF TypeOK, Leases
<1>2. QED
  BY <1>1, CountType, FS_RemoveElement

LEMMA CountForget ==
    ASSUME TypeOK, NEW l \in LeaseIds,
           leased_hosts' = [leased_hosts EXCEPT ![l] = NoContainer]
    PROVE  Cardinality(Leases') \in Nat /\ Cardinality(Leases') <= Cardinality(Leases)
<1>1. CASE leased_hosts[l] # NoContainer
  <2>1. Leases' = Leases \ {l} /\ l \in Leases
    BY <1>1 DEF TypeOK, Leases
  <2>2. Cardinality(Leases \ {l}) = Cardinality(Leases) - 1 /\ IsFiniteSet(Leases \ {l})
    BY <2>1, CountType, FS_RemoveElement
  <2>3. Cardinality(Leases \ {l}) \in Nat
    BY <2>2, FS_CardinalityType
  <2>4. QED
    BY <2>1, <2>2, <2>3, CountType
<1>2. CASE leased_hosts[l] = NoContainer
  <2>1. Leases' = Leases
    BY <1>2 DEF TypeOK, Leases
  <2>2. QED
    BY <2>1, CountType
<1>3. QED
  BY <1>1, <1>2

(***************************************************************************)
(* Room.  With the mutex free, only the number of hosts matters.            *)
(***************************************************************************)
LEMMA RoomWhenFree ==
    ASSUME LockHeld', lock' = Nobody, HostCount' <= max_instances
    PROVE  RoomKept' /\ PoolWithinMax'
<1>1. Nobody \notin Tasks /\ Requests \subseteq Tasks /\ {"return", "scale"} \subseteq Tasks
  BY PoolAssumption DEF Tasks, Workers
<1>2. \A t \in Tasks : pc'[t] \notin LockPlaces'
  BY <1>1 DEF LockHeld
<1>3. QED
  BY <1>1, <1>2 DEF RoomKept, PoolWithinMax, LockPlaces, SpawnPlaces

(* A step that leaves the pool alone and brings no task to a place with the mutex. *)
LEMMA RoomFrame ==
    ASSUME PoolInv, UNCHANGED <<available_hosts, leased_hosts, scale_left>>,
           \A r \in Requests : pc'[r] \in SpawnPlaces => pc[r] \in SpawnPlaces,
           pc'["return"] = "inspect" => pc["return"] = "inspect",
           pc'["scale"] \in SpawnPlaces => pc["scale"] \in SpawnPlaces
    PROVE  RoomKept' /\ PoolWithinMax'
<1>1. Leases' = Leases /\ HostCount' = HostCount
  BY DEF Leases, HostCount
<1>2. QED
  BY <1>1 DEF PoolInv, RoomKept, PoolWithinMax, SpawnPlaces

(* The same for one task that moves. *)
LEMMA RoomGoto ==
    ASSUME PoolInv, UNCHANGED <<available_hosts, leased_hosts, scale_left>>,
           NEW t \in Tasks, NEW q, Goto(t, q),
           \/ q \notin LockPlaces
           \/ t \in Spawners /\ pc[t] \in SpawnPlaces /\ q \in SpawnPlaces
    PROVE  RoomKept' /\ PoolWithinMax'
<1>1. /\ pc'[t] = q /\ \A u \in Tasks \ {t} : pc'[u] = pc[u]
      /\ Requests \subseteq Tasks /\ {"return", "scale"} \subseteq Tasks
      /\ "return" \notin Spawners
  BY PoolAssumption DEF PoolInv, TypeOK, Goto, Tasks, Spawners, Workers
<1>2. /\ \A r \in Requests : pc'[r] \in SpawnPlaces => pc[r] \in SpawnPlaces
      /\ pc'["return"] = "inspect" => pc["return"] = "inspect"
      /\ pc'["scale"] \in SpawnPlaces => pc["scale"] \in SpawnPlaces
  BY <1>1 DEF LockPlaces, SpawnPlaces
<1>3. QED
  BY <1>2, RoomFrame

(* Only the holder of the mutex is at a place that needs it. *)
LEMMA HolderAlone ==
    ASSUME LockHeld', NEW t \in Tasks, lock' = t
    PROVE  \A u \in Tasks \ {t} : pc'[u] \notin SpawnPlaces /\ pc'[u] # "inspect"
BY DEF LockHeld, LockPlaces, SpawnPlaces
LEMMA SpawnRoom ==
    ASSUME PoolInv, NEW t \in Spawners, SpawnStep(t)
    PROVE  RoomKept' /\ PoolWithinMax'
<1> USE DEF poolVars
<1>1. t \in Tasks /\ (t # "scale" => t \in Requests) /\ "scale" \in Tasks
  BY DEF Spawners, Tasks, Workers
<1>2. LockHeld'
  BY SpawnLock
<1>3. ASSUME SpawnFailed(t), pc[t] \in SpawnPlaces
      PROVE  RoomKept' /\ PoolWithinMax'
  <2>1. UNCHANGED <<available_hosts, leased_hosts>>
    BY <1>3 DEF SpawnFailed
  <2>2. HostCount' = HostCount /\ HostCount \in Nat /\ HostCount <= max_instances
    BY <2>1, CountType DEF PoolInv, PoolWithinMax, HostCount, Leases
  <2>3. CASE lock' = Nobody
    BY <1>2, <2>2, <2>3, RoomWhenFree
  <2>4. CASE lock' # Nobody
    <3>1. /\ t = "scale" /\ scale_left # 1 /\ scale_left' = scale_left - 1
          /\ lock' = lock
      BY <1>3, <2>4 DEF SpawnFailed, NextRound
    <3>2. lock' = "scale"
      BY <1>1, <1>3, <3>1 DEF PoolInv, LockHeld, LockPlaces
    <3>3. scale_left \in Nat /\ scale_left >= 1 /\ HostCount + scale_left <= min_instances
      BY <1>3, <3>1, PoolAssumption DEF PoolInv, TypeOK, RoomKept
    <3>4. scale_left' >= 1 /\ HostCount' + scale_left' <= min_instances
      BY <2>2, <3>1, <3>3, PoolAssumption
    <3>5. \A u \in Tasks \ {"scale"} : pc'[u] \notin SpawnPlaces /\ pc'[u] # "inspect"
      BY <1>1, <1>2, <3>2, HolderAlone
    <3>6. QED
      BY <2>2, <3>4, <3>5, PoolAssumption
         DEF RoomKept, PoolWithinMax, Tasks, Workers, SpawnPlaces
  <2>5. QED
    BY <2>3, <2>4
<1>4. CASE AllocatePort(t)
  BY <1>1, <1>4, RoomGoto DEF AllocatePort, At, SpawnPlaces
<1>5. CASE CreateContainer(t)
  BY <1>1, <1>5, RoomGoto DEF CreateContainer, At, SpawnPlaces
<1>6. CASE StartContainer(t)
  BY <1>1, <1>6, RoomGoto DEF StartContainer, At, SpawnPlaces
<1>7. CASE NoAvailablePorts(t) \/ CreateFails(t) \/ StartRefused(t) \/ StartReplyLost(t)
  BY <1>3, <1>7 DEF NoAvailablePorts, CreateFails, StartRefused, StartReplyLost, At, SpawnPlaces
<1>8. QED
  BY <1>4, <1>5, <1>6, <1>7 DEF SpawnStep

LEMMA RequestRoom ==
    ASSUME PoolInv, NEW r \in Requests, RequestStep(r)
    PROVE  RoomKept' /\ PoolWithinMax'
<1> USE DEF poolVars
<1>1. r \in Tasks /\ r \in Spawners /\ r # "return" /\ r # "scale"
  BY PoolAssumption DEF Tasks, Spawners, Workers
<1>2. LockHeld' /\ TypeOK
  BY RequestLock DEF PoolInv
<1>3. /\ HostCount \in Nat /\ HostCount <= max_instances /\ max_instances \in Nat
      /\ IsFiniteSet(available_hosts) /\ Cardinality(available_hosts) \in Nat
      /\ Cardinality(Leases) \in Nat
  BY CountType, PoolAssumption DEF PoolInv, PoolWithinMax
<1>4. CASE LeaseHost(r) \/ MaxInstancesReached(r) \/ MarkTested(r) \/ InvalidLease(r) \/ DropLease(r)
  BY <1>1, <1>4, RoomGoto DEF LeaseHost, MaxInstancesReached, MarkTested, InvalidLease, DropLease,
     LockPlaces, SpawnPlaces
<1>5. CASE HealthWait(r)
  BY <1>1, <1>5, RoomGoto DEF HealthWait, LockPlaces, SpawnPlaces
<1>6. CASE LeaseAvailable(r)
  <2>1. PICK c \in available_hosts :
          available_hosts' = available_hosts \ {c} /\ InsertLease(r, c, host_port[c])
    BY <1>6 DEF LeaseAvailable
  <2>2. PICK l \in FreshLeases : leased_hosts' = [leased_hosts EXCEPT ![l] = c]
    BY <2>1 DEF InsertLease
  <2>3. Cardinality(Leases') = Cardinality(Leases) + 1
    BY <1>2, <2>1, <2>2, CountInsert DEF TypeOK, FreshLeases
  <2>4. Cardinality(available_hosts') = Cardinality(available_hosts) - 1
    BY <1>3, <2>1, FS_RemoveElement
  <2>5. HostCount' <= max_instances
    BY <1>3, <2>3, <2>4 DEF HostCount
  <2>6. QED
    BY <1>2, <2>1, <2>5, RoomWhenFree DEF InsertLease
<1>7. CASE SpawnForLease(r)
  <2>1. /\ lock' = r /\ available_hosts' = {} /\ Leases' = Leases /\ HostCount' = HostCount
        /\ Cardinality(Leases) < max_instances
    BY <1>7 DEF SpawnForLease, Leases, HostCount
  <2>2. \A u \in Tasks \ {r} : pc'[u] \notin SpawnPlaces /\ pc'[u] # "inspect"
    BY <1>1, <1>2, <2>1, HolderAlone
  <2>3. QED
    BY <1>1, <1>3, <2>1, <2>2 DEF RoomKept, PoolWithinMax, Tasks, Workers, SpawnPlaces
<1>8. CASE SpawnStep(r)
  BY <1>1, <1>8, SpawnRoom
<1>9. CASE LeaseSpawned(r)
  <2>1. /\ available_hosts = {} /\ UNCHANGED available_hosts
        /\ Cardinality(Leases) < max_instances /\ cont[r] \in Containers
    BY <1>1, <1>9 DEF PoolInv, RoomKept, LocalsSet, LeaseSpawned, NewHost, At, SpawnPlaces
  <2>2. PICK c \in Containers : c = cont[r]
    BY <2>1
  <2>3. PICK l \in FreshLeases : leased_hosts' = [leased_hosts EXCEPT ![l] = c]
    BY <1>9, <2>2 DEF LeaseSpawned, InsertLease
  <2>4. Cardinality(Leases') = Cardinality(Leases) + 1
    BY <1>2, <2>3, CountInsert DEF FreshLeases
  <2>5. Cardinality(available_hosts') = 0
    BY <2>1, FS_EmptySet
  <2>6. HostCount' <= max_instances
    BY <1>3, <2>1, <2>4, <2>5 DEF HostCount
  <2>7. QED
    BY <1>2, <1>9, <2>6, RoomWhenFree DEF LeaseSpawned, InsertLease
<1>10. CASE ContainerNotReady(r)
  <2>1. lease[r] \in LeaseIds
    BY <1>10 DEF PoolInv, LocalsSet, ContainerNotReady, At, Owning
  <2>2. PICK l \in LeaseIds : l = lease[r]
    BY <2>1
  <2>3. Cardinality(Leases') \in Nat /\ Cardinality(Leases') <= Cardinality(Leases)
    BY <1>2, <1>10, <2>2, CountForget DEF ContainerNotReady, RemoveAndDrop
  <2>4. HostCount' <= max_instances
    BY <1>3, <1>10, <2>3 DEF HostCount, ContainerNotReady
  <2>5. QED
    BY <1>2, <1>10, <2>4, RoomWhenFree DEF ContainerNotReady
<1>11. CASE Cancel(r)
  BY <1>1, <1>11, RoomGoto DEF Cancel, Abandon, LockPlaces, SpawnPlaces
<1>12. QED
  BY <1>4, <1>5, <1>6, <1>7, <1>8, <1>9, <1>10, <1>11 DEF RequestStep

LEMMA WorkerRoom ==
    ASSUME PoolInv, WorkerStep \/ WorkerDies
    PROVE  RoomKept' /\ PoolWithinMax'
<1> USE DEF poolVars
<1>1. /\ {"return", "cleanup", "scale"} \subseteq Tasks /\ "scale" \in Spawners
      /\ {"return", "cleanup", "scale"} \intersect Requests = {}
      /\ Requests \subseteq Tasks
  BY PoolAssumption DEF Tasks, Spawners, Workers
<1>2. LockHeld' /\ TypeOK
  BY WorkerLock DEF PoolInv
<1>3. /\ HostCount \in Nat /\ HostCount <= max_instances
      /\ max_instances \in Nat /\ min_instances \in Nat /\ min_instances <= max_instances
      /\ IsFiniteSet(available_hosts) /\ Cardinality(available_hosts) \in Nat
      /\ Cardinality(Leases) \in Nat
  BY CountType, PoolAssumption DEF PoolInv, PoolWithinMax
<1>4. ASSUME NEW c, available_hosts' = available_hosts \union {c}
      PROVE  /\ Cardinality(available_hosts') \in Nat
             /\ Cardinality(available_hosts') <= Cardinality(available_hosts) + 1
  <2>1. IsFiniteSet(available_hosts) /\ Cardinality(available_hosts) \in Nat
    BY <1>3
  <2>2. Cardinality(available_hosts \union {c}) =
          IF c \in available_hosts THEN Cardinality(available_hosts)
                                   ELSE Cardinality(available_hosts) + 1
    BY <2>1, FS_AddElement
  <2>3. /\ Cardinality(available_hosts \union {c}) \in Nat
        /\ Cardinality(available_hosts \union {c}) <= Cardinality(available_hosts) + 1
    BY <2>1, <2>2
  <2>4. QED
    BY <1>4, <2>3
<1>5. CASE ReceiveLease \/ ReceiveCleanup \/ CleanupStops
  BY <1>1, <1>5, RoomGoto DEF ReceiveLease, ReceiveCleanup, CleanupStops, LockPlaces, SpawnPlaces
<1>6. CASE ReturnDrops
  <2>1. PICK l \in LeaseIds : l = lease["return"]
    BY <1>6 DEF PoolInv, LocalsSet, ReturnDrops, At
  <2>2. Cardinality(Leases') \in Nat /\ Cardinality(Leases') <= Cardinality(Leases)
    BY <1>2, <1>6, <2>1, CountForget DEF ReturnDrops, RemoveAndDrop
  <2>3. HostCount' <= max_instances
    BY <1>3, <1>6, <2>2 DEF HostCount, ReturnDrops
  <2>4. QED
    BY <1>2, <1>6, <2>3, RoomWhenFree DEF ReturnDrops
<1>7. CASE ReturnTakes
  <2>1. PICK l \in LeaseIds : l = lease["return"]
    BY <1>7 DEF PoolInv, LocalsSet, ReturnTakes, At
  <2>2. Cardinality(Leases') = Cardinality(Leases) - 1
    BY <1>2, <1>7, <2>1, CountRemove DEF ReturnTakes
  <2>3. HostCount' < max_instances
    BY <1>3, <1>7, <2>2 DEF HostCount, ReturnTakes
  <2>4. \A u \in Tasks \ {"return"} : pc'[u] \notin SpawnPlaces /\ pc'[u] # "inspect"
    BY <1>1, <1>2, <1>7, HolderAlone DEF ReturnTakes
  <2>5. HostCount' <= max_instances
    BY <1>3, <1>7, <2>2 DEF HostCount, ReturnTakes
  <2>6. QED
    BY <1>1, <2>3, <2>4, <2>5 DEF RoomKept, PoolWithinMax, SpawnPlaces
<1>8. CASE InspectFails
  BY <1>1, <1>8, RoomGoto DEF InspectFails, LockPlaces, SpawnPlaces
<1>9. CASE ReturnToPool
  <2>1. HostCount < max_instances
    BY <1>9 DEF PoolInv, RoomKept, ReturnToPool, At
  <2>2. /\ Cardinality(available_hosts') \in Nat
        /\ Cardinality(available_hosts') <= Cardinality(available_hosts) + 1
    <3>1. PICK c : available_hosts' = available_hosts \union {c}
      BY <1>9 DEF ReturnToPool
    <3>2. QED
      BY <1>4, <3>1
  <2>3. Leases' = Leases
    BY <1>9 DEF Leases, ReturnToPool
  <2>4. HostCount' <= max_instances
    BY <1>3, <2>1, <2>2, <2>3 DEF HostCount
  <2>5. QED
    BY <1>2, <1>9, <2>4, RoomWhenFree DEF ReturnToPool
<1>10. CASE ReapExpired
  <2>1. /\ available_hosts' \subseteq available_hosts /\ Leases' = Leases
        /\ lock' = Nobody
    BY <1>10 DEF ReapExpired, Leases
  <2>2. /\ Cardinality(available_hosts') \in Nat
        /\ Cardinality(available_hosts') <= Cardinality(available_hosts)
    BY <1>3, <2>1, FS_Subset, FS_CardinalityType
  <2>3. HostCount' <= max_instances
    BY <1>3, <2>1, <2>2 DEF HostCount
  <2>4. QED
    BY <1>2, <2>1, <2>3, RoomWhenFree
<1>11. CASE RunScalingPolicy
  <2>1. /\ HostCount' = HostCount /\ lock' = "scale"
        /\ HostCount < min_instances /\ scale_left' = min_instances - HostCount
    BY <1>11 DEF RunScalingPolicy, HostCount, Leases
  <2>2. scale_left' >= 1 /\ HostCount' + scale_left' <= min_instances
    BY <1>3, <2>1
  <2>3. \A u \in Tasks \ {"scale"} : pc'[u] \notin SpawnPlaces /\ pc'[u] # "inspect"
    BY <1>1, <1>2, <2>1, HolderAlone
  <2>4. QED
    BY <1>1, <1>3, <2>1, <2>2, <2>3 DEF RoomKept, PoolWithinMax, SpawnPlaces
<1>12. CASE SpawnStep("scale")
  BY <1>1, <1>12, SpawnRoom
<1>13. CASE ScalerAddsHost
  <2>1. /\ scale_left \in Nat /\ scale_left >= 1 /\ HostCount + scale_left <= min_instances
        /\ lock = "scale"
    BY <1>1, <1>13, PoolAssumption
       DEF PoolInv, TypeOK, RoomKept, LockHeld, LockPlaces, ScalerAddsHost, NewHost, At, SpawnPlaces
  <2>2. /\ Cardinality(available_hosts') \in Nat
        /\ Cardinality(available_hosts') <= Cardinality(available_hosts) + 1
    <3>1. PICK c : available_hosts' = available_hosts \union {c}
      BY <1>13 DEF ScalerAddsHost
    <3>2. QED
      BY <1>4, <3>1
  <2>3. Leases' = Leases
    BY <1>13 DEF Leases, ScalerAddsHost
  <2>4. HostCount' <= HostCount + 1 /\ HostCount' \in Nat
    BY <1>3, <2>2, <2>3 DEF HostCount
  <2>5. HostCount' <= max_instances
    BY <1>3, <2>1, <2>4
  <2>6. CASE lock' = Nobody
    BY <1>2, <2>5, <2>6, RoomWhenFree
  <2>7. CASE lock' # Nobody
    <3>1. scale_left' = scale_left - 1 /\ scale_left # 1 /\ lock' = "scale"
      BY <1>13, <2>1, <2>7 DEF ScalerAddsHost, NextRound
    <3>2. scale_left' >= 1 /\ HostCount' + scale_left' <= min_instances
      <4>1. HostCount \in Nat /\ min_instances \in Nat
        BY <1>3
      <4>2. PICK before \in Nat, after \in Nat, left \in Nat :
              before = HostCount /\ after = HostCount' /\ left = scale_left
        BY <2>1, <2>4, <4>1
      <4>3. left >= 1 /\ left # 1 /\ before + left <= min_instances /\ after <= before + 1
        BY <2>1, <2>4, <3>1, <4>2
      <4>4. left - 1 >= 1 /\ after + (left - 1) <= min_instances
        BY <4>1, <4>3
      <4>5. QED
        BY <3>1, <4>2, <4>4
    <3>3. \A u \in Tasks \ {"scale"} : pc'[u] \notin SpawnPlaces /\ pc'[u] # "inspect"
      BY <1>1, <1>2, <3>1, HolderAlone
    <3>4. QED
      BY <1>1, <2>5, <3>2, <3>3 DEF RoomKept, PoolWithinMax, SpawnPlaces
  <2>8. QED
    BY <2>6, <2>7
<1>14. CASE ReturnDies
  BY <1>1, <1>14, RoomGoto DEF ReturnDies, Abandon, LockPlaces, SpawnPlaces
<1>15. CASE CleanupDies
  BY <1>1, <1>15, RoomGoto DEF CleanupDies, Abandon, LockPlaces, SpawnPlaces
<1>16. CASE ScaleDies
  <2>1. /\ pc'["scale"] = "idle" /\ \A u \in Tasks \ {"scale"} : pc'[u] = pc[u]
        /\ UNCHANGED <<available_hosts, leased_hosts>>
    BY <1>1, <1>2, <1>16 DEF TypeOK, ScaleDies, Abandon, Goto
  <2>2. Leases' = Leases /\ HostCount' = HostCount
    BY <2>1 DEF Leases, HostCount
  <2>3. QED
    BY <1>1, <2>1, <2>2 DEF PoolInv, RoomKept, PoolWithinMax, SpawnPlaces
<1>17. QED
  BY <1>5, <1>6, <1>7, <1>8, <1>9, <1>10, <1>11, <1>12, <1>13, <1>14, <1>15, <1>16
     DEF WorkerStep, ReturnStep, CleanupStep, ScaleStep, WorkerDies

LEMMA OthersRoom ==
    ASSUME PoolInv,
           \/ ShutdownSignal \/ ServerFails \/ ShutdownStep \/ DropReaped
           \/ Expire \/ PortReturned \/ AutoRemove \/ Crash \/ UNCHANGED vars
    PROVE  LockHeld' /\ LocalsSet' /\ RoomKept' /\ PoolWithinMax'
<1> USE DEF poolVars, taskVars, localVars
<1>1. UNCHANGED <<pc, lock, lease, cont, scale_left>>
  BY OthersMoveNoTask
<1>2. LockHeld' /\ LocalsSet'
  BY <1>1 DEF PoolInv, LockHeld, LocalsSet, LockPlaces, SpawnPlaces, Owning
<1>3. CASE CollectAllHosts
  <2>1. /\ lock' = Nobody /\ available_hosts' = {}
        /\ leased_hosts' = [l \in LeaseIds |-> NoContainer]
    BY <1>3 DEF CollectAllHosts, Shutdown
  <2>2. Leases' = {}
    BY <2>1 DEF Leases
  <2>3. Cardinality(available_hosts') = 0 /\ Cardinality(Leases') = 0
    BY <2>1, <2>2, FS_EmptySet
  <2>4. HostCount' <= max_instances
    BY <2>3, PoolAssumption DEF HostCount
  <2>5. QED
    BY <1>2, <2>1, <2>4, RoomWhenFree
<1>4. CASE ~CollectAllHosts
  <2>1. UNCHANGED <<available_hosts, leased_hosts>>
    <3>1. CASE ShutdownSignal \/ ServerFails \/ ShutdownStep
      BY <1>4, <3>1 DEF ShutdownSignal, ServerFails, ShutdownStep, StillDraining, vars, Drained,
         AbortWorkers, DropCollected, AllDropped, ListManaged, ListFails, SweepStops, Exit
    <3>2. CASE DropReaped \/ Expire \/ PortReturned \/ AutoRemove \/ Crash \/ UNCHANGED vars
      BY <3>2 DEF DropReaped, Expire, PortReturned, AutoRemove, Crash, vars
    <3>3. QED
      BY <3>1, <3>2
  <2>2. QED
    BY <1>1, <1>2, <2>1, RoomFrame
<1>5. QED
  BY <1>3, <1>4
-----------------------------------------------------------------------------
LEMMA InitPool == Init => PoolInv
<1> SUFFICES ASSUME Init PROVE PoolInv
  OBVIOUS
<1>1. Nobody \notin Tasks
  BY PoolAssumption DEF Tasks
<1>2. << >> \in Seq(LeaseIds) /\ << >> \in Seq(Containers) /\ Len(<< >>) = 0
  OBVIOUS
<1>3. TypeOK
  <2>1. D!TypeOK /\ port_state \in [Ports -> PP!PortStates]
    BY DEF Init, D!Init, PP!Init, D!TypeOK, D!ContainerStates, PP!PortStates
  <2>2. LeaseCap >= 0 /\ CleanupCap >= 0 /\ 0 \in 0 .. min_instances
    BY PoolAssumption
  <2>3. QED
    BY <1>2, <2>1, <2>2 DEF Init, TypeOK, RequestPlaces
<1>4. LockHeld
  BY <1>1 DEF Init, LockHeld, LockPlaces, SpawnPlaces
<1>5. "return" \in Tasks /\ "scale" \in Tasks /\ Requests \subseteq Tasks /\ Spawners \subseteq Tasks
  BY DEF Tasks, Workers, Spawners
<1>6. LocalsSet /\ RoomKept
  BY <1>5 DEF Init, LocalsSet, RoomKept, Owning, SpawnPlaces
<1>7. PoolWithinMax
  <2>1. available_hosts = {} /\ Leases = {}
    BY DEF Init, Leases
  <2>2. QED
    BY <2>1, FS_EmptySet, PoolAssumption DEF PoolWithinMax, HostCount
<1>8. QED
  BY <1>3, <1>4, <1>6, <1>7 DEF PoolInv

LEMMA StepPool == PoolInv /\ [Next]_vars => PoolInv'
<1> SUFFICES ASSUME PoolInv, [Next]_vars PROVE PoolInv'
  OBVIOUS
<1>1. CASE \E r \in Requests : RequestStep(r)
  BY <1>1, RequestType, RequestLock, RequestLocals, RequestRoom DEF PoolInv
<1>2. CASE WorkerStep
  BY <1>2, WorkerType, WorkerLock, WorkerLocals, WorkerRoom DEF PoolInv
<1>3. CASE WorkerDies
  BY <1>3, WorkerDiesType, WorkerLock, WorkerLocals, WorkerRoom DEF PoolInv
<1>4. CASE ShutdownSignal \/ ServerFails \/ ShutdownStep \/ DropReaped
  BY <1>4, ShutdownType, OthersRoom DEF PoolInv
<1>5. CASE Expire \/ PortReturned \/ AutoRemove \/ Crash \/ UNCHANGED vars
  BY <1>5, EnvironmentType, OthersRoom DEF PoolInv
<1>6. QED
  BY <1>1, <1>2, <1>3, <1>4, <1>5 DEF Next, Terminated

(***************************************************************************)
(* The inductive invariant: types, one holder of the state mutex, and room  *)
(* for every host that a holder of the mutex may still add.                 *)
(***************************************************************************)
THEOREM PoolInvariant == Spec => []PoolInv
BY InitPool, StepPool, PTL DEF Spec

(* Type correctness of the host pool; its channels keep within their capacity. *)
THEOREM PoolTypeCorrect == Spec => []TypeOK
<1>1. PoolInv => TypeOK
  BY DEF PoolInv
<1>2. QED
  BY <1>1, PoolInvariant, PTL

(***************************************************************************)
(* available_hosts and leased_hosts never hold more than max_instances      *)
(* hosts together, for any numbers of requests, containers and ports, with  *)
(* every failure, cancellation and shutdown the model has.                  *)
(***************************************************************************)
THEOREM Capacity == Spec => []PoolWithinMax
<1>1. PoolInv => PoolWithinMax
  BY DEF PoolInv
<1>2. QED
  BY <1>1, PoolInvariant, PTL
-----------------------------------------------------------------------------
(***************************************************************************)
(* Every HostInstance has exactly one owner.                                *)
(***************************************************************************)
LiveHosts == {c \in Containers : Live(c)}

(***************************************************************************)
(* OneOwner is inductive together with what makes a new host new: the       *)
(* spawner that holds the mutex has a port, and a container no host is made *)
(* of yet; and collect_all_hosts runs once.                                 *)
(***************************************************************************)
SpawnsFresh ==
    \A t \in Spawners :
        /\ pc[t] \in Spawning => port[t] \in Ports
        /\ pc[t] \in {"start", "started"} => ~Live(cont[t])

CollectsOnce == InService => sd_hosts = {}

OwnerInv == PoolInv /\ OneOwner /\ SpawnsFresh /\ CollectsOnce

(* The sets that OneOwner partitions the live hosts into. *)
LEMMA LeasedAdd ==
    ASSUME TypeOK, NEW l \in LeaseIds, leased_hosts[l] = NoContainer, NEW c \in Containers,
           leased_hosts' = [leased_hosts EXCEPT ![l] = c], c \notin LeasedContainers, OneOwner
    PROVE  /\ LeasedContainers' = LeasedContainers \union {c}
           /\ \A m, n \in Leases' : leased_hosts'[m] = leased_hosts'[n] => m = n
<1>1. Leases' = Leases \union {l} /\ l \notin Leases
  BY PoolAssumption DEF TypeOK, Leases
<1>2. /\ leased_hosts'[l] = c
      /\ \A m \in Leases : leased_hosts'[m] = leased_hosts[m] /\ leased_hosts[m] # c
  BY <1>1 DEF TypeOK, Leases, LeasedContainers
<1>3. LeasedContainers' = LeasedContainers \union {c}
  BY <1>1, <1>2 DEF LeasedContainers
<1>4. \A m, n \in Leases' : leased_hosts'[m] = leased_hosts'[n] => m = n
  BY <1>1, <1>2 DEF OneOwner
<1>5. QED
  BY <1>3, <1>4

LEMMA LeasedRemove ==
    ASSUME TypeOK, OneOwner, NEW l \in LeaseIds, NEW c \in Containers, c = leased_hosts[l],
           leased_hosts' = [leased_hosts EXCEPT ![l] = NoContainer]
    PROVE  /\ LeasedContainers' = LeasedContainers \ {c} /\ c \in LeasedContainers
           /\ \A m, n \in Leases' : leased_hosts'[m] = leased_hosts'[n] => m = n
<1>1. Leases' = Leases \ {l} /\ l \in Leases
  BY PoolAssumption DEF TypeOK, Leases
<1>2. \A m \in Leases \ {l} : leased_hosts'[m] = leased_hosts[m] /\ leased_hosts[m] # c
  BY <1>1 DEF TypeOK, Leases, OneOwner
<1>3. LeasedContainers' = LeasedContainers \ {c} /\ c \in LeasedContainers
  BY <1>1, <1>2 DEF LeasedContainers
<1>4. \A m, n \in Leases' : leased_hosts'[m] = leased_hosts'[n] => m = n
  BY <1>1, <1>2 DEF OneOwner
<1>5. QED
  BY <1>3, <1>4

LEMMA LiveDrop ==
    ASSUME TypeOK, NEW c \in Containers, DropHost(c)
    PROVE  LiveHosts' = LiveHosts \ {c}
BY DEF TypeOK, DropHost, LiveHosts, Live

LEMMA LiveAdd ==
    ASSUME OwnerInv, NEW t \in Spawners, NewHost(t)
    PROVE  /\ cont[t] \in Containers /\ cont[t] \notin LiveHosts
           /\ LiveHosts' = LiveHosts \union {cont[t]}
<1>1. cont[t] \in Containers /\ ~Live(cont[t]) /\ port[t] \in Ports
  BY DEF OwnerInv, PoolInv, LocalsSet, SpawnsFresh, NewHost, At, Spawning
<1>2. QED
  BY <1>1, PoolAssumption DEF OwnerInv, PoolInv, TypeOK, LiveHosts, Live, NewHost

(* OneOwner, read as a partition of the live hosts. *)
Partition(live, available, leased, inspected, reaped, collected) ==
    /\ live = available \union leased \union inspected \union reaped \union collected
    /\ available \intersect (leased \union inspected \union reaped \union collected) = {}
    /\ leased \intersect (inspected \union reaped \union collected) = {}
    /\ inspected \intersect (reaped \union collected) = {}
    /\ reaped \intersect collected = {}

LEMMA OneOwnerIsPartition ==
    OneOwner <=>
      /\ \A l, m \in Leases : leased_hosts[l] = leased_hosts[m] => l = m
      /\ Partition(LiveHosts, available_hosts, LeasedContainers, Inspected, reap_hosts, sd_hosts)
BY DEF OneOwner, Partition, LiveHosts

(* A step that moves no host between owners. *)
LEMMA OwnerFrame ==
    ASSUME OneOwner,
           UNCHANGED <<available_hosts, leased_hosts, host_port, reap_hosts, sd_hosts>>,
           Inspected' = Inspected
    PROVE  OneOwner'
<1>1. Leases' = Leases /\ LeasedContainers' = LeasedContainers
  BY DEF Leases, LeasedContainers
<1>2. \A c \in Containers : Live(c)' <=> Live(c)
  BY DEF Live
<1>3. QED
  BY <1>1, <1>2 DEF OneOwner

(* A step of a task that is not the return task leaves Inspected alone. *)
LEMMA InspectedFrame ==
    ASSUME PoolInv, NEW t \in Tasks, t # "return", NEW q, Goto(t, q),
           \/ UNCHANGED cont \/ Forget(t) \/ \E c : cont' = [cont EXCEPT ![t] = c]
    PROVE  Inspected' = Inspected
<1>1. pc'["return"] = pc["return"] /\ cont'["return"] = cont["return"]
  BY DEF PoolInv, TypeOK, Goto, Forget, Tasks, Workers
<1>2. QED
  BY <1>1 DEF Inspected, At
LEMMA SpawnOwner ==
    ASSUME PoolInv, OneOwner, NEW t \in Spawners, SpawnStep(t)
    PROVE  OneOwner'
<1> USE DEF poolVars, hostVars, sdVars, localVars
<1>1. t \in Tasks /\ t # "return" /\ "scale" \in Tasks
  BY PoolAssumption DEF Spawners, Tasks, Workers
<1>2. UNCHANGED <<available_hosts, leased_hosts, host_port, reap_hosts, sd_hosts>>
  BY DEF SpawnStep, AllocatePort, NoAvailablePorts, CreateContainer, CreateFails,
     StartContainer, StartRefused, StartReplyLost, SpawnFailed
<1>3. Inspected' = Inspected
  <2>1. ASSUME SpawnFailed(t)
        PROVE  Inspected' = Inspected
    BY <1>1, <2>1, InspectedFrame DEF SpawnFailed, NextRound
  <2>2. CASE AllocatePort(t)
    BY <1>1, <2>2, InspectedFrame DEF AllocatePort
  <2>3. CASE CreateContainer(t)
    <3>1. PICK c : cont' = [cont EXCEPT ![t] = c]
      BY <2>3 DEF CreateContainer
    <3>2. QED
      BY <1>1, <2>3, <3>1, InspectedFrame DEF CreateContainer
  <2>4. CASE StartContainer(t)
    BY <1>1, <2>4, InspectedFrame DEF StartContainer
  <2>5. CASE NoAvailablePorts(t) \/ CreateFails(t) \/ StartRefused(t) \/ StartReplyLost(t)
    BY <2>1, <2>5 DEF NoAvailablePorts, CreateFails, StartRefused, StartReplyLost
  <2>6. QED
    BY <2>2, <2>3, <2>4, <2>5 DEF SpawnStep
<1>4. QED
  BY <1>2, <1>3, OwnerFrame

(* An entry is removed and its host dropped: by its request or the return task. *)
LEMMA RemoveOwner ==
    ASSUME PoolInv, OneOwner, NEW l \in LeaseIds, RemoveAndDrop(l),
           UNCHANGED <<available_hosts, reap_hosts, sd_hosts>>, Inspected' = Inspected
    PROVE  OneOwner'
<1>1. CASE leased_hosts[l] = NoContainer
  <2>1. leased_hosts' = leased_hosts
    BY <1>1 DEF PoolInv, TypeOK, RemoveAndDrop
  <2>2. QED
    BY <1>1, <2>1, OwnerFrame DEF RemoveAndDrop, hostVars
<1>2. CASE leased_hosts[l] # NoContainer
  <2>1. PICK c \in Containers : c = leased_hosts[l]
    BY <1>2 DEF PoolInv, TypeOK
  <2>2. LiveHosts' = LiveHosts \ {c}
    BY <1>2, <2>1, LiveDrop DEF PoolInv, RemoveAndDrop
  <2>3. /\ LeasedContainers' = LeasedContainers \ {c} /\ c \in LeasedContainers
        /\ \A m, n \in Leases' : leased_hosts'[m] = leased_hosts'[n] => m = n
    <3>1. TypeOK /\ leased_hosts' = [leased_hosts EXCEPT ![l] = NoContainer]
      BY <1>2, <2>1 DEF PoolInv, RemoveAndDrop
    <3>2. QED
      BY <2>1, <3>1, LeasedRemove
  <2>4. Partition(LiveHosts, available_hosts, LeasedContainers, Inspected, reap_hosts, sd_hosts)
    BY OneOwnerIsPartition
  <2>5. Partition(LiveHosts', available_hosts', LeasedContainers', Inspected', reap_hosts', sd_hosts')
    BY <2>2, <2>3, <2>4 DEF Partition
  <2>6. QED
    BY <2>3, <2>5 DEF OneOwner, Partition, LiveHosts
<1>3. QED
  BY <1>1, <1>2

LEMMA RequestOwner ==
    ASSUME OwnerInv, NEW r \in Requests, RequestStep(r)
    PROVE  OneOwner'
<1> USE DEF poolVars, hostVars, sdVars, localVars
<1>1. r \in Tasks /\ r \in Spawners /\ r # "return"
  BY PoolAssumption DEF Tasks, Spawners, Workers
<1>2. TypeOK /\ PoolInv /\ OneOwner
  BY DEF OwnerInv, PoolInv
<1>3. Partition(LiveHosts, available_hosts, LeasedContainers, Inspected, reap_hosts, sd_hosts)
  BY <1>2, OneOwnerIsPartition
<1>4. ASSUME NEW c, NEW p, InsertLease(r, c, p)
      PROVE  Inspected' = Inspected
  <2>1. cont' = [cont EXCEPT ![r] = c] /\ (Goto(r, "holding") \/ Goto(r, "health"))
    BY <1>4 DEF InsertLease
  <2>2. QED
    BY <1>1, <1>2, <2>1, InspectedFrame
<1>5. CASE LeaseHost(r) \/ MaxInstancesReached(r) \/ SpawnForLease(r) \/ MarkTested(r)
           \/ InvalidLease(r) \/ DropLease(r)
  BY <1>1, <1>2, <1>5, InspectedFrame, OwnerFrame DEF LeaseHost, MaxInstancesReached,
     SpawnForLease, MarkTested, InvalidLease, DropLease
<1>6. CASE HealthWait(r)
  BY <1>1, <1>2, <1>6, InspectedFrame, OwnerFrame DEF HealthWait
<1>7. CASE LeaseAvailable(r)
  <2>1. PICK c \in available_hosts :
          available_hosts' = available_hosts \ {c} /\ InsertLease(r, c, host_port[c])
    BY <1>7 DEF LeaseAvailable
  <2>2. c \in Containers /\ c \notin LeasedContainers
    BY <1>2, <1>3 DEF TypeOK, Partition
  <2>3. PICK l \in FreshLeases : leased_hosts' = [leased_hosts EXCEPT ![l] = c]
    BY <2>1 DEF InsertLease
  <2>4. /\ LeasedContainers' = LeasedContainers \union {c}
        /\ \A m, n \in Leases' : leased_hosts'[m] = leased_hosts'[n] => m = n
    BY <1>2, <2>2, <2>3, LeasedAdd DEF FreshLeases
  <2>5. Inspected' = Inspected
    <3>1. PICK p : p = host_port[c]
      OBVIOUS
    <3>2. QED
      BY <1>4, <2>1, <3>1
  <2>6. LiveHosts' = LiveHosts /\ reap_hosts' = reap_hosts /\ sd_hosts' = sd_hosts
    BY <1>7 DEF LeaseAvailable, LiveHosts, Live
  <2>7. Partition(LiveHosts', available_hosts', LeasedContainers', Inspected', reap_hosts', sd_hosts')
    BY <1>3, <2>1, <2>4, <2>5, <2>6 DEF Partition
  <2>8. QED
    BY <2>4, <2>7 DEF OneOwner, Partition, LiveHosts
<1>8. CASE SpawnStep(r)
  BY <1>1, <1>2, <1>8, SpawnOwner
<1>9. CASE LeaseSpawned(r)
  <2>1. PICK c \in Containers : c = cont[r]
    BY <1>1, <1>9, LiveAdd DEF LeaseSpawned
  <2>2. c \notin LiveHosts /\ LiveHosts' = LiveHosts \union {c}
    BY <1>1, <1>9, <2>1, LiveAdd DEF LeaseSpawned
  <2>3. c \notin LeasedContainers
    BY <1>3, <2>2 DEF Partition
  <2>4. PICK l \in FreshLeases : leased_hosts' = [leased_hosts EXCEPT ![l] = c]
    BY <1>9, <2>1 DEF LeaseSpawned, InsertLease
  <2>5. /\ LeasedContainers' = LeasedContainers \union {c}
        /\ \A m, n \in Leases' : leased_hosts'[m] = leased_hosts'[n] => m = n
    BY <1>2, <2>3, <2>4, LeasedAdd DEF FreshLeases
  <2>6. Inspected' = Inspected
    <3>1. PICK p : p = port[r]
      OBVIOUS
    <3>2. QED
      BY <1>4, <1>9, <2>1, <3>1 DEF LeaseSpawned
  <2>7. UNCHANGED <<available_hosts, reap_hosts, sd_hosts>>
    BY <1>9 DEF LeaseSpawned, NewHost
  <2>8. Partition(LiveHosts', available_hosts', LeasedContainers', Inspected', reap_hosts', sd_hosts')
    BY <1>3, <2>2, <2>5, <2>6, <2>7 DEF Partition
  <2>9. QED
    BY <2>5, <2>8 DEF OneOwner, Partition, LiveHosts
<1>10. CASE ContainerNotReady(r)
  <2>1. PICK l \in LeaseIds : l = lease[r]
    BY <1>2, <1>10 DEF PoolInv, LocalsSet, ContainerNotReady, At, Owning
  <2>2. Inspected' = Inspected
    BY <1>1, <1>2, <1>10, InspectedFrame DEF ContainerNotReady
  <2>3. QED
    BY <1>2, <1>10, <2>1, <2>2, RemoveOwner DEF ContainerNotReady
<1>11. CASE Cancel(r)
  BY <1>1, <1>2, <1>11, InspectedFrame, OwnerFrame DEF Cancel, Abandon
<1>12. QED
  BY <1>5, <1>6, <1>7, <1>8, <1>9, <1>10, <1>11 DEF RequestStep

(* A host that is being inspected is dropped. *)
LEMMA InspectedDrop ==
    ASSUME PoolInv, OneOwner, At("return", "inspect"), DropHost(cont["return"]),
           UNCHANGED <<available_hosts, leased_hosts, reap_hosts, sd_hosts>>, Inspected' = {}
    PROVE  OneOwner'
<1>1. PICK c \in Containers : c = cont["return"]
  BY DEF PoolInv, LocalsSet, At
<1>2. LiveHosts' = LiveHosts \ {c}
  BY <1>1, LiveDrop DEF PoolInv
<1>3. Inspected = {c} /\ Leases' = Leases /\ LeasedContainers' = LeasedContainers
  BY <1>1 DEF Inspected, Leases, LeasedContainers
<1>4. Partition(LiveHosts, available_hosts, LeasedContainers, Inspected, reap_hosts, sd_hosts)
  BY OneOwnerIsPartition
<1>5. Partition(LiveHosts', available_hosts', LeasedContainers', Inspected', reap_hosts', sd_hosts')
  BY <1>2, <1>3, <1>4 DEF Partition
<1>6. QED
  BY <1>3, <1>5 DEF OneOwner, Partition, LiveHosts

LEMMA WorkerOwner ==
    ASSUME OwnerInv, WorkerStep \/ WorkerDies
    PROVE  OneOwner'
<1> USE DEF poolVars, hostVars, sdVars, localVars
<1>1. {"return", "cleanup", "scale"} \subseteq Tasks /\ "scale" \in Spawners
  BY DEF Tasks, Spawners, Workers
<1>2. TypeOK /\ PoolInv /\ OneOwner
  BY DEF OwnerInv, PoolInv
<1>3. Partition(LiveHosts, available_hosts, LeasedContainers, Inspected, reap_hosts, sd_hosts)
  BY <1>2, OneOwnerIsPartition
<1>4. CASE ReceiveLease
  <2>1. Inspected' = Inspected
    BY <1>1, <1>2, <1>4 DEF TypeOK, ReceiveLease, Goto, At, Inspected
  <2>2. QED
    BY <1>2, <1>4, <2>1, OwnerFrame DEF ReceiveLease
<1>5. CASE ReturnDrops
  <2>1. PICK l \in LeaseIds : l = lease["return"]
    BY <1>2, <1>5 DEF PoolInv, LocalsSet, ReturnDrops, At
  <2>2. Inspected' = Inspected
    BY <1>1, <1>2, <1>5 DEF TypeOK, ReturnDrops, Goto, At, Inspected
  <2>3. QED
    BY <1>2, <1>5, <2>1, <2>2, RemoveOwner DEF ReturnDrops
<1>6. CASE ReturnTakes
  <2>1. PICK l \in LeaseIds : l = lease["return"]
    BY <1>2, <1>6 DEF PoolInv, LocalsSet, ReturnTakes, At
  <2>2. PICK c \in Containers : c = leased_hosts[l]
    BY <1>2, <1>6, <2>1 DEF TypeOK, ReturnTakes
  <2>3. /\ LeasedContainers' = LeasedContainers \ {c} /\ c \in LeasedContainers
        /\ \A m, n \in Leases' : leased_hosts'[m] = leased_hosts'[n] => m = n
    BY <1>2, <1>6, <2>1, <2>2, LeasedRemove, PoolAssumption DEF ReturnTakes
  <2>4. Inspected = {} /\ Inspected' = {c}
    BY <1>1, <1>2, <1>6, <2>1, <2>2 DEF TypeOK, ReturnTakes, Goto, At, Inspected
  <2>5. LiveHosts' = LiveHosts /\ UNCHANGED <<available_hosts, reap_hosts, sd_hosts>>
    BY <1>6 DEF ReturnTakes, LiveHosts, Live
  <2>6. Partition(LiveHosts', available_hosts', LeasedContainers', Inspected', reap_hosts', sd_hosts')
    BY <1>3, <2>3, <2>4, <2>5 DEF Partition
  <2>7. QED
    BY <2>3, <2>6 DEF OneOwner, Partition, LiveHosts
<1>7. CASE InspectFails
  <2>1. Inspected' = {}
    BY <1>1, <1>2, <1>7 DEF TypeOK, InspectFails, Goto, At, Inspected
  <2>2. QED
    BY <1>2, <1>7, <2>1, InspectedDrop DEF InspectFails
<1>8. CASE ReturnToPool
  <2>1. PICK c : c = cont["return"]
    OBVIOUS
  <2>2. Inspected = {c} /\ Inspected' = {}
    BY <1>1, <1>2, <1>8, <2>1 DEF TypeOK, ReturnToPool, Goto, At, Inspected
  <2>3. /\ available_hosts' = available_hosts \union {c}
        /\ LiveHosts' = LiveHosts /\ Leases' = Leases /\ LeasedContainers' = LeasedContainers
        /\ UNCHANGED <<leased_hosts, reap_hosts, sd_hosts>>
    BY <1>8, <2>1 DEF ReturnToPool, LiveHosts, Live, Leases, LeasedContainers
  <2>4. Partition(LiveHosts', available_hosts', LeasedContainers', Inspected', reap_hosts', sd_hosts')
    BY <1>3, <2>2, <2>3 DEF Partition
  <2>5. QED
    BY <1>2, <2>3, <2>4 DEF OneOwner, Partition, LiveHosts
<1>9. CASE ReceiveCleanup
  <2>1. Inspected' = Inspected
    <3>1. PICK c : cont' = [cont EXCEPT !["cleanup"] = c]
      BY <1>9 DEF ReceiveCleanup
    <3>2. QED
      BY <1>1, <1>2, <1>9, <3>1, InspectedFrame DEF ReceiveCleanup
  <2>2. QED
    BY <1>2, <1>9, <2>1, OwnerFrame DEF ReceiveCleanup
<1>10. CASE CleanupStops
  BY <1>1, <1>2, <1>10, InspectedFrame, OwnerFrame DEF CleanupStops
<1>11. CASE ReapExpired
  <2>1. /\ reap_hosts = {} /\ reap_hosts' = available_hosts \intersect expired
        /\ available_hosts' = available_hosts \ expired
        /\ LiveHosts' = LiveHosts /\ Leases' = Leases /\ LeasedContainers' = LeasedContainers
        /\ UNCHANGED <<leased_hosts, sd_hosts>> /\ Inspected' = Inspected
    BY <1>11 DEF ReapExpired, LiveHosts, Live, Leases, LeasedContainers, Inspected, At
  <2>2. Partition(LiveHosts', available_hosts', LeasedContainers', Inspected', reap_hosts', sd_hosts')
    BY <1>3, <2>1 DEF Partition
  <2>3. QED
    BY <1>2, <2>1, <2>2 DEF OneOwner, Partition, LiveHosts
<1>12. CASE RunScalingPolicy
  BY <1>1, <1>2, <1>12, InspectedFrame, OwnerFrame DEF RunScalingPolicy
<1>13. CASE SpawnStep("scale")
  BY <1>1, <1>2, <1>13, SpawnOwner
<1>14. CASE ScalerAddsHost
  <2>1. PICK c : c = cont["scale"]
    OBVIOUS
  <2>2. c \notin LiveHosts /\ LiveHosts' = LiveHosts \union {c}
    BY <1>1, <1>14, <2>1, LiveAdd DEF ScalerAddsHost
  <2>3. Inspected' = Inspected
    BY <1>1, <1>2, <1>14, InspectedFrame DEF ScalerAddsHost, NextRound
  <2>4. /\ available_hosts' = available_hosts \union {c}
        /\ Leases' = Leases /\ LeasedContainers' = LeasedContainers
        /\ UNCHANGED <<leased_hosts, reap_hosts, sd_hosts>>
    BY <1>14, <2>1 DEF ScalerAddsHost, NewHost, Leases, LeasedContainers
  <2>5. Partition(LiveHosts', available_hosts', LeasedContainers', Inspected', reap_hosts', sd_hosts')
    BY <1>3, <2>2, <2>3, <2>4 DEF Partition
  <2>6. QED
    BY <1>2, <2>4, <2>5 DEF OneOwner, Partition, LiveHosts
<1>15. CASE ReturnDies
  <2>1. Inspected' = {}
    BY <1>1, <1>2, <1>15 DEF TypeOK, ReturnDies, Abandon, Goto, At, Inspected
  <2>2. CASE At("return", "inspect")
    BY <1>2, <1>15, <2>1, <2>2, InspectedDrop DEF ReturnDies
  <2>3. CASE ~At("return", "inspect")
    BY <1>2, <1>15, <2>1, <2>3, OwnerFrame DEF ReturnDies, Inspected
  <2>4. QED
    BY <2>2, <2>3
<1>16. CASE CleanupDies
  BY <1>1, <1>2, <1>16, InspectedFrame, OwnerFrame DEF CleanupDies, Abandon
<1>17. CASE ScaleDies
  BY <1>1, <1>2, <1>17, InspectedFrame, OwnerFrame DEF ScaleDies, Abandon
<1>18. QED
  BY <1>4, <1>5, <1>6, <1>7, <1>8, <1>9, <1>10, <1>11, <1>12, <1>13, <1>14, <1>15, <1>16, <1>17
     DEF WorkerStep, ReturnStep, CleanupStep, ScaleStep, WorkerDies

LEMMA OthersOwner ==
    ASSUME OwnerInv,
           \/ ShutdownSignal \/ ServerFails \/ ShutdownStep \/ DropReaped
           \/ Expire \/ PortReturned \/ AutoRemove \/ Crash \/ UNCHANGED vars
    PROVE  OneOwner'
<1> USE DEF poolVars, hostVars, sdVars, taskVars
<1>1. TypeOK /\ PoolInv /\ OneOwner
  BY DEF OwnerInv, PoolInv
<1>2. Partition(LiveHosts, available_hosts, LeasedContainers, Inspected, reap_hosts, sd_hosts)
  BY <1>1, OneOwnerIsPartition
<1>3. Inspected' = Inspected
  BY OthersMoveNoTask DEF Inspected, At
<1>4. CASE CollectAllHosts
  <2>1. /\ sd_hosts = {} /\ sd_hosts' = available_hosts \union LeasedContainers
        /\ available_hosts' = {} /\ reap_hosts' = reap_hosts
        /\ leased_hosts' = [l \in LeaseIds |-> NoContainer]
        /\ LiveHosts' = LiveHosts
    BY <1>4 DEF OwnerInv, CollectsOnce, InService, CollectAllHosts, Shutdown, LiveHosts, Live
  <2>2. Leases' = {} /\ LeasedContainers' = {}
    BY <2>1 DEF Leases, LeasedContainers
  <2>3. Partition(LiveHosts', available_hosts', LeasedContainers', Inspected', reap_hosts', sd_hosts')
    BY <1>2, <1>3, <2>1, <2>2 DEF Partition
  <2>4. QED
    BY <2>2, <2>3 DEF OneOwner, Partition, LiveHosts
<1>5. CASE DropCollected
  <2>1. PICK c \in sd_hosts : DropHost(c) /\ sd_hosts' = sd_hosts \ {c}
    BY <1>5 DEF DropCollected
  <2>2. LiveHosts' = LiveHosts \ {c}
    BY <1>1, <2>1, LiveDrop DEF TypeOK
  <2>3. UNCHANGED <<available_hosts, leased_hosts, reap_hosts>>
        /\ Leases' = Leases /\ LeasedContainers' = LeasedContainers
    BY <1>5 DEF DropCollected, Leases, LeasedContainers
  <2>4. Partition(LiveHosts', available_hosts', LeasedContainers', Inspected', reap_hosts', sd_hosts')
    BY <1>2, <1>3, <2>1, <2>2, <2>3 DEF Partition
  <2>5. QED
    BY <1>1, <2>3, <2>4 DEF OneOwner, Partition, LiveHosts
<1>6. CASE DropReaped
  <2>1. PICK c \in reap_hosts : DropHost(c) /\ reap_hosts' = reap_hosts \ {c}
    BY <1>6 DEF DropReaped
  <2>2. LiveHosts' = LiveHosts \ {c}
    BY <1>1, <2>1, LiveDrop DEF TypeOK
  <2>3. UNCHANGED <<available_hosts, leased_hosts, sd_hosts>>
        /\ Leases' = Leases /\ LeasedContainers' = LeasedContainers
    BY <1>6 DEF DropReaped, Leases, LeasedContainers
  <2>4. Partition(LiveHosts', available_hosts', LeasedContainers', Inspected', reap_hosts', sd_hosts')
    BY <1>2, <1>3, <2>1, <2>2, <2>3 DEF Partition
  <2>5. QED
    BY <1>1, <2>3, <2>4 DEF OneOwner, Partition, LiveHosts
<1>7. CASE \/ ShutdownSignal \/ ServerFails \/ StillDraining \/ Drained \/ AbortWorkers
           \/ AllDropped \/ ListManaged \/ ListFails \/ SweepStops \/ Exit
           \/ Expire \/ PortReturned \/ AutoRemove \/ Crash \/ UNCHANGED vars
  <2>1. UNCHANGED <<available_hosts, leased_hosts, host_port, reap_hosts, sd_hosts>>
    BY <1>7 DEF ShutdownSignal, ServerFails, StillDraining, Drained, AbortWorkers, AllDropped,
       ListManaged, ListFails, SweepStops, Exit, Shutdown, Expire, PortReturned, AutoRemove,
       Crash, vars
  <2>2. QED
    BY <1>1, <1>3, <2>1, OwnerFrame
<1>8. QED
  BY <1>4, <1>5, <1>6, <1>7 DEF ShutdownStep
(***************************************************************************)
(* The other parts: a spawner's container is new, the collection happens    *)
(* once.                                                                    *)
(***************************************************************************)
(* Only NewHost makes a host. *)
LEMMA OnlyDropsHosts ==
    ASSUME TypeOK,
           \/ UNCHANGED host_port
           \/ \E p : host_port' = [host_port EXCEPT ![p] = NoPort]
    PROVE  \A c \in Containers : Live(c)' => Live(c)
BY DEF TypeOK, Live

LEMMA FreshMove ==
    ASSUME OwnerInv, NEW t \in Tasks,
           \A u \in Tasks \ {t} : pc'[u] = pc[u] /\ port'[u] = port[u] /\ cont'[u] = cont[u],
           \A c \in Containers : Live(c)' => Live(c),
           t \in Spawners /\ pc'[t] \in Spawning => port'[t] \in Ports,
           t \in Spawners /\ pc'[t] \in {"start", "started"} =>
             cont'[t] \in Containers /\ host_port[cont'[t]] = NoPort
    PROVE  SpawnsFresh'
<1>1. Spawners \subseteq Tasks
  BY DEF Spawners, Tasks, Workers
<1>2. \A u \in Spawners : pc[u] \in {"start", "started"} => cont[u] \in Containers
  BY DEF OwnerInv, PoolInv, LocalsSet
<1>3. \A u \in Spawners \ {t} :
        /\ pc'[u] \in Spawning => port'[u] \in Ports
        /\ pc'[u] \in {"start", "started"} => host_port'[cont'[u]] = NoPort
  <2>1. SUFFICES ASSUME NEW u \in Spawners \ {t}
                 PROVE  /\ pc'[u] \in Spawning => port'[u] \in Ports
                        /\ pc'[u] \in {"start", "started"} => host_port'[cont'[u]] = NoPort
    OBVIOUS
  <2>2. pc'[u] = pc[u] /\ port'[u] = port[u] /\ cont'[u] = cont[u]
    BY <1>1
  <2>3. QED
    BY <1>2, <2>2 DEF OwnerInv, SpawnsFresh, Live
<1>4. /\ t \in Spawners /\ pc'[t] \in Spawning => port'[t] \in Ports
      /\ t \in Spawners /\ pc'[t] \in {"start", "started"} => host_port'[cont'[t]] = NoPort
  BY DEF Live
<1>5. QED
  BY <1>3, <1>4 DEF SpawnsFresh, Spawning, Live

(* A task that only moves, or forgets its locals. *)
LEMMA FreshGoto ==
    ASSUME OwnerInv, NEW t \in Tasks, NEW q, Goto(t, q),
           UNCHANGED <<port, cont>> \/ Forget(t),
           \/ UNCHANGED host_port
           \/ \E p : host_port' = [host_port EXCEPT ![p] = NoPort],
           q \notin Spawning
    PROVE  SpawnsFresh'
<1>1. TypeOK
  BY DEF OwnerInv, PoolInv
<1>2. /\ \A u \in Tasks \ {t} : pc'[u] = pc[u] /\ port'[u] = port[u] /\ cont'[u] = cont[u]
      /\ pc'[t] = q
  BY <1>1 DEF TypeOK, Goto, Forget
<1>3. \A c \in Containers : Live(c)' => Live(c)
  BY <1>1, OnlyDropsHosts
<1>4. QED
  BY <1>2, <1>3, FreshMove DEF Spawning

(* With the mutex free no spawn is under way. *)
LEMMA FreshWhenFree ==
    ASSUME LockHeld', lock' = Nobody
    PROVE  SpawnsFresh'
<1>1. Nobody \notin Tasks /\ Spawners \subseteq Tasks
  BY PoolAssumption DEF Tasks, Spawners, Workers
<1>2. \A t \in Spawners : pc'[t] \notin LockPlaces'
  BY <1>1 DEF LockHeld
<1>3. QED
  BY <1>2 DEF SpawnsFresh, Spawning, LockPlaces, SpawnPlaces

LEMMA SpawnFresh ==
    ASSUME OwnerInv, NEW t \in Spawners, SpawnStep(t)
    PROVE  SpawnsFresh'
<1> USE DEF hostVars, localVars
<1>1. t \in Tasks /\ "scale" \in Tasks
  BY DEF Spawners, Tasks, Workers
<1>2. TypeOK /\ PoolInv
  BY DEF OwnerInv, PoolInv
<1>3. \A c \in Containers : Live(c)' => Live(c)
  <2>1. UNCHANGED host_port
    BY DEF SpawnStep, AllocatePort, NoAvailablePorts, CreateContainer, CreateFails,
       StartContainer, StartRefused, StartReplyLost, SpawnFailed
  <2>2. QED
    BY <1>2, <2>1, OnlyDropsHosts
<1>4. ASSUME SpawnFailed(t)
      PROVE  SpawnsFresh'
  BY <1>1, <1>4, FreshGoto DEF SpawnFailed, NextRound, Spawning
<1>5. CASE AllocatePort(t)
  <2>1. PICK p \in Ports : port' = [port EXCEPT ![t] = p]
    BY <1>5 DEF AllocatePort
  <2>2. /\ \A u \in Tasks \ {t} : pc'[u] = pc[u] /\ port'[u] = port[u] /\ cont'[u] = cont[u]
        /\ pc'[t] = "create" /\ port'[t] \in Ports
    BY <1>1, <1>2, <1>5, <2>1 DEF TypeOK, AllocatePort, Goto
  <2>3. QED
    BY <1>1, <1>3, <2>2, FreshMove
<1>6. CASE CreateContainer(t)
  <2>1. PICK c \in FreshContainers : cont' = [cont EXCEPT ![t] = c]
    BY <1>6 DEF CreateContainer
  <2>2. c \in Containers /\ host_port[c] = NoPort
    BY DEF FreshContainers, Live
  <2>3. port[t] \in Ports
    BY <1>6 DEF OwnerInv, SpawnsFresh, CreateContainer, At, Spawning
  <2>4. /\ \A u \in Tasks \ {t} : pc'[u] = pc[u] /\ port'[u] = port[u] /\ cont'[u] = cont[u]
        /\ cont'[t] = c /\ port'[t] = port[t]
    BY <1>1, <1>2, <1>6, <2>1 DEF TypeOK, CreateContainer, Goto
  <2>5. QED
    BY <1>1, <1>3, <2>2, <2>3, <2>4, FreshMove
<1>7. CASE StartContainer(t)
  <2>1. /\ port[t] \in Ports /\ cont[t] \in Containers /\ host_port[cont[t]] = NoPort
    BY <1>2, <1>7 DEF OwnerInv, PoolInv, LocalsSet, SpawnsFresh, StartContainer, At, Spawning, Live
  <2>2. /\ \A u \in Tasks \ {t} : pc'[u] = pc[u] /\ port'[u] = port[u] /\ cont'[u] = cont[u]
        /\ cont'[t] = cont[t] /\ port'[t] = port[t]
    BY <1>1, <1>2, <1>7 DEF TypeOK, StartContainer, Goto
  <2>3. QED
    BY <1>1, <1>3, <2>1, <2>2, FreshMove
<1>8. CASE NoAvailablePorts(t) \/ CreateFails(t) \/ StartRefused(t) \/ StartReplyLost(t)
  BY <1>4, <1>8 DEF NoAvailablePorts, CreateFails, StartRefused, StartReplyLost
<1>9. QED
  BY <1>5, <1>6, <1>7, <1>8 DEF SpawnStep

LEMMA RemoveKeepsHosts ==
    ASSUME NEW l, RemoveAndDrop(l)
    PROVE  \/ UNCHANGED host_port
           \/ \E p : host_port' = [host_port EXCEPT ![p] = NoPort]
<1>1. CASE leased_hosts[l] = NoContainer
  BY <1>1 DEF RemoveAndDrop, hostVars
<1>2. CASE leased_hosts[l] # NoContainer
  BY <1>2 DEF RemoveAndDrop, DropHost
<1>3. QED
  BY <1>1, <1>2

LEMMA RequestFresh ==
    ASSUME OwnerInv, NEW r \in Requests, RequestStep(r)
    PROVE  SpawnsFresh'
<1> USE DEF hostVars, localVars, Spawning
<1>1. r \in Tasks /\ r \in Spawners
  BY DEF Tasks, Spawners
<1>2. LockHeld'
  BY RequestLock DEF OwnerInv
<1>3. CASE LeaseHost(r) \/ MaxInstancesReached(r) \/ SpawnForLease(r) \/ MarkTested(r)
           \/ InvalidLease(r) \/ DropLease(r)
  BY <1>1, <1>3, FreshGoto DEF LeaseHost, MaxInstancesReached, SpawnForLease, MarkTested,
     InvalidLease, DropLease
<1>4. CASE HealthWait(r)
  BY <1>1, <1>4, FreshGoto DEF HealthWait
<1>5. CASE LeaseAvailable(r) \/ LeaseSpawned(r)
  BY <1>2, <1>5, FreshWhenFree DEF LeaseAvailable, LeaseSpawned, InsertLease
<1>6. CASE SpawnStep(r)
  BY <1>1, <1>6, SpawnFresh
<1>7. CASE ContainerNotReady(r)
  <2>1. lock' = Nobody
    BY <1>7 DEF ContainerNotReady
  <2>2. QED
    BY <1>2, <2>1, FreshWhenFree
<1>8. CASE Cancel(r)
  BY <1>1, <1>8, FreshGoto DEF Cancel, Abandon
<1>9. QED
  BY <1>3, <1>4, <1>5, <1>6, <1>7, <1>8 DEF RequestStep

LEMMA WorkerFresh ==
    ASSUME OwnerInv, WorkerStep \/ WorkerDies
    PROVE  SpawnsFresh'
<1> USE DEF hostVars, localVars, Spawning
<1>1. /\ {"return", "cleanup", "scale"} \subseteq Tasks /\ "scale" \in Spawners
      /\ "return" \notin Spawners /\ "cleanup" \notin Spawners /\ Spawners \subseteq Tasks
  BY PoolAssumption DEF Tasks, Spawners, Workers
<1>2. LockHeld' /\ TypeOK
  BY WorkerLock DEF OwnerInv, PoolInv
<1>3. CASE ReceiveLease
  BY <1>1, <1>3, FreshGoto DEF ReceiveLease
<1>4. CASE ReturnDrops \/ InspectFails \/ ReturnToPool \/ ReapExpired
  <2>1. lock' = Nobody
    BY <1>4 DEF ReturnDrops, InspectFails, ReturnToPool, ReapExpired
  <2>2. QED
    BY <1>2, <2>1, FreshWhenFree
<1>5. CASE ReturnTakes \/ ScalerAddsHost
  <2>1. \A t \in Spawners : pc'[t] \notin Spawning
    <3>1. CASE lock' = Nobody
      BY <1>1, <1>2, <3>1, PoolAssumption DEF LockHeld, LockPlaces, SpawnPlaces, Tasks
    <3>2. CASE ReturnTakes
      BY <1>1, <1>2, <3>2, HolderAlone DEF ReturnTakes, SpawnPlaces
    <3>3. CASE ScalerAddsHost /\ lock' # Nobody
      <4>1. lock' = "scale" /\ pc'["scale"] = "port"
        BY <1>1, <1>2, <3>3 DEF OwnerInv, PoolInv, TypeOK, LockHeld, LockPlaces, SpawnPlaces,
           ScalerAddsHost, NewHost, NextRound, Goto, At
      <4>2. QED
        BY <1>1, <1>2, <4>1, HolderAlone DEF SpawnPlaces
    <3>4. QED
      BY <1>5, <3>1, <3>2, <3>3
  <2>2. QED
    BY <2>1 DEF SpawnsFresh
<1>6. CASE ReceiveCleanup
  <2>1. /\ \A u \in Tasks \ {"cleanup"} : pc'[u] = pc[u] /\ port'[u] = port[u] /\ cont'[u] = cont[u]
        /\ UNCHANGED host_port
    BY <1>1, <1>2, <1>6 DEF TypeOK, ReceiveCleanup, Goto
  <2>2. \A c \in Containers : Live(c)' => Live(c)
    BY <1>2, <2>1, OnlyDropsHosts
  <2>3. QED
    BY <1>1, <2>1, <2>2, FreshMove
<1>7. CASE CleanupStops
  BY <1>1, <1>7, FreshGoto DEF CleanupStops
<1>8. CASE RunScalingPolicy
  BY <1>1, <1>8, FreshGoto DEF RunScalingPolicy
<1>9. CASE SpawnStep("scale")
  BY <1>1, <1>9, SpawnFresh
<1>10. CASE ReturnDies
  <2>1. \/ UNCHANGED host_port
        \/ \E p : host_port' = [host_port EXCEPT ![p] = NoPort]
    <3>1. CASE At("return", "inspect")
      BY <1>10, <3>1 DEF ReturnDies, DropHost
    <3>2. CASE ~At("return", "inspect")
      BY <1>10, <3>2 DEF ReturnDies
    <3>3. QED
      BY <3>1, <3>2
  <2>2. QED
    BY <1>1, <1>10, <2>1, FreshGoto DEF ReturnDies, Abandon
<1>11. CASE CleanupDies
  BY <1>1, <1>11, FreshGoto DEF CleanupDies, Abandon
<1>12. CASE ScaleDies
  BY <1>1, <1>12, FreshGoto DEF ScaleDies, Abandon
<1>13. QED
  BY <1>3, <1>4, <1>5, <1>6, <1>7, <1>8, <1>9, <1>10, <1>11, <1>12
     DEF WorkerStep, ReturnStep, CleanupStep, ScaleStep, WorkerDies

LEMMA OthersFresh ==
    ASSUME OwnerInv,
           \/ ShutdownSignal \/ ServerFails \/ ShutdownStep \/ DropReaped
           \/ Expire \/ PortReturned \/ AutoRemove \/ Crash \/ UNCHANGED vars
    PROVE  SpawnsFresh'
<1> USE DEF hostVars, taskVars, localVars
<1>1. UNCHANGED <<pc, port, cont>>
  <2>1. CASE ShutdownSignal \/ ServerFails \/ ShutdownStep
    BY <2>1 DEF ShutdownSignal, ServerFails, ShutdownStep, Shutdown, StillDraining, vars, Drained,
       AbortWorkers, CollectAllHosts, DropCollected, AllDropped, ListManaged, ListFails,
       SweepStops, Exit
  <2>2. CASE DropReaped \/ Expire \/ PortReturned \/ AutoRemove \/ Crash \/ UNCHANGED vars
    BY <2>2 DEF DropReaped, Expire, PortReturned, AutoRemove, Crash, vars
  <2>3. QED
    BY <2>1, <2>2
<1>2. \/ UNCHANGED host_port
      \/ \E p : host_port' = [host_port EXCEPT ![p] = NoPort]
  <2>1. CASE DropCollected
    BY <2>1 DEF DropCollected, DropHost
  <2>2. CASE DropReaped
    BY <2>2 DEF DropReaped, DropHost
  <2>3. CASE ~DropCollected /\ (ShutdownSignal \/ ServerFails \/ ShutdownStep)
    BY <2>3 DEF ShutdownSignal, ServerFails, ShutdownStep, Shutdown, StillDraining, vars, Drained,
       AbortWorkers, CollectAllHosts, AllDropped, ListManaged, ListFails, SweepStops, Exit
  <2>4. CASE Expire \/ PortReturned \/ AutoRemove \/ Crash \/ UNCHANGED vars
    BY <2>4 DEF Expire, PortReturned, AutoRemove, Crash, vars
  <2>5. QED
    BY <2>1, <2>2, <2>3, <2>4
<1>3. \A c \in Containers : Live(c)' => Live(c)
  BY <1>2, OnlyDropsHosts DEF OwnerInv, PoolInv
<1>4. PICK t \in Tasks : t = "return"
  BY DEF Tasks, Workers
<1>5. t \notin Spawners
  BY <1>4, PoolAssumption DEF Spawners, Workers
<1>6. QED
  BY <1>1, <1>3, <1>5, FreshMove

LEMMA CollectsOnceStep ==
    ASSUME CollectsOnce, Next \/ UNCHANGED vars
    PROVE  CollectsOnce'
<1> USE DEF sdVars, InService, CollectsOnce
<1>1. CASE ShutdownSignal \/ ServerFails \/ ShutdownStep
  BY <1>1 DEF ShutdownSignal, ServerFails, ShutdownStep, Shutdown, StillDraining, vars, Drained,
     AbortWorkers, CollectAllHosts, DropCollected, AllDropped, ListManaged, ListFails,
     SweepStops, Exit
<1>2. CASE UNCHANGED <<sd_pc, sd_hosts>>
  BY <1>2
<1>3. ASSUME NEW t, SpawnStep(t)
      PROVE  UNCHANGED <<sd_pc, sd_hosts>>
  BY <1>3 DEF SpawnStep, AllocatePort, NoAvailablePorts, CreateContainer, CreateFails,
     StartContainer, StartRefused, StartReplyLost, SpawnFailed
<1>4. ASSUME NEW r \in Requests, RequestStep(r)
      PROVE  UNCHANGED <<sd_pc, sd_hosts>>
  BY <1>3, <1>4 DEF RequestStep, LeaseHost, LeaseAvailable, MaxInstancesReached, SpawnForLease,
     LeaseSpawned, NewHost, HealthWait, MarkTested, InvalidLease, ContainerNotReady, DropLease, Cancel
<1>5. CASE WorkerStep
  BY <1>3, <1>5 DEF WorkerStep, ReturnStep, CleanupStep, ScaleStep, ReceiveLease, ReturnDrops,
     ReturnTakes, InspectFails, ReturnToPool, ReceiveCleanup, CleanupStops, ReapExpired,
     RunScalingPolicy, ScalerAddsHost, NewHost
<1>6. CASE WorkerDies
  BY <1>6 DEF WorkerDies, ReturnDies, CleanupDies, ScaleDies
<1>7. CASE DropReaped \/ Expire \/ PortReturned \/ AutoRemove \/ Crash \/ UNCHANGED vars
  BY <1>7 DEF DropReaped, Expire, PortReturned, AutoRemove, Crash, vars
<1>8. QED
  BY <1>1, <1>2, <1>4, <1>5, <1>6, <1>7 DEF Next, Terminated
-----------------------------------------------------------------------------
LEMMA InitOwner == Init => OwnerInv
<1> SUFFICES ASSUME Init PROVE OwnerInv
  OBVIOUS
<1>1. PoolInv
  BY InitPool
<1>2. Leases = {} /\ LeasedContainers = {} /\ {c \in Containers : Live(c)} = {}
  BY DEF Init, Leases, LeasedContainers, Live
<1>3. "return" \in Tasks /\ Spawners \subseteq Tasks
  BY DEF Tasks, Workers, Spawners
<1>4. Inspected = {}
  BY <1>3 DEF Init, Inspected, At
<1>5. OneOwner
  BY <1>2, <1>4 DEF Init, OneOwner
<1>6. SpawnsFresh /\ CollectsOnce
  BY <1>3 DEF Init, SpawnsFresh, Spawning, CollectsOnce
<1>7. QED
  BY <1>1, <1>5, <1>6 DEF OwnerInv

LEMMA StepOwner == OwnerInv /\ [Next]_vars => OwnerInv'
<1> SUFFICES ASSUME OwnerInv, [Next]_vars PROVE OwnerInv'
  OBVIOUS
<1>1. PoolInv'
  BY StepPool DEF OwnerInv
<1>2. CollectsOnce'
  BY CollectsOnceStep DEF OwnerInv
<1>3. OneOwner' /\ SpawnsFresh'
  <2>1. CASE \E r \in Requests : RequestStep(r)
    BY <2>1, RequestOwner, RequestFresh
  <2>2. CASE WorkerStep \/ WorkerDies
    BY <2>2, WorkerOwner, WorkerFresh
  <2>3. CASE \/ ShutdownSignal \/ ServerFails \/ ShutdownStep \/ DropReaped
             \/ Expire \/ PortReturned \/ AutoRemove \/ Crash \/ UNCHANGED vars
    BY <2>3, OthersOwner, OthersFresh
  <2>4. QED
    BY <2>1, <2>2, <2>3 DEF Next, Terminated
<1>4. QED
  BY <1>1, <1>2, <1>3 DEF OwnerInv

(***************************************************************************)
(* Every HostInstance has exactly one owner at all times: it is never       *)
(* dropped twice, and never forgotten, by leases, returns, reaping,         *)
(* scaling, hang-ups and shutdown in any interleaving.                      *)
(***************************************************************************)
THEOREM Ownership == Spec => []OneOwner
<1>1. OwnerInv => OneOwner
  BY DEF OwnerInv
<1>2. QED
  BY <1>1, InitOwner, StepOwner, PTL DEF Spec
-----------------------------------------------------------------------------
(***************************************************************************)
(* The pool and the port manager.  The steps that move a port are those of  *)
(* PortPool, one port at a time.                                            *)
(***************************************************************************)
PortStep == PP!Next \/ UNCHANGED port_state

LEMMA PortMoveIsAStep ==
    ASSUME TypeOK, NEW p, PP!Acquire(p) \/ PP!GiveBack(p) \/ PP!Restore(p)
    PROVE  PortStep
<1>1. CASE p \in Ports
  BY <1>1 DEF PortStep, PP!Next
<1>2. CASE p \notin Ports
  BY <1>2 DEF PortStep, TypeOK, PP!Acquire, PP!GiveBack, PP!Restore, PP!Moves
<1>3. QED
  BY <1>1, <1>2

LEMMA DropMovesPort == ASSUME TypeOK, NEW c, DropHost(c) PROVE PortStep
BY PortMoveIsAStep DEF DropHost

LEMMA RemoveMovesPort == ASSUME TypeOK, NEW l, RemoveAndDrop(l) PROVE PortStep
BY DropMovesPort DEF RemoveAndDrop, PortStep

LEMMA SpawnMovesPort == ASSUME TypeOK, NEW t, SpawnStep(t) PROVE PortStep
<1>1. CASE AllocatePort(t) \/ CreateFails(t) \/ StartRefused(t) \/ StartReplyLost(t)
  BY <1>1, PortMoveIsAStep DEF AllocatePort, CreateFails, StartRefused, StartReplyLost
<1>2. CASE NoAvailablePorts(t) \/ CreateContainer(t) \/ StartContainer(t)
  BY <1>2 DEF NoAvailablePorts, CreateContainer, StartContainer, PortStep
<1>3. QED
  BY <1>1, <1>2 DEF SpawnStep

LEMMA AbandonMovesPort == ASSUME TypeOK, NEW t, AbandonSpawn(t) PROVE PortStep
BY PortMoveIsAStep DEF AbandonSpawn, PortStep

LEMMA RequestMovesPort == ASSUME TypeOK, NEW r \in Requests, RequestStep(r) PROVE PortStep
<1>1. CASE SpawnStep(r)
  BY <1>1, SpawnMovesPort
<1>2. CASE ContainerNotReady(r)
  BY <1>2, RemoveMovesPort DEF ContainerNotReady
<1>3. CASE Cancel(r)
  BY <1>3, AbandonMovesPort DEF Cancel
<1>4. CASE LeaseHost(r) \/ LeaseAvailable(r) \/ MaxInstancesReached(r) \/ SpawnForLease(r)
           \/ LeaseSpawned(r) \/ HealthWait(r) \/ MarkTested(r) \/ InvalidLease(r) \/ DropLease(r)
  BY <1>4 DEF PortStep, LeaseHost, LeaseAvailable, MaxInstancesReached, SpawnForLease,
     LeaseSpawned, NewHost, HealthWait, MarkTested, InvalidLease, DropLease
<1>5. QED
  BY <1>1, <1>2, <1>3, <1>4 DEF RequestStep

LEMMA WorkerMovesPort == ASSUME TypeOK, WorkerStep \/ WorkerDies PROVE PortStep
<1>1. CASE SpawnStep("scale")
  BY <1>1, SpawnMovesPort
<1>2. CASE ReturnDrops
  BY <1>2, RemoveMovesPort DEF ReturnDrops
<1>3. CASE InspectFails
  BY <1>3, DropMovesPort DEF InspectFails
<1>4. CASE ReturnDies
  BY <1>4, DropMovesPort DEF ReturnDies, PortStep
<1>5. CASE ScaleDies
  BY <1>5, AbandonMovesPort DEF ScaleDies
<1>6. CASE ReceiveLease \/ ReturnTakes \/ ReturnToPool \/ CleanupStep \/ ReapExpired
           \/ RunScalingPolicy \/ ScalerAddsHost \/ CleanupDies
  BY <1>6 DEF PortStep, ReceiveLease, ReturnTakes, ReturnToPool, CleanupStep, ReceiveCleanup,
     CleanupStops, ReapExpired, RunScalingPolicy, ScalerAddsHost, NewHost, CleanupDies
<1>7. QED
  BY <1>1, <1>2, <1>3, <1>4, <1>5, <1>6 DEF WorkerStep, ReturnStep, ScaleStep, WorkerDies

LEMMA OthersMovePort ==
    ASSUME TypeOK,
           \/ ShutdownSignal \/ ServerFails \/ ShutdownStep \/ DropReaped
           \/ Expire \/ PortReturned \/ AutoRemove \/ Crash \/ UNCHANGED vars
    PROVE  PortStep
<1>1. CASE DropReaped \/ DropCollected
  BY <1>1, DropMovesPort DEF DropReaped, DropCollected
<1>2. CASE PortReturned
  BY <1>2, PortMoveIsAStep DEF PortReturned
<1>3. CASE \/ ShutdownSignal \/ ServerFails \/ StillDraining \/ Drained \/ AbortWorkers
           \/ CollectAllHosts \/ AllDropped \/ ListManaged \/ ListFails \/ SweepStops \/ Exit
           \/ Expire \/ AutoRemove \/ Crash \/ UNCHANGED vars
  BY <1>3 DEF PortStep, ShutdownSignal, ServerFails, StillDraining, Drained, AbortWorkers,
     CollectAllHosts, AllDropped, ListManaged, ListFails, SweepStops, Exit, Shutdown, Expire,
     AutoRemove, Crash, vars
<1>4. QED
  BY <1>1, <1>2, <1>3 DEF ShutdownStep

(***************************************************************************)
(* The host pool asks of its ports only what PortPool offers: a port is     *)
(* given back only while it is held and handed out only while it is free,   *)
(* one at a time.  PortManager implements PortPool (PortManagerProofs).     *)
(***************************************************************************)
THEOREM PoolUsesThePorts == Spec => PP!Spec
<1>1. Init => PP!Init
  BY DEF Init
<1>2. TypeOK /\ [Next]_vars => [PP!Next]_port_state
  BY RequestMovesPort, WorkerMovesPort, OthersMovePort DEF PortStep, Next, Terminated
<1>3. QED
  BY <1>1, <1>2, PoolTypeCorrect, PTL DEF Spec, PP!Spec
=============================================================================
