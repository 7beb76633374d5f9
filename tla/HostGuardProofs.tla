-------------------------- MODULE HostGuardProofs --------------------------
(***************************************************************************)
(* Theorems about HostPool: ports have one owner each, a lease is backed by *)
(* the host its request was given, no port leads to another container, and  *)
(* no container is forgotten.                                               *)
(***************************************************************************)
EXTENDS HostPoolProofs

(***************************************************************************)
(* What a step may do to the tasks: at most one of them moves.              *)
(***************************************************************************)
OnlyMoves(t) ==
    \A u \in Tasks \ {t} :
        pc'[u] = pc[u] /\ lease'[u] = lease[u] /\ port'[u] = port[u] /\ cont'[u] = cont[u]

(* The forms in which an action moves its task. *)
LEMMA GotoMoves ==
    ASSUME TypeOK, NEW t \in Tasks, \E q : Goto(t, q),
           \/ UNCHANGED localVars \/ Forget(t)
           \/ UNCHANGED <<lease, port>> /\ \E c : cont' = [cont EXCEPT ![t] = c]
           \/ UNCHANGED <<lease, cont>> /\ \E p : port' = [port EXCEPT ![t] = p]
           \/ UNCHANGED <<port, cont>> /\ \E l : lease' = [lease EXCEPT ![t] = l]
           \/ \E c, p, l : /\ lease' = [lease EXCEPT ![t] = l]
                           /\ port' = [port EXCEPT ![t] = p]
                           /\ cont' = [cont EXCEPT ![t] = c]
    PROVE  OnlyMoves(t)
BY DEF TypeOK, Goto, Forget, OnlyMoves, localVars

LEMMA SpawnMoves ==
    ASSUME TypeOK, NEW t \in Spawners, SpawnStep(t)
    PROVE  OnlyMoves(t)
<1> USE DEF localVars
<1>1. t \in Tasks
  BY DEF Spawners, Tasks, Workers
<1>2. ASSUME SpawnFailed(t)
      PROVE  OnlyMoves(t)
  <2>1. Forget(t) /\ \E q : Goto(t, q)
    BY <1>2 DEF SpawnFailed, NextRound
  <2>2. QED
    BY <1>1, <2>1, GotoMoves
<1>3. CASE AllocatePort(t)
  BY <1>1, <1>3, GotoMoves DEF AllocatePort
<1>4. CASE CreateContainer(t)
  BY <1>1, <1>4, GotoMoves DEF CreateContainer
<1>5. CASE StartContainer(t)
  BY <1>1, <1>5, GotoMoves DEF StartContainer
<1>6. CASE NoAvailablePorts(t) \/ CreateFails(t) \/ StartRefused(t) \/ StartReplyLost(t)
  BY <1>2, <1>6 DEF NoAvailablePorts, CreateFails, StartRefused, StartReplyLost
<1>7. QED
  BY <1>3, <1>4, <1>5, <1>6 DEF SpawnStep

LEMMA RequestMoves ==
    ASSUME TypeOK, NEW r \in Requests, RequestStep(r)
    PROVE  OnlyMoves(r)
<1> USE DEF localVars
<1>1. r \in Tasks /\ r \in Spawners
  BY DEF Tasks, Spawners
<1>2. ASSUME NEW c, NEW p, InsertLease(r, c, p)
      PROVE  OnlyMoves(r)
  BY <1>1, <1>2, GotoMoves DEF InsertLease
<1>3. CASE LeaseHost(r) \/ MaxInstancesReached(r) \/ SpawnForLease(r) \/ HealthWait(r)
           \/ MarkTested(r) \/ InvalidLease(r) \/ ContainerNotReady(r) \/ DropLease(r) \/ Cancel(r)
  BY <1>1, <1>3, GotoMoves DEF LeaseHost, MaxInstancesReached, SpawnForLease, HealthWait,
     MarkTested, InvalidLease, ContainerNotReady, DropLease, Cancel, Abandon
<1>4. CASE LeaseAvailable(r)
  <2>1. PICK c, p : InsertLease(r, c, p)
    BY <1>4 DEF LeaseAvailable
  <2>2. QED
    BY <1>2, <2>1
<1>5. CASE LeaseSpawned(r)
  <2>1. PICK c, p : InsertLease(r, c, p)
    BY <1>5 DEF LeaseSpawned
  <2>2. QED
    BY <1>2, <2>1
<1>6. CASE SpawnStep(r)
  BY <1>1, <1>6, SpawnMoves
<1>7. QED
  BY <1>3, <1>4, <1>5, <1>6 DEF RequestStep

LEMMA WorkerMoves ==
    ASSUME TypeOK
    PROVE  /\ ReturnStep \/ ReturnDies => OnlyMoves("return")
           /\ CleanupStep \/ CleanupDies => OnlyMoves("cleanup")
           /\ ScaleStep \/ ScaleDies => OnlyMoves("scale")
<1> USE DEF localVars
<1>1. {"return", "cleanup", "scale"} \subseteq Tasks /\ "scale" \in Spawners
  BY DEF Tasks, Workers, Spawners
<1>2. ReturnStep \/ ReturnDies => OnlyMoves("return")
  BY <1>1, GotoMoves DEF ReturnStep, ReceiveLease, ReturnDrops, ReturnTakes, InspectFails,
     ReturnToPool, ReturnDies, Abandon
<1>3. CleanupStep \/ CleanupDies => OnlyMoves("cleanup")
  BY <1>1, GotoMoves DEF CleanupStep, ReceiveCleanup, CleanupStops, CleanupDies, Abandon
<1>4. ScaleStep \/ ScaleDies => OnlyMoves("scale")
  BY <1>1, GotoMoves, SpawnMoves DEF ScaleStep, RunScalingPolicy, ScalerAddsHost, NextRound,
     ScaleDies, Abandon
<1>5. QED
  BY <1>2, <1>3, <1>4

LEMMA OthersMove ==
    ASSUME \/ ReapExpired \/ ShutdownSignal \/ ServerFails \/ ShutdownStep \/ DropReaped
           \/ Expire \/ PortReturned \/ AutoRemove \/ Crash \/ UNCHANGED vars
    PROVE  UNCHANGED <<pc, lease, port, cont>>
<1> USE DEF taskVars, localVars
<1>1. CASE ShutdownSignal \/ ServerFails \/ ShutdownStep
  BY <1>1 DEF ShutdownSignal, ServerFails, ShutdownStep, Shutdown, StillDraining, vars, Drained,
     AbortWorkers, CollectAllHosts, DropCollected, AllDropped, ListManaged, ListFails,
     SweepStops, Exit
<1>2. CASE ReapExpired \/ DropReaped \/ Expire \/ PortReturned \/ AutoRemove \/ Crash \/ UNCHANGED vars
  BY <1>2 DEF ReapExpired, DropReaped, Expire, PortReturned, AutoRemove, Crash, vars
<1>3. QED
  BY <1>1, <1>2
-----------------------------------------------------------------------------
(***************************************************************************)
(* Ports: no two owners, and exactly the owned ports are held.              *)
(***************************************************************************)
HeldPorts == {p \in Ports : port_state[p] = "held"}
HostPorts == {host_port[c] : c \in LiveHosts}
SpawnPorts == {port[t] : t \in {u \in Spawners : pc[u] \in Spawning}}

PortsUnique ==
    /\ \A c, d \in LiveHosts : host_port[c] = host_port[d] => c = d
    /\ HostPorts \intersect SpawnPorts = {}
    /\ HeldPorts = HostPorts \union SpawnPorts

(* Only the holder of the mutex may be spawning. *)
LEMMA SpawnPortsOf ==
    ASSUME PoolInv, NEW t \in Tasks, lock = t
    PROVE  SpawnPorts = IF t \in Spawners /\ pc[t] \in Spawning THEN {port[t]} ELSE {}
<1>1. \A u \in Spawners : pc[u] \in Spawning => u = t
  BY DEF PoolInv, LockHeld, LockPlaces, SpawnPlaces, Spawning, Spawners, Tasks, Workers
<1>2. QED
  BY <1>1 DEF SpawnPorts

LEMMA SpawnPortsFrame ==
    ASSUME NEW t \in Tasks, OnlyMoves(t),
           t \in Spawners => pc[t] \notin Spawning /\ pc'[t] \notin Spawning
    PROVE  SpawnPorts' = SpawnPorts
<1>1. \A u \in Spawners : (pc'[u] \in Spawning <=> pc[u] \in Spawning)
                          /\ (pc[u] \in Spawning => port'[u] = port[u])
  BY DEF OnlyMoves, Spawners, Tasks, Workers
<1>2. QED
  BY <1>1 DEF SpawnPorts, Spawning

(* A spawner moves on, or stops spawning. *)
LEMMA SpawnPortsMove ==
    ASSUME PoolInv, NEW t \in Spawners, pc[t] \in SpawnPlaces, OnlyMoves(t)
    PROVE  /\ SpawnPorts = IF pc[t] \in Spawning THEN {port[t]} ELSE {}
           /\ SpawnPorts' = IF pc'[t] \in Spawning THEN {port'[t]} ELSE {}
<1>1. t \in Tasks /\ Spawners \subseteq Tasks
  BY DEF Spawners, Tasks, Workers
<1>2. \A u \in Spawners \ {t} : pc[u] \notin Spawning
  BY <1>1 DEF PoolInv, LockHeld, LockPlaces, SpawnPlaces, Spawning
<1>3. \A u \in Spawners \ {t} : pc'[u] \notin Spawning
  BY <1>1, <1>2 DEF OnlyMoves
<1>4. QED
  BY <1>2, <1>3 DEF SpawnPorts, Spawning

(* What the moves of a port do to HeldPorts. *)
LEMMA HeldMoves ==
    ASSUME TypeOK, NEW p \in Ports
    PROVE  /\ PP!Acquire(p) => HeldPorts' = HeldPorts \union {p} /\ p \notin HeldPorts
           /\ PP!GiveBack(p) => HeldPorts' = HeldPorts \ {p} /\ p \in HeldPorts
           /\ PP!Restore(p) => HeldPorts' = HeldPorts
BY DEF TypeOK, HeldPorts, PP!Acquire, PP!GiveBack, PP!Restore, PP!Moves

LEMMA PortsFrame ==
    ASSUME PortsUnique, UNCHANGED host_port, HeldPorts' = HeldPorts, SpawnPorts' = SpawnPorts
    PROVE  PortsUnique'
<1>1. LiveHosts' = LiveHosts /\ HostPorts' = HostPorts
  BY DEF LiveHosts, Live, HostPorts
<1>2. QED
  BY <1>1 DEF PortsUnique

(* A port is handed to a spawner, or comes back from one. *)
LEMMA PortsSpawn ==
    ASSUME PortsUnique, UNCHANGED host_port, NEW p,
           \/ /\ HeldPorts' = HeldPorts \union {p} /\ p \notin HeldPorts
              /\ SpawnPorts = {} /\ SpawnPorts' = {p}
           \/ /\ HeldPorts' = HeldPorts \ {p}
              /\ SpawnPorts = {p} /\ SpawnPorts' = {}
    PROVE  PortsUnique'
<1>1. LiveHosts' = LiveHosts /\ HostPorts' = HostPorts
  BY DEF LiveHosts, Live, HostPorts
<1>2. QED
  BY <1>1 DEF PortsUnique

(* A spawner's port becomes the new host's. *)
LEMMA PortsAdopt ==
    ASSUME OwnerInv, PortsUnique, NEW t \in Spawners, NewHost(t), OnlyMoves(t), pc'[t] \notin Spawning
    PROVE  PortsUnique'
<1>1. /\ cont[t] \in Containers /\ cont[t] \notin LiveHosts
      /\ LiveHosts' = LiveHosts \union {cont[t]}
  BY LiveAdd
<1>2. host_port'[cont[t]] = port[t] /\ \A c \in LiveHosts : host_port'[c] = host_port[c]
  BY <1>1 DEF OwnerInv, PoolInv, TypeOK, NewHost, LiveHosts
<1>3. HostPorts' = HostPorts \union {port[t]}
  BY <1>1, <1>2 DEF HostPorts
<1>4. SpawnPorts = {port[t]} /\ SpawnPorts' = {}
  BY SpawnPortsMove DEF OwnerInv, NewHost, At, Spawning, SpawnPlaces
<1>5. HeldPorts' = HeldPorts
  BY DEF NewHost, HeldPorts
<1>6. \A c \in LiveHosts : host_port[c] # port[t]
  BY <1>4 DEF PortsUnique, HostPorts
<1>7. \A c, d \in LiveHosts' : host_port'[c] = host_port'[d] => c = d
  BY <1>1, <1>2, <1>6 DEF PortsUnique
<1>8. HostPorts' \intersect SpawnPorts' = {} /\ HeldPorts' = HostPorts' \union SpawnPorts'
  BY <1>3, <1>4, <1>5 DEF PortsUnique
<1>9. QED
  BY <1>7, <1>8 DEF PortsUnique

(* A host is dropped and gives its port back. *)
LEMMA PortsDrop ==
    ASSUME TypeOK, PortsUnique, NEW c \in LiveHosts, DropHost(c), SpawnPorts' = SpawnPorts
    PROVE  PortsUnique'
<1>1. c \in Containers /\ host_port[c] \in Ports
  BY DEF TypeOK, LiveHosts, Live
<1>2. LiveHosts' = LiveHosts \ {c} /\ \A d \in LiveHosts \ {c} : host_port'[d] = host_port[d]
  BY <1>1, LiveDrop DEF TypeOK, DropHost, LiveHosts
<1>3. PICK p \in Ports : p = host_port[c]
  BY <1>1
<1>4. HeldPorts' = HeldPorts \ {p}
  BY <1>3, HeldMoves DEF DropHost
<1>5. HostPorts' = HostPorts \ {p} /\ p \in HostPorts
  BY <1>2, <1>3 DEF HostPorts, PortsUnique
<1>6. \A d, e \in LiveHosts' : host_port'[d] = host_port'[e] => d = e
  BY <1>2 DEF PortsUnique
<1>7. QED
  BY <1>4, <1>5, <1>6 DEF PortsUnique
(* Whoever drops a host drops a live one. *)
LEMMA RemoveDrops ==
    ASSUME OwnerInv, NEW l \in LeaseIds, RemoveAndDrop(l)
    PROVE  \/ leased_hosts[l] = NoContainer /\ UNCHANGED <<hostVars, port_state, cleanup_chan>>
           \/ \E c \in LiveHosts : c = leased_hosts[l] /\ DropHost(c)
<1>1. CASE leased_hosts[l] = NoContainer
  BY <1>1 DEF RemoveAndDrop
<1>2. CASE leased_hosts[l] # NoContainer
  <2>1. leased_hosts[l] \in LeasedContainers
    BY <1>2 DEF Leases, LeasedContainers
  <2>2. leased_hosts[l] \in LiveHosts
    BY <2>1, OneOwnerIsPartition DEF OwnerInv, Partition
  <2>3. QED
    BY <1>2, <2>2 DEF RemoveAndDrop
<1>3. QED
  BY <1>1, <1>2

LEMMA InspectedLive ==
    ASSUME OwnerInv, At("return", "inspect")
    PROVE  cont["return"] \in LiveHosts
BY OneOwnerIsPartition DEF OwnerInv, Partition, Inspected

LEMMA SpawnPortsUnique ==
    ASSUME OwnerInv, PortsUnique, NEW t \in Spawners, SpawnStep(t)
    PROVE  PortsUnique'
<1> USE DEF hostVars, localVars, Spawning, SpawnPlaces
<1>1. TypeOK /\ PoolInv /\ OnlyMoves(t) /\ t \in Tasks
  BY SpawnMoves DEF OwnerInv, PoolInv, Spawners, Tasks, Workers
<1>2. pc[t] \in Spawning => port[t] \in Ports
  BY DEF OwnerInv, SpawnsFresh
<1>3. CASE AllocatePort(t)
  <2>1. PICK p \in Ports : PP!Acquire(p) /\ port' = [port EXCEPT ![t] = p]
    BY <1>3 DEF AllocatePort
  <2>2. pc[t] = "port" /\ pc'[t] = "create" /\ port'[t] = p /\ UNCHANGED host_port
    BY <1>1, <1>3, <2>1 DEF TypeOK, AllocatePort, Goto, At
  <2>3. SpawnPorts = {} /\ SpawnPorts' = {p}
    BY <1>1, <2>2, SpawnPortsMove
  <2>4. HeldPorts' = HeldPorts \union {p} /\ p \notin HeldPorts
    BY <1>1, <2>1, HeldMoves
  <2>5. QED
    BY <2>2, <2>3, <2>4, PortsSpawn
<1>4. CASE CreateContainer(t) \/ StartContainer(t)
  <2>1. pc[t] \in Spawning /\ pc'[t] \in Spawning /\ port'[t] = port[t]
        /\ UNCHANGED <<host_port, port_state>>
    BY <1>1, <1>4 DEF TypeOK, CreateContainer, StartContainer, Goto, At
  <2>2. SpawnPorts' = SpawnPorts
    BY <1>1, <2>1, SpawnPortsMove
  <2>3. QED
    BY <2>1, <2>2, PortsFrame DEF HeldPorts
<1>5. CASE NoAvailablePorts(t) \/ CreateFails(t) \/ StartRefused(t) \/ StartReplyLost(t)
  <2>1. SpawnFailed(t) /\ pc[t] \in SpawnPlaces /\ UNCHANGED host_port
    BY <1>5 DEF NoAvailablePorts, CreateFails, StartRefused, StartReplyLost, SpawnFailed, At
  <2>2. pc'[t] \in {"idle", "port"}
    BY <1>1, <2>1 DEF TypeOK, SpawnFailed, NextRound, Goto
  <2>3. SpawnPorts' = {} /\ SpawnPorts = IF pc[t] \in Spawning THEN {port[t]} ELSE {}
    BY <1>1, <2>1, <2>2, SpawnPortsMove
  <2>4. CASE NoAvailablePorts(t)
    BY <2>1, <2>3, <2>4, PortsFrame DEF NoAvailablePorts, HeldPorts, At
  <2>5. CASE CreateFails(t) \/ StartRefused(t) \/ StartReplyLost(t)
    <3>1. PP!GiveBack(port[t]) /\ pc[t] \in Spawning
      BY <2>5 DEF CreateFails, StartRefused, StartReplyLost, At
    <3>2. HeldPorts' = HeldPorts \ {port[t]}
      BY <1>1, <1>2, <3>1, HeldMoves
    <3>3. QED
      BY <2>1, <2>3, <3>1, <3>2, PortsSpawn
  <2>6. QED
    BY <1>5, <2>4, <2>5
<1>6. QED
  BY <1>3, <1>4, <1>5 DEF SpawnStep

(* A future that is dropped while it spawns gives its port back. *)
LEMMA AbandonPorts ==
    ASSUME OwnerInv, PortsUnique, NEW t \in Spawners, AbandonSpawn(t), OnlyMoves(t),
           pc'[t] = "idle", UNCHANGED host_port
    PROVE  PortsUnique'
<1> USE DEF Spawning, SpawnPlaces
<1>1. TypeOK /\ PoolInv /\ t \in Tasks
  BY DEF OwnerInv, PoolInv, Spawners, Tasks, Workers
<1>2. CASE pc[t] \in Spawning
  <2>1. PP!GiveBack(port[t]) /\ port[t] \in Ports
    BY <1>2 DEF AbandonSpawn, OwnerInv, SpawnsFresh
  <2>2. HeldPorts' = HeldPorts \ {port[t]}
    BY <1>1, <2>1, HeldMoves
  <2>3. SpawnPorts = {port[t]} /\ SpawnPorts' = {}
    BY <1>1, <1>2, SpawnPortsMove
  <2>4. QED
    BY <2>2, <2>3, PortsSpawn
<1>3. CASE pc[t] \notin Spawning
  <2>1. SpawnPorts' = SpawnPorts
    BY <1>1, <1>3, SpawnPortsFrame
  <2>2. UNCHANGED port_state
    BY <1>3 DEF AbandonSpawn
  <2>3. QED
    BY <2>1, <2>2, PortsFrame DEF HeldPorts
<1>4. QED
  BY <1>2, <1>3

LEMMA RequestPorts ==
    ASSUME OwnerInv, PortsUnique, NEW r \in Requests, RequestStep(r)
    PROVE  PortsUnique'
<1> USE DEF hostVars, localVars, Spawning
<1>1. TypeOK /\ OnlyMoves(r) /\ r \in Tasks /\ r \in Spawners
  BY RequestMoves DEF OwnerInv, PoolInv, Tasks, Spawners
<1>2. CASE LeaseHost(r) \/ LeaseAvailable(r) \/ MaxInstancesReached(r) \/ SpawnForLease(r)
           \/ HealthWait(r) \/ MarkTested(r) \/ InvalidLease(r) \/ DropLease(r)
  <2>1. pc[r] \notin Spawning /\ UNCHANGED <<host_port, port_state>>
    BY <1>2 DEF LeaseHost, LeaseAvailable, MaxInstancesReached, SpawnForLease, HealthWait,
       MarkTested, InvalidLease, DropLease, At
  <2>2. pc'[r] \notin Spawning
    BY <1>1, <1>2 DEF TypeOK, LeaseHost, LeaseAvailable, InsertLease, MaxInstancesReached,
       SpawnForLease, HealthWait, MarkTested, InvalidLease, DropLease, Goto
  <2>3. SpawnPorts' = SpawnPorts
    BY <1>1, <2>1, <2>2, SpawnPortsFrame
  <2>4. QED
    BY <2>1, <2>3, PortsFrame DEF HeldPorts
<1>3. CASE SpawnStep(r)
  BY <1>1, <1>3, SpawnPortsUnique
<1>4. CASE LeaseSpawned(r)
  <2>1. NewHost(r) /\ pc'[r] \notin Spawning
    BY <1>1, <1>4 DEF TypeOK, LeaseSpawned, InsertLease, Goto
  <2>2. QED
    BY <1>1, <2>1, PortsAdopt
<1>5. CASE ContainerNotReady(r)
  <2>1. pc[r] = "unready" /\ pc'[r] = "idle" /\ RemoveAndDrop(lease[r]) /\ lease[r] \in LeaseIds
    BY <1>1, <1>5 DEF OwnerInv, PoolInv, LocalsSet, Owning, TypeOK, ContainerNotReady, Goto, At
  <2>2. SpawnPorts' = SpawnPorts
    BY <1>1, <2>1, SpawnPortsFrame
  <2>3. UNCHANGED <<hostVars, port_state>> \/ \E c \in LiveHosts : DropHost(c)
    BY <2>1, RemoveDrops
  <2>4. QED
    BY <1>1, <2>2, <2>3, PortsFrame, PortsDrop DEF HeldPorts
<1>6. CASE Cancel(r)
  <2>1. AbandonSpawn(r) /\ pc'[r] = "idle" /\ UNCHANGED host_port
    BY <1>1, <1>6 DEF TypeOK, Cancel, Abandon, Goto
  <2>2. QED
    BY <1>1, <2>1, AbandonPorts
<1>7. QED
  BY <1>2, <1>3, <1>4, <1>5, <1>6 DEF RequestStep

LEMMA WorkerPorts ==
    ASSUME OwnerInv, PortsUnique, WorkerStep \/ WorkerDies
    PROVE  PortsUnique'
<1> USE DEF hostVars, localVars, Spawning
<1>1. /\ {"return", "cleanup", "scale"} \subseteq Tasks /\ "scale" \in Spawners
      /\ "return" \notin Spawners /\ "cleanup" \notin Spawners
  BY PoolAssumption DEF Tasks, Spawners, Workers
<1>2. TypeOK
  BY DEF OwnerInv, PoolInv
<1>3. CASE ReturnStep \/ ReturnDies
  <2>1. SpawnPorts' = SpawnPorts
    BY <1>1, <1>2, <1>3, WorkerMoves, SpawnPortsFrame
  <2>2. CASE ReceiveLease \/ ReturnTakes \/ ReturnToPool
    BY <2>1, <2>2, PortsFrame DEF ReceiveLease, ReturnTakes, ReturnToPool, HeldPorts
  <2>3. CASE ReturnDrops
    <3>1. RemoveAndDrop(lease["return"]) /\ lease["return"] \in LeaseIds
      BY <2>3 DEF OwnerInv, PoolInv, LocalsSet, ReturnDrops, At
    <3>2. UNCHANGED <<hostVars, port_state>> \/ \E c \in LiveHosts : DropHost(c)
      BY <3>1, RemoveDrops
    <3>3. QED
      BY <1>2, <2>1, <3>2, PortsFrame, PortsDrop DEF HeldPorts
  <2>4. CASE InspectFails
    BY <1>2, <2>1, <2>4, InspectedLive, PortsDrop DEF InspectFails
  <2>5. CASE ReturnDies
    BY <1>2, <2>1, <2>5, InspectedLive, PortsDrop, PortsFrame DEF ReturnDies, HeldPorts
  <2>6. QED
    BY <1>3, <2>2, <2>3, <2>4, <2>5 DEF ReturnStep
<1>4. CASE CleanupStep \/ CleanupDies
  <2>1. SpawnPorts' = SpawnPorts
    BY <1>1, <1>2, <1>4, WorkerMoves, SpawnPortsFrame
  <2>2. QED
    BY <1>4, <2>1, PortsFrame DEF CleanupStep, ReceiveCleanup, CleanupStops, CleanupDies, HeldPorts
<1>5. CASE ReapExpired
  BY <1>5, PortsFrame DEF ReapExpired, HeldPorts, SpawnPorts
<1>6. CASE RunScalingPolicy
  <2>1. pc["scale"] = "idle" /\ pc'["scale"] = "port"
    BY <1>1, <1>2, <1>6 DEF TypeOK, RunScalingPolicy, Goto, At
  <2>2. SpawnPorts' = SpawnPorts
    BY <1>1, <1>2, <1>6, <2>1, WorkerMoves, SpawnPortsFrame DEF ScaleStep
  <2>3. QED
    BY <1>6, <2>2, PortsFrame DEF RunScalingPolicy, HeldPorts
<1>7. CASE SpawnStep("scale")
  BY <1>1, <1>7, SpawnPortsUnique
<1>8. CASE ScalerAddsHost
  <2>1. NewHost("scale") /\ pc'["scale"] \notin Spawning
    BY <1>1, <1>2, <1>8 DEF TypeOK, ScalerAddsHost, NextRound, Goto
  <2>2. QED
    BY <1>1, <1>2, <1>8, <2>1, WorkerMoves, PortsAdopt DEF ScaleStep
<1>9. CASE ScaleDies
  <2>1. AbandonSpawn("scale") /\ pc'["scale"] = "idle" /\ UNCHANGED host_port
    BY <1>1, <1>2, <1>9 DEF TypeOK, ScaleDies, Abandon, Goto
  <2>2. QED
    BY <1>1, <1>2, <1>9, <2>1, WorkerMoves, AbandonPorts
<1>10. QED
  BY <1>3, <1>4, <1>5, <1>6, <1>7, <1>8, <1>9 DEF WorkerStep, ScaleStep, WorkerDies

LEMMA OthersPorts ==
    ASSUME OwnerInv, PortsUnique,
           \/ ShutdownSignal \/ ServerFails \/ ShutdownStep \/ DropReaped
           \/ Expire \/ PortReturned \/ AutoRemove \/ Crash \/ UNCHANGED vars
    PROVE  PortsUnique'
<1> USE DEF hostVars
<1>1. SpawnPorts' = SpawnPorts
  BY OthersMove DEF SpawnPorts
<1>2. TypeOK
  BY DEF OwnerInv, PoolInv
<1>3. CASE DropReaped \/ DropCollected
  <2>1. \E c \in reap_hosts \union sd_hosts : DropHost(c)
    BY <1>3 DEF DropReaped, DropCollected
  <2>2. reap_hosts \union sd_hosts \subseteq LiveHosts
    BY OneOwnerIsPartition DEF OwnerInv, Partition
  <2>3. QED
    BY <1>1, <1>2, <2>1, <2>2, PortsDrop
<1>4. CASE PortReturned
  <2>1. HeldPorts' = HeldPorts /\ UNCHANGED host_port
    BY <1>2, <1>4, HeldMoves DEF PortReturned
  <2>2. QED
    BY <1>1, <2>1, PortsFrame
<1>5. CASE ShutdownSignal \/ ServerFails \/ (ShutdownStep /\ ~DropCollected)
           \/ Expire \/ AutoRemove \/ Crash \/ UNCHANGED vars
  <2>1. UNCHANGED <<host_port, port_state>>
    BY <1>5 DEF ShutdownSignal, ServerFails, ShutdownStep, Shutdown, StillDraining, vars, Drained,
       AbortWorkers, CollectAllHosts, AllDropped, ListManaged, ListFails, SweepStops, Exit,
       Expire, AutoRemove, Crash
  <2>2. QED
    BY <1>1, <2>1, PortsFrame DEF HeldPorts
<1>6. QED
  BY <1>3, <1>4, <1>5 DEF ShutdownStep

(* One host or spawn for a held port, none for the others: PortsOwned by counting. *)
LEMMA PortsCount ==
    ASSUME PoolInv, PortsUnique
    PROVE  PortsOwned
<1> DEFINE held(p) == {c \in Containers : host_port[c] = p}
           spawning(p) == {t \in Spawners : pc[t] \in Spawning /\ port[t] = p}
<1>1. SUFFICES ASSUME NEW p \in Ports
               PROVE  Cardinality(held(p)) + Cardinality(spawning(p))
                        = (IF port_state[p] = "held" THEN 1 ELSE 0)
  BY DEF PortsOwned
<1>2. \A c \in held(p) : c \in LiveHosts /\ host_port[c] = p
  BY PoolAssumption DEF LiveHosts, Live
<1>3. \A t, u \in spawning(p) : t = u
  BY DEF PoolInv, LockHeld, LockPlaces, SpawnPlaces, Spawning, Spawners, Tasks, Workers
<1>4. p \in HostPorts <=> held(p) # {}
  BY <1>2 DEF HostPorts, LiveHosts
<1>5. p \in SpawnPorts <=> spawning(p) # {}
  BY DEF SpawnPorts
<1>6. p \in HostPorts => Cardinality(held(p)) = 1
  <2>1. SUFFICES ASSUME p \in HostPorts PROVE Cardinality(held(p)) = 1
    OBVIOUS
  <2>2. PICK c : c \in held(p)
    BY <1>4, <2>1
  <2>3. held(p) = {c}
    BY <1>2, <2>2 DEF PortsUnique
  <2>4. QED
    BY <2>3, FS_Singleton
<1>7. p \in SpawnPorts => Cardinality(spawning(p)) = 1
  <2>1. SUFFICES ASSUME p \in SpawnPorts PROVE Cardinality(spawning(p)) = 1
    OBVIOUS
  <2>2. PICK t : t \in spawning(p)
    BY <1>5, <2>1
  <2>3. spawning(p) = {t}
    BY <1>3, <2>2
  <2>4. QED
    BY <2>3, FS_Singleton
<1>8. /\ p \notin HostPorts => Cardinality(held(p)) = 0
      /\ p \notin SpawnPorts => Cardinality(spawning(p)) = 0
  BY <1>4, <1>5, FS_EmptySet
<1> HIDE DEF held, spawning
<1>9. /\ port_state[p] = "held" <=> p \in HostPorts \/ p \in SpawnPorts
      /\ ~(p \in HostPorts /\ p \in SpawnPorts)
  BY DEF PortsUnique, HeldPorts
<1>10. QED
  BY <1>6, <1>7, <1>8, <1>9
-----------------------------------------------------------------------------
(***************************************************************************)
(* What a step may do to the hosts, to the containers and to the spawners.  *)
(***************************************************************************)
MarksOnly ==
    /\ UNCHANGED host_port
    /\ UNCHANGED tested \/ \E c \in LeasedContainers : tested' = tested \union {c}
    /\ UNCHANGED cleanup_chan \/ (ShuttingDown /\ cleanup_chan' = << >>) \/ ReceiveCleanup

DropsOne == UNCHANGED dockerVars /\ \E c \in LiveHosts : DropHost(c)

LEMMA RequestHosts ==
    ASSUME OwnerInv, NEW r \in Requests, RequestStep(r)
    PROVE  MarksOnly \/ DropsOne \/ NewHost(r)
<1> USE DEF hostVars, chanVars
<1>1. CASE LeaseHost(r) \/ LeaseAvailable(r) \/ MaxInstancesReached(r) \/ SpawnForLease(r)
           \/ HealthWait(r) \/ InvalidLease(r) \/ DropLease(r) \/ Cancel(r)
  BY <1>1 DEF MarksOnly, LeaseHost, LeaseAvailable, MaxInstancesReached, SpawnForLease,
     HealthWait, InvalidLease, DropLease, Cancel
<1>2. CASE SpawnStep(r)
  BY <1>2 DEF MarksOnly, SpawnStep, AllocatePort, NoAvailablePorts, CreateContainer, CreateFails,
     StartContainer, StartRefused, StartReplyLost, SpawnFailed
<1>3. CASE MarkTested(r)
  <2>1. lease[r] \in LeaseIds
    BY <1>3 DEF OwnerInv, PoolInv, LocalsSet, Owning, MarkTested, At
  <2>2. leased_hosts[lease[r]] \in LeasedContainers
    BY <1>3, <2>1 DEF MarkTested, LeasedContainers, Leases
  <2>3. QED
    BY <1>3, <2>2 DEF MarksOnly, MarkTested
<1>4. CASE LeaseSpawned(r)
  BY <1>4 DEF LeaseSpawned
<1>5. CASE ContainerNotReady(r)
  <2>1. RemoveAndDrop(lease[r]) /\ lease[r] \in LeaseIds /\ UNCHANGED dockerVars
    BY <1>5 DEF OwnerInv, PoolInv, LocalsSet, Owning, ContainerNotReady, At
  <2>2. QED
    BY <2>1, RemoveDrops DEF MarksOnly, DropsOne
<1>6. QED
  BY <1>1, <1>2, <1>3, <1>4, <1>5 DEF RequestStep

LEMMA WorkerHosts ==
    ASSUME OwnerInv, WorkerStep \/ WorkerDies
    PROVE  MarksOnly \/ DropsOne \/ NewHost("scale")
<1> USE DEF hostVars, chanVars
<1>1. CASE ReceiveLease \/ ReturnTakes \/ ReturnToPool \/ CleanupStep \/ ReapExpired
           \/ RunScalingPolicy \/ (Aborted /\ CleanupDies) \/ ScaleDies
  BY <1>1 DEF MarksOnly, ReceiveLease, ReturnTakes, ReturnToPool, CleanupStep, ReceiveCleanup,
     CleanupStops, ReapExpired, RunScalingPolicy, CleanupDies, ScaleDies, Aborted, ShuttingDown
<1>2. CASE SpawnStep("scale")
  BY <1>2 DEF MarksOnly, SpawnStep, AllocatePort, NoAvailablePorts, CreateContainer, CreateFails,
     StartContainer, StartRefused, StartReplyLost, SpawnFailed
<1>3. CASE ScalerAddsHost
  BY <1>3 DEF ScalerAddsHost
<1>4. CASE ReturnDrops
  <2>1. RemoveAndDrop(lease["return"]) /\ lease["return"] \in LeaseIds /\ UNCHANGED dockerVars
    BY <1>4 DEF OwnerInv, PoolInv, LocalsSet, ReturnDrops, At
  <2>2. QED
    BY <2>1, RemoveDrops DEF MarksOnly, DropsOne
<1>5. CASE InspectFails
  BY <1>5, InspectedLive DEF InspectFails, DropsOne
<1>6. CASE ReturnDies
  BY <1>6, InspectedLive DEF ReturnDies, DropsOne, MarksOnly
<1>7. QED
  BY <1>1, <1>2, <1>3, <1>4, <1>5, <1>6 DEF WorkerStep, ReturnStep, ScaleStep, WorkerDies

LEMMA OthersHosts ==
    ASSUME OwnerInv,
           \/ ShutdownSignal \/ ServerFails \/ ShutdownStep \/ DropReaped
           \/ Expire \/ PortReturned \/ AutoRemove \/ Crash \/ UNCHANGED vars
    PROVE  MarksOnly \/ DropsOne
<1> USE DEF hostVars, chanVars
<1>1. CASE DropReaped \/ DropCollected
  <2>1. UNCHANGED dockerVars /\ \E c \in reap_hosts \union sd_hosts : DropHost(c)
    BY <1>1 DEF DropReaped, DropCollected
  <2>2. reap_hosts \union sd_hosts \subseteq LiveHosts
    BY OneOwnerIsPartition DEF OwnerInv, Partition
  <2>3. QED
    BY <2>1, <2>2 DEF DropsOne
<1>2. CASE ShutdownSignal \/ ServerFails \/ (ShutdownStep /\ ~DropCollected)
           \/ Expire \/ PortReturned \/ AutoRemove \/ Crash \/ UNCHANGED vars
  BY <1>2 DEF ShutdownSignal, ServerFails, ShutdownStep, Shutdown, StillDraining, vars, Drained,
     AbortWorkers, CollectAllHosts, AllDropped, ListManaged, ListFails, SweepStops, Exit,
     Expire, PortReturned, AutoRemove, Crash, MarksOnly
<1>3. QED
  BY <1>1, <1>2 DEF ShutdownStep

(* Hosts appear one at a time, out of a started container, and go by DropHost. *)
LEMMA HostMoves ==
    ASSUME OwnerInv, [Next]_vars
    PROVE  MarksOnly \/ DropsOne \/ \E t \in Spawners : NewHost(t)
<1>1. "scale" \in Spawners /\ Requests \subseteq Spawners
  BY DEF Spawners
<1>2. QED
  BY <1>1, RequestHosts, WorkerHosts, OthersHosts DEF Next, Terminated

(* What a host's health check knows goes with the host. *)
TestedLive == tested \subseteq LiveHosts

LEMMA TestedStep ==
    ASSUME OwnerInv, TestedLive, [Next]_vars
    PROVE  TestedLive'
<1>1. TypeOK /\ LeasedContainers \subseteq LiveHosts
  BY OneOwnerIsPartition DEF OwnerInv, PoolInv, Partition
<1>2. CASE MarksOnly
  BY <1>1, <1>2 DEF MarksOnly, TestedLive, LiveHosts, Live
<1>3. CASE DropsOne
  <2>1. PICK c \in LiveHosts : DropHost(c)
    BY <1>3 DEF DropsOne
  <2>2. LiveHosts' = LiveHosts \ {c}
    BY <1>1, <2>1, LiveDrop DEF LiveHosts
  <2>3. QED
    BY <2>1, <2>2 DEF DropHost, TestedLive
<1>4. ASSUME NEW t \in Spawners, NewHost(t)
      PROVE  TestedLive'
  BY <1>4, LiveAdd DEF NewHost, TestedLive
<1>5. QED
  BY <1>2, <1>3, <1>4, HostMoves

(***************************************************************************)
(* A spawner reaches a place with a container only through its own calls.   *)
(***************************************************************************)
Stays(t) == pc'[t] = pc[t] /\ port'[t] = port[t] /\ cont'[t] = cont[t]

LEMMA SpawnerMoves ==
    ASSUME OwnerInv, [Next]_vars, NEW t \in Spawners
    PROVE  /\ pc'[t] = "create" => AllocatePort(t) \/ Stays(t)
           /\ pc'[t] = "start" => CreateContainer(t) \/ Stays(t)
           /\ pc'[t] = "started" => StartContainer(t) \/ Stays(t)
<1> DEFINE P == /\ pc'[t] = "create" => AllocatePort(t) \/ Stays(t)
                /\ pc'[t] = "start" => CreateContainer(t) \/ Stays(t)
                /\ pc'[t] = "started" => StartContainer(t) \/ Stays(t)
<1>1. /\ {"return", "cleanup", "scale"} \subseteq Tasks /\ "scale" \in Spawners
      /\ "return" \notin Spawners /\ "cleanup" \notin Spawners
      /\ Spawners \subseteq Tasks /\ Requests \subseteq Spawners /\ "scale" \notin Requests
      /\ t \in Tasks /\ (t # "scale" => t \in Requests)
  BY PoolAssumption DEF Tasks, Spawners, Workers
<1>2. TypeOK
  BY DEF OwnerInv, PoolInv
<1>3. ASSUME NEW u \in Tasks, OnlyMoves(u), u # t
      PROVE  P
  BY <1>1, <1>3 DEF OnlyMoves, Stays
<1>4. ASSUME SpawnStep(t)
      PROVE  P
  <2>1. CASE NoAvailablePorts(t) \/ CreateFails(t) \/ StartRefused(t) \/ StartReplyLost(t)
    BY <1>1, <1>2, <2>1 DEF TypeOK, NoAvailablePorts, CreateFails, StartRefused, StartReplyLost,
       SpawnFailed, NextRound, Goto
  <2>2. CASE AllocatePort(t)
    BY <1>1, <1>2, <2>2 DEF TypeOK, AllocatePort, Goto
  <2>3. CASE CreateContainer(t)
    BY <1>1, <1>2, <2>3 DEF TypeOK, CreateContainer, Goto
  <2>4. CASE StartContainer(t)
    BY <1>1, <1>2, <2>4 DEF TypeOK, StartContainer, Goto
  <2>5. QED
    BY <1>4, <2>1, <2>2, <2>3, <2>4 DEF SpawnStep
<1>5. ASSUME t \in Requests, RequestStep(t)
      PROVE  P
  <2>1. CASE LeaseHost(t) \/ LeaseAvailable(t) \/ MaxInstancesReached(t) \/ SpawnForLease(t)
             \/ LeaseSpawned(t) \/ HealthWait(t) \/ MarkTested(t) \/ InvalidLease(t)
             \/ ContainerNotReady(t) \/ DropLease(t) \/ Cancel(t)
    <3>1. pc'[t] \notin {"create", "start", "started"}
      BY <1>1, <1>2, <2>1 DEF TypeOK, LeaseHost, LeaseAvailable, InsertLease, MaxInstancesReached,
         SpawnForLease, LeaseSpawned, HealthWait, MarkTested, InvalidLease, ContainerNotReady,
         DropLease, Cancel, Abandon, Goto
    <3>2. QED
      BY <3>1
  <2>2. QED
    BY <1>4, <1>5, <2>1 DEF RequestStep
<1>6. ASSUME t = "scale", ScaleStep \/ ScaleDies
      PROVE  P
  <2>1. CASE RunScalingPolicy \/ ScalerAddsHost \/ ScaleDies
    <3>1. pc'[t] \notin {"create", "start", "started"}
      BY <1>1, <1>2, <1>6, <2>1 DEF TypeOK, RunScalingPolicy, ScalerAddsHost, NextRound, ScaleDies,
         Abandon, Goto
    <3>2. QED
      BY <3>1
  <2>2. QED
    BY <1>4, <1>6, <2>1 DEF ScaleStep
<1>7. CASE \E r \in Requests : RequestStep(r)
  <2>1. PICK r \in Requests : RequestStep(r)
    BY <1>7
  <2>2. OnlyMoves(r) /\ r \in Tasks
    BY <1>1, <1>2, <2>1, RequestMoves
  <2>3. QED
    BY <1>3, <1>5, <2>1, <2>2
<1>8. CASE ReturnStep \/ ReturnDies \/ CleanupStep \/ CleanupDies
  BY <1>1, <1>2, <1>3, <1>8, WorkerMoves
<1>9. CASE ScaleStep \/ ScaleDies
  <2>1. OnlyMoves("scale")
    BY <1>2, <1>9, WorkerMoves
  <2>2. QED
    BY <1>1, <1>3, <1>6, <1>9, <2>1
<1>10. CASE \/ ReapExpired \/ ShutdownSignal \/ ServerFails \/ ShutdownStep \/ DropReaped
            \/ Expire \/ PortReturned \/ AutoRemove \/ Crash \/ UNCHANGED vars
  BY <1>10, OthersMove DEF Stays
<1>11. QED
  BY <1>7, <1>8, <1>9, <1>10 DEF Next, Terminated, WorkerStep, WorkerDies

(***************************************************************************)
(* A container comes to run only by the start call of the spawner that      *)
(* holds the mutex; the port it publishes is set when it is created.        *)
(***************************************************************************)
Runs(c, p) == container[c] = "running" /\ port_of[c] = p

Creates(t) == pc[t] = "create" /\ \E c \in FreshContainers : D!Create(c, port[t])
Starts(t) == pc[t] = "start" /\ D!Start(cont[t]) /\ pc'[t] # "start" /\ UNCHANGED host_port
Refuses(t) == pc[t] = "start" /\ D!Refuse(cont[t]) /\ pc'[t] # "start"
Stops == \E c \in Containers : D!Stop(c) \/ D!Crash(c) \/ D!AutoRemove(c)

DockerMove(t) == UNCHANGED dockerVars \/ Creates(t) \/ Starts(t) \/ Refuses(t)

LEMMA SpawnDocker ==
    ASSUME OwnerInv, NEW t \in Spawners, SpawnStep(t)
    PROVE  DockerMove(t)
<1> USE DEF hostVars
<1>1. TypeOK /\ t \in Tasks
  BY DEF OwnerInv, PoolInv, Spawners, Tasks, Workers
<1>2. SpawnFailed(t) => pc'[t] # "start" /\ UNCHANGED host_port
  BY <1>1 DEF TypeOK, SpawnFailed, NextRound, Goto
<1>3. CASE AllocatePort(t) \/ NoAvailablePorts(t) \/ CreateFails(t)
  BY <1>3 DEF DockerMove, AllocatePort, NoAvailablePorts, CreateFails
<1>4. CASE CreateContainer(t)
  BY <1>4 DEF DockerMove, Creates, CreateContainer, At
<1>5. CASE StartContainer(t)
  <2>1. pc'[t] # "start" /\ UNCHANGED host_port
    BY <1>1, <1>5 DEF TypeOK, StartContainer, Goto
  <2>2. QED
    BY <1>5, <2>1 DEF DockerMove, Starts, StartContainer, At
<1>6. CASE StartRefused(t) \/ StartReplyLost(t)
  BY <1>2, <1>6 DEF DockerMove, Starts, Refuses, StartRefused, StartReplyLost, At
<1>7. QED
  BY <1>3, <1>4, <1>5, <1>6 DEF SpawnStep

LEMMA AbandonDocker ==
    ASSUME TypeOK, NEW t \in Spawners, AbandonSpawn(t), Abandon(t, "idle"), UNCHANGED host_port
    PROVE  DockerMove(t)
<1>1. pc'[t] = "idle"
  BY DEF TypeOK, Abandon, Goto, Spawners, Tasks, Workers
<1>2. QED
  BY <1>1 DEF AbandonSpawn, DockerMove, Creates, Starts, At

LEMMA DockerMoves ==
    ASSUME OwnerInv, [Next]_vars
    PROVE  UNCHANGED dockerVars \/ Stops \/ \E t \in Spawners : Creates(t) \/ Starts(t) \/ Refuses(t)
<1> USE DEF hostVars, dockerVars
<1>1. TypeOK /\ "scale" \in Spawners /\ Requests \subseteq Spawners
  BY DEF OwnerInv, PoolInv, Spawners
<1>2. CASE \E r \in Requests : RequestStep(r)
  <2>1. PICK r \in Requests : RequestStep(r)
    BY <1>2
  <2>2. CASE SpawnStep(r)
    BY <1>1, <2>2, SpawnDocker DEF DockerMove
  <2>3. CASE Cancel(r)
    BY <1>1, <2>3, AbandonDocker DEF Cancel, DockerMove
  <2>4. CASE LeaseHost(r) \/ LeaseAvailable(r) \/ MaxInstancesReached(r) \/ SpawnForLease(r)
             \/ LeaseSpawned(r) \/ HealthWait(r) \/ MarkTested(r) \/ InvalidLease(r)
             \/ ContainerNotReady(r) \/ DropLease(r)
    BY <2>4 DEF LeaseHost, LeaseAvailable, MaxInstancesReached, SpawnForLease, LeaseSpawned, NewHost,
       HealthWait, MarkTested, InvalidLease, ContainerNotReady, DropLease
  <2>5. QED
    BY <2>1, <2>2, <2>3, <2>4 DEF RequestStep
<1>3. CASE CleanupStops
  <2>1. CASE cont["cleanup"] \in Containers
    BY <1>3, <2>1 DEF CleanupStops, Stops
  <2>2. CASE cont["cleanup"] \notin Containers
    BY <1>1, <1>3, <2>2 DEF TypeOK, D!TypeOK, CleanupStops, D!Stop
  <2>3. QED
    BY <2>1, <2>2
<1>4. CASE SpawnStep("scale")
  BY <1>1, <1>4, SpawnDocker DEF DockerMove
<1>5. CASE ScaleDies
  BY <1>1, <1>5, AbandonDocker DEF ScaleDies, DockerMove
<1>6. CASE ReturnStep \/ ReceiveCleanup \/ ReapExpired \/ RunScalingPolicy \/ ScalerAddsHost
           \/ ReturnDies \/ CleanupDies
  BY <1>6 DEF ReturnStep, ReceiveLease, ReturnDrops, ReturnTakes, InspectFails, ReturnToPool,
     ReceiveCleanup, ReapExpired, RunScalingPolicy, ScalerAddsHost, NewHost, ReturnDies, CleanupDies
<1>7. CASE SweepStops
  <2>1. PICK c \in sd_list : D!Stop(c) \/ UNCHANGED dockerVars
    BY <1>7 DEF SweepStops
  <2>2. QED
    BY <1>1, <2>1 DEF TypeOK, Stops
<1>8. CASE \/ ShutdownSignal \/ ServerFails \/ (ShutdownStep /\ ~SweepStops) \/ DropReaped
           \/ Expire \/ PortReturned \/ UNCHANGED vars
  BY <1>8 DEF ShutdownSignal, ServerFails, ShutdownStep, Shutdown, StillDraining, vars, Drained,
     AbortWorkers, CollectAllHosts, DropCollected, AllDropped, ListManaged, ListFails, Exit,
     DropReaped, Expire, PortReturned
<1>9. CASE AutoRemove \/ Crash
  BY <1>9 DEF AutoRemove, Crash, Stops
<1>10. QED
  BY <1>2, <1>3, <1>4, <1>5, <1>6, <1>7, <1>8, <1>9
     DEF Next, Terminated, WorkerStep, CleanupStep, ScaleStep, WorkerDies, ShutdownStep

(* What runs on a port afterwards ran on it before, or has just been started. *)
LEMMA OnlyStartsRun ==
    ASSUME OwnerInv, [Next]_vars, NEW c \in Containers, container'[c] = "running"
    PROVE  /\ port_of'[c] = port_of[c]
           /\ container[c] = "running" \/ \E t \in Spawners : Starts(t) /\ cont[t] = c
<1>1. container \in [Containers -> D!ContainerStates] /\ port_of \in [Containers -> Ports \union {NoPort}]
  BY DEF OwnerInv, PoolInv, TypeOK, D!TypeOK
<1>2. CASE UNCHANGED dockerVars
  BY <1>2 DEF dockerVars
<1>3. CASE Stops
  BY <1>1, <1>3 DEF Stops, D!Stop, D!Crash, D!AutoRemove, D!Become, D!Vanish
<1>4. ASSUME NEW t \in Spawners, Creates(t)
      PROVE  container[c] = "running" /\ port_of'[c] = port_of[c]
  BY <1>1, <1>4 DEF Creates, D!Create, D!Become, FreshContainers
<1>5. ASSUME NEW t \in Spawners, Starts(t)
      PROVE  port_of'[c] = port_of[c] /\ (container[c] = "running" \/ cont[t] = c)
  BY <1>1, <1>5 DEF Starts, D!Start, D!Become
<1>6. ASSUME NEW t \in Spawners, Refuses(t)
      PROVE  container[c] = "running" /\ port_of'[c] = port_of[c]
  BY <1>1, <1>6 DEF Refuses, D!Refuse, D!Become, D!Vanish
<1>7. QED
  BY <1>2, <1>3, <1>4, <1>5, <1>6, DockerMoves

(* A created container stays as it is until its own spawner goes on. *)
LEMMA CreatedStays ==
    ASSUME OwnerInv, [Next]_vars, NEW t \in Spawners, pc[t] = "start", pc'[t] = "start",
           container[cont[t]] = "created"
    PROVE  container'[cont[t]] = "created" /\ port_of'[cont[t]] = port_of[cont[t]]
<1>1. /\ container \in [Containers -> D!ContainerStates] /\ port_of \in [Containers -> Ports \union {NoPort}]
      /\ cont[t] \in Containers
  BY DEF OwnerInv, PoolInv, TypeOK, D!TypeOK, LocalsSet
<1>2. \A u \in Spawners : pc[u] = "start" => u = t
  BY DEF OwnerInv, PoolInv, LockHeld, LockPlaces, SpawnPlaces, Spawners, Tasks, Workers
<1>3. \A u \in Spawners : ~Starts(u) /\ ~Refuses(u)
  BY <1>2 DEF Starts, Refuses
<1>4. CASE UNCHANGED dockerVars
  BY <1>4 DEF dockerVars
<1>5. CASE Stops
  BY <1>1, <1>5 DEF Stops, D!Stop, D!Crash, D!AutoRemove, D!Become, D!Vanish
<1>6. ASSUME NEW u \in Spawners, Creates(u)
      PROVE  container'[cont[t]] = "created" /\ port_of'[cont[t]] = port_of[cont[t]]
  BY <1>1, <1>6 DEF Creates, D!Create, D!Become, FreshContainers
<1>7. QED
  BY <1>3, <1>4, <1>5, <1>6, DockerMoves

(***************************************************************************)
(* Whatever runs on a host's port is the host's container, because it was   *)
(* so when the host was made, and because nobody else had the port since.   *)
(***************************************************************************)
SpawnsOwn ==
    \A t \in Spawners :
        /\ pc[t] = "start" => container[cont[t]] = "created" /\ port_of[cont[t]] = port[t]
        /\ pc[t] = "started" => \A c \in Containers : Runs(c, port[t]) => c = cont[t]

RunsOwn == \A c \in Containers, d \in LiveHosts : Runs(c, host_port[d]) => c = d

LEMMA SpawnsOwnStep ==
    ASSUME OwnerInv, SpawnsOwn, [Next]_vars
    PROVE  SpawnsOwn'
<1>1. SUFFICES ASSUME NEW t \in Spawners
               PROVE  /\ pc'[t] = "start" =>
                           container'[cont'[t]] = "created" /\ port_of'[cont'[t]] = port'[t]
                      /\ pc'[t] = "started" => \A c \in Containers : Runs(c, port[t])' => c = cont'[t]
  BY DEF SpawnsOwn
<1>2. /\ TypeOK /\ t \in Tasks
      /\ container \in [Containers -> D!ContainerStates] /\ port_of \in [Containers -> Ports \union {NoPort}]
  BY DEF OwnerInv, PoolInv, TypeOK, D!TypeOK, Spawners, Tasks, Workers
<1>3. \A u \in Spawners : pc[u] \in SpawnPlaces /\ pc[t] \in SpawnPlaces => u = t
  BY DEF OwnerInv, PoolInv, LockHeld, LockPlaces, SpawnPlaces, Spawners, Tasks, Workers
<1>4. ASSUME pc'[t] = "start"
      PROVE  container'[cont'[t]] = "created" /\ port_of'[cont'[t]] = port'[t]
  <2>1. CASE CreateContainer(t)
    <3>1. PICK c \in FreshContainers : D!Create(c, port[t]) /\ cont' = [cont EXCEPT ![t] = c]
      BY <2>1 DEF CreateContainer
    <3>2. c \in Containers /\ cont'[t] = c /\ port'[t] = port[t]
      BY <1>2, <2>1, <3>1 DEF TypeOK, CreateContainer, FreshContainers
    <3>3. QED
      BY <1>2, <3>1, <3>2 DEF D!Create, D!Become
  <2>2. CASE Stays(t)
    BY <1>4, <2>2, CreatedStays DEF Stays, SpawnsOwn
  <2>3. QED
    BY <1>4, <2>1, <2>2, SpawnerMoves
<1>5. ASSUME pc'[t] = "started", NEW c \in Containers, Runs(c, port[t])'
      PROVE  c = cont'[t]
  <2>1. container'[c] = "running" /\ port_of'[c] = port'[t] /\ port_of'[c] = port_of[c]
    BY <1>5, OnlyStartsRun DEF Runs
  <2>2. CASE StartContainer(t)
    <3>1. /\ pc[t] = "start" /\ D!Start(cont[t]) /\ port'[t] = port[t] /\ cont'[t] = cont[t]
          /\ cont[t] \in Containers /\ port_of[cont[t]] = port[t]
      BY <2>2 DEF OwnerInv, PoolInv, LocalsSet, SpawnsOwn, StartContainer, At, localVars
    <3>2. container[c] # "running"
      BY <2>1, <3>1 DEF D!Start, D!Published
    <3>3. QED
      BY <1>2, <2>1, <3>1, <3>2 DEF D!Start, D!Become
  <2>3. CASE Stays(t)
    <3>1. pc[t] = "started" /\ port'[t] = port[t] /\ cont'[t] = cont[t]
      BY <1>5, <2>3 DEF Stays
    <3>2. \A u \in Spawners : ~Starts(u)
      BY <1>3, <3>1 DEF Starts, SpawnPlaces
    <3>3. container[c] = "running"
      BY <2>1, <3>2, OnlyStartsRun
    <3>4. QED
      BY <2>1, <3>1, <3>3 DEF SpawnsOwn, Runs
  <2>4. QED
    BY <1>5, <2>2, <2>3, SpawnerMoves
<1>6. QED
  BY <1>4, <1>5

(* A host of the next state is a host of this one on the same port, or new. *)
LEMMA HostsPort ==
    ASSUME OwnerInv, [Next]_vars, NEW d \in LiveHosts'
    PROVE  \/ d \in LiveHosts /\ host_port'[d] = host_port[d]
           \/ \E t \in Spawners : NewHost(t) /\ d = cont[t] /\ host_port'[d] = port[t]
<1>1. TypeOK
  BY DEF OwnerInv, PoolInv
<1>2. CASE MarksOnly
  BY <1>2 DEF MarksOnly, LiveHosts, Live
<1>3. CASE DropsOne
  BY <1>1, <1>3 DEF DropsOne, DropHost, TypeOK, LiveHosts, Live
<1>4. ASSUME NEW t \in Spawners, NewHost(t)
      PROVE  \/ d \in LiveHosts /\ host_port'[d] = host_port[d]
             \/ d = cont[t] /\ host_port'[d] = port[t]
  <2>1. cont[t] \in Containers /\ LiveHosts' = LiveHosts \union {cont[t]}
    BY <1>4, LiveAdd
  <2>2. QED
    BY <1>1, <1>4, <2>1 DEF NewHost, TypeOK, LiveHosts
<1>5. QED
  BY <1>2, <1>3, <1>4, HostMoves

LEMMA RunsOwnStep ==
    ASSUME OwnerInv, PortsUnique, SpawnsOwn, RunsOwn, [Next]_vars
    PROVE  RunsOwn'
<1>1. SUFFICES ASSUME NEW c \in Containers, NEW d \in LiveHosts', Runs(c, host_port[d])'
               PROVE  c = d
  BY DEF RunsOwn
<1>2. container'[c] = "running" /\ port_of'[c] = host_port'[d] /\ port_of'[c] = port_of[c]
  BY <1>1, OnlyStartsRun DEF Runs
<1>3. CASE container[c] = "running"
  <2>1. CASE d \in LiveHosts /\ host_port'[d] = host_port[d]
    BY <1>2, <1>3, <2>1 DEF RunsOwn, Runs
  <2>2. ASSUME NEW t \in Spawners, NewHost(t), d = cont[t], host_port'[d] = port[t]
        PROVE  c = d
    BY <1>2, <1>3, <2>2 DEF SpawnsOwn, NewHost, At, Runs
  <2>3. QED
    BY <2>1, <2>2, HostsPort
<1>4. CASE container[c] # "running"
  <2>1. PICK t \in Spawners : Starts(t) /\ cont[t] = c
    BY <1>2, <1>4, OnlyStartsRun
  <2>2. pc[t] = "start" /\ port_of[c] = port[t] /\ UNCHANGED host_port
    BY <2>1 DEF Starts, SpawnsOwn
  <2>3. port[t] \in SpawnPorts
    BY <2>2 DEF SpawnPorts, Spawning
  <2>4. d \in LiveHosts /\ host_port[d] = port[t]
    BY <1>2, <2>2 DEF LiveHosts, Live
  <2>5. port[t] \in HostPorts
    BY <2>4 DEF HostPorts
  <2>6. QED
    BY <2>3, <2>5 DEF PortsUnique
<1>5. QED
  BY <1>3, <1>4
-----------------------------------------------------------------------------
(***************************************************************************)
(* A container on its way to a stop has no host any more, and none is made  *)
(* of it.                                                                   *)
(***************************************************************************)
Queued == (Range(cleanup_chan) \union {cont["cleanup"]}) \ {NoContainer}

QueuedGone ==
    \A c \in Queued : /\ ~Live(c)
                      /\ \A t \in Spawners : pc[t] \in {"start", "started"} => cont[t] # c

(* What a sequence keeps when an element is added or taken. *)
LEMMA SendRange ==
    ASSUME NEW S, NEW chan \in Seq(S), NEW v \in S, NEW cap, NEW open
    PROVE  Range(TrySend(chan, v, cap, open)) \subseteq Range(chan) \union {v}
BY AppendRange DEF TrySend

LEMMA ReceiveRange ==
    ASSUME NEW S, NEW chan \in Seq(S), chan # << >>
    PROVE  Range(chan) = {Head(chan)} \union Range(Tail(chan))
<1> DEFINE t == Tail(chan)
<1>1. /\ t \in Seq(S) /\ Len(t) = Len(chan) - 1
      /\ \A i \in 1 .. Len(t) : t[i] = chan[i + 1]
  BY HeadTailProperties
<1>2. Len(chan) \in Nat \ {0} /\ Head(chan) = chan[1]
  BY LenProperties, EmptySeq
<1>3. Range(chan) = {chan[i] : i \in 1 .. Len(chan)} /\ Range(t) = {t[i] : i \in 1 .. Len(t)}
  BY <1>1, RangeEquality
<1> HIDE DEF t
<1>4. Range(t) \subseteq Range(chan) /\ chan[1] \in Range(chan)
  BY <1>1, <1>2, <1>3
<1>5. ASSUME NEW x \in Range(chan), x # chan[1]
      PROVE  x \in Range(t)
  <2>1. PICK i \in 1 .. Len(chan) : x = chan[i]
    BY <1>3
  <2>2. i - 1 \in 1 .. Len(t) /\ t[i - 1] = chan[i]
    BY <1>1, <1>2, <1>5, <2>1
  <2>3. QED
    BY <1>3, <2>1, <2>2
<1>6. QED
  BY <1>2, <1>4, <1>5 DEF t

LEMMA EmptyRange == Range(<< >>) = {}
BY DEF Range

(* The cleanup task takes its container from the channel, and forgets it. *)
LEMMA CleanupCont ==
    ASSUME OwnerInv, [Next]_vars
    PROVE  \/ cont'["cleanup"] = cont["cleanup"] \/ ReceiveCleanup
           \/ cont'["cleanup"] = NoContainer /\ (CleanupStops \/ ShuttingDown)
<1>1. /\ {"return", "cleanup", "scale"} \subseteq Tasks /\ Requests \subseteq Tasks
      /\ "cleanup" \notin Requests
  BY PoolAssumption DEF Tasks, Workers
<1>2. TypeOK
  BY DEF OwnerInv, PoolInv
<1>3. ASSUME NEW t \in Tasks, t # "cleanup", OnlyMoves(t)
      PROVE  cont'["cleanup"] = cont["cleanup"]
  BY <1>1, <1>3 DEF OnlyMoves
<1>4. CASE \E r \in Requests : RequestStep(r)
  BY <1>1, <1>2, <1>3, <1>4, RequestMoves
<1>5. CASE ReturnStep \/ ReturnDies \/ ScaleStep \/ ScaleDies
  BY <1>1, <1>2, <1>3, <1>5, WorkerMoves
<1>6. CASE CleanupStops \/ (Aborted /\ CleanupDies)
  BY <1>1, <1>2, <1>6 DEF TypeOK, CleanupStops, CleanupDies, Abandon, Forget, Aborted, ShuttingDown
<1>7. CASE \/ ReapExpired \/ ShutdownSignal \/ ServerFails \/ ShutdownStep \/ DropReaped
           \/ Expire \/ PortReturned \/ AutoRemove \/ Crash \/ UNCHANGED vars
  BY <1>7, OthersMove
<1>8. QED
  BY <1>4, <1>5, <1>6, <1>7 DEF Next, Terminated, WorkerStep, CleanupStep, WorkerDies

LEMMA QueuedMoves ==
    ASSUME OwnerInv, [Next]_vars
    PROVE  \/ Queued' \subseteq Queued /\ ~DropsOne
           \/ \E c \in LiveHosts : DropHost(c) /\ Queued' \subseteq Queued \union {c}
<1>1. cleanup_chan \in Seq(Containers)
  BY DEF OwnerInv, PoolInv, TypeOK
<1>2. CASE ReceiveCleanup
  <2>1. /\ cont'["cleanup"] = Head(cleanup_chan) /\ cleanup_chan' = Tail(cleanup_chan)
        /\ cleanup_chan # << >>
    BY <1>2 DEF OwnerInv, PoolInv, TypeOK, ReceiveCleanup, Tasks, Workers
  <2>2. Range(cleanup_chan') \union {cont'["cleanup"]} = Range(cleanup_chan)
    BY <1>1, <2>1, ReceiveRange
  <2>3. ~DropsOne
    BY <1>2 DEF OwnerInv, PoolInv, TypeOK, ReceiveCleanup, DropsOne, DropHost, LiveHosts, Live, hostVars
  <2>4. QED
    BY <2>2, <2>3 DEF Queued
<1>3. CASE DropsOne /\ ~ReceiveCleanup
  <2>1. PICK c \in LiveHosts : DropHost(c)
    BY <1>3 DEF DropsOne
  <2>2. Range(cleanup_chan') \subseteq Range(cleanup_chan) \union {c}
    BY <1>1, <2>1, SendRange DEF DropHost, LiveHosts
  <2>3. QED
    BY <1>3, <2>1, <2>2, CleanupCont DEF Queued
<1>4. CASE ~DropsOne /\ ~ReceiveCleanup
  <2>1. cleanup_chan' = cleanup_chan \/ cleanup_chan' = << >>
    BY <1>4, HostMoves DEF MarksOnly, NewHost, chanVars
  <2>2. Range(cleanup_chan') \subseteq Range(cleanup_chan)
    BY <2>1, EmptyRange
  <2>3. QED
    BY <1>4, <2>2, CleanupCont DEF Queued
<1>5. QED
  BY <1>2, <1>3, <1>4

LEMMA QueuedGoneStep ==
    ASSUME OwnerInv, QueuedGone, [Next]_vars
    PROVE  QueuedGone'
<1>1. SUFFICES ASSUME NEW c \in Queued'
               PROVE  /\ host_port'[c] = NoPort
                      /\ \A t \in Spawners : pc'[t] \in {"start", "started"} => cont'[t] # c
  BY DEF QueuedGone, Live
<1>2. Queued' \subseteq Containers
  BY StepPool DEF OwnerInv, PoolInv, TypeOK, Queued, Range, Tasks, Workers
<1>3. TypeOK
  BY DEF OwnerInv, PoolInv
<1>4. CASE c \in Queued
  <2>1. host_port'[c] = NoPort
    <3>1. CASE c \in LiveHosts'
      <4>1. PICK t \in Spawners : NewHost(t) /\ c = cont[t]
        BY <1>4, <3>1, HostsPort DEF QueuedGone, LiveHosts
      <4>2. QED
        BY <1>4, <4>1 DEF QueuedGone, NewHost, At
    <3>2. CASE c \notin LiveHosts'
      BY <1>1, <1>2, <3>2 DEF LiveHosts, Live
    <3>3. QED
      BY <3>1, <3>2
  <2>2. ASSUME NEW t \in Spawners, pc'[t] \in {"start", "started"}
        PROVE  cont'[t] # c
    <3>1. CASE CreateContainer(t)
      <4>1. cont'[t] \in FreshContainers
        BY <1>3, <3>1 DEF CreateContainer, TypeOK, Spawners, Tasks, Workers
      <4>2. c \notin FreshContainers
        BY <1>4 DEF Queued, FreshContainers, Tasks, Workers
      <4>3. QED
        BY <4>1, <4>2
    <3>2. CASE StartContainer(t)
      BY <1>4, <3>2 DEF QueuedGone, StartContainer, At, localVars
    <3>3. CASE Stays(t)
      BY <1>4, <2>2, <3>3 DEF QueuedGone, Stays
    <3>4. QED
      BY <2>2, <3>1, <3>2, <3>3, SpawnerMoves
  <2>3. QED
    BY <2>1, <2>2
<1>5. ASSUME c \in LiveHosts, DropHost(c)
      PROVE  /\ host_port'[c] = NoPort
             /\ \A t \in Spawners : pc'[t] \in {"start", "started"} => cont'[t] # c
  <2>1. host_port'[c] = NoPort /\ host_port[c] # NoPort
    BY <1>3, <1>5 DEF DropHost, TypeOK, LiveHosts, Live
  <2>2. ASSUME NEW t \in Spawners, pc'[t] \in {"start", "started"}
        PROVE  cont'[t] # c
    <3>1. ~CreateContainer(t) /\ ~StartContainer(t)
      BY <2>1 DEF CreateContainer, StartContainer, hostVars
    <3>2. Stays(t)
      BY <2>2, <3>1, SpawnerMoves
    <3>3. QED
      BY <2>1, <2>2, <3>2 DEF Stays, OwnerInv, SpawnsFresh, Live
  <2>3. QED
    BY <2>1, <2>2
<1>6. QED
  BY <1>1, <1>4, <1>5, QueuedMoves
-----------------------------------------------------------------------------
(***************************************************************************)
(* Leases: how a request comes to own an entry, and what happens to         *)
(* entries and to released leases meanwhile.                                *)
(***************************************************************************)
Released == Range(lease_chan) \union {lease["return"]}

(* A request keeps the entry it owns, or has just been given a fresh one. *)
KeepsLease(r) ==
    /\ pc[r] \in Owning /\ lease'[r] = lease[r] /\ port'[r] = port[r] /\ cont'[r] = cont[r]
    /\ pc'[r] = "holding" => pc[r] = "holding" \/ leased_hosts[lease[r]] \in tested'

GetsLease(r) ==
    /\ OnlyMoves(r) /\ pc[r] \notin Owning
    /\ UNCHANGED <<tested, sd_pc, lease_chan>>
    /\ \E l \in FreshLeases :
        /\ lease'[r] = l /\ cont'[r] \in Containers
        /\ leased_hosts' = [leased_hosts EXCEPT ![l] = cont'[r]]
        /\ host_port'[cont'[r]] = port'[r]
        /\ pc'[r] = "holding" => cont'[r] \in tested

LEMMA InsertGets ==
    ASSUME TypeOK, NEW r \in Requests, NEW c \in Containers, NEW p, InsertLease(r, c, p),
           OnlyMoves(r), pc[r] \notin Owning, UNCHANGED <<tested, sd_pc, lease_chan>>,
           host_port'[c] = p
    PROVE  GetsLease(r)
<1>1. r \in Tasks
  BY DEF Tasks
<1>2. PICK l \in FreshLeases : /\ leased_hosts' = [leased_hosts EXCEPT ![l] = c]
                               /\ lease' = [lease EXCEPT ![r] = l]
  BY DEF InsertLease
<1>3. lease'[r] = l /\ cont'[r] = c /\ port'[r] = p /\ (pc'[r] = "holding" => c \in tested)
  BY <1>1, <1>2 DEF TypeOK, InsertLease, Goto
<1>4. QED
  BY <1>2, <1>3 DEF GetsLease

LEMMA RequestOwns ==
    ASSUME OwnerInv, NEW r \in Requests, RequestStep(r), pc'[r] \in Owning
    PROVE  KeepsLease(r) \/ GetsLease(r)
<1> USE DEF localVars, hostVars, chanVars, sdVars
<1>1. TypeOK /\ OnlyMoves(r) /\ r \in Tasks /\ r \in Spawners /\ r # "scale"
  BY RequestMoves, PoolAssumption DEF OwnerInv, PoolInv, Tasks, Spawners, Workers
<1>2. CASE LeaseAvailable(r)
  <2>1. PICK c \in available_hosts : InsertLease(r, c, host_port[c])
    BY <1>2 DEF LeaseAvailable
  <2>2. c \in Containers /\ pc[r] \notin Owning
    BY <1>1, <1>2 DEF TypeOK, LeaseAvailable, At, Owning
  <2>3. UNCHANGED <<tested, sd_pc, lease_chan, host_port>>
    BY <1>2 DEF LeaseAvailable
  <2>4. QED
    BY <1>1, <2>1, <2>2, <2>3, InsertGets
<1>3. CASE LeaseSpawned(r)
  <2>1. NewHost(r) /\ InsertLease(r, cont[r], port[r]) /\ cont[r] \in Containers
    BY <1>1, <1>3, LiveAdd DEF LeaseSpawned
  <2>2. pc[r] \notin Owning /\ UNCHANGED <<tested, sd_pc, lease_chan>>
    BY <2>1 DEF NewHost, At, Owning
  <2>3. host_port'[cont[r]] = port[r]
    BY <1>1, <2>1 DEF NewHost, TypeOK
  <2>4. QED
    BY <1>1, <2>1, <2>2, <2>3, InsertGets
<1>4. CASE HealthWait(r)
  BY <1>1, <1>4 DEF HealthWait, KeepsLease, Owning, TypeOK, Goto, At
<1>5. CASE MarkTested(r)
  BY <1>1, <1>5 DEF MarkTested, KeepsLease, Owning, TypeOK, Goto, At
<1>6. CASE LeaseHost(r) \/ MaxInstancesReached(r) \/ SpawnForLease(r) \/ InvalidLease(r)
           \/ ContainerNotReady(r) \/ DropLease(r) \/ Cancel(r)
  <2>1. pc'[r] \notin Owning
    BY <1>1, <1>6 DEF TypeOK, LeaseHost, MaxInstancesReached, SpawnForLease, InvalidLease,
       ContainerNotReady, DropLease, Cancel, Abandon, Goto, Owning
  <2>2. QED
    BY <2>1
<1>7. CASE SpawnStep(r)
  <2>1. pc'[r] \notin Owning
    BY <1>1, <1>7 DEF TypeOK, SpawnStep, AllocatePort, NoAvailablePorts, CreateContainer,
       CreateFails, StartContainer, StartRefused, StartReplyLost, SpawnFailed, Goto, Owning
  <2>2. QED
    BY <2>1
<1>8. QED
  BY <1>2, <1>3, <1>4, <1>5, <1>6, <1>7 DEF RequestStep

LEMMA OwnsMoves ==
    ASSUME OwnerInv, [Next]_vars, NEW r \in Requests, pc'[r] \in Owning
    PROVE  KeepsLease(r) \/ GetsLease(r)
<1>1. /\ {"return", "cleanup", "scale"} \subseteq Tasks /\ Requests \subseteq Tasks
      /\ r \notin {"return", "cleanup", "scale"}
  BY PoolAssumption DEF Tasks, Workers
<1>2. TypeOK
  BY DEF OwnerInv, PoolInv
<1>3. ASSUME NEW u \in Tasks, OnlyMoves(u), u # r
      PROVE  KeepsLease(r)
  BY <1>1, <1>3 DEF OnlyMoves, KeepsLease
<1>4. CASE \E q \in Requests : RequestStep(q)
  BY <1>1, <1>2, <1>3, <1>4, RequestMoves, RequestOwns
<1>5. CASE ReturnStep \/ ReturnDies \/ CleanupStep \/ CleanupDies \/ ScaleStep \/ ScaleDies
  BY <1>1, <1>2, <1>3, <1>5, WorkerMoves
<1>6. CASE \/ ReapExpired \/ ShutdownSignal \/ ServerFails \/ ShutdownStep \/ DropReaped
           \/ Expire \/ PortReturned \/ AutoRemove \/ Crash \/ UNCHANGED vars
  BY <1>6, OthersMove DEF KeepsLease
<1>7. QED
  BY <1>4, <1>5, <1>6 DEF Next, Terminated, WorkerStep, WorkerDies

(* An entry is inserted, or removed by its request, by its return, or by the shutdown. *)
EntryGone(l) == leased_hosts' = [leased_hosts EXCEPT ![l] = NoContainer]

EntriesMove ==
    \/ UNCHANGED leased_hosts
    \/ \E l \in FreshLeases : \E c : leased_hosts' = [leased_hosts EXCEPT ![l] = c]
    \/ \E r \in Requests : pc[r] = "unready" /\ pc'[r] = "idle" /\ EntryGone(lease[r])
    \/ pc["return"] = "lock" /\ EntryGone(lease["return"])
    \/ leased_hosts' = [l \in LeaseIds |-> NoContainer] /\ sd_pc' = "drop"

LEMMA EntryMoves ==
    ASSUME OwnerInv, [Next]_vars
    PROVE  EntriesMove
<1> USE DEF poolVars, EntriesMove
<1>1. TypeOK
  BY DEF OwnerInv, PoolInv
<1>2. ASSUME NEW t \in Spawners, SpawnStep(t)
      PROVE  UNCHANGED leased_hosts
  BY <1>2 DEF SpawnStep, AllocatePort, NoAvailablePorts, CreateContainer, CreateFails,
     StartContainer, StartRefused, StartReplyLost, SpawnFailed
<1>3. ASSUME NEW r \in Requests, RequestStep(r)
      PROVE  EntriesMove
  <2>1. CASE LeaseAvailable(r) \/ LeaseSpawned(r)
    <3>1. \E c, p : InsertLease(r, c, p)
      BY <2>1 DEF LeaseAvailable, LeaseSpawned
    <3>2. QED
      BY <3>1 DEF InsertLease
  <2>2. CASE ContainerNotReady(r)
    BY <1>1, <2>2 DEF ContainerNotReady, RemoveAndDrop, EntryGone, TypeOK, Goto, At, Tasks
  <2>3. CASE SpawnStep(r)
    BY <1>2, <2>3 DEF Spawners
  <2>4. CASE LeaseHost(r) \/ MaxInstancesReached(r) \/ SpawnForLease(r) \/ HealthWait(r)
             \/ MarkTested(r) \/ InvalidLease(r) \/ DropLease(r) \/ Cancel(r)
    BY <2>4 DEF LeaseHost, MaxInstancesReached, SpawnForLease, HealthWait, MarkTested,
       InvalidLease, DropLease, Cancel
  <2>5. QED
    BY <1>3, <2>1, <2>2, <2>3, <2>4 DEF RequestStep
<1>4. CASE WorkerStep \/ WorkerDies
  <2>1. CASE ReturnDrops \/ ReturnTakes
    BY <2>1 DEF ReturnDrops, ReturnTakes, RemoveAndDrop, EntryGone, At
  <2>2. CASE SpawnStep("scale")
    BY <1>2, <2>2 DEF Spawners
  <2>3. CASE ReceiveLease \/ InspectFails \/ ReturnToPool \/ CleanupStep \/ ReapExpired
             \/ RunScalingPolicy \/ ScalerAddsHost \/ ReturnDies \/ CleanupDies \/ ScaleDies
    BY <2>3 DEF ReceiveLease, InspectFails, ReturnToPool, CleanupStep, ReceiveCleanup, CleanupStops,
       ReapExpired, RunScalingPolicy, ScalerAddsHost, ReturnDies, CleanupDies, ScaleDies
  <2>4. QED
    BY <1>4, <2>1, <2>2, <2>3 DEF WorkerStep, ReturnStep, ScaleStep, WorkerDies
<1>5. CASE CollectAllHosts
  BY <1>5 DEF CollectAllHosts, Shutdown
<1>6. CASE \/ ShutdownSignal \/ ServerFails \/ (ShutdownStep /\ ~CollectAllHosts) \/ DropReaped
           \/ Expire \/ PortReturned \/ AutoRemove \/ Crash \/ UNCHANGED vars
  BY <1>6 DEF ShutdownSignal, ServerFails, ShutdownStep, StillDraining, vars, Drained,
     AbortWorkers, DropCollected, AllDropped, ListManaged, ListFails, SweepStops, Exit,
     DropReaped, Expire, PortReturned, AutoRemove, Crash
<1>7. QED
  BY <1>3, <1>4, <1>5, <1>6 DEF Next, Terminated

(* The pool goes out of service for good. *)
LEMMA ServiceMoves ==
    ASSUME [Next]_vars
    PROVE  (InService' => InService) /\ (ShuttingDown => ShuttingDown')
<1> USE DEF sdVars, InService, ShuttingDown
<1>1. CASE ShutdownSignal \/ ServerFails \/ ShutdownStep
  BY <1>1 DEF ShutdownSignal, ServerFails, ShutdownStep, Shutdown, StillDraining, vars, Drained,
     AbortWorkers, CollectAllHosts, DropCollected, AllDropped, ListManaged, ListFails,
     SweepStops, Exit
<1>2. ASSUME NEW t, SpawnStep(t)
      PROVE  UNCHANGED sd_pc
  BY <1>2 DEF SpawnStep, AllocatePort, NoAvailablePorts, CreateContainer, CreateFails,
     StartContainer, StartRefused, StartReplyLost, SpawnFailed
<1>3. ASSUME NEW r \in Requests, RequestStep(r)
      PROVE  UNCHANGED sd_pc
  BY <1>2, <1>3 DEF RequestStep, LeaseHost, LeaseAvailable, MaxInstancesReached, SpawnForLease,
     LeaseSpawned, NewHost, HealthWait, MarkTested, InvalidLease, ContainerNotReady, DropLease, Cancel
<1>4. CASE WorkerStep
  BY <1>2, <1>4 DEF WorkerStep, ReturnStep, CleanupStep, ScaleStep, ReceiveLease, ReturnDrops,
     ReturnTakes, InspectFails, ReturnToPool, ReceiveCleanup, CleanupStops, ReapExpired,
     RunScalingPolicy, ScalerAddsHost, NewHost
<1>5. CASE WorkerDies
  BY <1>5 DEF WorkerDies, ReturnDies, CleanupDies, ScaleDies
<1>6. CASE DropReaped \/ Expire \/ PortReturned \/ AutoRemove \/ Crash \/ UNCHANGED vars
  BY <1>6 DEF DropReaped, Expire, PortReturned, AutoRemove, Crash, vars
<1>7. QED
  BY <1>1, <1>3, <1>4, <1>5, <1>6 DEF Next, Terminated

(* A lease is released by the request that owns it, and by no one else. *)
ReleasedMoves ==
    \/ Released' \subseteq Released \union {NoLease}
    \/ \E r \in Requests : /\ pc[r] \in Owning /\ pc'[r] \notin Owning
                           /\ Released' \subseteq Released \union {lease[r]}

LEMMA ReleaseMoves ==
    ASSUME OwnerInv, [Next]_vars
    PROVE  ReleasedMoves
<1> USE DEF chanVars, localVars, ReleasedMoves
<1>1. /\ {"return", "cleanup", "scale"} \subseteq Tasks /\ Requests \subseteq Tasks
      /\ "return" \notin Requests
  BY PoolAssumption DEF Tasks, Workers
<1>2. TypeOK /\ lease_chan \in Seq(LeaseIds)
  BY DEF OwnerInv, PoolInv, TypeOK
<1>3. ASSUME NEW u \in Tasks, OnlyMoves(u), u # "return", UNCHANGED lease_chan
      PROVE  Released' = Released
  BY <1>1, <1>3 DEF OnlyMoves, Released
<1>4. ASSUME NEW t \in Spawners, SpawnStep(t)
      PROVE  UNCHANGED lease_chan
  BY <1>4 DEF SpawnStep, AllocatePort, NoAvailablePorts, CreateContainer, CreateFails,
     StartContainer, StartRefused, StartReplyLost, SpawnFailed
<1>5. ASSUME NEW r \in Requests, RequestStep(r)
      PROVE  ReleasedMoves
  <2>1. CASE DropLease(r)
    <3>1. pc[r] \in Owning /\ pc'[r] \notin Owning /\ lease[r] \in LeaseIds
      BY <1>1, <1>2, <2>1 DEF DropLease, TypeOK, Goto, At, Owning, OwnerInv, PoolInv, LocalsSet
    <3>2. Range(lease_chan') \subseteq Range(lease_chan) \union {lease[r]}
      BY <1>2, <2>1, <3>1, SendRange DEF DropLease
    <3>3. lease'["return"] = lease["return"]
      BY <1>1, <1>2, <1>5, RequestMoves DEF OnlyMoves
    <3>4. QED
      BY <3>1, <3>2, <3>3 DEF Released
  <2>2. CASE ~DropLease(r)
    <3>1. UNCHANGED lease_chan
      BY <1>4, <1>5, <2>2 DEF RequestStep, LeaseHost, LeaseAvailable, MaxInstancesReached, SpawnForLease,
         LeaseSpawned, NewHost, HealthWait, MarkTested, InvalidLease, ContainerNotReady, Cancel, Spawners
    <3>2. QED
      BY <1>1, <1>2, <1>3, <1>5, <3>1, RequestMoves
  <2>3. QED
    BY <2>1, <2>2
<1>6. CASE ReceiveLease
  <2>1. lease'["return"] = Head(lease_chan) /\ lease_chan' = Tail(lease_chan) /\ lease_chan # << >>
    BY <1>1, <1>2, <1>6 DEF ReceiveLease, TypeOK
  <2>2. QED
    BY <1>2, <2>1, ReceiveRange DEF Released
<1>7. CASE ReturnDrops \/ ReturnTakes \/ InspectFails \/ ReturnToPool
  BY <1>1, <1>2, <1>7 DEF ReturnDrops, ReturnTakes, InspectFails, ReturnToPool, Forget, TypeOK, Released
<1>8. CASE ReturnDies
  <2>1. lease'["return"] = NoLease /\ lease_chan' = << >>
    BY <1>1, <1>2, <1>8 DEF ReturnDies, Abandon, Forget, TypeOK
  <2>2. QED
    BY <2>1, EmptyRange DEF Released
<1>9. CASE CleanupStep \/ CleanupDies \/ ScaleStep \/ ScaleDies
  <2>1. UNCHANGED lease_chan
    BY <1>4, <1>9 DEF CleanupStep, ReceiveCleanup, CleanupStops, CleanupDies, ScaleStep, Spawners,
       RunScalingPolicy, ScalerAddsHost, NewHost, ScaleDies
  <2>2. QED
    BY <1>1, <1>2, <1>3, <1>9, <2>1, WorkerMoves
<1>10. CASE \/ ReapExpired \/ ShutdownSignal \/ ServerFails \/ ShutdownStep \/ DropReaped
            \/ Expire \/ PortReturned \/ AutoRemove \/ Crash \/ UNCHANGED vars
  <2>1. UNCHANGED lease_chan
    BY <1>10 DEF ReapExpired, ShutdownSignal, ServerFails, ShutdownStep, Shutdown, StillDraining, vars,
       Drained, AbortWorkers, CollectAllHosts, DropCollected, AllDropped, ListManaged, ListFails,
       SweepStops, Exit, DropReaped, Expire, PortReturned, AutoRemove, Crash
  <2>2. QED
    BY <1>10, <2>1, OthersMove DEF Released
<1>11. QED
  BY <1>5, <1>6, <1>7, <1>8, <1>9, <1>10
     DEF Next, Terminated, WorkerStep, ReturnStep, WorkerDies

(* Nobody shares the lease a request owns, and it is not being returned. *)
LeasesAlone ==
    \A r \in Requests : pc[r] \in Owning =>
        /\ lease[r] \notin Released
        /\ \A q \in Requests \ {r} : pc[q] \in Owning => lease[q] # lease[r]

LEMMA LeasesAloneStep ==
    ASSUME OwnerInv, LeasesAlone, [Next]_vars
    PROVE  LeasesAlone'
<1>1. SUFFICES ASSUME NEW r \in Requests, pc'[r] \in Owning
               PROVE  /\ lease'[r] \notin Released'
                      /\ \A q \in Requests \ {r} : pc'[q] \in Owning => lease'[q] # lease'[r]
  BY DEF LeasesAlone
<1>2. \A q \in Requests : pc[q] \in Owning => lease[q] \in LeaseIds /\ lease[q] # NoLease
  BY PoolAssumption DEF OwnerInv, PoolInv, LocalsSet
<1>3. \A l \in FreshLeases : l \in LeaseIds /\ l # NoLease /\ l \notin Released
                             /\ \A q \in Requests : lease[q] # l
  BY PoolAssumption DEF FreshLeases, Released, Tasks, Workers
<1>4. lease'[r] \notin Released'
  <2>1. CASE KeepsLease(r)
    BY <1>1, <1>2, <2>1, ReleaseMoves DEF ReleasedMoves, LeasesAlone, KeepsLease
  <2>2. CASE GetsLease(r)
    BY <1>2, <1>3, <2>2, ReleaseMoves DEF ReleasedMoves, GetsLease
  <2>3. QED
    BY <1>1, <2>1, <2>2, OwnsMoves
<1>5. ASSUME NEW q \in Requests \ {r}, pc'[q] \in Owning
      PROVE  lease'[q] # lease'[r]
  <2>1. CASE KeepsLease(r) /\ KeepsLease(q)
    BY <2>1 DEF KeepsLease, LeasesAlone
  <2>2. CASE KeepsLease(r) /\ GetsLease(q)
    BY <1>3, <2>2 DEF KeepsLease, GetsLease
  <2>3. CASE GetsLease(r)
    <3>1. pc'[q] = pc[q] /\ lease'[q] = lease[q]
      BY <2>3 DEF GetsLease, OnlyMoves, Tasks
    <3>2. QED
      BY <1>3, <2>3, <3>1 DEF GetsLease
  <2>4. QED
    BY <1>1, <1>5, <2>1, <2>2, <2>3, OwnsMoves
<1>6. QED
  BY <1>4, <1>5

(* The entry a request owns is the host it was given, until the shutdown takes it. *)
LeasesHosted ==
    \A r \in Requests : pc[r] \in Owning =>
        /\ cont[r] \in Containers
        /\ leased_hosts[lease[r]] \in {cont[r], NoContainer}
        /\ InService => /\ leased_hosts[lease[r]] = cont[r]
                        /\ host_port[cont[r]] = port[r]
                        /\ pc[r] = "holding" => cont[r] \in tested

(* Nobody else removes the entry a request owns while the pool is in service. *)
LEMMA OwnEntryKept ==
    ASSUME OwnerInv, LeasesAlone, [Next]_vars, NEW r \in Requests, pc[r] \in Owning, pc'[r] \in Owning
    PROVE  \/ leased_hosts'[lease[r]] = leased_hosts[lease[r]]
           \/ leased_hosts'[lease[r]] = NoContainer /\ ~InService'
<1>1. lease[r] \in LeaseIds /\ TypeOK
  BY DEF OwnerInv, PoolInv, LocalsSet
<1>2. ASSUME NEW l \in FreshLeases
      PROVE  l # lease[r]
  BY DEF FreshLeases, Tasks
<1>3. CASE \E q \in Requests : pc[q] = "unready" /\ pc'[q] = "idle" /\ EntryGone(lease[q])
  <2>1. PICK q \in Requests : pc[q] = "unready" /\ pc'[q] = "idle" /\ EntryGone(lease[q])
    BY <1>3
  <2>2. q # r /\ lease[q] # lease[r]
    BY <2>1 DEF Owning, LeasesAlone
  <2>3. QED
    BY <1>1, <2>1, <2>2 DEF EntryGone, TypeOK
<1>4. CASE EntryGone(lease["return"])
  BY <1>1, <1>4 DEF EntryGone, TypeOK, LeasesAlone, Released
<1>5. CASE leased_hosts' = [l \in LeaseIds |-> NoContainer] /\ sd_pc' = "drop"
  BY <1>1, <1>5 DEF InService
<1>6. ASSUME NEW l \in FreshLeases, NEW c, leased_hosts' = [leased_hosts EXCEPT ![l] = c]
      PROVE  leased_hosts'[lease[r]] = leased_hosts[lease[r]]
  BY <1>1, <1>2, <1>6 DEF TypeOK
<1>7. QED
  BY <1>3, <1>4, <1>5, <1>6, EntryMoves DEF EntriesMove

(* A leased host that stays leased keeps its port and its health. *)
LEMMA LeasedHostKept ==
    ASSUME OwnerInv, [Next]_vars, NEW c \in LeasedContainers, c \in LeasedContainers'
    PROVE  host_port'[c] = host_port[c] /\ (c \in tested => c \in tested')
<1>1. c \in LiveHosts /\ TypeOK
  BY OneOwnerIsPartition DEF OwnerInv, PoolInv, Partition
<1>2. c \in LiveHosts'
  <2>1. OneOwner'
    BY StepOwner DEF OwnerInv
  <2>2. {d \in Containers : Live(d)'} = LiveHosts'
    BY DEF LiveHosts
  <2>3. QED
    BY <2>1, <2>2 DEF OneOwner
<1>3. host_port'[c] = host_port[c]
  BY <1>1, <1>2, LiveAdd, HostsPort
<1>4. ASSUME DropsOne, c \in tested
      PROVE  c \in tested'
  <2>1. PICK d \in LiveHosts : DropHost(d)
    BY <1>4 DEF DropsOne
  <2>2. d # c
    BY <1>1, <1>2, <2>1, LiveDrop DEF LiveHosts
  <2>3. QED
    BY <1>4, <2>1, <2>2 DEF DropHost
<1>5. QED
  BY <1>3, <1>4, HostMoves DEF MarksOnly, NewHost

LEMMA LeasesHostedStep ==
    ASSUME OwnerInv, LeasesAlone, LeasesHosted, [Next]_vars
    PROVE  LeasesHosted'
<1>1. SUFFICES ASSUME NEW r \in Requests, pc'[r] \in Owning
               PROVE  /\ cont'[r] \in Containers
                      /\ leased_hosts'[lease'[r]] \in {cont'[r], NoContainer}
                      /\ InService' => /\ leased_hosts'[lease'[r]] = cont'[r]
                                       /\ host_port'[cont'[r]] = port'[r]
                                       /\ pc'[r] = "holding" => cont'[r] \in tested'
  BY DEF LeasesHosted
<1>2. TypeOK
  BY DEF OwnerInv, PoolInv
<1>3. CASE GetsLease(r)
  BY <1>2, <1>3 DEF GetsLease, TypeOK, FreshLeases
<1>4. CASE KeepsLease(r)
  <2>1. /\ pc[r] \in Owning /\ lease[r] \in LeaseIds /\ cont[r] \in Containers
        /\ leased_hosts[lease[r]] \in {cont[r], NoContainer}
    BY <1>4 DEF KeepsLease, LeasesHosted, OwnerInv, PoolInv, LocalsSet
  <2>2. leased_hosts'[lease[r]] \in {cont[r], NoContainer}
    BY <1>1, <2>1, OwnEntryKept
  <2>3. ASSUME InService'
        PROVE  /\ leased_hosts'[lease[r]] = cont[r] /\ host_port'[cont[r]] = port[r]
               /\ pc'[r] = "holding" => cont[r] \in tested'
    <3>1. leased_hosts[lease[r]] = cont[r] /\ host_port[cont[r]] = port[r]
          /\ (pc[r] = "holding" => cont[r] \in tested)
      BY <2>1, <2>3, ServiceMoves DEF LeasesHosted
    <3>2. leased_hosts'[lease[r]] = cont[r]
      BY <1>1, <2>1, <2>3, <3>1, OwnEntryKept
    <3>3. cont[r] \in LeasedContainers /\ cont[r] \in LeasedContainers'
      BY <2>1, <3>1, <3>2, PoolAssumption DEF LeasedContainers, Leases
    <3>4. host_port'[cont[r]] = port[r] /\ (cont[r] \in tested => cont[r] \in tested')
      BY <3>1, <3>3, LeasedHostKept
    <3>5. QED
      BY <1>4, <3>1, <3>2, <3>4 DEF KeepsLease
  <2>4. QED
    BY <1>4, <2>1, <2>2, <2>3 DEF KeepsLease
<1>5. QED
  BY <1>1, <1>3, <1>4, OwnsMoves
-----------------------------------------------------------------------------
(***************************************************************************)
(* The invariant of the guards.  The port theorem needs only the first two  *)
(* conjuncts; that a lease stays backed needs that nobody else names it;    *)
(* that a port leads to the right container needs the history of the spawn. *)
(***************************************************************************)
GuardInv ==
    /\ OwnerInv /\ PortsUnique
    /\ TestedLive /\ QueuedGone
    /\ LeasesAlone /\ LeasesHosted
    /\ SpawnsOwn /\ RunsOwn

LEMMA InitGuard == Init => GuardInv
<1> SUFFICES ASSUME Init PROVE GuardInv
  OBVIOUS
<1>1. OwnerInv
  BY InitOwner
<1>2. Spawners \subseteq Tasks /\ Requests \subseteq Tasks /\ "cleanup" \in Tasks
  BY DEF Spawners, Tasks, Workers
<1>3. LiveHosts = {} /\ HostPorts = {} /\ SpawnPorts = {} /\ HeldPorts = {}
  BY <1>2 DEF Init, PP!Init, LiveHosts, Live, HostPorts, SpawnPorts, Spawning, HeldPorts
<1>4. PortsUnique /\ TestedLive
  BY <1>3 DEF Init, PortsUnique, TestedLive
<1>5. Queued = {}
  BY <1>2, EmptyRange DEF Init, Queued
<1>6. QueuedGone /\ SpawnsOwn /\ RunsOwn
  BY <1>2, <1>3, <1>5 DEF Init, QueuedGone, SpawnsOwn, RunsOwn
<1>7. LeasesAlone /\ LeasesHosted
  BY <1>2 DEF Init, LeasesAlone, LeasesHosted, Owning
<1>8. QED
  BY <1>1, <1>4, <1>6, <1>7 DEF GuardInv

LEMMA StepGuard == GuardInv /\ [Next]_vars => GuardInv'
<1> SUFFICES ASSUME GuardInv, [Next]_vars PROVE GuardInv'
  OBVIOUS
<1>1. OwnerInv'
  BY StepOwner DEF GuardInv
<1>2. PortsUnique'
  BY RequestPorts, WorkerPorts, OthersPorts DEF GuardInv, Next, Terminated
<1>3. TestedLive' /\ QueuedGone'
  BY TestedStep, QueuedGoneStep DEF GuardInv
<1>4. LeasesAlone' /\ LeasesHosted'
  BY LeasesAloneStep, LeasesHostedStep DEF GuardInv
<1>5. SpawnsOwn' /\ RunsOwn'
  BY SpawnsOwnStep, RunsOwnStep DEF GuardInv
<1>6. QED
  BY <1>1, <1>2, <1>3, <1>4, <1>5 DEF GuardInv

(* The invariant of the guards holds in every reachable state. *)
THEOREM GuardInvariant == Spec => []GuardInv
<1>1. QED
  BY InitGuard, StepGuard, PTL DEF Spec

(***************************************************************************)
(* Every held port belongs to exactly one live HostInstance or one spawn    *)
(* under way, and every other port to none: AllocatedPort's Drop gives each *)
(* port back once, on error paths, hang-ups and aborts too.                 *)
(***************************************************************************)
THEOREM PortOwnership == Spec => []PortsOwned
<1>1. GuardInv => PortsOwned
  BY PortsCount DEF GuardInv, OwnerInv
<1>2. QED
  BY <1>1, GuardInvariant, PTL

(* While the pool is in service the host of an owned lease is leased and live. *)
LEMMA OwnedHost ==
    ASSUME GuardInv, InService, NEW r \in Requests, pc[r] \in Owning
    PROVE  /\ cont[r] \in LeasedContainers /\ cont[r] \in LiveHosts
           /\ leased_hosts[lease[r]] = cont[r] /\ host_port[cont[r]] = port[r]
<1>1. /\ cont[r] \in Containers /\ lease[r] \in LeaseIds
      /\ leased_hosts[lease[r]] = cont[r] /\ host_port[cont[r]] = port[r]
  BY DEF GuardInv, LeasesHosted, OwnerInv, PoolInv, LocalsSet
<1>2. cont[r] \in LeasedContainers
  BY <1>1, PoolAssumption DEF LeasedContainers, Leases
<1>3. QED
  BY <1>1, <1>2, OneOwnerIsPartition DEF GuardInv, OwnerInv, Partition

(***************************************************************************)
(* As long as the pool is in service, the entry of a lease that a request   *)
(* owns is there, is the host and port it was given, is named by nobody     *)
(* else, and its container is not on the way to a stop.                     *)
(***************************************************************************)
THEOREM LeasesBacked == Spec => []LeaseBacked
<1>1. ASSUME GuardInv, InService, NEW r \in Requests, pc[r] \in Owning
      PROVE  /\ leased_hosts[lease[r]] = cont[r]
             /\ host_port[cont[r]] = port[r]
             /\ cont[r] \notin Range(cleanup_chan) \union {cont["cleanup"]}
             /\ pc[r] = "holding" => cont[r] \in tested
             /\ \A q \in Requests \ {r} : pc[q] \in Owning => lease[q] # lease[r]
             /\ lease[r] \notin Range(lease_chan) \union {lease["return"]}
  <2>1. /\ leased_hosts[lease[r]] = cont[r] /\ host_port[cont[r]] = port[r]
        /\ cont[r] \in LiveHosts
    BY <1>1, OwnedHost
  <2>2. pc[r] = "holding" => cont[r] \in tested
    BY <1>1 DEF GuardInv, LeasesHosted
  <2>3. cont[r] \notin Range(cleanup_chan) \union {cont["cleanup"]}
    BY <1>1, <2>1, PoolAssumption DEF GuardInv, QueuedGone, Queued, LiveHosts
  <2>4. /\ \A q \in Requests \ {r} : pc[q] \in Owning => lease[q] # lease[r]
        /\ lease[r] \notin Range(lease_chan) \union {lease["return"]}
    BY <1>1 DEF GuardInv, LeasesAlone, Released
  <2>5. QED
    BY <2>1, <2>2, <2>3, <2>4
<1>2. GuardInv => LeaseBacked
  BY <1>1 DEF LeaseBacked
<1>3. QED
  BY <1>2, GuardInvariant, PTL

(***************************************************************************)
(* Whatever runs on the port of an owned lease is the leased container,     *)
(* although a port is given back, and handed out again, before the          *)
(* container that had it is stopped.                                        *)
(***************************************************************************)
THEOREM NoMisrouting == Spec => []NoMisroute
<1>1. ASSUME GuardInv, InService, NEW r \in Requests, NEW c \in Containers,
             pc[r] \in Owning, container[c] = "running", port_of[c] = port[r]
      PROVE  c = cont[r]
  <2>1. cont[r] \in LiveHosts /\ host_port[cont[r]] = port[r]
    BY <1>1, OwnedHost
  <2>2. QED
    BY <1>1, <2>1 DEF GuardInv, RunsOwn, Runs
<1>2. GuardInv => NoMisroute
  BY <1>1 DEF NoMisroute
<1>3. QED
  BY <1>2, GuardInvariant, PTL
-----------------------------------------------------------------------------
(***************************************************************************)
(* No container is forgotten.  What a spawner or the cleanup task knows of  *)
(* a container it forgets only when another one has it: a spawner names one *)
(* from the create call on, the cleanup task while it stops it.             *)
(***************************************************************************)
LocalsClean ==
    /\ \A t \in Spawners : pc[t] \notin {"start", "started"} \union Owning => cont[t] = NoContainer
    /\ pc["scale"] \notin Owning
    /\ pc["cleanup"] # "stop" => cont["cleanup"] = NoContainer
    /\ ~ShuttingDown => pc["cleanup"] # "dead"

LEMMA SpawnerCleanStep ==
    ASSUME OwnerInv, LocalsClean, [Next]_vars, NEW t \in Spawners,
           pc'[t] \notin {"start", "started"} \union Owning
    PROVE  cont'[t] = NoContainer
<1> USE DEF localVars
<1>1. /\ {"return", "cleanup", "scale"} \subseteq Tasks /\ Requests \subseteq Tasks
      /\ t \in Tasks /\ t \notin {"return", "cleanup"} /\ TypeOK
  BY PoolAssumption DEF Tasks, Workers, Spawners, OwnerInv, PoolInv
<1>2. ASSUME Stays(t)
      PROVE  cont'[t] = NoContainer
  BY <1>2 DEF Stays, LocalsClean
<1>3. ASSUME NEW u \in Tasks \ {t}, OnlyMoves(u)
      PROVE  Stays(t)
  BY <1>1, <1>3 DEF OnlyMoves, Stays
<1>4. ASSUME Forget(t)
      PROVE  cont'[t] = NoContainer
  BY <1>1, <1>4 DEF Forget, TypeOK
<1>5. CASE SpawnStep(t)
  <2>1. CASE AllocatePort(t)
    BY <1>1, <2>1 DEF AllocatePort, At, Owning, LocalsClean
  <2>2. CASE NoAvailablePorts(t) \/ CreateFails(t) \/ StartRefused(t) \/ StartReplyLost(t)
    BY <1>4, <2>2 DEF NoAvailablePorts, CreateFails, StartRefused, StartReplyLost, SpawnFailed
  <2>3. CASE CreateContainer(t) \/ StartContainer(t)
    BY <1>1, <2>3 DEF CreateContainer, StartContainer, Goto, TypeOK
  <2>4. QED
    BY <1>5, <2>1, <2>2, <2>3 DEF SpawnStep
<1>6. CASE \E r \in Requests : RequestStep(r)
  <2>1. PICK r \in Requests : RequestStep(r)
    BY <1>6
  <2>2. CASE r # t
    BY <1>1, <1>2, <1>3, <2>1, <2>2, RequestMoves
  <2>3. CASE r = t
    <3>1. CASE LeaseHost(t) \/ MaxInstancesReached(t) \/ SpawnForLease(t)
      BY <1>1, <3>1 DEF LeaseHost, MaxInstancesReached, SpawnForLease, At, Owning, LocalsClean
    <3>2. CASE LeaseAvailable(t) \/ LeaseSpawned(t) \/ HealthWait(t) \/ MarkTested(t)
      BY <1>1, <3>2 DEF LeaseAvailable, LeaseSpawned, InsertLease, HealthWait, MarkTested, Goto,
         TypeOK, Owning
    <3>3. CASE InvalidLease(t) \/ ContainerNotReady(t) \/ DropLease(t) \/ Cancel(t)
      BY <1>4, <3>3 DEF InvalidLease, ContainerNotReady, DropLease, Cancel, Abandon
    <3>4. QED
      BY <1>5, <2>1, <2>3, <3>1, <3>2, <3>3 DEF RequestStep
  <2>4. QED
    BY <2>2, <2>3
<1>7. CASE ScaleStep \/ ScaleDies
  <2>1. CASE t # "scale"
    BY <1>1, <1>2, <1>3, <1>7, <2>1, WorkerMoves
  <2>2. CASE t = "scale" /\ RunScalingPolicy
    BY <1>1, <2>2 DEF RunScalingPolicy, At, Owning, LocalsClean
  <2>3. CASE t = "scale" /\ (ScalerAddsHost \/ ScaleDies)
    BY <1>4, <2>3 DEF ScalerAddsHost, ScaleDies, Abandon
  <2>4. QED
    BY <1>5, <1>7, <2>1, <2>2, <2>3 DEF ScaleStep
<1>8. CASE ReturnStep \/ ReturnDies \/ CleanupStep \/ CleanupDies
  BY <1>1, <1>2, <1>3, <1>8, WorkerMoves
<1>9. CASE \/ ReapExpired \/ ShutdownSignal \/ ServerFails \/ ShutdownStep \/ DropReaped
           \/ Expire \/ PortReturned \/ AutoRemove \/ Crash \/ UNCHANGED vars
  BY <1>2, <1>9, OthersMove DEF Stays
<1>10. QED
  BY <1>6, <1>7, <1>8, <1>9 DEF Next, Terminated, WorkerStep, WorkerDies

LEMMA CleanupCleanStep ==
    ASSUME OwnerInv, LocalsClean, [Next]_vars
    PROVE  /\ pc'["cleanup"] # "stop" => cont'["cleanup"] = NoContainer
           /\ ~ShuttingDown' => pc'["cleanup"] # "dead"
<1> USE DEF localVars
<1> DEFINE Goal == /\ pc'["cleanup"] # "stop" => cont'["cleanup"] = NoContainer
                   /\ ~ShuttingDown' => pc'["cleanup"] # "dead"
<1>1. /\ {"return", "cleanup", "scale"} \subseteq Tasks /\ Requests \subseteq Tasks
      /\ "cleanup" \notin Requests /\ TypeOK /\ (ShuttingDown => ShuttingDown')
  BY PoolAssumption, ServiceMoves DEF Tasks, Workers, OwnerInv, PoolInv
<1>2. ASSUME pc'["cleanup"] = pc["cleanup"], cont'["cleanup"] = cont["cleanup"]
      PROVE  Goal
  BY <1>1, <1>2 DEF LocalsClean
<1>3. ASSUME NEW u \in Tasks \ {"cleanup"}, OnlyMoves(u)
      PROVE  Goal
  BY <1>1, <1>2, <1>3 DEF OnlyMoves
<1>4. CASE \E r \in Requests : RequestStep(r)
  BY <1>1, <1>3, <1>4, RequestMoves
<1>5. CASE ReturnStep \/ ReturnDies \/ ScaleStep \/ ScaleDies
  BY <1>1, <1>3, <1>5, WorkerMoves
<1>6. CASE ReceiveCleanup
  BY <1>1, <1>6 DEF ReceiveCleanup, Goto, TypeOK
<1>7. CASE CleanupStops
  BY <1>1, <1>7 DEF CleanupStops, Goto, Forget, TypeOK
<1>8. CASE Aborted /\ CleanupDies
  <2>1. cont'["cleanup"] = NoContainer /\ ShuttingDown
    BY <1>1, <1>8 DEF CleanupDies, Abandon, Forget, TypeOK, Aborted, ShuttingDown
  <2>2. QED
    BY <1>1, <2>1
<1>9. CASE \/ ReapExpired \/ ShutdownSignal \/ ServerFails \/ ShutdownStep \/ DropReaped
           \/ Expire \/ PortReturned \/ AutoRemove \/ Crash \/ UNCHANGED vars
  BY <1>2, <1>9, OthersMove
<1>10. QED
  BY <1>4, <1>5, <1>6, <1>7, <1>8, <1>9
     DEF Next, Terminated, WorkerStep, CleanupStep, WorkerDies

LEMMA ScalePlacesStep ==
    ASSUME OwnerInv, LocalsClean, [Next]_vars
    PROVE  pc'["scale"] \notin Owning
<1>1. /\ {"return", "cleanup", "scale"} \subseteq Tasks /\ Requests \subseteq Tasks
      /\ "scale" \notin Requests /\ TypeOK
  BY PoolAssumption DEF Tasks, Workers, OwnerInv, PoolInv
<1>2. ASSUME NEW u \in Tasks \ {"scale"}, OnlyMoves(u)
      PROVE  pc'["scale"] = pc["scale"]
  BY <1>1, <1>2 DEF OnlyMoves
<1>3. CASE \E r \in Requests : RequestStep(r)
  BY <1>1, <1>2, <1>3, RequestMoves DEF LocalsClean
<1>4. CASE ReturnStep \/ ReturnDies \/ CleanupStep \/ CleanupDies
  BY <1>1, <1>2, <1>4, WorkerMoves DEF LocalsClean
<1>5. CASE ScaleStep \/ ScaleDies
  BY <1>1, <1>5 DEF ScaleStep, RunScalingPolicy, ScalerAddsHost, ScaleDies, Abandon, NextRound, SpawnStep,
     AllocatePort, NoAvailablePorts, CreateContainer, CreateFails, StartContainer, StartRefused,
     StartReplyLost, SpawnFailed, Goto, TypeOK, Owning
<1>6. CASE \/ ReapExpired \/ ShutdownSignal \/ ServerFails \/ ShutdownStep \/ DropReaped
           \/ Expire \/ PortReturned \/ AutoRemove \/ Crash \/ UNCHANGED vars
  BY <1>6, OthersMove DEF LocalsClean
<1>7. QED
  BY <1>3, <1>4, <1>5, <1>6 DEF Next, Terminated, WorkerStep, WorkerDies

LEMMA StepClean == OwnerInv /\ LocalsClean /\ [Next]_vars => LocalsClean'
BY SpawnerCleanStep, CleanupCleanStep, ScalePlacesStep DEF LocalsClean

LEMMA InitClean == Init => LocalsClean
BY DEF Init, LocalsClean, Tasks, Workers, Spawners, Owning

(* A host dropped while the gateway is up is queued for its stop if there is room. *)
LEMMA DroppedQueued ==
    ASSUME OwnerInv, LocalsClean, NEW c \in Containers, DropHost(c), ~ShuttingDown,
           Len(cleanup_chan) # CleanupCap
    PROVE  c \in Range(cleanup_chan') /\ Range(cleanup_chan) \subseteq Range(cleanup_chan')
<1>1. cleanup_chan \in Seq(Containers) /\ Len(cleanup_chan) <= CleanupCap /\ Len(cleanup_chan) \in Nat
  BY LenProperties DEF OwnerInv, PoolInv, TypeOK
<1>2. Len(cleanup_chan) < CleanupCap
  BY <1>1, PoolAssumption
<1>3. cleanup_chan' = Append(cleanup_chan, c)
  BY <1>2 DEF DropHost, TrySend, LocalsClean
<1>4. QED
  BY <1>1, <1>3, AppendRange

(* What the cleanup task has to stop stays known to it until it stops it. *)
LEMMA QueueKept ==
    ASSUME OwnerInv, LocalsClean, [Next]_vars, ~ShuttingDown, Len(cleanup_chan) # CleanupCap,
           ~CleanupStops, NEW c \in Containers, c \in Range(cleanup_chan) \union {cont["cleanup"]}
    PROVE  c \in Range(cleanup_chan') \union {cont'["cleanup"]}
<1>1. TypeOK /\ cleanup_chan \in Seq(Containers) /\ NoContainer \notin Containers
  BY PoolAssumption DEF OwnerInv, PoolInv, TypeOK
<1>2. CASE ReceiveCleanup
  <2>1. /\ cont["cleanup"] = NoContainer /\ cont'["cleanup"] = Head(cleanup_chan)
        /\ cleanup_chan' = Tail(cleanup_chan) /\ cleanup_chan # << >>
    BY <1>1, <1>2 DEF ReceiveCleanup, At, LocalsClean, TypeOK, Tasks, Workers
  <2>2. QED
    BY <1>1, <2>1, ReceiveRange
<1>3. CASE ~ReceiveCleanup
  <2>1. cont'["cleanup"] = cont["cleanup"]
    BY <1>3, CleanupCont
  <2>2. Range(cleanup_chan) \subseteq Range(cleanup_chan')
    <3>1. cleanup_chan' = cleanup_chan \/ \E d \in Containers : DropHost(d)
      BY <1>3, HostMoves DEF MarksOnly, DropsOne, LiveHosts, NewHost, chanVars
    <3>2. QED
      BY <3>1, DroppedQueued
  <2>3. QED
    BY <2>1, <2>2
<1>4. QED
  BY <1>2, <1>3

(* A container a spawner knows of, and no host is made of, stays known until it is one or stops. *)
LEMMA SpawnKept ==
    ASSUME GuardInv, LocalsClean, [Next]_vars, ~ShuttingDown,
           \A r \in Requests : ~Cancel(r), \A t \in Spawners : ~StartReplyLost(t),
           NEW t \in Spawners, cont[t] \in Containers, cont[t] \notin LiveHosts,
           container'[cont[t]] = "running"
    PROVE  cont'[t] = cont[t] \/ cont[t] \in LiveHosts'
<1> USE DEF localVars
<1>1. /\ TypeOK /\ OwnerInv /\ {"return", "cleanup", "scale"} \subseteq Tasks
      /\ Requests \subseteq Tasks /\ t \in Tasks /\ t \notin {"return", "cleanup"}
      /\ NoContainer \notin Containers /\ NoPort \notin Ports
  BY PoolAssumption DEF Tasks, Workers, Spawners, GuardInv, OwnerInv, PoolInv
<1>2. pc[t] \in {"start", "started"} /\ ~Aborted
  <2>1. pc[t] \in Owning /\ t \in Requests => cont[t] \in LiveHosts
    BY OwnedHost DEF ShuttingDown, InService
  <2>2. t = "scale" => pc[t] \notin Owning
    BY DEF LocalsClean
  <2>3. pc[t] \in {"start", "started"} \union Owning
    BY <1>1 DEF LocalsClean
  <2>4. QED
    BY <2>1, <2>2, <2>3 DEF Spawners, Aborted, ShuttingDown
<1>3. ASSUME NEW u \in Tasks \ {t}, OnlyMoves(u)
      PROVE  cont'[t] = cont[t]
  BY <1>1, <1>3 DEF OnlyMoves
<1>4. CASE SpawnStep(t)
  <2>1. CASE StartContainer(t)
    BY <2>1 DEF StartContainer
  <2>2. CASE StartRefused(t)
    BY <1>1, <2>2 DEF StartRefused, D!Refuse, D!Vanish, D!Become, TypeOK, D!TypeOK
  <2>3. CASE AllocatePort(t) \/ NoAvailablePorts(t) \/ CreateContainer(t) \/ CreateFails(t)
    BY <1>2, <2>3 DEF AllocatePort, NoAvailablePorts, CreateContainer, CreateFails, At
  <2>4. QED
    BY <1>4, <2>1, <2>2, <2>3 DEF SpawnStep
<1>5. CASE \E r \in Requests : RequestStep(r)
  <2>1. PICK r \in Requests : RequestStep(r)
    BY <1>5
  <2>2. CASE r # t
    BY <1>1, <1>3, <2>1, <2>2, RequestMoves
  <2>3. CASE r = t
    <3>1. CASE LeaseSpawned(t)
      BY <1>1, <3>1 DEF LeaseSpawned, InsertLease, TypeOK
    <3>2. ~(\/ LeaseHost(t) \/ LeaseAvailable(t) \/ MaxInstancesReached(t) \/ SpawnForLease(t)
            \/ HealthWait(t) \/ MarkTested(t) \/ InvalidLease(t) \/ ContainerNotReady(t) \/ DropLease(t))
      BY <1>2 DEF LeaseHost, LeaseAvailable, MaxInstancesReached, SpawnForLease, HealthWait,
         MarkTested, InvalidLease, ContainerNotReady, DropLease, At
    <3>3. QED
      BY <1>4, <2>1, <2>3, <3>1, <3>2 DEF RequestStep
  <2>4. QED
    BY <2>2, <2>3
<1>6. CASE ScaleStep
  <2>1. CASE t # "scale"
    BY <1>1, <1>3, <1>6, <2>1, WorkerMoves
  <2>2. CASE t = "scale" /\ RunScalingPolicy
    BY <1>2, <2>2 DEF RunScalingPolicy, At
  <2>3. CASE t = "scale" /\ ScalerAddsHost
    BY <1>1, <2>3, LiveAdd DEF ScalerAddsHost
  <2>4. QED
    BY <1>4, <1>6, <2>1, <2>2, <2>3 DEF ScaleStep
<1>7. CASE ReturnStep \/ CleanupStep
  BY <1>1, <1>3, <1>7, WorkerMoves
<1>8. CASE \/ ReapExpired \/ ShutdownSignal \/ ServerFails \/ ShutdownStep \/ DropReaped
           \/ Expire \/ PortReturned \/ AutoRemove \/ Crash \/ UNCHANGED vars
  BY <1>8, OthersMove
<1>9. QED
  BY <1>2, <1>5, <1>6, <1>7, <1>8 DEF Next, Terminated, WorkerStep, WorkerDies

LEMMA StepAccounts ==
    ASSUME GuardInv, LocalsClean, [Next]_vars, ~ShuttingDown, Len(cleanup_chan) # CleanupCap,
           \A r \in Requests : ~Cancel(r), \A t \in Spawners : ~StartReplyLost(t), ~CleanupStops
    PROVE  Unaccounted' \subseteq Unaccounted
<1>1. TypeOK /\ OwnerInv /\ NoContainer \notin Containers
  BY PoolAssumption DEF GuardInv, OwnerInv, PoolInv
<1>2. SUFFICES ASSUME NEW c \in Containers, container'[c] = "running", c \notin LiveHosts',
                      c \notin Range(cleanup_chan') \union {cont'["cleanup"]},
                      \A t \in Spawners : cont'[t] # c
               PROVE  c \in Unaccounted
  BY DEF Unaccounted, LiveHosts, Live
<1>3. c \notin LiveHosts
  <2>1. SUFFICES ASSUME c \in LiveHosts
                 PROVE  FALSE
    OBVIOUS
  <2>2. DropHost(c)
    <3>1. \A d \in Containers : DropHost(d) => d = c \/ c \in LiveHosts'
      BY <1>1, <2>1, LiveDrop
    <3>2. MarksOnly \/ DropsOne
      <4>1. \A t \in Spawners : ~NewHost(t)
        BY <1>1, <1>2, <2>1, LiveAdd
      <4>2. QED
        BY <1>1, <4>1, HostMoves
    <3>3. QED
      BY <1>2, <2>1, <3>1, <3>2 DEF MarksOnly, DropsOne, LiveHosts, Live
  <2>3. QED
    BY <1>1, <1>2, <2>2, DroppedQueued
<1>4. c \notin Range(cleanup_chan) \union {cont["cleanup"]}
  BY <1>1, <1>2, QueueKept
<1>5. \A t \in Spawners : cont[t] # c
  BY <1>2, <1>3, SpawnKept
<1>6. container[c] = "running"
  BY <1>1, <1>2, <1>5, OnlyStartsRun
<1>7. QED
  BY <1>3, <1>4, <1>5, <1>6 DEF Unaccounted, LiveHosts, Live

(***************************************************************************)
(* While the gateway is up no running container is forgotten, except where  *)
(* the code gives up on it: a cancelled spawn, the lost reply of a start, a *)
(* failed stop, a full cleanup channel.                                     *)
(***************************************************************************)
THEOREM NoContainerIsLost == Spec => NoContainerLost
<1>1. GuardInv /\ LocalsClean /\ [Next]_vars => GuardInv' /\ LocalsClean'
  BY StepGuard, StepClean DEF GuardInv
<1>2. Spec => [](GuardInv /\ LocalsClean)
  BY <1>1, InitGuard, InitClean, PTL DEF Spec
<1>3. GuardInv /\ LocalsClean /\ [Next]_vars =>
        [\/ Unaccounted' \subseteq Unaccounted
         \/ ShuttingDown \/ Len(cleanup_chan) = CleanupCap
         \/ \E r \in Requests : Cancel(r)
         \/ \E t \in Spawners : StartReplyLost(t)
         \/ CleanupStops]_vars
  BY StepAccounts
<1>4. QED
  BY <1>2, <1>3, PTL DEF Spec, NoContainerLost
=============================================================================
