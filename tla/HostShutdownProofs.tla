------------------------- MODULE HostShutdownProofs -------------------------
(***************************************************************************)
(* Theorem about the graceful shutdown of HostPool: one that nothing spoils *)
(* leaves no container running, for every value of the constants.           *)
(***************************************************************************)
EXTENDS MCHostPoolShutdown, HostGuardProofs

(***************************************************************************)
(* What an unspoilt shutdown has achieved by each of its phases.  From the  *)
(* signal on nobody waits for the mutex to lease; once collect_all_hosts    *)
(* had the mutex nobody spawns, and nobody will; so what runs after the     *)
(* listing was listed; and the process ends with an empty list.             *)
(***************************************************************************)
NobodyWaits == \A r \in Requests : pc[r] # "lock"
NobodySpawns == \A t \in Spawners : pc[t] \notin SpawnPlaces
RunningAreListed == \A c \in Containers : container[c] = "running" => c \in sd_list

Progress ==
    /\ sd_pc \notin {"up", "failed"} => NobodyWaits
    /\ sd_pc \in {"drop", "list", "sweep", "exited"} => NobodySpawns
    /\ sd_pc \in {"sweep", "exited"} => RunningAreListed
    /\ sd_pc = "exited" => sd_list = {}

ExitInv == ~spoilt => Progress

(* Only a call that saw shutdown_flag unset comes to wait for the mutex. *)
LEMMA WaitingStep ==
    ASSUME TypeOK, [Next]_vars, NEW r \in Requests, pc'[r] = "lock"
    PROVE  pc[r] = "lock" \/ sd_pc = "up"
<1>1. /\ r \in Tasks /\ r \in Spawners /\ r \notin {"return", "cleanup", "scale"}
      /\ pc \in [Tasks -> RequestPlaces \union {"inspect", "stop", "dead"}]
  BY PoolAssumption DEF Tasks, Spawners, Workers, TypeOK
<1>2. CASE RequestStep(r)
  <2>1. CASE LeaseHost(r)
    BY <2>1 DEF LeaseHost, ShuttingDown
  <2>2. CASE SpawnStep(r)
    BY <1>1, <2>2 DEF SpawnStep, AllocatePort, NoAvailablePorts, CreateContainer, CreateFails,
       StartContainer, StartRefused, StartReplyLost, SpawnFailed, Goto
  <2>3. CASE LeaseAvailable(r) \/ LeaseSpawned(r)
    BY <1>1, <2>3 DEF LeaseAvailable, LeaseSpawned, InsertLease, Goto
  <2>4. CASE MaxInstancesReached(r) \/ SpawnForLease(r) \/ HealthWait(r) \/ MarkTested(r)
             \/ InvalidLease(r) \/ ContainerNotReady(r) \/ DropLease(r) \/ Cancel(r)
    BY <1>1, <2>4 DEF MaxInstancesReached, SpawnForLease, HealthWait, MarkTested, InvalidLease,
       ContainerNotReady, DropLease, Cancel, Abandon, Goto
  <2>5. QED
    BY <1>2, <2>1, <2>2, <2>3, <2>4 DEF RequestStep
<1>3. CASE \E q \in Requests \ {r} : RequestStep(q)
  BY <1>1, <1>3, RequestMoves DEF OnlyMoves
<1>4. CASE WorkerStep \/ WorkerDies
  <2>1. OnlyMoves("return") \/ OnlyMoves("cleanup") \/ OnlyMoves("scale") \/ ReapExpired
    BY <1>4, WorkerMoves DEF WorkerStep, WorkerDies
  <2>2. QED
    BY <1>1, <2>1, OthersMove DEF OnlyMoves
<1>5. CASE \/ ShutdownSignal \/ ServerFails \/ ShutdownStep \/ DropReaped
           \/ Expire \/ PortReturned \/ AutoRemove \/ Crash \/ UNCHANGED vars
  BY <1>5, OthersMove
<1>6. QED
  BY <1>2, <1>3, <1>4, <1>5 DEF Next, Terminated

(* A spawn begins with the mutex taken for it, or with a scaler not aborted. *)
LEMMA SpawningStep ==
    ASSUME TypeOK, [Next]_vars, NEW t \in Spawners, pc'[t] \in SpawnPlaces
    PROVE  \/ pc[t] \in SpawnPlaces
           \/ t \in Requests /\ pc[t] = "lock"
           \/ Alive /\ ~Aborted
<1> USE DEF SpawnPlaces
<1>1. /\ t \in Tasks /\ t \notin {"return", "cleanup"}
      /\ pc \in [Tasks -> RequestPlaces \union {"inspect", "stop", "dead"}]
  BY PoolAssumption DEF Tasks, Spawners, Workers, TypeOK
<1>2. CASE t \in Requests /\ RequestStep(t)
  <2>1. CASE SpawnStep(t) \/ LeaseSpawned(t)
    BY <1>1, <2>1 DEF SpawnStep, AllocatePort, NoAvailablePorts, CreateContainer, CreateFails,
       StartContainer, StartRefused, StartReplyLost, LeaseSpawned, NewHost, At
  <2>2. CASE LeaseHost(t) \/ LeaseAvailable(t) \/ MaxInstancesReached(t)
    BY <1>1, <2>2 DEF LeaseHost, LeaseAvailable, MaxInstancesReached, InsertLease, Goto
  <2>3. CASE SpawnForLease(t)
    BY <1>2, <2>3 DEF SpawnForLease, At
  <2>4. CASE HealthWait(t) \/ MarkTested(t) \/ InvalidLease(t) \/ ContainerNotReady(t)
             \/ DropLease(t) \/ Cancel(t)
    BY <1>1, <2>4 DEF HealthWait, MarkTested, InvalidLease, ContainerNotReady, DropLease,
       Cancel, Abandon, Goto
  <2>5. QED
    BY <1>2, <2>1, <2>2, <2>3, <2>4 DEF RequestStep
<1>3. CASE \E q \in Requests \ {t} : RequestStep(q)
  BY <1>1, <1>3, RequestMoves DEF OnlyMoves
<1>4. CASE WorkerStep
  BY <1>4 DEF WorkerStep
<1>5. CASE WorkerDies
  <2>1. CASE ReturnDies \/ CleanupDies
    BY <1>1, <2>1, WorkerMoves DEF OnlyMoves
  <2>2. CASE ScaleDies
    <3>1. pc'[t] = pc[t] \/ pc'[t] = "idle"
      BY <1>1, <2>2 DEF ScaleDies, Abandon, Goto
    <3>2. QED
      BY <3>1
  <2>3. QED
    BY <1>5, <2>1, <2>2 DEF WorkerDies
<1>6. CASE \/ ShutdownSignal \/ ServerFails \/ ShutdownStep \/ DropReaped
           \/ Expire \/ PortReturned \/ AutoRemove \/ Crash \/ UNCHANGED vars
  BY <1>6, OthersMove
<1>7. QED
  BY <1>2, <1>3, <1>4, <1>5, <1>6 DEF Next, Terminated

(* While nobody spawns, no container comes to run. *)
LEMMA NothingStarts ==
    ASSUME OwnerInv, [Next]_vars, NobodySpawns, NEW c \in Containers, container'[c] = "running"
    PROVE  container[c] = "running"
BY OnlyStartsRun DEF NobodySpawns, SpawnPlaces, Starts, At

(* The steps that are not main's leave its progress alone. *)
LEMMA PhaseMoves ==
    ASSUME [Next]_vars
    PROVE  \/ UNCHANGED <<sd_pc, sd_list>>
           \/ ShutdownSignal \/ ServerFails \/ ShutdownStep
<1> USE DEF sdVars
<1>1. ASSUME NEW t, SpawnStep(t) PROVE UNCHANGED sdVars
  BY <1>1 DEF SpawnStep, AllocatePort, NoAvailablePorts, CreateContainer, CreateFails,
     StartContainer, StartRefused, StartReplyLost, SpawnFailed
<1>2. ASSUME NEW r \in Requests, RequestStep(r) PROVE UNCHANGED sdVars
  BY <1>1, <1>2 DEF RequestStep, LeaseHost, LeaseAvailable, MaxInstancesReached, SpawnForLease,
     LeaseSpawned, NewHost, HealthWait, MarkTested, InvalidLease, ContainerNotReady, DropLease, Cancel
<1>3. CASE WorkerStep \/ WorkerDies
  BY <1>1, <1>3 DEF WorkerStep, ReturnStep, ReceiveLease, ReturnDrops, ReturnTakes, InspectFails,
     ReturnToPool, CleanupStep, ReceiveCleanup, CleanupStops, ReapExpired, ScaleStep,
     RunScalingPolicy, ScalerAddsHost, NewHost, WorkerDies, ReturnDies, CleanupDies, ScaleDies
<1>4. CASE DropReaped \/ Expire \/ PortReturned \/ AutoRemove \/ Crash \/ UNCHANGED vars
  BY <1>4 DEF DropReaped, Expire, PortReturned, AutoRemove, Crash, vars
<1>5. QED
  BY <1>2, <1>3, <1>4 DEF Next, Terminated

(***************************************************************************)
(* The steps of main.                                                       *)
(***************************************************************************)
LEMMA MainProgresses ==
    ASSUME OwnerInv, Progress, ~SweepFails, ~UnquietSignal,
           ShutdownSignal \/ ServerFails \/ ShutdownStep
    PROVE  Progress'
<1> USE DEF Progress
<1>1. UNCHANGED pc
  BY OthersMove
<1>2. (NobodyWaits' <=> NobodyWaits) /\ (NobodySpawns' <=> NobodySpawns)
  BY <1>1 DEF NobodyWaits, NobodySpawns
<1>3. CASE ShutdownSignal \/ ServerFails
  BY <1>2, <1>3 DEF ShutdownSignal, ServerFails, Shutdown, UnquietSignal, NobodyWaits, At
<1>4. CASE StillDraining \/ Drained \/ AbortWorkers \/ DropCollected \/ AllDropped
  BY <1>2, <1>4 DEF StillDraining, vars, sdVars, Drained, AbortWorkers, DropCollected,
     AllDropped, Shutdown
<1>5. CASE CollectAllHosts
  <2>1. NobodySpawns /\ sd_pc = "collect" /\ sd_pc' = "drop"
    BY <1>5, PoolAssumption DEF CollectAllHosts, Shutdown, NobodySpawns, OwnerInv, PoolInv,
       LockHeld, LockPlaces, Spawners, Tasks, Workers
  <2>2. QED
    BY <1>2, <2>1
<1>6. CASE ListManaged
  <2>1. /\ sd_pc = "list" /\ sd_pc' = "sweep" /\ UNCHANGED container
        /\ sd_list' = {c \in Containers : container[c] # "absent"}
    BY <1>6 DEF ListManaged, Shutdown, dockerVars
  <2>2. QED
    BY <1>2, <2>1 DEF RunningAreListed
<1>7. CASE ListFails
  BY <1>7 DEF ListFails, Shutdown, SweepFails
<1>8. CASE SweepStops
  <2>1. sd_pc = "sweep" /\ sd_pc' = "sweep"
    BY <1>8 DEF SweepStops
  <2>2. PICK d \in sd_list : /\ D!Stop(d) \/ UNCHANGED dockerVars
                             /\ sd_list' = sd_list \ {d}
    BY <1>8 DEF SweepStops
  <2>3. ASSUME NEW c \in Containers, container'[c] = "running" PROVE c \in sd_list'
    <3>1. container[c] = "running"
      BY <2>2, <2>3 DEF D!Stop, dockerVars, OwnerInv, PoolInv, TypeOK, D!TypeOK
    <3>2. c \in sd_list
      BY <2>1, <3>1 DEF RunningAreListed
    <3>3. QED
      BY <2>1, <2>3, <3>2 DEF SweepFails
  <2>4. QED
    BY <1>2, <2>1, <2>3 DEF RunningAreListed
<1>9. CASE Exit
  BY <1>2, <1>9 DEF Exit, Shutdown, RunningAreListed, dockerVars
<1>10. QED
  BY <1>3, <1>4, <1>5, <1>6, <1>7, <1>8, <1>9 DEF ShutdownStep

(***************************************************************************)
(* The steps of everybody else.                                             *)
(***************************************************************************)
LEMMA OthersKeepProgress ==
    ASSUME OwnerInv, Progress, [Next]_vars, UNCHANGED <<sd_pc, sd_list>>
    PROVE  Progress'
<1> USE DEF Progress
<1>1. TypeOK
  BY DEF OwnerInv, PoolInv
<1>2. ASSUME sd_pc \notin {"up", "failed"} PROVE NobodyWaits'
  BY <1>1, <1>2, WaitingStep DEF NobodyWaits
<1>3. ASSUME sd_pc \in {"drop", "list", "sweep", "exited"} PROVE NobodySpawns'
  <2>1. NobodyWaits /\ NobodySpawns /\ ~(Alive /\ ~Aborted)
    BY <1>3 DEF Alive, Aborted
  <2>2. QED
    BY <1>1, <2>1, SpawningStep DEF NobodyWaits, NobodySpawns
<1>4. ASSUME sd_pc \in {"sweep", "exited"} PROVE RunningAreListed'
  BY <1>4, NothingStarts DEF RunningAreListed
<1>5. QED
  BY <1>2, <1>3, <1>4

(***************************************************************************)
(* A graceful shutdown that is not spoilt leaves nothing running, whatever  *)
(* the requests, the background tasks and the daemon were doing when it     *)
(* began.  Spoilt means: the signal met a call of lease_host between its    *)
(* look at shutdown_flag and its lock, or the final sweep failed.           *)
(***************************************************************************)
THEOREM ExitsClean == MCSpec => []CleanExit
<1>1. MCInit => OwnerInv /\ ExitInv
  BY InitOwner DEF MCInit, ExitInv, Progress, Init
<1>2. OwnerInv /\ ExitInv /\ [MCNext]_<<vars, spoilt>> => OwnerInv' /\ ExitInv'
  <2>1. SUFFICES ASSUME OwnerInv, ExitInv, [MCNext]_<<vars, spoilt>>
                 PROVE  OwnerInv' /\ ExitInv'
    OBVIOUS
  <2>2. [Next]_vars
    BY <2>1 DEF MCNext
  <2>3. ASSUME ~spoilt' PROVE Progress'
    <3>1. CASE MCNext
      <4>1. Progress /\ ~UnquietSignal /\ ~SweepFails
        BY <2>1, <2>3, <3>1 DEF MCNext, ExitInv
      <4>2. QED
        BY <2>1, <2>2, <4>1, PhaseMoves, MainProgresses, OthersKeepProgress
    <3>2. CASE UNCHANGED <<vars, spoilt>>
      <4>1. Progress /\ UNCHANGED <<sd_pc, sd_list>>
        BY <2>1, <2>3, <3>2 DEF ExitInv, vars, sdVars
      <4>2. QED
        BY <2>1, <2>2, <4>1, OthersKeepProgress
    <3>3. QED
      BY <2>1, <3>1, <3>2
  <2>4. QED
    BY <2>1, <2>2, <2>3, StepOwner DEF ExitInv
<1>3. ExitInv => CleanExit
  BY DEF ExitInv, Progress, RunningAreListed, CleanExit
<1>4. QED
  BY <1>1, <1>2, <1>3, PTL DEF MCSpec
=============================================================================
