------------------------ MODULE HostLeasePoolProofs ------------------------
(***************************************************************************)
(* Theorems about HostPool: it implements the abstract LeasePool, and no    *)
(* lease is forgotten.                                                      *)
(***************************************************************************)
EXTENDS HostGuardProofs

(***************************************************************************)
(* The mapping needs one more invariant: what the return task remembers     *)
(* names no entry, except while it waits for the mutex to remove it.        *)
(***************************************************************************)
ReturnKept ==
    /\ pc["return"] \in {"idle", "dead"} => lease["return"] = NoLease
    /\ pc["return"] = "inspect" => leased_hosts[lease["return"]] = NoContainer

LEMMA ReturnKeptStep ==
    ASSUME OwnerInv, ReturnKept, [Next]_vars
    PROVE  ReturnKept'
<1>1. /\ {"return", "cleanup", "scale"} \subseteq Tasks /\ Requests \subseteq Tasks
      /\ "return" \notin Requests
  BY PoolAssumption DEF Tasks, Workers
<1>2. TypeOK /\ (pc["return"] \in {"lock", "inspect"} => lease["return"] \in LeaseIds)
  BY DEF OwnerInv, PoolInv, LocalsSet
<1>3. ASSUME pc'["return"] = pc["return"], lease'["return"] = lease["return"]
      PROVE  ReturnKept'
  <2>1. ASSUME pc["return"] = "inspect"
        PROVE  leased_hosts'[lease["return"]] = NoContainer
    <3>1. leased_hosts[lease["return"]] = NoContainer /\ lease["return"] \in LeaseIds
      BY <1>2, <2>1 DEF ReturnKept
    <3>2. \A l \in FreshLeases : l # lease["return"]
      BY <1>1 DEF FreshLeases
    <3>3. \A r \in Requests : pc[r] = "unready" => lease[r] \in LeaseIds
      BY DEF OwnerInv, PoolInv, LocalsSet, Owning
    <3>4. QED
      BY <1>2, <2>1, <3>1, <3>2, <3>3, EntryMoves DEF EntriesMove, EntryGone, TypeOK
  <2>2. QED
    BY <1>3, <2>1 DEF ReturnKept
<1>4. ASSUME NEW u \in Tasks, OnlyMoves(u), u # "return"
      PROVE  ReturnKept'
  BY <1>1, <1>3, <1>4 DEF OnlyMoves
<1>5. CASE \E q \in Requests : RequestStep(q)
  BY <1>1, <1>2, <1>4, <1>5, RequestMoves
<1>6. CASE CleanupStep \/ CleanupDies \/ ScaleStep \/ ScaleDies
  BY <1>1, <1>2, <1>4, <1>6, WorkerMoves
<1>7. CASE \/ ReapExpired \/ ShutdownSignal \/ ServerFails \/ ShutdownStep \/ DropReaped
           \/ Expire \/ PortReturned \/ AutoRemove \/ Crash \/ UNCHANGED vars
  BY <1>3, <1>7, OthersMove
<1>8. CASE ReceiveLease
  BY <1>1, <1>2, <1>8 DEF ReceiveLease, Goto, TypeOK, ReturnKept
<1>9. CASE ReturnTakes
  BY <1>1, <1>2, <1>9 DEF ReturnTakes, Goto, TypeOK, ReturnKept, At
<1>10. CASE ReturnDrops \/ InspectFails \/ ReturnToPool \/ ReturnDies
  BY <1>1, <1>2, <1>10 DEF ReturnDrops, InspectFails, ReturnToPool, ReturnDies, Abandon, Forget,
     Goto, TypeOK, ReturnKept
<1>11. QED
  BY <1>5, <1>6, <1>7, <1>8, <1>9, <1>10
     DEF Next, Terminated, WorkerStep, ReturnStep, WorkerDies

LeaseInv == GuardInv /\ ReturnKept

LEMMA StepLease == LeaseInv /\ [Next]_vars => LeaseInv'
BY StepGuard, ReturnKeptStep DEF LeaseInv, GuardInv

LEMMA InitLease == Init => LeaseInv
BY InitGuard DEF Init, LeaseInv, ReturnKept, Tasks, Workers
-----------------------------------------------------------------------------
(***************************************************************************)
(* The mapped state.  OwnerOf is a function of four sets, none of which     *)
(* meets another except inside Pooled: the hosts in the pool's books.       *)
(***************************************************************************)
Pooled == available_hosts \union LeasedContainers \union Inspected

Owner == [c \in Containers |-> OwnerOf(c)]
Tested == {c \in tested : OwnerOf(c) # "none"}
CallerOf(place) == CASE place = "idle" -> "idle"
                     [] place = "holding" -> "holding"
                     [] OTHER -> "calling"
Caller == [r \in Requests |-> CallerOf(pc[r])]
Phase == CASE sd_pc = "up" -> "up"
           [] sd_pc = "drain" -> "draining"
           [] sd_pc \in {"abort", "collect"} -> "drained"
           [] sd_pc \in {"drop", "list", "sweep"} -> "collected"
           [] OTHER -> "ended"

OwnersKnown ==
    \A c \in Containers :
        /\ OwnerOf(c) \in LP!Places \union Requests
        /\ OwnerOf(c) = "spare" <=> c \in available_hosts
        /\ \A r \in Requests : OwnerOf(c) = r <=> c \in OwnedBy(r)
        /\ OwnerOf(c) = "returning" <=> c \in Returning
        /\ OwnerOf(c) = "none" <=> c \notin Pooled

(* Entries, as a set of containers. *)
LEMMA EntriesOf ==
    ASSUME TypeOK
    PROVE  /\ \A r \in Requests, c \in Containers :
                 pc[r] \in Owning => (c \in OwnedBy(r) <=> leased_hosts[lease[r]] = c)
           /\ \A r \in Requests : pc[r] \notin Owning => OwnedBy(r) = {}
           /\ \A c \in Containers :
                 c \in Returning <=> c \in Inspected \/ \E l \in Released \ {NoLease} : leased_hosts[l] = c
<1>1. lease_chan \in Seq(LeaseIds) /\ \A l \in Range(lease_chan) : l # NoLease
  BY PoolAssumption DEF TypeOK, Range
<1>2. Range(lease_chan) \union ({lease["return"]} \ {NoLease}) = Released \ {NoLease}
  BY <1>1 DEF Released
<1>3. \A c \in Containers : c # NoContainer
  BY PoolAssumption
<1>4. QED
  BY <1>2, <1>3 DEF OwnedBy, Entries, Returning

LEMMA ReleasedIds ==
    ASSUME TypeOK
    PROVE  Released \ {NoLease} \subseteq LeaseIds
<1>1. Range(lease_chan) \subseteq LeaseIds /\ lease["return"] \in LeaseIds \union {NoLease}
  BY DEF TypeOK, Range, Tasks, Workers
<1>2. QED
  BY <1>1 DEF Released

LEMMA Disjoint ==
    ASSUME LeaseInv, NEW c \in Containers
    PROVE  /\ c \in available_hosts => c \notin Owned /\ c \notin Returning /\ c \notin LeasedContainers
           /\ c \in Owned => c \notin Returning /\ c \in LeasedContainers
           /\ c \in Returning => c \in LeasedContainers \union Inspected
           /\ \A q, r \in Requests : c \in OwnedBy(q) /\ c \in OwnedBy(r) => q = r
           /\ c \in Inspected => c \in Returning
<1>1. /\ TypeOK /\ OneOwner /\ LeasesAlone
      /\ \A r \in Requests : pc[r] \in Owning => lease[r] \in LeaseIds
  BY DEF LeaseInv, GuardInv, OwnerInv, PoolInv, LocalsSet
<1>2. \A l \in LeaseIds : leased_hosts[l] = c => l \in Leases /\ c \in LeasedContainers
  BY PoolAssumption DEF Leases, LeasedContainers
<1>3. \A r \in Requests : c \in OwnedBy(r) => pc[r] \in Owning /\ lease[r] \in Leases
                                              /\ leased_hosts[lease[r]] = c
  BY <1>1, <1>2, EntriesOf
<1>4. c \in Returning => c \in Inspected \/ \E l \in Leases : l \in Released /\ leased_hosts[l] = c
  BY <1>1, <1>2, EntriesOf, ReleasedIds
<1>5. \A q, r \in Requests : c \in OwnedBy(q) /\ c \in OwnedBy(r) => q = r
  BY <1>1, <1>3 DEF OneOwner, LeasesAlone
<1>6. c \in Owned => c \notin Returning /\ c \in LeasedContainers
  BY <1>1, <1>2, <1>3, <1>4 DEF OneOwner, LeasesAlone, Owned, LeasedContainers
<1>7. c \in Returning => c \in LeasedContainers \union Inspected
  BY <1>4 DEF LeasedContainers
<1>8. c \in available_hosts => c \notin Owned /\ c \notin Returning /\ c \notin LeasedContainers
  BY <1>1, <1>6, <1>7 DEF OneOwner
<1>9. c \in Inspected => c \in Returning
  BY <1>1, EntriesOf
<1>10. QED
  BY <1>5, <1>6, <1>7, <1>8, <1>9

LEMMA OwnersAre == LeaseInv => OwnersKnown
<1> SUFFICES ASSUME LeaseInv, NEW c \in Containers
             PROVE  /\ OwnerOf(c) \in LP!Places \union Requests
                    /\ OwnerOf(c) = "spare" <=> c \in available_hosts
                    /\ \A r \in Requests : OwnerOf(c) = r <=> c \in OwnedBy(r)
                    /\ OwnerOf(c) = "returning" <=> c \in Returning
                    /\ OwnerOf(c) = "none" <=> c \notin Pooled
  BY DEF OwnersKnown
<1> USE DEF LP!Places
<1>1. /\ c \in available_hosts => c \notin Owned /\ c \notin Returning /\ c \notin LeasedContainers
      /\ c \in Owned => c \notin Returning /\ c \in LeasedContainers
      /\ c \in Returning => c \in LeasedContainers \union Inspected
      /\ c \in Inspected => c \in Returning
  BY Disjoint
<1>2. \A q, r \in Requests : c \in OwnedBy(q) /\ c \in OwnedBy(r) => q = r
  BY Disjoint
<1>3. \A r \in Requests : c \in OwnedBy(r) => c \in Owned
  BY DEF Owned
<1>4. \A r \in Requests : r \notin {"spare", "returning", "stray", "none"}
  BY PlacesAssumption
<1>5. CASE c \in available_hosts
  <2>1. OwnerOf(c) = "spare"
    BY <1>1, <1>5 DEF OwnerOf
  <2>2. QED
    BY <1>1, <1>3, <1>4, <1>5, <2>1 DEF Pooled
<1>6. CASE c \in Owned
  <2>1. PICK r \in Requests : c \in OwnedBy(r)
    BY <1>6 DEF Owned
  <2>2. (CHOOSE q \in Requests : c \in OwnedBy(q)) = r
    BY <1>2, <2>1
  <2>3. OwnerOf(c) = r
    BY <1>1, <1>6, <2>2 DEF OwnerOf
  <2>4. QED
    BY <1>1, <1>2, <1>3, <1>4, <1>6, <2>1, <2>3 DEF Pooled
<1>7. CASE c \in Returning
  <2>1. OwnerOf(c) = "returning"
    BY <1>1, <1>7 DEF OwnerOf
  <2>2. QED
    BY <1>1, <1>3, <1>4, <1>7, <2>1 DEF Pooled
<1>8. CASE c \in LeasedContainers \ (Owned \union Returning)
  <2>1. OwnerOf(c) = "stray"
    BY <1>1, <1>8 DEF OwnerOf
  <2>2. QED
    BY <1>1, <1>3, <1>4, <1>8, <2>1 DEF Pooled
<1>9. CASE c \notin available_hosts \union LeasedContainers \union Owned \union Returning
  <2>1. OwnerOf(c) = "none"
    BY <1>9 DEF OwnerOf
  <2>2. QED
    BY <1>1, <1>3, <1>4, <1>9, <2>1 DEF Pooled
<1>10. QED
  BY <1>5, <1>6, <1>7, <1>8, <1>9

(* The same of the next state. *)
LEMMA OwnersAreNext == LeaseInv' => OwnersKnown'
BY OwnersAre, PTL
-----------------------------------------------------------------------------
(***************************************************************************)
(* How the mapped state changes.                                            *)
(***************************************************************************)
(* The containers cs come to have the owner place, and all others keep theirs. *)
MovesTo(cs, place) ==
    /\ available_hosts' = (available_hosts \ cs) \union (IF place = "spare" THEN cs ELSE {})
    /\ \A r \in Requests : OwnedBy(r)' = (OwnedBy(r) \ cs) \union (IF place = r THEN cs ELSE {})
    /\ Returning' = (Returning \ cs) \union (IF place = "returning" THEN cs ELSE {})
    /\ Pooled' = IF place = "none" THEN Pooled \ cs ELSE Pooled \union cs

TestedPooled == Tested = tested \intersect Pooled

LEMMA TestedIs == OwnersKnown /\ TypeOK => TestedPooled
BY DEF OwnersKnown, Tested, TypeOK, TestedPooled

LEMMA TestedIsNext == OwnersKnown' /\ TypeOK' => TestedPooled'
BY TestedIs, PTL

LEMMA MoveOwner ==
    ASSUME LeaseInv, LeaseInv', NEW cs \in SUBSET Containers,
           NEW place \in LP!Places \union Requests, MovesTo(cs, place)
    PROVE  /\ Owner' = [c \in Containers |-> IF c \in cs THEN place ELSE Owner[c]]
           /\ Tested = tested \intersect Pooled /\ Tested' = tested' \intersect Pooled'
<1> USE DEF LP!Places
<1>1. OwnersKnown /\ OwnersKnown' /\ TypeOK /\ TypeOK'
  BY OwnersAre, OwnersAreNext DEF LeaseInv, GuardInv, OwnerInv, PoolInv
<1>2. \A r \in Requests : r \notin {"spare", "returning", "stray", "none"}
  BY PlacesAssumption
<1>3. ASSUME NEW c \in Containers
      PROVE  OwnerOf(c)' = IF c \in cs THEN place ELSE OwnerOf(c)
  <2> DEFINE now == OwnerOf(c)
             next == OwnerOf(c)'
  <2>1. /\ now \in LP!Places \union Requests
        /\ now = "spare" <=> c \in available_hosts
        /\ \A r \in Requests : now = r <=> c \in OwnedBy(r)
        /\ now = "returning" <=> c \in Returning
        /\ now = "none" <=> c \notin Pooled
    BY <1>1 DEF OwnersKnown
  <2>2. /\ next \in LP!Places \union Requests
        /\ next = "spare" <=> c \in available_hosts'
        /\ \A r \in Requests : next = r <=> c \in OwnedBy(r)'
        /\ next = "returning" <=> c \in Returning'
        /\ next = "none" <=> c \notin Pooled'
    BY <1>1 DEF OwnersKnown
  <2> HIDE DEF now, next
  <2>3. CASE c \in cs
    BY <1>2, <2>2, <2>3 DEF MovesTo, next
  <2>4. CASE c \notin cs
    <3>1. /\ c \in available_hosts' <=> c \in available_hosts
          /\ \A r \in Requests : c \in OwnedBy(r)' <=> c \in OwnedBy(r)
          /\ c \in Returning' <=> c \in Returning
          /\ c \in Pooled' <=> c \in Pooled
      BY <2>4 DEF MovesTo
    <3>2. next = now
      BY <1>2, <2>1, <2>2, <3>1
    <3>3. QED
      BY <2>4, <3>2 DEF now, next
  <2>5. QED
    BY <2>3, <2>4
<1>4. Owner' = [c \in Containers |-> IF c \in cs THEN place ELSE Owner[c]]
  BY <1>3 DEF Owner
<1>5. QED
  BY <1>1, <1>4, TestedIs, TestedIsNext DEF TestedPooled

(* ... and keep or lose what is known of their health. *)
LEMMA MoveRefines ==
    ASSUME LeaseInv, LeaseInv', NEW cs \in SUBSET Containers,
           NEW place \in LP!Places \union Requests, MovesTo(cs, place),
           tested' \intersect Pooled' = (tested \intersect Pooled) \ (IF place = "none" THEN cs ELSE {})
    PROVE  LP!Move(cs, place)
BY MoveOwner DEF LP!Move, Owner, Tested

(* Nobody moves: the mapped owners stay. *)
LEMMA NoMove ==
    ASSUME LeaseInv, LeaseInv', UNCHANGED <<available_hosts, Returning, Pooled>>,
           \A r \in Requests : OwnedBy(r)' = OwnedBy(r)
    PROVE  Owner' = Owner /\ Tested = tested \intersect Pooled /\ Tested' = tested' \intersect Pooled
<1>1. MovesTo({}, "stray")
  BY DEF MovesTo
<1>2. QED
  BY <1>1, MoveOwner DEF LP!Places, Owner

(* What LeasePool sees of the callers and of the process. *)
LEMMA CallerMoves ==
    ASSUME NEW r \in Requests, OnlyMoves(r)
    PROVE  Caller' = [Caller EXCEPT ![r] = CallerOf(pc'[r])]
BY DEF OnlyMoves, Caller, Tasks

LEMMA CallerStays ==
    ASSUME NEW t \in Tasks \ Requests, OnlyMoves(t)
    PROVE  Caller' = Caller
BY DEF OnlyMoves, Caller, Tasks

LEMMA LeaseSets ==
    ASSUME LeaseInv
    PROVE  /\ LP!At("spare") = available_hosts
           /\ LP!At("returning") = Returning
           /\ \A r \in Requests : LP!At(r) = OwnedBy(r)
           /\ LP!Hosts = Pooled
           /\ Pooled \subseteq Containers /\ Returning \subseteq Containers
           /\ \A r \in Requests : OwnedBy(r) \subseteq Containers
<1>1. OwnersKnown
  BY OwnersAre
<1>2. available_hosts \subseteq Containers /\ LeasedContainers \subseteq Containers
      /\ Inspected \subseteq Containers /\ \A l \in LeaseIds : leased_hosts[l] \in Containers \union {NoContainer}
  BY DEF LeaseInv, GuardInv, OwnerInv, PoolInv, TypeOK, LocalsSet, LeasedContainers, Leases, Inspected, At
<1>3. \A r \in Requests : OwnedBy(r) \subseteq Containers
  BY <1>2 DEF OwnedBy, Entries, LeaseInv, GuardInv, OwnerInv, PoolInv, LocalsSet
<1>4. Returning \subseteq Containers
  <2>1. lease_chan \in Seq(LeaseIds) /\ lease["return"] \in LeaseIds \union {NoLease}
    BY DEF LeaseInv, GuardInv, OwnerInv, PoolInv, TypeOK, Tasks, Workers
  <2>2. Range(lease_chan) \subseteq LeaseIds
    BY <2>1 DEF Range
  <2>3. QED
    BY <1>2, <2>1, <2>2 DEF Returning, Entries
<1>5. QED
  BY <1>1, <1>2, <1>3, <1>4 DEF OwnersKnown, LP!At, LP!Hosts, Pooled

(* Whatever has an owner is pooled. *)
OwnedPooled == Returning \subseteq Pooled /\ \A r \in Requests : OwnedBy(r) \subseteq Pooled

LEMMA OwnedArePooled == LeaseInv => OwnedPooled
<1> SUFFICES ASSUME LeaseInv
             PROVE  OwnedPooled
  OBVIOUS
<1>1. /\ Returning \subseteq Containers
      /\ \A r \in Requests : OwnedBy(r) \subseteq Containers /\ OwnedBy(r) \subseteq Owned
  BY LeaseSets DEF Owned
<1>2. QED
  BY <1>1, Disjoint DEF OwnedPooled, Pooled

LEMMA OwnedPooledNext == LeaseInv' => OwnedPooled'
BY OwnedArePooled, PTL
-----------------------------------------------------------------------------
(***************************************************************************)
(* The steps of a request.                                                  *)
(***************************************************************************)
(* A request whose lease, if any, stays where it is. *)
LEMMA RequestKeeps ==
    ASSUME LeaseInv, LeaseInv', NEW r \in Requests, OnlyMoves(r), OwnedBy(r)' = OwnedBy(r),
           UNCHANGED <<available_hosts, leased_hosts, lease_chan>>
    PROVE  Owner' = Owner /\ Tested = tested \intersect Pooled /\ Tested' = tested' \intersect Pooled
<1>1. /\ Requests \subseteq Tasks /\ "return" \in Tasks /\ r # "return"
  BY PoolAssumption DEF Tasks, Workers
<1>2. \A q \in Requests : OwnedBy(q)' = OwnedBy(q)
  <2>1. \A q \in Requests \ {r} : OwnedBy(q)' = OwnedBy(q)
    BY <1>1 DEF OnlyMoves, OwnedBy, Entries
  <2>2. QED
    BY <2>1
<1>3. Inspected' = Inspected /\ Returning' = Returning
  BY <1>1 DEF OnlyMoves, Inspected, At, Returning, Entries
<1>4. Pooled' = Pooled
  BY <1>3 DEF Pooled, LeasedContainers, Leases
<1>5. QED
  BY <1>2, <1>3, <1>4, NoMove

(* A request that owns no lease before or after. *)
LEMMA RequestWithout ==
    ASSUME LeaseInv, LeaseInv', NEW r \in Requests, OnlyMoves(r),
           pc[r] \notin Owning, pc'[r] \notin Owning,
           UNCHANGED <<available_hosts, leased_hosts, lease_chan, tested>>
    PROVE  Owner' = Owner /\ Tested' = Tested /\ LP!At(r) = {}
<1>1. OwnedBy(r) = {} /\ OwnedBy(r)' = {}
  BY DEF OwnedBy
<1>2. QED
  BY <1>1, RequestKeeps, LeaseSets

LEMMA SpawnRefines ==
    ASSUME LeaseInv, LeaseInv', NEW r \in Requests, SpawnStep(r)
    PROVE  LP!Refuse(r) \/ UNCHANGED LP!vars
<1> USE DEF poolVars, hostVars, chanVars, sdVars
<1>1. TypeOK /\ r \in Spawners /\ r \in Tasks /\ r # "scale"
  BY PoolAssumption DEF LeaseInv, GuardInv, OwnerInv, PoolInv, Spawners, Tasks, Workers
<1>2. OnlyMoves(r)
  BY <1>1, SpawnMoves
<1>3. UNCHANGED <<available_hosts, leased_hosts, lease_chan, tested, sd_pc>>
  BY DEF SpawnStep, AllocatePort, NoAvailablePorts, CreateContainer, CreateFails,
     StartContainer, StartRefused, StartReplyLost, SpawnFailed
<1>4. pc[r] \in SpawnPlaces /\ pc'[r] \in SpawnPlaces \union {"idle"}
  BY <1>1 DEF TypeOK, SpawnStep, AllocatePort, NoAvailablePorts, CreateContainer, CreateFails,
     StartContainer, StartRefused, StartReplyLost, SpawnFailed, Goto, At, SpawnPlaces
<1>5. Owner' = Owner /\ Tested' = Tested /\ LP!At(r) = {}
  BY <1>2, <1>3, <1>4, RequestWithout DEF SpawnPlaces, Owning
<1>6. Caller' = [Caller EXCEPT ![r] = CallerOf(pc'[r])] /\ Caller[r] = "calling"
  BY <1>2, <1>4, CallerMoves DEF Caller, CallerOf, SpawnPlaces
<1>7. Phase' = Phase
  BY <1>3 DEF Phase
<1>8. CASE pc'[r] = "idle"
  <2>1. CallerOf(pc'[r]) = "idle"
    BY <1>8 DEF CallerOf
  <2>2. QED
    BY <1>5, <1>6, <1>7, <2>1 DEF LP!Refuse, LP!Become, Owner, Tested, Caller, CallerOf, Phase
<1>9. CASE pc'[r] \in SpawnPlaces
  <2>1. CallerOf(pc'[r]) = "calling"
    BY <1>9 DEF CallerOf, SpawnPlaces
  <2>2. Caller' = Caller
    BY <1>6, <2>1 DEF Caller
  <2>3. QED
    BY <1>5, <1>7, <2>2 DEF LP!vars, Owner, Tested, Caller, CallerOf, Phase
<1>10. QED
  BY <1>4, <1>8, <1>9

LEMMA CallsRefine ==
    ASSUME LeaseInv, LeaseInv', NEW r \in Requests, RequestStep(r),
           LeaseHost(r) \/ MaxInstancesReached(r) \/ SpawnForLease(r) \/ HealthWait(r) \/ InvalidLease(r)
    PROVE  LP!Call(r) \/ LP!Refuse(r) \/ UNCHANGED LP!vars
<1> USE DEF poolVars, hostVars, chanVars, sdVars, localVars
<1>1. TypeOK /\ OnlyMoves(r) /\ r \in Tasks
  BY RequestMoves DEF LeaseInv, GuardInv, OwnerInv, PoolInv, Tasks
<1>2. UNCHANGED <<available_hosts, leased_hosts, lease_chan, tested, sd_pc>>
  BY DEF LeaseHost, MaxInstancesReached, SpawnForLease, HealthWait, InvalidLease
<1>3. Caller' = [Caller EXCEPT ![r] = CallerOf(pc'[r])] /\ Phase' = Phase
  BY <1>1, <1>2, CallerMoves DEF Phase
<1>4. CASE LeaseHost(r) \/ MaxInstancesReached(r) \/ SpawnForLease(r)
  <2>1. Owner' = Owner /\ Tested' = Tested /\ LP!At(r) = {}
    <3>1. pc[r] \notin Owning /\ pc'[r] \notin Owning
      BY <1>1, <1>4 DEF LeaseHost, MaxInstancesReached, SpawnForLease, TypeOK, Goto, At, Owning
    <3>2. QED
      BY <1>1, <1>2, <3>1, RequestWithout
  <2>2. CASE LeaseHost(r)
    <3>1. Caller[r] = "idle" /\ CallerOf(pc'[r]) = "calling" /\ Phase = "up"
      BY <1>1, <2>2 DEF LeaseHost, ShuttingDown, TypeOK, Goto, At, Caller, CallerOf, Phase
    <3>2. QED
      BY <1>3, <2>1, <3>1 DEF LP!Call, LP!Become, Owner, Tested, Caller, CallerOf, Phase
  <2>3. CASE MaxInstancesReached(r)
    <3>1. Caller[r] = "calling" /\ CallerOf(pc'[r]) = "idle"
      BY <1>1, <2>3 DEF MaxInstancesReached, TypeOK, Goto, At, Caller, CallerOf
    <3>2. QED
      BY <1>3, <2>1, <3>1 DEF LP!Refuse, LP!Become, Owner, Tested, Caller, CallerOf, Phase
  <2>4. CASE SpawnForLease(r)
    <3>1. Caller[r] = "calling" /\ CallerOf(pc'[r]) = "calling"
      BY <1>1, <2>4 DEF SpawnForLease, TypeOK, Goto, At, Caller, CallerOf
    <3>2. Caller' = Caller
      BY <1>3, <3>1 DEF Caller
    <3>3. QED
      BY <1>3, <2>1, <3>2 DEF LP!vars, Owner, Tested, Caller, CallerOf, Phase
  <2>5. QED
    BY <1>4, <2>2, <2>3, <2>4
<1>5. CASE HealthWait(r)
  <2>1. pc[r] \in Owning /\ pc'[r] \in Owning /\ lease'[r] = lease[r]
    BY <1>1, <1>5 DEF HealthWait, TypeOK, Goto, At, Owning
  <2>2. OwnedBy(r)' = OwnedBy(r)
    BY <1>2, <2>1 DEF OwnedBy, Entries
  <2>3. Owner' = Owner /\ Tested' = Tested
    BY <1>1, <1>2, <2>2, RequestKeeps
  <2>4. Caller[r] = "calling" /\ CallerOf(pc'[r]) = "calling"
    BY <1>1, <1>5 DEF HealthWait, TypeOK, Goto, At, Caller, CallerOf
  <2>5. Caller' = Caller
    BY <1>3, <2>4 DEF Caller
  <2>6. QED
    BY <1>3, <2>3, <2>5 DEF LP!vars, Owner, Tested, Caller, CallerOf, Phase
<1>6. CASE InvalidLease(r)
  <2>1. pc[r] = "ready" /\ pc'[r] = "idle" /\ leased_hosts[lease[r]] = NoContainer
    BY <1>1, <1>6 DEF InvalidLease, TypeOK, Goto, At
  <2>2. OwnedBy(r) = {} /\ OwnedBy(r)' = {}
    BY <2>1 DEF OwnedBy, Entries, Owning
  <2>3. Owner' = Owner /\ Tested' = Tested /\ LP!At(r) = {}
    BY <1>1, <1>2, <2>2, RequestKeeps, LeaseSets
  <2>4. Caller[r] = "calling" /\ CallerOf(pc'[r]) = "idle"
    BY <2>1 DEF Caller, CallerOf
  <2>5. QED
    BY <1>3, <2>3, <2>4 DEF LP!Refuse, LP!Become, Owner, Tested, Caller, CallerOf, Phase
<1>7. QED
  BY <1>4, <1>5, <1>6

LEMMA MarkRefines ==
    ASSUME LeaseInv, LeaseInv', NEW r \in Requests, RequestStep(r), MarkTested(r)
    PROVE  LP!Ready(r)
<1> USE DEF poolVars, hostVars, chanVars, sdVars, localVars
<1>1. TypeOK /\ OnlyMoves(r) /\ r \in Tasks
  BY RequestMoves DEF LeaseInv, GuardInv, OwnerInv, PoolInv, Tasks
<1>2. /\ pc[r] = "ready" /\ pc'[r] = "holding" /\ lease'[r] = lease[r]
      /\ leased_hosts[lease[r]] # NoContainer
      /\ tested' = tested \union {leased_hosts[lease[r]]}
      /\ UNCHANGED <<available_hosts, leased_hosts, lease_chan, sd_pc>>
  BY <1>1 DEF MarkTested, TypeOK, Goto, At
<1>3. OwnedBy(r) = {leased_hosts[lease[r]]} /\ OwnedBy(r)' = OwnedBy(r)
  BY <1>2 DEF OwnedBy, Entries, Owning
<1>4. leased_hosts[lease[r]] \in Pooled
  <2>1. lease[r] \in Leases
    BY <1>2 DEF Leases, LeaseInv, GuardInv, OwnerInv, PoolInv, LocalsSet, Owning
  <2>2. QED
    BY <2>1 DEF Pooled, LeasedContainers
<1>5. /\ Owner' = Owner /\ Tested = tested \intersect Pooled
      /\ Tested' = tested' \intersect Pooled
  BY <1>1, <1>2, <1>3, RequestKeeps
<1>6. Tested' = Tested \union LP!At(r) /\ LP!At(r) # {}
  BY <1>2, <1>3, <1>4, <1>5, LeaseSets
<1>7. /\ Caller' = [Caller EXCEPT ![r] = "holding"]
      /\ Caller[r] = "calling" /\ Phase' = Phase
  BY <1>1, <1>2, CallerMoves DEF Caller, CallerOf, Phase
<1>8. QED
  BY <1>5, <1>6, <1>7 DEF LP!Ready, LP!Become, Owner, Tested, Caller, CallerOf, Phase

(* A request that stays where it is keeps what it owns. *)
LEMMA OwnedStays ==
    ASSUME NEW q \in Requests, pc'[q] = pc[q], lease'[q] = lease[q],
           pc[q] \in Owning => leased_hosts'[lease[q]] = leased_hosts[lease[q]]
    PROVE  OwnedBy(q)' = OwnedBy(q)
<1>1. CASE pc[q] \in Owning
  <2>1. OwnedBy(q) = {leased_hosts[lease[q]]} \ {NoContainer}
    BY <1>1 DEF OwnedBy, Entries
  <2>2. OwnedBy(q)' = {leased_hosts'[lease'[q]]} \ {NoContainer}
    BY <1>1 DEF OwnedBy, Entries
  <2>3. QED
    BY <1>1, <2>1, <2>2
<1>2. CASE pc[q] \notin Owning
  BY <1>2 DEF OwnedBy
<1>3. QED
  BY <1>1, <1>2

(* What one request owns is nobody else's. *)
LEMMA OwnedApart ==
    ASSUME LeaseInv, NEW r \in Requests
    PROVE  /\ OwnedBy(r) \in SUBSET Containers /\ OwnedBy(r) \subseteq LeasedContainers
           /\ OwnedBy(r) \intersect available_hosts = {} /\ OwnedBy(r) \intersect Returning = {}
           /\ \A q \in Requests \ {r} : OwnedBy(q) \intersect OwnedBy(r) = {}
<1>1. OwnedBy(r) \subseteq Containers /\ OwnedBy(r) \subseteq Owned
  BY LeaseSets DEF Owned
<1>2. \A c \in OwnedBy(r) :
        /\ c \notin available_hosts /\ c \notin Returning /\ c \in LeasedContainers
        /\ \A q \in Requests : c \in OwnedBy(q) => q = r
  BY <1>1, Disjoint
<1>3. QED
  BY <1>1, <1>2

(* A request lets go of its entry, without removing it. *)
LEMMA LetsGo ==
    ASSUME LeaseInv, LeaseInv', NEW r \in Requests, OnlyMoves(r), pc'[r] \notin Owning,
           UNCHANGED <<available_hosts, leased_hosts, tested>>,
           NEW place \in {"returning", "stray"},
           Returning' = Returning \union (IF place = "returning" THEN OwnedBy(r) ELSE {})
    PROVE  LP!Move(LP!At(r), place)
<1>1. /\ Requests \subseteq Tasks /\ "return" \in Tasks /\ r # "return"
  BY PoolAssumption DEF Tasks, Workers
<1>2. \A q \in Requests \ {r} : OwnedBy(q)' = OwnedBy(q)
  BY <1>1, OwnedStays DEF OnlyMoves
<1>3. OwnedBy(r)' = {}
  BY DEF OwnedBy
<1>4. Inspected' = Inspected /\ Pooled' = Pooled
  <2>1. Inspected' = Inspected
    BY <1>1 DEF OnlyMoves, Inspected, At
  <2>2. QED
    BY <2>1 DEF Pooled, LeasedContainers, Leases
<1>5. OwnedBy(r) \subseteq Pooled
  BY OwnedApart DEF Pooled
<1>6. \A q \in Requests : q \notin {"returning", "stray", "spare", "none"}
  BY PlacesAssumption DEF LP!Places
<1>7. MovesTo(OwnedBy(r), place)
  <2>1. available_hosts' = (available_hosts \ OwnedBy(r)) \union (IF place = "spare" THEN OwnedBy(r) ELSE {})
    BY OwnedApart
  <2>2. \A q \in Requests :
          OwnedBy(q)' = (OwnedBy(q) \ OwnedBy(r)) \union (IF place = q THEN OwnedBy(r) ELSE {})
    <3>1. \A q \in Requests \ {r} : OwnedBy(q)' = OwnedBy(q) \ OwnedBy(r)
      BY <1>2, OwnedApart
    <3>2. OwnedBy(r)' = OwnedBy(r) \ OwnedBy(r)
      BY <1>3
    <3>3. QED
      BY <1>6, <3>1, <3>2
  <2>3. Returning' = (Returning \ OwnedBy(r)) \union (IF place = "returning" THEN OwnedBy(r) ELSE {})
    BY OwnedApart
  <2>4. Pooled' = IF place = "none" THEN Pooled \ OwnedBy(r) ELSE Pooled \union OwnedBy(r)
    BY <1>4, <1>5
  <2>5. QED
    BY <2>1, <2>2, <2>3, <2>4 DEF MovesTo
<1>8. tested' \intersect Pooled' = tested \intersect Pooled
  BY <1>4
<1>9. LP!Move(OwnedBy(r), place)
  <2>1. OwnedBy(r) \in SUBSET Containers /\ place \in LP!Places \union Requests
    BY OwnedApart DEF LP!Places
  <2>2. tested' \intersect Pooled'
          = (tested \intersect Pooled) \ (IF place = "none" THEN OwnedBy(r) ELSE {})
    BY <1>8
  <2>3. QED
    BY <1>7, <2>1, <2>2, MoveRefines
<1>10. QED
  BY <1>9, LeaseSets

(* The release of a lease is on its way, or lost if the channel is full or closed. *)
LEMMA DropMoves ==
    ASSUME LeaseInv, LeaseInv', NEW r \in Requests, RequestStep(r), DropLease(r)
    PROVE  /\ lease_chan' = lease_chan => LP!Move(LP!At(r), "stray")
           /\ lease_chan' = Append(lease_chan, lease[r]) => LP!Move(LP!At(r), "returning")
<1> USE DEF poolVars, hostVars, chanVars, sdVars, localVars
<1>1. /\ TypeOK /\ OnlyMoves(r) /\ r \in Tasks /\ lease_chan \in Seq(LeaseIds)
      /\ "return" \in Tasks /\ r # "return"
  BY RequestMoves, PoolAssumption DEF LeaseInv, GuardInv, OwnerInv, PoolInv, Tasks, Workers, TypeOK
<1>2. /\ pc[r] = "holding" /\ pc'[r] = "idle" /\ lease[r] \in LeaseIds
      /\ UNCHANGED <<available_hosts, leased_hosts, tested, sd_pc>>
  BY <1>1 DEF DropLease, TypeOK, Goto, At, LeaseInv, GuardInv, OwnerInv, PoolInv, LocalsSet, Owning
<1>3. lease'["return"] = lease["return"] /\ Inspected' = Inspected
  BY <1>1 DEF OnlyMoves, Inspected, At
<1>4. OwnedBy(r) = Entries({lease[r]})
  BY <1>2 DEF OwnedBy, Owning
<1>5. ASSUME lease_chan' = lease_chan
      PROVE  LP!Move(LP!At(r), "stray")
  <2>1. Returning' = Returning
    BY <1>2, <1>3, <1>5 DEF Returning, Entries
  <2>2. QED
    BY <1>1, <1>2, <2>1, LetsGo DEF Owning
<1>6. ASSUME lease_chan' = Append(lease_chan, lease[r])
      PROVE  LP!Move(LP!At(r), "returning")
  <2>1. Range(lease_chan') = Range(lease_chan) \union {lease[r]}
    BY <1>1, <1>2, <1>6, AppendRange
  <2>2. Returning' = Returning \union OwnedBy(r)
    BY <1>2, <1>3, <1>4, <2>1 DEF Returning, Entries
  <2>3. QED
    BY <1>1, <1>2, <2>2, LetsGo DEF Owning
<1>7. QED
  BY <1>5, <1>6

LEMMA DropRefines ==
    ASSUME LeaseInv, LeaseInv', NEW r \in Requests, RequestStep(r), DropLease(r)
    PROVE  LP!GiveBack(r)
<1> USE DEF poolVars, hostVars, chanVars, sdVars, localVars
<1>1. TypeOK /\ OnlyMoves(r) /\ r \in Tasks
  BY RequestMoves DEF LeaseInv, GuardInv, OwnerInv, PoolInv, Tasks
<1>2. pc[r] = "holding" /\ pc'[r] = "idle" /\ sd_pc' = sd_pc
  BY <1>1 DEF DropLease, TypeOK, Goto, At
<1>3. LP!Move(LP!At(r), "returning") \/ LP!Move(LP!At(r), "stray")
  BY DropMoves DEF DropLease, TrySend
<1>4. QED
  BY <1>1, <1>2, <1>3, CallerMoves DEF LP!GiveBack, LP!Become, Caller, CallerOf, Phase

LEMMA CancelRefines ==
    ASSUME LeaseInv, LeaseInv', NEW r \in Requests, RequestStep(r), Cancel(r)
    PROVE  LP!HangUp(r)
<1> USE DEF poolVars, hostVars, chanVars, sdVars, localVars
<1>1. TypeOK /\ OnlyMoves(r) /\ r \in Tasks /\ "return" \in Tasks /\ r # "return"
  BY RequestMoves, PoolAssumption DEF LeaseInv, GuardInv, OwnerInv, PoolInv, Tasks, Workers
<1>2. /\ pc[r] \notin {"idle", "holding"} /\ pc'[r] = "idle"
      /\ UNCHANGED <<available_hosts, leased_hosts, lease_chan, tested, sd_pc>>
  BY <1>1 DEF Cancel, Abandon, TypeOK, Goto
<1>3. Returning' = Returning
  BY <1>1, <1>2 DEF OnlyMoves, Inspected, At, Returning, Entries
<1>4. LP!Move(LP!At(r), "stray")
  BY <1>1, <1>2, <1>3, LetsGo DEF Owning
<1>5. QED
  BY <1>1, <1>2, <1>4, CallerMoves DEF LP!HangUp, LP!Become, Caller, CallerOf, Phase

(* The entry of a released lease, or of an unready host, is removed and its host dropped. *)
LEMMA NotReadyRefines ==
    ASSUME LeaseInv, LeaseInv', NEW r \in Requests, RequestStep(r), ContainerNotReady(r)
    PROVE  LP!NotReady(r) \/ LP!Refuse(r)
<1> USE DEF poolVars, hostVars, chanVars, sdVars, localVars
<1>1. TypeOK /\ OnlyMoves(r) /\ r \in Tasks /\ "return" \in Tasks /\ r # "return" /\ OneOwner
  BY RequestMoves, PoolAssumption DEF LeaseInv, GuardInv, OwnerInv, PoolInv, Tasks, Workers
<1>2. /\ pc[r] = "unready" /\ pc'[r] = "idle" /\ lease[r] \in LeaseIds
      /\ RemoveAndDrop(lease[r])
      /\ UNCHANGED <<available_hosts, lease_chan, sd_pc>>
  BY <1>1 DEF ContainerNotReady, TypeOK, Goto, At, LeaseInv, GuardInv, OwnerInv, PoolInv, LocalsSet, Owning
<1>3. /\ Caller' = [Caller EXCEPT ![r] = "idle"]
      /\ Caller[r] = "calling" /\ Phase' = Phase
  BY <1>1, <1>2, CallerMoves DEF Caller, CallerOf, Phase
<1>4. OwnedBy(r) = {leased_hosts[lease[r]]} \ {NoContainer} /\ OwnedBy(r)' = {}
  BY <1>2 DEF OwnedBy, Entries, Owning
<1>5. CASE leased_hosts[lease[r]] = NoContainer
  <2>1. leased_hosts' = leased_hosts /\ tested' = tested
    BY <1>1, <1>2, <1>5 DEF RemoveAndDrop, TypeOK
  <2>2. Owner' = Owner /\ Tested' = Tested /\ LP!At(r) = {}
    BY <1>1, <1>2, <1>4, <1>5, <2>1, RequestKeeps, LeaseSets
  <2>3. QED
    BY <1>3, <2>2 DEF LP!Refuse, LP!Become, Owner, Tested, Caller, CallerOf, Phase
<1>6. CASE leased_hosts[lease[r]] # NoContainer
  <2>1. PICK c \in Containers : c = leased_hosts[lease[r]]
    BY <1>1, <1>2, <1>6 DEF TypeOK
  <2>2. /\ leased_hosts' = [leased_hosts EXCEPT ![lease[r]] = NoContainer]
        /\ tested' = tested \ {c}
    BY <1>2, <1>6, <2>1 DEF RemoveAndDrop, DropHost
  <2>3. OwnedBy(r) = {c}
    BY <1>4, <1>6, <2>1
  <2>4. /\ c \notin available_hosts /\ c \notin Returning /\ c \notin Inspected
        /\ \A q \in Requests \ {r} : c \notin OwnedBy(q)
    BY <2>1, <2>3, OwnedApart, Disjoint
  <2>5. \A q \in Requests \ {r} : OwnedBy(q)' = OwnedBy(q)
    <3>1. \A q \in Requests \ {r} : pc[q] \in Owning => lease[q] # lease[r] /\ lease[q] \in LeaseIds
      BY <1>2 DEF LeaseInv, GuardInv, LeasesAlone, Owning, OwnerInv, PoolInv, LocalsSet
    <3>2. \A q \in Requests \ {r} : pc'[q] = pc[q] /\ lease'[q] = lease[q]
      BY <1>1 DEF OnlyMoves, Tasks
    <3>3. \A q \in Requests \ {r} :
            pc[q] \in Owning => leased_hosts'[lease[q]] = leased_hosts[lease[q]]
      BY <1>1, <2>2, <3>1 DEF TypeOK
    <3>4. QED
      BY <3>2, <3>3, OwnedStays
  <2>6. Inspected' = Inspected /\ Returning' = Returning
    <3>1. lease'["return"] = lease["return"] /\ Inspected' = Inspected
      BY <1>1 DEF OnlyMoves, Inspected, At
    <3>2. lease[r] \notin Released /\ Released \ {NoLease} \subseteq LeaseIds
      BY <1>1, <1>2, ReleasedIds DEF LeaseInv, GuardInv, LeasesAlone, Owning
    <3>3. Range(lease_chan) \union ({lease["return"]} \ {NoLease}) \subseteq LeaseIds \ {lease[r]}
      BY <1>1, <3>2, PoolAssumption DEF Released, TypeOK, Range
    <3>4. \A l \in LeaseIds \ {lease[r]} : leased_hosts'[l] = leased_hosts[l]
      BY <1>1, <2>2 DEF TypeOK
    <3>5. QED
      BY <1>2, <3>1, <3>3, <3>4 DEF Returning, Entries
  <2>7. Pooled' = Pooled \ {c}
    <3>1. LeasedContainers' = LeasedContainers \ {c}
      BY <1>1, <1>2, <2>1, <2>2, LeasedRemove
    <3>2. QED
      BY <1>2, <2>4, <2>6, <3>1 DEF Pooled
  <2>8. MovesTo({c}, "none")
    <3>1. \A q \in Requests : OwnedBy(q)' = OwnedBy(q) \ {c} /\ "none" # q
      BY <1>4, <2>3, <2>4, <2>5, PlacesAssumption DEF LP!Places
    <3>2. QED
      BY <1>2, <2>4, <2>6, <2>7, <3>1 DEF MovesTo
  <2>9. LP!Move({c}, "none")
    BY <2>2, <2>7, <2>8, MoveRefines DEF LP!Places
  <2>10. LP!At(r) = {c}
    BY <2>3, LeaseSets
  <2>11. QED
    BY <1>3, <2>9, <2>10 DEF LP!NotReady, LP!Become, Caller, CallerOf, Phase
<1>7. QED
  BY <1>5, <1>6

(* A host is put under a fresh lease id. *)
LEMMA InsertMoves ==
    ASSUME LeaseInv, LeaseInv', NEW r \in Requests, NEW c \in Containers, GetsLease(r), cont'[r] = c,
           pc'[r] \in Owning, c \notin LeasedContainers \union Inspected,
           c \in tested => c \in available_hosts,
           available_hosts' = available_hosts \ {c}
    PROVE  LP!Move({c}, r) /\ LP!At(r) = {}
<1>1. /\ TypeOK /\ OneOwner /\ OnlyMoves(r) /\ r \in Tasks /\ "return" \in Tasks /\ r # "return"
      /\ lease_chan' = lease_chan /\ tested' = tested /\ pc[r] \notin Owning
  BY PoolAssumption DEF LeaseInv, GuardInv, OwnerInv, PoolInv, Tasks, Workers, GetsLease
<1>2. PICK l \in FreshLeases : /\ lease'[r] = l
                               /\ leased_hosts' = [leased_hosts EXCEPT ![l] = c]
  BY DEF GetsLease
<1>3. /\ l \in LeaseIds /\ l \notin Released /\ leased_hosts[l] = NoContainer /\ c # NoContainer
      /\ \A t \in Tasks : lease[t] # l
  BY <1>1, <1>2, PoolAssumption DEF FreshLeases, Released
<1>4. leased_hosts'[l] = c /\ \A m \in LeaseIds \ {l} : leased_hosts'[m] = leased_hosts[m]
  BY <1>1, <1>2, <1>3 DEF TypeOK
<1>5. OwnedBy(r) = {} /\ OwnedBy(r)' = {c}
  BY <1>1, <1>2, <1>3, <1>4 DEF OwnedBy, Entries
<1>6. \A q \in Requests \ {r} : OwnedBy(q)' = OwnedBy(q) /\ c \notin OwnedBy(q)
  <2>1. SUFFICES ASSUME NEW q \in Requests \ {r}
                 PROVE  OwnedBy(q)' = OwnedBy(q) /\ c \notin OwnedBy(q)
    OBVIOUS
  <2>2. pc'[q] = pc[q] /\ lease'[q] = lease[q] /\ q \in Tasks
    BY <1>1 DEF OnlyMoves, Tasks
  <2>3. pc[q] \in Owning => lease[q] \in LeaseIds \ {l}
    BY <1>3, <2>2 DEF LeaseInv, GuardInv, OwnerInv, PoolInv, LocalsSet
  <2>4. OwnedBy(q)' = OwnedBy(q)
    BY <1>4, <2>2, <2>3, OwnedStays
  <2>5. QED
    BY <2>4, OwnedApart
<1>7. Inspected' = Inspected /\ Returning' = Returning /\ c \notin Returning
  <2>1. lease'["return"] = lease["return"] /\ Inspected' = Inspected
    BY <1>1 DEF OnlyMoves, Inspected, At
  <2>2. Released \ {NoLease} \subseteq LeaseIds \ {l}
    BY <1>1, <1>3, ReleasedIds
  <2>3. Range(lease_chan) \union ({lease["return"]} \ {NoLease}) \subseteq LeaseIds \ {l}
    BY <1>1, <2>2, PoolAssumption DEF Released, TypeOK, Range
  <2>4. Returning' = Returning
    BY <1>1, <1>4, <2>1, <2>3 DEF Returning, Entries
  <2>5. QED
    BY <2>1, <2>4, Disjoint
<1>8. Pooled' = Pooled \union {c}
  <2>1. LeasedContainers' = LeasedContainers \union {c}
    BY <1>1, <1>2, <1>3, LeasedAdd
  <2>2. QED
    BY <1>7, <2>1 DEF Pooled
<1>9. tested' \intersect Pooled' = tested \intersect Pooled
  <2>1. c \in tested => c \in Pooled
    BY DEF Pooled
  <2>2. QED
    BY <1>1, <1>8, <2>1
<1>10. MovesTo({c}, r)
  <2>1. r \notin {"spare", "returning", "none"}
    BY PlacesAssumption DEF LP!Places
  <2>2. \A q \in Requests : OwnedBy(q)' = (OwnedBy(q) \ {c}) \union (IF r = q THEN {c} ELSE {})
    <3>1. OwnedBy(r)' = (OwnedBy(r) \ {c}) \union {c}
      BY <1>5
    <3>2. \A q \in Requests \ {r} : OwnedBy(q)' = OwnedBy(q) \ {c}
      BY <1>6
    <3>3. QED
      BY <3>1, <3>2
  <2>3. QED
    BY <1>7, <1>8, <2>1, <2>2 DEF MovesTo
<1>11. LP!Move({c}, r)
  <2>1. r \in LP!Places \union Requests /\ r # "none" /\ {c} \in SUBSET Containers
    BY PlacesAssumption DEF LP!Places
  <2>2. tested' \intersect Pooled' = (tested \intersect Pooled) \ (IF r = "none" THEN {c} ELSE {})
    BY <1>9, <2>1
  <2>3. QED
    BY <1>10, <2>1, <2>2, MoveRefines
<1>12. QED
  BY <1>5, <1>11, LeaseSets

(* LeasePool's instance of FiniteSets counts as ours does. *)
LEMMA SameCardinality == \A S : LP!Cardinality(S) = Cardinality(S)
BY DEF LP!Cardinality, Cardinality

(* There is room for a host whenever the code makes one. *)
LEMMA RoomEnough ==
    ASSUME LeaseInv, Inspected = {}, HostCount < max_instances
    PROVE  LP!Room
<1> DEFINE f == [l \in Leases |-> leased_hosts[l]]
<1>1. /\ IsFiniteSet(available_hosts) /\ IsFiniteSet(Leases)
      /\ Cardinality(available_hosts) \in Nat /\ Cardinality(Leases) \in Nat
  BY CountType DEF LeaseInv, GuardInv, OwnerInv, PoolInv
<1>2. f \in Surjection(Leases, LeasedContainers)
  BY DEF Surjection, LeasedContainers
<1>3. IsFiniteSet(LeasedContainers) /\ Cardinality(LeasedContainers) <= Cardinality(Leases)
  BY <1>1, <1>2, FS_Surjection
<1>4. Cardinality(LeasedContainers) \in Nat
  BY <1>3, FS_CardinalityType
<1>5. available_hosts \intersect LeasedContainers = {}
  BY DEF LeaseInv, GuardInv, OwnerInv, OneOwner
<1>6. Cardinality(available_hosts \union LeasedContainers)
        = Cardinality(available_hosts) + Cardinality(LeasedContainers)
  BY <1>1, <1>3, <1>4, <1>5, FS_Union, FS_EmptySet
<1>7. LP!Hosts = available_hosts \union LeasedContainers
  BY LeaseSets DEF Pooled
<1> HIDE DEF f
<1>8. Cardinality(available_hosts \union LeasedContainers) < max_instances
  BY <1>1, <1>3, <1>4, <1>6, PoolAssumption DEF HostCount
<1>9. QED
  BY <1>7, <1>8, SameCardinality DEF LP!Room

LEMMA ReserveRefines ==
    ASSUME LeaseInv, LeaseInv', NEW r \in Requests, RequestStep(r), LeaseAvailable(r) \/ LeaseSpawned(r)
    PROVE  \E c \in Containers : LP!Reserve(r, c)
<1> USE DEF poolVars, hostVars, chanVars, sdVars, localVars
<1>1. TypeOK /\ OneOwner /\ OwnerInv /\ OnlyMoves(r) /\ r \in Tasks /\ r \in Spawners
  BY RequestMoves DEF LeaseInv, GuardInv, OwnerInv, PoolInv, Tasks, Spawners
<1>2. pc'[r] \in {"holding", "health"} /\ GetsLease(r) /\ UNCHANGED <<sd_pc, tested>>
  <2>1. pc'[r] \in {"holding", "health"}
    BY <1>1 DEF LeaseAvailable, LeaseSpawned, InsertLease, Goto, TypeOK
  <2>2. KeepsLease(r) \/ GetsLease(r)
    BY <1>1, <2>1, RequestOwns DEF Owning
  <2>3. ~KeepsLease(r) /\ UNCHANGED <<sd_pc, tested>>
    BY DEF KeepsLease, LeaseAvailable, LeaseSpawned, NewHost, At, Owning
  <2>4. QED
    BY <2>1, <2>2, <2>3
<1>3. PICK c : /\ c = cont'[r] /\ c \in Containers
               /\ pc'[r] = (IF c \in tested THEN "holding" ELSE "health")
  BY <1>1, <1>2 DEF GetsLease, LeaseAvailable, LeaseSpawned, InsertLease, Goto, TypeOK
<1>4. /\ OwnerOf(c) = "spare" \/ (OwnerOf(c) = "none" /\ LP!At("spare") = {} /\ LP!Room)
      /\ (c \in tested => c \in available_hosts)
      /\ c \notin LeasedContainers \union Inspected /\ available_hosts' = available_hosts \ {c}
  <2>1. CASE LeaseAvailable(r)
    <3>1. PICK d \in available_hosts : available_hosts' = available_hosts \ {d} /\ InsertLease(r, d, host_port[d])
      BY <2>1 DEF LeaseAvailable
    <3>2. d = c
      BY <1>1, <1>3, <3>1 DEF InsertLease, TypeOK
    <3>3. OwnerOf(c) = "spare"
      BY <1>3, <3>1, <3>2, OwnersAre DEF OwnersKnown
    <3>4. QED
      BY <1>1, <3>1, <3>2, <3>3 DEF OneOwner
  <2>2. CASE LeaseSpawned(r)
    <3>1. NewHost(r) /\ InsertLease(r, cont[r], port[r]) /\ available_hosts' = available_hosts
      BY <2>2 DEF LeaseSpawned
    <3>2. c = cont[r]
      BY <1>1, <1>3, <3>1 DEF InsertLease, TypeOK
    <3>3. c \notin LiveHosts
      BY <1>1, <3>1, <3>2, LiveAdd
    <3>4. c \notin available_hosts \union LeasedContainers \union Inspected /\ c \notin tested
      BY <1>1, <3>3, OneOwnerIsPartition DEF Partition, LeaseInv, GuardInv, TestedLive
    <3>5. pc[r] = "started"
      BY <3>1 DEF NewHost, At
    <3>6. available_hosts = {} /\ Cardinality(Leases) < max_instances
      BY <3>5 DEF LeaseInv, GuardInv, OwnerInv, PoolInv, RoomKept, SpawnPlaces
    <3>7. Inspected = {}
      <4>1. pc["return"] # "inspect"
        BY <1>1, <3>5, PoolAssumption
           DEF OwnerInv, PoolInv, LockHeld, LockPlaces, SpawnPlaces, Tasks, Workers
      <4>2. QED
        BY <4>1 DEF Inspected, At
    <3>8. HostCount < max_instances
      BY <1>1, <3>6, CountType, FS_EmptySet DEF HostCount
    <3>9. LP!Room
      BY <3>7, <3>8, RoomEnough
    <3>10. OwnerOf(c) = "none"
      BY <1>3, <3>4, OwnersAre DEF OwnersKnown, Pooled
    <3>11. QED
      BY <3>1, <3>4, <3>6, <3>9, <3>10, LeaseSets
  <2>3. QED
    BY <2>1, <2>2
<1>5. LP!Move({c}, r) /\ LP!At(r) = {}
  BY <1>2, <1>3, <1>4, InsertMoves DEF Owning
<1>6. /\ Caller' = [Caller EXCEPT ![r] = CallerOf(pc'[r])]
      /\ Caller[r] = "calling" /\ Phase' = Phase
  <2>1. pc[r] \in {"lock", "started"}
    BY DEF LeaseAvailable, LeaseSpawned, NewHost, At
  <2>2. QED
    BY <1>1, <1>2, <2>1, CallerMoves DEF Caller, CallerOf, Phase
<1>7. IF c \in Tested THEN LP!Become(r, "holding") ELSE Caller' = Caller
  <2>1. c \in Tested <=> c \in tested
    BY <1>3, <1>4, PlacesAssumption, OwnersAre DEF Tested, OwnersKnown, Pooled
  <2>2. CASE c \in tested
    BY <1>3, <1>6, <2>1, <2>2 DEF LP!Become, Caller, CallerOf
  <2>3. CASE c \notin tested
    <3>1. CallerOf(pc'[r]) = "calling"
      BY <1>3, <2>3 DEF CallerOf
    <3>2. QED
      BY <1>6, <2>1, <2>3, <3>1 DEF Caller
  <2>4. QED
    BY <2>2, <2>3
<1>8. LP!Reserve(r, c)
  BY <1>3, <1>4, <1>5, <1>6, <1>7 DEF LP!Reserve, Owner, Tested, Caller, CallerOf, Phase
<1>9. QED
  BY <1>3, <1>8

(* Every step of a request is one of LeasePool's, or hidden. *)
LEMMA RequestRefines ==
    ASSUME LeaseInv, LeaseInv', NEW r \in Requests, RequestStep(r)
    PROVE  LP!Next \/ UNCHANGED LP!vars
<1>1. Phase # "ended"
  BY DEF RequestStep, Alive, Phase, LeaseInv, GuardInv, OwnerInv, PoolInv, TypeOK
<1>2. \/ LP!Call(r) \/ LP!Refuse(r) \/ LP!Ready(r) \/ LP!NotReady(r) \/ LP!GiveBack(r) \/ LP!HangUp(r)
      \/ \E c \in Containers : LP!Reserve(r, c)
      \/ UNCHANGED LP!vars
  BY SpawnRefines, CallsRefine, MarkRefines, DropRefines, CancelRefines, NotReadyRefines,
     ReserveRefines DEF RequestStep
<1>3. QED
  BY <1>1, <1>2 DEF LP!Next, Phase
-----------------------------------------------------------------------------
(***************************************************************************)
(* The steps of the background tasks.                                       *)
(***************************************************************************)
LEMMA ReturnOwned ==
    ASSUME LeaseInv, OnlyMoves("return"),
           leased_hosts' = leased_hosts \/ (EntryGone(lease["return"]) /\ lease["return"] \in LeaseIds)
    PROVE  (\A q \in Requests : OwnedBy(q)' = OwnedBy(q)) /\ Caller' = Caller
<1>1. "return" \in Tasks \ Requests /\ Requests \subseteq Tasks
  BY PoolAssumption DEF Tasks, Workers
<1>2. Caller' = Caller
  BY <1>1, CallerStays
<1>3. ASSUME NEW q \in Requests
      PROVE  OwnedBy(q)' = OwnedBy(q)
  <2>1. pc'[q] = pc[q] /\ lease'[q] = lease[q]
    BY <1>1 DEF OnlyMoves
  <2>2. pc[q] \in Owning => lease[q] # lease["return"] /\ lease[q] \in LeaseIds
    BY DEF LeaseInv, GuardInv, LeasesAlone, Released, OwnerInv, PoolInv, LocalsSet
  <2>3. pc[q] \in Owning => leased_hosts'[lease[q]] = leased_hosts[lease[q]]
    BY <2>2 DEF EntryGone, LeaseInv, GuardInv, OwnerInv, PoolInv, TypeOK
  <2>4. QED
    BY <2>1, <2>3, OwnedStays
<1>4. QED
  BY <1>2, <1>3

LEMMA ReturnHidden ==
    ASSUME LeaseInv, LeaseInv', ReceiveLease \/ ReturnTakes
    PROVE  UNCHANGED LP!vars
<1> USE DEF poolVars, hostVars, chanVars, sdVars, localVars
<1>1. /\ TypeOK /\ OneOwner /\ OnlyMoves("return") /\ "return" \in Tasks /\ lease_chan \in Seq(LeaseIds)
  BY WorkerMoves DEF LeaseInv, GuardInv, OwnerInv, PoolInv, Tasks, Workers, ReturnStep, TypeOK
<1>2. UNCHANGED <<available_hosts, tested, sd_pc>>
  BY DEF ReceiveLease, ReturnTakes
<1>3. CASE ReceiveLease
  <2>1. /\ pc["return"] = "idle" /\ pc'["return"] = "lock" /\ lease["return"] = NoLease
        /\ lease'["return"] = Head(lease_chan) /\ lease_chan' = Tail(lease_chan) /\ lease_chan # << >>
        /\ leased_hosts' = leased_hosts
    BY <1>1, <1>3 DEF ReceiveLease, TypeOK, Goto, At, LeaseInv, ReturnKept
  <2>2. Inspected = {} /\ Inspected' = {}
    BY <2>1 DEF Inspected, At
  <2>3. lease'["return"] # NoLease
    <3>1. lease'["return"] \in LeaseIds
      BY <2>1 DEF LeaseInv, GuardInv, OwnerInv, PoolInv, LocalsSet
    <3>2. QED
      BY <3>1, PoolAssumption
  <2>4. Returning' = Returning
    <3>1. Range(lease_chan) = {lease'["return"]} \union Range(lease_chan')
      BY <1>1, <2>1, ReceiveRange
    <3>2. QED
      BY <2>1, <2>2, <2>3, <3>1 DEF Returning, Entries
  <2>5. Pooled' = Pooled
    BY <1>2, <2>1, <2>2 DEF Pooled, LeasedContainers, Leases
  <2>6. (\A q \in Requests : OwnedBy(q)' = OwnedBy(q)) /\ Caller' = Caller
    BY <1>1, <2>1, ReturnOwned
  <2>7. QED
    BY <1>2, <2>4, <2>5, <2>6, NoMove DEF LP!vars, Owner, Tested, Caller, CallerOf, Phase
<1>4. CASE ReturnTakes
  <2>1. /\ pc["return"] = "lock" /\ pc'["return"] = "inspect" /\ lease'["return"] = lease["return"]
        /\ lease["return"] \in LeaseIds /\ EntryGone(lease["return"])
        /\ leased_hosts[lease["return"]] # NoContainer
        /\ cont'["return"] = leased_hosts[lease["return"]] /\ lease_chan' = lease_chan
    BY <1>1, <1>4 DEF ReturnTakes, TypeOK, Goto, At, LeaseInv, GuardInv, OwnerInv, PoolInv, LocalsSet, EntryGone
  <2>2. PICK c \in Containers : c = leased_hosts[lease["return"]]
    BY <1>1, <2>1 DEF TypeOK
  <2>3. Inspected = {} /\ Inspected' = {c}
    BY <2>1, <2>2 DEF Inspected, At
  <2>4. /\ leased_hosts'[lease["return"]] = NoContainer
        /\ \A l \in LeaseIds \ {lease["return"]} :
             leased_hosts'[l] = leased_hosts[l] /\ leased_hosts[l] # c
    BY <1>1, <2>1, <2>2, PoolAssumption DEF EntryGone, TypeOK, OneOwner, Leases
  <2>5. Returning' = Returning
    <3> DEFINE ids == Range(lease_chan) \union ({lease["return"]} \ {NoLease})
    <3>1. ids \subseteq LeaseIds /\ lease["return"] \in ids
      BY <1>1, <2>1, PoolAssumption DEF Range, TypeOK
    <3>2. Returning = Entries(ids) /\ Returning' = Entries(ids)' \union {c}
      BY <2>1, <2>3 DEF Returning, Entries
    <3> HIDE DEF ids
    <3>3. Entries(ids)' = {leased_hosts'[l] : l \in ids} \ {NoContainer}
      BY <1>1, <2>1 DEF Entries, ids
    <3>4. Entries(ids) = Entries(ids)' \union {c}
      BY <2>1, <2>2, <2>4, <3>1, <3>3 DEF Entries
    <3>5. QED
      BY <3>2, <3>4
  <2>6. Pooled' = Pooled
    <3>1. LeasedContainers' = LeasedContainers \ {c} /\ c \in LeasedContainers
      BY <1>1, <2>1, <2>2, LeasedRemove DEF EntryGone
    <3>2. QED
      BY <1>2, <2>3, <3>1 DEF Pooled
  <2>7. (\A q \in Requests : OwnedBy(q)' = OwnedBy(q)) /\ Caller' = Caller
    BY <1>1, <2>1, ReturnOwned
  <2>8. QED
    BY <1>2, <2>5, <2>6, <2>7, NoMove DEF LP!vars, Owner, Tested, Caller, CallerOf, Phase
<1>5. QED
  BY <1>3, <1>4

(* A host on its way back settles: in the pool, or dropped. *)
LEMMA Settles ==
    ASSUME LeaseInv, LeaseInv', OnlyMoves("return"), sd_pc' = sd_pc,
           leased_hosts' = leased_hosts \/ (EntryGone(lease["return"]) /\ lease["return"] \in LeaseIds),
           NEW c \in Containers, c \in Returning, Returning' = Returning \ {c},
           \/ /\ available_hosts' = available_hosts \union {c}
              /\ Pooled' = Pooled /\ tested' = tested
           \/ /\ available_hosts' = available_hosts
              /\ Pooled' = Pooled \ {c} /\ tested' = tested \ {c}
    PROVE  LP!Settle(c)
<1>1. (\A q \in Requests : OwnedBy(q)' = OwnedBy(q)) /\ Caller' = Caller /\ Phase' = Phase
  BY ReturnOwned DEF Phase
<1>2. c \notin available_hosts /\ c \notin Owned /\ c \in Pooled
  BY Disjoint DEF Pooled
<1>3. \A q \in Requests : c \notin OwnedBy(q) /\ q \notin {"spare", "none", "returning"}
  BY <1>2, PlacesAssumption DEF Owned, LP!Places
<1>4. OwnerOf(c) = "returning"
  BY OwnersAre DEF OwnersKnown
<1>5. CASE available_hosts' = available_hosts \union {c} /\ Pooled' = Pooled /\ tested' = tested
  <2>1. MovesTo({c}, "spare")
    BY <1>1, <1>2, <1>3, <1>5 DEF MovesTo
  <2>2. LP!Move({c}, "spare")
    BY <1>5, <2>1, MoveRefines DEF LP!Places
  <2>3. QED
    BY <1>1, <1>4, <2>2 DEF LP!Settle, Caller, CallerOf, Phase
<1>6. CASE available_hosts' = available_hosts /\ Pooled' = Pooled \ {c} /\ tested' = tested \ {c}
  <2>1. MovesTo({c}, "none")
    BY <1>1, <1>2, <1>3, <1>6 DEF MovesTo
  <2>2. LP!Move({c}, "none")
    BY <1>6, <2>1, MoveRefines DEF LP!Places
  <2>3. QED
    BY <1>1, <1>4, <2>2 DEF LP!Settle, Caller, CallerOf, Phase
<1>7. QED
  BY <1>5, <1>6

LEMMA InspectRefines ==
    ASSUME LeaseInv, LeaseInv', InspectFails \/ ReturnToPool
    PROVE  \E c \in Containers : LP!Settle(c)
<1> USE DEF poolVars, hostVars, chanVars, sdVars, localVars
<1>1. /\ TypeOK /\ OneOwner /\ OnlyMoves("return") /\ "return" \in Tasks
  BY WorkerMoves DEF LeaseInv, GuardInv, OwnerInv, PoolInv, Tasks, Workers, ReturnStep
<1>2. PICK c \in Containers : c = cont["return"]
  BY DEF LeaseInv, GuardInv, OwnerInv, PoolInv, LocalsSet, InspectFails, ReturnToPool, At
<1>3. /\ pc["return"] = "inspect" /\ pc'["return"] = "idle" /\ lease'["return"] = NoLease
      /\ leased_hosts' = leased_hosts /\ lease_chan' = lease_chan /\ sd_pc' = sd_pc
      /\ leased_hosts[lease["return"]] = NoContainer
  BY <1>1 DEF InspectFails, ReturnToPool, Goto, Forget, At, TypeOK, LeaseInv, ReturnKept
<1>4. Inspected = {c} /\ Inspected' = {}
  BY <1>2, <1>3 DEF Inspected, At
<1>5. /\ c \in Returning /\ c \notin LeasedContainers /\ c \notin available_hosts
  BY <1>1, <1>4, Disjoint DEF OneOwner
<1>6. Returning' = Returning \ {c}
  <2> DEFINE E == Entries(Range(lease_chan) \union ({lease["return"]} \ {NoLease}))
  <2>1. Returning = E \union {c}
    BY <1>4 DEF Returning
  <2>2. Returning' = E
    BY <1>3, <1>4 DEF Returning, Entries
  <2>3. c \notin E
    <3>1. Range(lease_chan) \union ({lease["return"]} \ {NoLease}) \subseteq LeaseIds
      BY <1>1, PoolAssumption DEF Range, TypeOK
    <3>2. \A l \in LeaseIds : leased_hosts[l] # c
      BY <1>2, <1>5, PoolAssumption DEF LeasedContainers, Leases
    <3>3. QED
      BY <3>1, <3>2 DEF Entries
  <2> HIDE DEF E
  <2>4. QED
    BY <2>1, <2>2, <2>3
<1>7. LeasedContainers' = LeasedContainers
  BY <1>3 DEF LeasedContainers, Leases
<1>8. CASE InspectFails
  <2>1. available_hosts' = available_hosts /\ tested' = tested \ {c}
    BY <1>2, <1>8 DEF InspectFails, DropHost
  <2>2. Pooled' = Pooled \ {c}
    BY <1>4, <1>5, <1>7, <2>1 DEF Pooled
  <2>3. LP!Settle(c)
    BY <1>1, <1>3, <1>5, <1>6, <2>1, <2>2, Settles
  <2>4. QED
    BY <2>3
<1>9. CASE ReturnToPool
  <2>1. available_hosts' = available_hosts \union {c} /\ tested' = tested
    BY <1>2, <1>9 DEF ReturnToPool
  <2>2. Pooled' = Pooled
    BY <1>4, <1>7, <2>1 DEF Pooled
  <2>3. LP!Settle(c)
    BY <1>1, <1>3, <1>5, <1>6, <2>1, <2>2, Settles
  <2>4. QED
    BY <2>3
<1>10. QED
  BY <1>8, <1>9

LEMMA ReturnDropsRefines ==
    ASSUME LeaseInv, LeaseInv', ReturnDrops
    PROVE  (\E c \in Containers : LP!Settle(c)) \/ UNCHANGED LP!vars
<1> USE DEF poolVars, hostVars, chanVars, sdVars, localVars
<1>1. /\ TypeOK /\ OneOwner /\ OnlyMoves("return") /\ "return" \in Tasks /\ lease_chan \in Seq(LeaseIds)
  BY WorkerMoves DEF LeaseInv, GuardInv, OwnerInv, PoolInv, Tasks, Workers, ReturnStep, TypeOK
<1>2. /\ pc["return"] = "lock" /\ pc'["return"] = "idle" /\ lease'["return"] = NoLease
      /\ lease["return"] \in LeaseIds /\ EntryGone(lease["return"])
      /\ available_hosts' = available_hosts /\ lease_chan' = lease_chan /\ sd_pc' = sd_pc
  BY <1>1 DEF ReturnDrops, RemoveAndDrop, TypeOK, Goto, Forget, At, EntryGone,
     LeaseInv, GuardInv, OwnerInv, PoolInv, LocalsSet
<1>3. Inspected = {} /\ Inspected' = {}
  BY <1>2 DEF Inspected, At
<1> DEFINE chan == Range(lease_chan)
<1>4. chan \subseteq LeaseIds /\ lease["return"] # NoLease
  BY <1>1, <1>2, PoolAssumption DEF Range
<1>5. Returning = Entries(chan \union {lease["return"]}) /\ Returning' = Entries(chan)'
  BY <1>2, <1>3, <1>4 DEF Returning, Entries
<1> HIDE DEF chan
<1>6. Entries(chan)' = {leased_hosts'[l] : l \in chan} \ {NoContainer}
  BY <1>2 DEF Entries, chan
<1>7. CASE leased_hosts[lease["return"]] = NoContainer
  <2>1. leased_hosts' = leased_hosts /\ tested' = tested
    BY <1>1, <1>2, <1>7 DEF EntryGone, ReturnDrops, RemoveAndDrop, TypeOK
  <2>2. Returning' = Returning
    BY <1>5, <1>6, <1>7, <2>1 DEF Entries
  <2>3. Pooled' = Pooled
    BY <1>2, <1>3, <2>1 DEF Pooled, LeasedContainers, Leases
  <2>4. (\A q \in Requests : OwnedBy(q)' = OwnedBy(q)) /\ Caller' = Caller
    BY <1>1, <2>1, ReturnOwned
  <2>5. Owner' = Owner /\ Tested' = Tested
    BY <1>2, <2>1, <2>2, <2>3, <2>4, NoMove
  <2>6. QED
    BY <1>2, <2>4, <2>5 DEF LP!vars, Owner, Tested, Caller, CallerOf, Phase
<1>8. CASE leased_hosts[lease["return"]] # NoContainer
  <2>1. PICK c \in Containers : c = leased_hosts[lease["return"]]
    BY <1>1, <1>2, <1>8 DEF TypeOK
  <2>2. tested' = tested \ {c}
    BY <1>8, <2>1 DEF ReturnDrops, RemoveAndDrop, DropHost
  <2>3. /\ leased_hosts'[lease["return"]] = NoContainer
        /\ \A l \in LeaseIds \ {lease["return"]} :
             leased_hosts'[l] = leased_hosts[l] /\ leased_hosts[l] # c
    BY <1>1, <1>2, <1>8, <2>1 DEF EntryGone, TypeOK, OneOwner, Leases
  <2>4. c \in Returning /\ Returning' = Returning \ {c}
    BY <1>4, <1>5, <1>6, <1>8, <2>1, <2>3 DEF Entries
  <2>5. Pooled' = Pooled \ {c}
    <3>1. LeasedContainers' = LeasedContainers \ {c} /\ c \in LeasedContainers
      BY <1>1, <1>2, <2>1, LeasedRemove DEF EntryGone
    <3>2. c \notin available_hosts
      BY <1>1, <3>1 DEF OneOwner
    <3>3. QED
      BY <1>2, <1>3, <3>1, <3>2 DEF Pooled
  <2>6. LP!Settle(c)
    BY <1>1, <1>2, <2>2, <2>4, <2>5, Settles
  <2>7. QED
    BY <2>6
<1>9. QED
  BY <1>7, <1>8

(* The aborted return task drops the host it inspects; what it had still to do is astray. *)
LEMMA ReturnDiesRefines ==
    ASSUME LeaseInv, LeaseInv', Aborted, ReturnDies
    PROVE  LP!AbortReturns
<1> USE DEF poolVars, hostVars, chanVars, sdVars, localVars, LP!Places
<1>1. /\ TypeOK /\ OneOwner /\ OnlyMoves("return") /\ "return" \in Tasks
  BY WorkerMoves DEF LeaseInv, GuardInv, OwnerInv, PoolInv, Tasks, Workers
<1>2. /\ pc'["return"] = "dead" /\ lease'["return"] = NoLease /\ lease_chan' = << >>
      /\ available_hosts' = available_hosts /\ leased_hosts' = leased_hosts /\ sd_pc' = sd_pc
  BY <1>1 DEF ReturnDies, Abandon, Forget, Goto, TypeOK
<1>3. Inspected' = {} /\ Returning' = {}
  <2>1. Inspected' = {}
    BY <1>2 DEF Inspected, At
  <2>2. QED
    BY <1>2, <2>1, EmptyRange DEF Returning, Entries
<1>4. Inspected \subseteq Returning /\ Inspected \intersect (available_hosts \union LeasedContainers) = {}
  <2>1. Inspected \subseteq Returning
    BY DEF Returning
  <2>2. QED
    BY <1>1, <2>1 DEF OneOwner
<1>5. Pooled' = Pooled \ Inspected
  <2>1. LeasedContainers' = LeasedContainers
    BY <1>2 DEF LeasedContainers, Leases
  <2>2. QED
    BY <1>2, <1>3, <1>4, <2>1 DEF Pooled
<1>6. tested' = tested \ Inspected
  BY DEF ReturnDies, DropHost, Inspected
<1>7. (\A q \in Requests : OwnedBy(q)' = OwnedBy(q)) /\ Caller' = Caller
  BY <1>1, <1>2, ReturnOwned
<1>8. /\ OwnersKnown /\ OwnersKnown' /\ Tested = tested \intersect Pooled
      /\ Tested' = tested' \intersect Pooled'
  <2>1. OwnersKnown /\ OwnersKnown' /\ TypeOK /\ TypeOK'
    BY OwnersAre, OwnersAreNext DEF LeaseInv, GuardInv, OwnerInv, PoolInv
  <2>2. QED
    BY <2>1, TestedIs, TestedIsNext DEF TestedPooled
<1>9. \A q \in Requests : q \notin {"spare", "returning", "stray", "none"}
  BY PlacesAssumption
<1>10. ASSUME NEW c \in Containers
       PROVE  OwnerOf(c)' = IF OwnerOf(c) # "returning" THEN OwnerOf(c)
                            ELSE IF c \in Inspected THEN "none" ELSE "stray"
  <2> DEFINE now == OwnerOf(c)
             next == OwnerOf(c)'
  <2>1. /\ now \in LP!Places \union Requests
        /\ now = "spare" <=> c \in available_hosts
        /\ \A r \in Requests : now = r <=> c \in OwnedBy(r)
        /\ now = "returning" <=> c \in Returning
        /\ now = "none" <=> c \notin Pooled
    BY <1>8 DEF OwnersKnown
  <2>2. /\ next \in LP!Places \union Requests
        /\ next = "spare" <=> c \in available_hosts
        /\ \A r \in Requests : next = r <=> c \in OwnedBy(r)
        /\ next # "returning"
        /\ next = "none" <=> c \notin Pooled \ Inspected
    BY <1>2, <1>3, <1>5, <1>7, <1>8 DEF OwnersKnown
  <2> HIDE DEF now, next
  <2>3. now # "returning" => next = now
    BY <1>4, <1>9, <2>1, <2>2
  <2>4. now = "returning" => next = IF c \in Inspected THEN "none" ELSE "stray"
    BY <1>4, <1>9, <2>1, <2>2
  <2>5. QED
    BY <2>3, <2>4 DEF now, next
<1>11. Inspected \in SUBSET LP!At("returning")
  BY <1>4, LeaseSets
<1>12. Tested' = Tested \ Inspected
  BY <1>5, <1>6, <1>8
<1>13. Phase \in {"drained", "collected"} /\ Phase' = Phase
  BY <1>2 DEF Aborted, Phase
<1>14. QED
  BY <1>7, <1>10, <1>11, <1>12, <1>13 DEF LP!AbortReturns, Owner, Tested, Caller, CallerOf, Phase

(* A task that is neither a request nor the return task leaves every lease where it is. *)
LEMMA OthersOwned ==
    ASSUME LeaseInv, UNCHANGED <<leased_hosts, lease_chan>>,
           \/ UNCHANGED <<pc, lease, port, cont>>
           \/ OnlyMoves("cleanup") \/ OnlyMoves("scale")
    PROVE  /\ \A q \in Requests : OwnedBy(q)' = OwnedBy(q)
           /\ UNCHANGED <<Inspected, Returning, LeasedContainers, Caller>>
<1>1. /\ {"cleanup", "scale"} \subseteq Tasks \ Requests /\ Requests \subseteq Tasks
      /\ "return" \in Tasks
  BY PoolAssumption DEF Tasks, Workers
<1>2. \A q \in Requests \union {"return"} : pc'[q] = pc[q] /\ lease'[q] = lease[q] /\ cont'[q] = cont[q]
  BY <1>1 DEF OnlyMoves
<1>3. \A q \in Requests : OwnedBy(q)' = OwnedBy(q)
  BY <1>2, OwnedStays
<1>4. Inspected' = Inspected
  BY <1>2 DEF Inspected, At
<1>5. Returning' = Returning /\ LeasedContainers' = LeasedContainers
  BY <1>2, <1>4 DEF Returning, Entries, LeasedContainers, Leases
<1>6. Caller' = Caller
  BY <1>2 DEF Caller
<1>7. QED
  BY <1>3, <1>4, <1>5, <1>6

(* ... and one that also leaves available_hosts and the pool's hosts is hidden. *)
LEMMA OthersHidden ==
    ASSUME LeaseInv, LeaseInv', UNCHANGED <<available_hosts, leased_hosts, lease_chan>>, Phase' = Phase,
           \/ UNCHANGED <<pc, lease, port, cont>>
           \/ OnlyMoves("cleanup") \/ OnlyMoves("scale"),
           tested' \intersect Pooled = tested \intersect Pooled
    PROVE  UNCHANGED LP!vars
<1>1. /\ \A q \in Requests : OwnedBy(q)' = OwnedBy(q)
      /\ UNCHANGED <<Inspected, Returning, LeasedContainers, Caller>>
  BY OthersOwned
<1>2. Pooled' = Pooled
  BY <1>1 DEF Pooled
<1>3. Owner' = Owner /\ Tested' = Tested
  BY <1>1, <1>2, NoMove
<1>4. QED
  BY <1>1, <1>3 DEF LP!vars, Owner, Tested, Caller, CallerOf, Phase

LEMMA SupportHidden ==
    ASSUME LeaseInv, LeaseInv',
           \/ CleanupStep \/ CleanupDies \/ RunScalingPolicy \/ SpawnStep("scale") \/ ScaleDies
           \/ DropReaped \/ DropCollected \/ Expire \/ PortReturned \/ AutoRemove \/ Crash
    PROVE  UNCHANGED LP!vars
<1> USE DEF poolVars, hostVars, chanVars, sdVars, localVars, taskVars
<1>1. TypeOK /\ OneOwner /\ "scale" \in Spawners
  BY DEF LeaseInv, GuardInv, OwnerInv, PoolInv, Spawners
<1>2. CASE CleanupStep \/ CleanupDies
  <2>1. UNCHANGED <<available_hosts, leased_hosts, lease_chan, tested, sd_pc>>
    BY <1>2 DEF CleanupStep, ReceiveCleanup, CleanupStops, CleanupDies
  <2>2. OnlyMoves("cleanup") /\ Phase' = Phase
    BY <1>1, <1>2, <2>1, WorkerMoves DEF Phase
  <2>3. QED
    BY <2>1, <2>2, OthersHidden
<1>3. CASE RunScalingPolicy \/ SpawnStep("scale") \/ ScaleDies
  <2>1. UNCHANGED <<available_hosts, leased_hosts, lease_chan, tested, sd_pc>>
    BY <1>3 DEF RunScalingPolicy, ScaleDies, SpawnStep, AllocatePort, NoAvailablePorts, CreateContainer,
       CreateFails, StartContainer, StartRefused, StartReplyLost, SpawnFailed
  <2>2. OnlyMoves("scale") /\ Phase' = Phase
    BY <1>1, <1>3, <2>1, WorkerMoves DEF Phase, ScaleStep
  <2>3. QED
    BY <2>1, <2>2, OthersHidden
<1>4. CASE DropReaped \/ DropCollected
  <2>1. PICK c \in reap_hosts \union sd_hosts : DropHost(c)
    BY <1>4 DEF DropReaped, DropCollected
  <2>2. UNCHANGED <<available_hosts, leased_hosts, lease_chan, sd_pc, pc, lease, port, cont>>
    BY <1>4 DEF DropReaped, DropCollected
  <2>3. c \notin Pooled /\ tested' = tested \ {c}
    BY <1>1, <2>1 DEF OneOwner, Pooled, DropHost
  <2>4. tested' \intersect Pooled = tested \intersect Pooled /\ Phase' = Phase
    BY <2>2, <2>3 DEF Phase
  <2>5. QED
    BY <2>2, <2>4, OthersHidden
<1>5. CASE Expire \/ PortReturned \/ AutoRemove \/ Crash
  <2>1. UNCHANGED <<available_hosts, leased_hosts, lease_chan, tested, sd_pc, pc, lease, port, cont>>
    BY <1>5 DEF Expire, PortReturned, AutoRemove, Crash
  <2>2. Phase' = Phase
    BY <2>1 DEF Phase
  <2>3. QED
    BY <2>1, <2>2, OthersHidden
<1>6. QED
  BY <1>2, <1>3, <1>4, <1>5

LEMMA ScaleRefines ==
    ASSUME LeaseInv, LeaseInv', ScalerAddsHost
    PROVE  \E c \in Containers : LP!Scale(c)
<1> USE DEF poolVars, hostVars, chanVars, sdVars, localVars
<1>1. /\ TypeOK /\ OneOwner /\ OwnerInv /\ OnlyMoves("scale") /\ "scale" \in Spawners
      /\ {"scale", "return"} \subseteq Tasks /\ LockHeld
  BY WorkerMoves DEF LeaseInv, GuardInv, OwnerInv, PoolInv, Spawners, Tasks, Workers, ScaleStep
<1>2. PICK c : c = cont["scale"] /\ available_hosts' = available_hosts \union {c}
  BY DEF ScalerAddsHost
<1>3. c \in Containers /\ c \notin LiveHosts
  BY <1>1, <1>2, LiveAdd DEF ScalerAddsHost
<1>4. c \notin Pooled /\ c \notin tested
  BY <1>1, <1>3, OneOwnerIsPartition DEF Partition, Pooled, LeaseInv, GuardInv, TestedLive
<1>5. UNCHANGED <<leased_hosts, lease_chan, tested, sd_pc>> /\ pc["scale"] = "started"
  BY DEF ScalerAddsHost, NewHost, At
<1>6. /\ \A q \in Requests : OwnedBy(q)' = OwnedBy(q)
      /\ UNCHANGED <<Inspected, Returning, LeasedContainers, Caller>> /\ Phase' = Phase
  BY <1>1, <1>5, OthersOwned DEF Phase
<1>7. Inspected = {}
  BY <1>1, <1>5 DEF LockHeld, LockPlaces, SpawnPlaces, Inspected, At
<1>8. LP!Room
  <2>1. scale_left >= 1 /\ HostCount + scale_left <= min_instances
    BY <1>5 DEF LeaseInv, GuardInv, OwnerInv, PoolInv, RoomKept, SpawnPlaces
  <2>2. HostCount \in Nat /\ scale_left \in Nat
    BY <1>1, CountType, PoolAssumption DEF TypeOK
  <2>3. HostCount < max_instances
    BY <2>1, <2>2, PoolAssumption
  <2>4. QED
    BY <1>7, <2>3, RoomEnough
<1>9. MovesTo({c}, "spare")
  <2>1. \A q \in Requests : c \notin OwnedBy(q) /\ q # "spare"
    BY <1>4, OwnedApart, PlacesAssumption DEF Pooled, LP!Places
  <2>2. c \notin Returning
    BY <1>3, <1>4, Disjoint DEF Pooled
  <2>3. Pooled' = Pooled \union {c}
    BY <1>2, <1>6 DEF Pooled
  <2>4. QED
    BY <1>2, <1>6, <2>1, <2>2, <2>3 DEF MovesTo
<1>10. LP!Move({c}, "spare")
  <2>1. tested' \intersect Pooled' = (tested \intersect Pooled) \ (IF "spare" = "none" THEN {c} ELSE {})
    BY <1>2, <1>4, <1>5, <1>6 DEF Pooled
  <2>2. QED
    BY <1>3, <1>9, <2>1, MoveRefines DEF LP!Places
<1>11. OwnerOf(c) = "none"
  BY <1>3, <1>4, OwnersAre DEF OwnersKnown
<1>12. LP!Scale(c)
  BY <1>3, <1>6, <1>8, <1>10, <1>11 DEF LP!Scale, Caller, CallerOf, Phase
<1>13. QED
  BY <1>3, <1>12

LEMMA ReapRefines ==
    ASSUME LeaseInv, LeaseInv', ReapExpired
    PROVE  \E cs \in SUBSET LP!At("spare") : LP!Retire(cs)
<1> USE DEF poolVars, hostVars, chanVars, sdVars, localVars
<1> DEFINE cs == available_hosts \intersect expired
<1>1. TypeOK /\ OneOwner
  BY DEF LeaseInv, GuardInv, OwnerInv, PoolInv
<1>2. /\ cs # {} /\ available_hosts' = available_hosts \ cs /\ reap_hosts' = cs
      /\ UNCHANGED <<leased_hosts, lease_chan, tested, sd_pc, pc, lease, port, cont>>
  BY DEF ReapExpired
<1>3. cs \subseteq available_hosts /\ cs \in SUBSET Containers
  BY <1>1 DEF TypeOK
<1> HIDE DEF cs
<1>4. /\ \A q \in Requests : OwnedBy(q)' = OwnedBy(q)
      /\ UNCHANGED <<Inspected, Returning, LeasedContainers, Caller>> /\ Phase' = Phase
  BY <1>2, OthersOwned DEF Phase
<1>5. Pooled' = Pooled \ cs
  BY <1>1, <1>2, <1>3, <1>4 DEF Pooled, OneOwner
<1>6. MovesTo(cs, "none")
  <2>1. \A q \in Requests : OwnedBy(q) \intersect cs = {} /\ q # "none"
    BY <1>3, OwnedApart, PlacesAssumption DEF LP!Places
  <2>2. Returning \intersect cs = {}
    BY <1>3, Disjoint
  <2>3. QED
    BY <1>2, <1>4, <1>5, <2>1, <2>2 DEF MovesTo
<1>7. LP!Move(cs, "none")
  <2>1. tested' \intersect Pooled' = (tested \intersect Pooled) \ cs
    BY <1>2, <1>5
  <2>2. QED
    BY <1>3, <1>6, <2>1, MoveRefines DEF LP!Places
<1>8. cs \in SUBSET LP!At("spare")
  BY <1>3, LeaseSets
<1>9. LP!Retire(cs)
  BY <1>2, <1>4, <1>7, <1>8 DEF LP!Retire, Caller, CallerOf, Phase
<1>10. QED
  BY <1>8, <1>9
-----------------------------------------------------------------------------
(***************************************************************************)
(* The steps of main and of shutdown_all_containers.                        *)
(***************************************************************************)
LEMMA PhaseOnly ==
    ASSUME LeaseInv, LeaseInv',
           UNCHANGED <<available_hosts, leased_hosts, lease_chan, tested, pc, lease, port, cont>>
    PROVE  UNCHANGED <<Owner, Tested, Caller>>
<1>1. /\ \A q \in Requests : OwnedBy(q)' = OwnedBy(q)
      /\ UNCHANGED <<Inspected, Returning, LeasedContainers, Caller>>
  BY OthersOwned
<1>2. Pooled' = Pooled
  BY <1>1 DEF Pooled
<1>3. QED
  BY <1>1, <1>2, NoMove

LEMMA DrainedRefines ==
    ASSUME LeaseInv, LeaseInv', Drained
    PROVE  LP!Drained
<1> USE DEF poolVars, hostVars, chanVars, localVars, taskVars
<1>1. /\ sd_pc = "drain" /\ sd_pc' = "abort" /\ lock = Nobody
      /\ Leases = {} \/ "timeout" \in Events
      /\ UNCHANGED <<available_hosts, leased_hosts, lease_chan, tested, pc, lease, port, cont>>
  BY DEF Drained, Shutdown
<1>2. UNCHANGED <<Owner, Tested, Caller>>
  BY <1>1, PhaseOnly
<1>3. Phase = "draining" /\ Phase' = "drained"
  BY <1>1 DEF Phase
<1>4. Leases = {} => LP!NothingLeased
  <2>1. Inspected = {}
    <3>1. "return" \in Tasks /\ "return" # Nobody /\ LockHeld
      BY PoolAssumption DEF Tasks, Workers, LeaseInv, GuardInv, OwnerInv, PoolInv
    <3>2. QED
      BY <1>1, <3>1 DEF LockHeld, LockPlaces, Inspected, At
  <2>2. Leases = {} => Pooled = available_hosts
    BY <2>1 DEF Pooled, LeasedContainers
  <2>3. QED
    BY <2>2, LeaseSets DEF LP!NothingLeased
<1>5. QED
  BY <1>1, <1>2, <1>3, <1>4 DEF LP!Drained, LP!Enter, Owner, Tested, Caller, CallerOf, Phase

LEMMA CollectRefines ==
    ASSUME LeaseInv, LeaseInv', CollectAllHosts
    PROVE  LP!CollectAllHosts
<1> USE DEF poolVars, hostVars, chanVars, localVars, taskVars
<1>1. /\ sd_pc = "collect" /\ sd_pc' = "drop" /\ lock = Nobody
      /\ available_hosts' = {} /\ leased_hosts' = [l \in LeaseIds |-> NoContainer]
      /\ UNCHANGED <<lease_chan, tested, pc, lease, port, cont>>
  BY DEF CollectAllHosts, Shutdown
<1>2. Phase = "drained" /\ Phase' = "collected" /\ Caller' = Caller
  BY <1>1 DEF Phase, Caller
<1>3. Inspected = {} /\ Inspected' = {}
  <2>1. "return" \in Tasks /\ "return" # Nobody /\ LockHeld
    BY PoolAssumption DEF Tasks, Workers, LeaseInv, GuardInv, OwnerInv, PoolInv
  <2>2. QED
    BY <1>1, <2>1 DEF LockHeld, LockPlaces, Inspected, At
<1>4. Pooled' = {}
  BY <1>1, <1>3 DEF Pooled, LeasedContainers, Leases
<1>5. \A q \in Requests : OwnedBy(q)' = {}
  BY <1>4, OwnedPooledNext DEF OwnedPooled
<1>6. Returning' = {}
  BY <1>4, OwnedPooledNext DEF OwnedPooled
<1>7. MovesTo(Containers, "none")
  <2>1. /\ available_hosts \subseteq Containers /\ Returning \subseteq Containers /\ Pooled \subseteq Containers
        /\ \A q \in Requests : OwnedBy(q) \subseteq Containers /\ q # "none"
    BY LeaseSets, PlacesAssumption DEF LP!Places, Pooled
  <2>2. QED
    BY <1>1, <1>4, <1>5, <1>6, <2>1 DEF MovesTo
<1>8. LP!Move(Containers, "none")
  <2>1. tested \subseteq Containers
    BY DEF LeaseInv, GuardInv, OwnerInv, PoolInv, TypeOK
  <2>2. tested' \intersect Pooled' = (tested \intersect Pooled) \ Containers
    BY <1>4, <2>1
  <2>3. QED
    BY <1>7, <2>2, MoveRefines DEF LP!Places
<1>9. QED
  BY <1>2, <1>8 DEF LP!CollectAllHosts, LP!Enter, Caller, CallerOf, Phase

LEMMA MainRefines ==
    ASSUME LeaseInv, LeaseInv', ShutdownSignal \/ ServerFails \/ ShutdownStep
    PROVE  LP!Next \/ UNCHANGED LP!vars
<1> USE DEF poolVars, hostVars, chanVars, localVars, taskVars
<1>1. CASE Drained
  <2>1. LP!Drained /\ Phase # "ended"
    BY <1>1, DrainedRefines DEF Drained, Shutdown, Phase
  <2>2. QED
    BY <2>1 DEF LP!Next, Phase
<1>2. CASE CollectAllHosts
  <2>1. LP!CollectAllHosts /\ Phase # "ended"
    BY <1>2, CollectRefines DEF CollectAllHosts, Shutdown, Phase
  <2>2. QED
    BY <2>1 DEF LP!Next, Phase
<1>3. CASE ShutdownSignal \/ ServerFails \/ ListFails \/ Exit
  <2>1. UNCHANGED <<Owner, Tested, Caller>>
    BY <1>3, PhaseOnly DEF ShutdownSignal, ServerFails, ListFails, Exit, Shutdown
  <2>2. \/ Phase = "up" /\ Phase' = "draining"
        \/ Phase \in {"up", "collected"} /\ Phase' = "ended"
    BY <1>3 DEF ShutdownSignal, ServerFails, ListFails, Exit, Shutdown, Phase
  <2>3. LP!ShutdownSignal \/ LP!End
    BY <2>1, <2>2 DEF LP!ShutdownSignal, LP!End, LP!Enter, Owner, Tested, Caller, CallerOf, Phase
  <2>4. QED
    BY <2>2, <2>3 DEF LP!Next, Phase
<1>4. CASE StillDraining \/ AbortWorkers \/ AllDropped \/ ListManaged \/ SweepStops
  <2>1. UNCHANGED <<Owner, Tested, Caller>>
    BY <1>4, PhaseOnly DEF StillDraining, vars, AbortWorkers, AllDropped, ListManaged, SweepStops, Shutdown
  <2>2. Phase' = Phase
    BY <1>4 DEF StillDraining, vars, sdVars, AbortWorkers, AllDropped, ListManaged, SweepStops, Shutdown, Phase
  <2>3. QED
    BY <2>1, <2>2 DEF LP!vars, Owner, Tested, Caller, CallerOf, Phase
<1>5. CASE DropCollected
  BY <1>5, SupportHidden
<1>6. QED
  BY <1>1, <1>2, <1>3, <1>4, <1>5 DEF ShutdownStep
-----------------------------------------------------------------------------
LEMMA WorkerRefines ==
    ASSUME LeaseInv, LeaseInv', WorkerStep \/ WorkerDies
    PROVE  LP!Next \/ UNCHANGED LP!vars
<1>1. Phase # "ended"
  BY DEF WorkerStep, WorkerDies, Alive, Aborted, Phase, LeaseInv, GuardInv, OwnerInv, PoolInv, TypeOK
<1>2. \/ \E c \in Containers : LP!Settle(c) \/ LP!Scale(c)
      \/ \E cs \in SUBSET LP!At("spare") : LP!Retire(cs)
      \/ LP!AbortReturns
      \/ UNCHANGED LP!vars
  BY ReturnHidden, InspectRefines, ReturnDropsRefines, ReturnDiesRefines, SupportHidden,
     ScaleRefines, ReapRefines DEF WorkerStep, WorkerDies, ReturnStep, ScaleStep
<1>3. QED
  BY <1>1, <1>2 DEF LP!Next, Phase

LEMMA StepRefines == LeaseInv /\ LeaseInv' /\ [Next]_vars => [LP!vars' # LP!vars /\ LP!Next]_LP!vars
<1> SUFFICES ASSUME LeaseInv, LeaseInv', [Next]_vars
             PROVE  LP!Next \/ UNCHANGED LP!vars
  OBVIOUS
<1>1. CASE \E r \in Requests : RequestStep(r)
  BY <1>1, RequestRefines
<1>2. CASE WorkerStep \/ WorkerDies
  BY <1>2, WorkerRefines
<1>3. CASE ShutdownSignal \/ ServerFails \/ ShutdownStep
  BY <1>3, MainRefines
<1>4. CASE DropReaped \/ Expire \/ PortReturned \/ AutoRemove \/ Crash
  BY <1>4, SupportHidden
<1>5. CASE UNCHANGED vars
  <2>1. UNCHANGED <<available_hosts, leased_hosts, lease_chan, tested, pc, lease, port, cont, sd_pc>>
    BY <1>5 DEF vars, poolVars, hostVars, chanVars, taskVars, localVars, sdVars
  <2>2. UNCHANGED <<Owner, Tested, Caller, Phase>>
    BY <2>1, PhaseOnly DEF Phase
  <2>3. QED
    BY <2>2 DEF LP!vars, Owner, Tested, Caller, CallerOf, Phase
<1>6. QED
  BY <1>1, <1>2, <1>3, <1>4, <1>5 DEF Next, Terminated

LEMMA InitRefines == Init => LP!Init
<1> SUFFICES ASSUME Init
             PROVE  LP!Init
  OBVIOUS
<1>1. LeaseInv /\ OwnersKnown
  BY InitLease, OwnersAre
<1>2. Pooled = {}
  BY DEF Init, Pooled, LeasedContainers, Leases, Inspected, At, Tasks, Workers
<1>3. Owner = [c \in Containers |-> "none"] /\ Tested = {}
  BY <1>1, <1>2 DEF OwnersKnown, Owner, Tested, Init
<1>4. Caller = [r \in Requests |-> "idle"] /\ Phase = "up"
  BY DEF Init, Caller, CallerOf, Phase, Tasks
<1>5. QED
  BY <1>3, <1>4 DEF LP!Init, Owner, Tested, Caller, CallerOf, Phase

(***************************************************************************)
(* HostPoolManager is the LeasePool its callers see: however requests,      *)
(* hang-ups, the background tasks and the shutdown interleave around the    *)
(* mutex and the channels, a host passes between the pool and its callers   *)
(* only by the steps of LeasePool.                                          *)
(***************************************************************************)
THEOREM LeasePoolRefinement == Spec => ImplementsLeasePool
<1>1. Spec => []LeaseInv
  BY InitLease, StepLease, PTL DEF Spec
<1>2. QED
  BY <1>1, InitRefines, StepRefines, PTL DEF Spec, ImplementsLeasePool, LP!Spec
-----------------------------------------------------------------------------
(***************************************************************************)
(* No lease is lost.  The release channel never holds an id twice, nor the  *)
(* id the return task is working on, and while the pool is in service each  *)
(* of its ids names an entry: there is room for one more as long as some    *)
(* entry is not in it.                                                      *)
(***************************************************************************)
ReturnsKept ==
    /\ IsInjective(lease_chan) /\ lease["return"] \notin Range(lease_chan)
    /\ InService => Range(lease_chan) \subseteq Leases
    /\ ~ShuttingDown => pc["return"] # "dead"

(* How the release channel changes. *)
LEMMA ChannelMoves ==
    ASSUME OwnerInv, [Next]_vars
    PROVE  \/ UNCHANGED lease_chan /\ lease'["return"] \in {lease["return"], NoLease}
           \/ \E r \in Requests : DropLease(r) /\ RequestStep(r)
           \/ ReceiveLease
           \/ lease_chan' = << >>
<1> USE DEF chanVars, localVars
<1>1. /\ {"return", "cleanup", "scale"} \subseteq Tasks /\ Requests \subseteq Tasks
      /\ "return" \notin Requests
  BY PoolAssumption DEF Tasks, Workers
<1>2. TypeOK
  BY DEF OwnerInv, PoolInv
<1>3. ASSUME NEW t \in Spawners, SpawnStep(t)
      PROVE  UNCHANGED lease_chan
  BY <1>3 DEF SpawnStep, AllocatePort, NoAvailablePorts, CreateContainer, CreateFails,
     StartContainer, StartRefused, StartReplyLost, SpawnFailed
<1>4. ASSUME NEW r \in Requests, RequestStep(r), ~DropLease(r)
      PROVE  UNCHANGED lease_chan /\ lease'["return"] = lease["return"]
  <2>1. lease'["return"] = lease["return"]
    BY <1>1, <1>2, <1>4, RequestMoves DEF OnlyMoves
  <2>2. QED
    BY <1>3, <1>4, <2>1 DEF RequestStep, LeaseHost, LeaseAvailable, MaxInstancesReached, SpawnForLease,
       LeaseSpawned, NewHost, HealthWait, MarkTested, InvalidLease, ContainerNotReady, Cancel, Spawners
<1>5. CASE ReturnDrops \/ ReturnTakes \/ InspectFails \/ ReturnToPool
  BY <1>1, <1>2, <1>5 DEF ReturnDrops, ReturnTakes, InspectFails, ReturnToPool, Forget, TypeOK
<1>6. CASE ReturnDies
  BY <1>6 DEF ReturnDies
<1>7. CASE CleanupStep \/ CleanupDies \/ ScaleStep \/ ScaleDies
  <2>1. UNCHANGED lease_chan
    BY <1>3, <1>7 DEF CleanupStep, ReceiveCleanup, CleanupStops, CleanupDies, ScaleStep, Spawners,
       RunScalingPolicy, ScalerAddsHost, NewHost, ScaleDies
  <2>2. QED
    BY <1>1, <1>2, <1>7, <2>1, WorkerMoves DEF OnlyMoves
<1>8. CASE \/ ReapExpired \/ ShutdownSignal \/ ServerFails \/ ShutdownStep \/ DropReaped
           \/ Expire \/ PortReturned \/ AutoRemove \/ Crash \/ UNCHANGED vars
  <2>1. UNCHANGED lease_chan
    BY <1>8 DEF ReapExpired, ShutdownSignal, ServerFails, ShutdownStep, Shutdown, StillDraining, vars,
       Drained, AbortWorkers, CollectAllHosts, DropCollected, AllDropped, ListManaged, ListFails,
       SweepStops, Exit, DropReaped, Expire, PortReturned, AutoRemove, Crash
  <2>2. QED
    BY <1>8, <2>1, OthersMove
<1>9. QED
  BY <1>4, <1>5, <1>6, <1>7, <1>8
     DEF Next, Terminated, WorkerStep, ReturnStep, WorkerDies

(* A request that holds a HostLease while the pool is in service has an entry no one else releases. *)
LEMMA HoldsEntry ==
    ASSUME LeaseInv, NEW r \in Requests, pc[r] \in Owning
    PROVE  /\ lease[r] \in LeaseIds /\ lease[r] \notin Range(lease_chan) \union {lease["return"]}
           /\ InService => lease[r] \in Leases
<1>1. lease[r] \in LeaseIds /\ lease[r] \notin Released
  BY DEF LeaseInv, GuardInv, OwnerInv, PoolInv, LocalsSet, LeasesAlone
<1>2. InService => leased_hosts[lease[r]] \in Containers
  BY DEF LeaseInv, GuardInv, LeasesHosted
<1>3. QED
  BY <1>1, <1>2, PoolAssumption DEF Released, Leases

LEMMA ReturnsInjectiveStep ==
    ASSUME LeaseInv, ReturnsKept, [Next]_vars
    PROVE  IsInjective(lease_chan') /\ lease'["return"] \notin Range(lease_chan')
<1>1. /\ TypeOK /\ OwnerInv /\ lease_chan \in Seq(LeaseIds) /\ NoLease \notin LeaseIds
      /\ "return" \in Tasks /\ Requests \subseteq Tasks /\ "return" \notin Requests
  BY PoolAssumption DEF LeaseInv, GuardInv, OwnerInv, PoolInv, TypeOK, Tasks, Workers
<1>2. CASE UNCHANGED lease_chan /\ lease'["return"] \in {lease["return"], NoLease}
  <2>1. NoLease \notin Range(lease_chan)
    BY <1>1 DEF Range
  <2>2. QED
    BY <1>2, <2>1 DEF ReturnsKept
<1>3. ASSUME NEW r \in Requests, DropLease(r), RequestStep(r)
      PROVE  IsInjective(lease_chan') /\ lease'["return"] \notin Range(lease_chan')
  <2>1. lease_chan' \in {lease_chan, Append(lease_chan, lease[r])} /\ pc[r] \in Owning
    BY <1>3 DEF DropLease, TrySend, At, Owning
  <2>2. lease[r] \in LeaseIds /\ lease[r] \notin Range(lease_chan) \union {lease["return"]}
    BY <2>1, HoldsEntry
  <2>3. lease'["return"] = lease["return"]
    BY <1>1, <1>3, RequestMoves DEF OnlyMoves
  <2>4. IsInjective(Append(lease_chan, lease[r]))
    BY <1>1, <2>2, AppendKeepsInjective DEF ReturnsKept
  <2>5. Range(Append(lease_chan, lease[r])) = Range(lease_chan) \union {lease[r]}
    BY <1>1, <2>2, AppendRange
  <2>6. QED
    BY <2>1, <2>2, <2>3, <2>4, <2>5 DEF ReturnsKept
<1>4. CASE ReceiveLease
  <2>1. lease'["return"] = Head(lease_chan) /\ lease_chan' = Tail(lease_chan) /\ lease_chan # << >>
    BY <1>1, <1>4 DEF ReceiveLease, TypeOK
  <2>2. IsInjective(Tail(lease_chan)) /\ Range(Tail(lease_chan)) = Range(lease_chan) \ {Head(lease_chan)}
    BY <1>1, <2>1, TailRange DEF ReturnsKept
  <2>3. QED
    BY <2>1, <2>2
<1>5. CASE lease_chan' = << >>
  BY <1>5, EmptyRange DEF IsInjective
<1>6. QED
  BY <1>1, <1>2, <1>3, <1>4, <1>5, ChannelMoves

LEMMA ReturnsListedStep ==
    ASSUME LeaseInv, ReturnsKept, [Next]_vars, InService'
    PROVE  Range(lease_chan') \subseteq Leases'
<1>1. /\ TypeOK /\ OwnerInv /\ InService /\ lease_chan \in Seq(LeaseIds)
      /\ "return" \in Tasks /\ Requests \subseteq Tasks /\ NoContainer \notin Containers
  BY ServiceMoves, PoolAssumption DEF LeaseInv, GuardInv, OwnerInv, PoolInv, TypeOK, Tasks, Workers
<1>2. SUFFICES ASSUME NEW l \in Range(lease_chan')
               PROVE  l \in Leases'
  OBVIOUS
<1>3. /\ l \in Leases /\ l # lease["return"]
      /\ \A q \in Requests : pc[q] = "unready" => lease[q] # l
  <2>1. CASE l \in Range(lease_chan)
    <3>1. \A q \in Requests : pc[q] \in Owning => lease[q] # l
      BY <2>1, HoldsEntry
    <3>2. QED
      BY <1>1, <2>1, <3>1 DEF ReturnsKept, Owning
  <2>2. CASE l \notin Range(lease_chan)
    <3>1. PICK r \in Requests : DropLease(r)
      <4>1. ReceiveLease => Range(lease_chan') \subseteq Range(lease_chan)
        BY <1>1, ReceiveRange DEF ReceiveLease
      <4>2. QED
        BY <1>1, <1>2, <2>2, <4>1, ChannelMoves, EmptyRange
    <3>2. pc[r] = "holding" /\ pc[r] \in Owning
      BY <3>1 DEF DropLease, At, Owning
    <3>3. l = lease[r]
      <4>1. Range(lease_chan') \subseteq Range(lease_chan) \union {lease[r]}
        BY <1>1, <3>1, <3>2, HoldsEntry, SendRange DEF DropLease
      <4>2. QED
        BY <1>2, <2>2, <4>1
    <3>4. \A q \in Requests : pc[q] = "unready" => lease[q] # l
      BY <3>2, <3>3 DEF LeaseInv, GuardInv, LeasesAlone, Owning
    <3>5. QED
      BY <1>1, <3>2, <3>3, <3>4, HoldsEntry
  <2>3. QED
    BY <2>1, <2>2
<1>4. leased_hosts'[l] = leased_hosts[l]
  <2>1. \A m \in FreshLeases : m # l
    BY <1>3 DEF FreshLeases, Leases
  <2>2. sd_pc' # "drop"
    BY DEF InService
  <2>3. QED
    BY <1>1, <1>3, <2>1, <2>2, EntryMoves DEF EntriesMove, EntryGone, TypeOK, Leases
<1>5. QED
  BY <1>3, <1>4 DEF Leases

(* The return task dies of nothing but the shutdown. *)
LEMMA ReturnLives ==
    ASSUME LeaseInv, [Next]_vars, pc'["return"] = "dead"
    PROVE  pc["return"] = "dead" \/ ShuttingDown
<1>1. /\ {"return", "cleanup", "scale"} \subseteq Tasks /\ Requests \subseteq Tasks
      /\ "return" \notin Requests /\ TypeOK
  BY PoolAssumption DEF Tasks, Workers, LeaseInv, GuardInv, OwnerInv, PoolInv
<1>2. ASSUME NEW u \in Tasks \ {"return"}, OnlyMoves(u)
      PROVE  pc["return"] = "dead"
  BY <1>1, <1>2 DEF OnlyMoves
<1>3. CASE \E r \in Requests : RequestStep(r)
  BY <1>1, <1>2, <1>3, RequestMoves
<1>4. CASE CleanupStep \/ CleanupDies \/ ScaleStep \/ ScaleDies
  BY <1>1, <1>2, <1>4, WorkerMoves
<1>5. CASE ReturnStep
  BY <1>1, <1>5 DEF ReturnStep, ReceiveLease, ReturnDrops, ReturnTakes, InspectFails, ReturnToPool,
     Goto, TypeOK
<1>6. CASE Aborted
  BY <1>6 DEF Aborted, ShuttingDown
<1>7. CASE \/ ReapExpired \/ ShutdownSignal \/ ServerFails \/ ShutdownStep \/ DropReaped
           \/ Expire \/ PortReturned \/ AutoRemove \/ Crash \/ UNCHANGED vars
  BY <1>7, OthersMove
<1>8. QED
  BY <1>3, <1>4, <1>5, <1>6, <1>7 DEF Next, Terminated, WorkerStep, WorkerDies

LEMMA StepReturns == LeaseInv /\ ReturnsKept /\ [Next]_vars => ReturnsKept'
BY ReturnsInjectiveStep, ReturnsListedStep, ReturnLives, ServiceMoves DEF ReturnsKept

LEMMA InitReturns == Init => ReturnsKept
BY EmptyRange DEF Init, ReturnsKept, IsInjective, Tasks, Workers

(* A HostLease dropped while the gateway is up finds room in the channel. *)
LEMMA RoomForRelease ==
    ASSUME LeaseInv, ReturnsKept, NEW r \in Requests, DropLease(r), ~ShuttingDown,
           max_instances <= LeaseCap
    PROVE  lease_chan' = Append(lease_chan, lease[r])
<1>1. TypeOK /\ PoolWithinMax /\ InService /\ lease_chan \in Seq(LeaseIds) /\ pc[r] \in Owning
  BY DEF LeaseInv, GuardInv, OwnerInv, PoolInv, TypeOK, ShuttingDown, InService, DropLease, At, Owning
<1>2. lease[r] \in Leases /\ lease[r] \notin Range(lease_chan) /\ lease[r] \in LeaseIds
  BY <1>1, HoldsEntry
<1>3. PICK s : s = Append(lease_chan, lease[r])
  OBVIOUS
<1>4. s \in Seq(LeaseIds) /\ Len(s) = Len(lease_chan) + 1 /\ Len(lease_chan) \in Nat
  BY <1>1, <1>2, <1>3, AppendProperties, LenProperties
<1>5. IsInjective(s) /\ Range(s) \subseteq Leases
  BY <1>1, <1>2, <1>3, AppendKeepsInjective, AppendRange DEF ReturnsKept
<1>6. s \in Seq(Leases)
  BY <1>4, <1>5 DEF Range
<1>7. /\ IsFiniteSet(Leases) /\ Cardinality(Leases) \in Nat /\ Cardinality(available_hosts) \in Nat
  BY <1>1, CountType
<1>8. Len(s) <= Cardinality(Leases)
  BY <1>5, <1>6, <1>7, InjectiveLen
<1>9. Len(lease_chan) < LeaseCap
  BY <1>1, <1>4, <1>7, <1>8, PoolAssumption DEF PoolWithinMax, HostCount
<1>10. pc["return"] # "dead"
  BY DEF ReturnsKept
<1>11. QED
  BY <1>9, <1>10 DEF DropLease, TrySend

(* No other step of LeasePool leaves a host astray. *)
LEMMA NoStray ==
    ASSUME NEW c \in Containers, OwnerOf(c)' = "stray",
           \/ \E r \in Requests : \/ LP!Call(r) \/ LP!Refuse(r) \/ LP!Ready(r) \/ LP!NotReady(r)
                                  \/ \E d \in Containers : LP!Reserve(r, d)
                                  \/ LP!Move(LP!At(r), "returning")
           \/ \E d \in Containers : LP!Settle(d) \/ LP!Scale(d)
           \/ \E cs \in SUBSET LP!At("spare") : LP!Retire(cs)
           \/ UNCHANGED Owner
    PROVE  OwnerOf(c) = "stray"
<1>1. \A r \in Requests : r # "stray"
  BY PlacesAssumption DEF LP!Places
<1>2. ASSUME NEW cs, NEW place, place # "stray", LP!Move(cs, place)
      PROVE  OwnerOf(c) = "stray"
  <2>1. OwnerOf(c)' = IF c \in cs THEN place ELSE OwnerOf(c)
    BY <1>2 DEF LP!Move
  <2>2. QED
    BY <1>2, <2>1
<1>3. CASE UNCHANGED Owner
  BY <1>3 DEF Owner
<1>4. CASE \E r \in Requests : LP!Call(r) \/ LP!Refuse(r) \/ LP!Ready(r)
  BY <1>4, <1>3 DEF LP!Call, LP!Refuse, LP!Ready, Owner
<1>5. CASE \E r \in Requests : LP!NotReady(r) \/ LP!Move(LP!At(r), "returning")
  BY <1>2, <1>5 DEF LP!NotReady
<1>6. CASE \E r \in Requests, d \in Containers : LP!Reserve(r, d)
  BY <1>1, <1>2, <1>6 DEF LP!Reserve
<1>7. CASE \E d \in Containers : LP!Settle(d) \/ LP!Scale(d)
  BY <1>2, <1>7 DEF LP!Settle, LP!Scale
<1>8. CASE \E cs \in SUBSET LP!At("spare") : LP!Retire(cs)
  BY <1>2, <1>8 DEF LP!Retire
<1>9. QED
  BY <1>3, <1>4, <1>5, <1>6, <1>7, <1>8

LEMMA StepKeepsLeases ==
    ASSUME LeaseInv, LeaseInv', ReturnsKept, [Next]_vars, NEW c \in Containers, OwnerOf(c)' = "stray",
           ~ShuttingDown, max_instances <= LeaseCap, \A r \in Requests : ~Cancel(r)
    PROVE  OwnerOf(c) = "stray"
<1>1. ~Aborted
  BY DEF ShuttingDown, Aborted
<1>2. CASE \E r \in Requests : RequestStep(r) /\ DropLease(r)
  <2>1. \E r \in Requests : LP!Move(LP!At(r), "returning")
    BY <1>2, DropMoves, RoomForRelease
  <2>2. QED
    BY <2>1, NoStray
<1>3. CASE \E r \in Requests : RequestStep(r) /\ ~DropLease(r)
  <2>1. PICK r \in Requests : RequestStep(r) /\ ~DropLease(r)
    BY <1>3
  <2>2. \/ LP!Call(r) \/ LP!Refuse(r) \/ LP!Ready(r) \/ LP!NotReady(r)
        \/ \E d \in Containers : LP!Reserve(r, d)
        \/ UNCHANGED LP!vars
    BY <2>1, SpawnRefines, CallsRefine, MarkRefines, NotReadyRefines, ReserveRefines DEF RequestStep
  <2>3. UNCHANGED LP!vars => UNCHANGED Owner
    BY DEF LP!vars, Owner
  <2>4. QED
    BY <2>2, <2>3, NoStray
<1>4. CASE WorkerStep \/ WorkerDies
  <2>1. \/ \E d \in Containers : LP!Settle(d) \/ LP!Scale(d)
        \/ \E cs \in SUBSET LP!At("spare") : LP!Retire(cs)
        \/ UNCHANGED LP!vars
    BY <1>1, <1>4, ReturnHidden, InspectRefines, ReturnDropsRefines, SupportHidden,
       ScaleRefines, ReapRefines DEF WorkerStep, WorkerDies, ReturnStep, ScaleStep
  <2>2. UNCHANGED LP!vars => UNCHANGED Owner
    BY DEF LP!vars, Owner
  <2>3. QED
    BY <2>1, <2>2, NoStray
<1>5. CASE ShutdownSignal \/ ServerFails \/ UNCHANGED vars
  <2>1. UNCHANGED Owner
    <3>1. UNCHANGED <<available_hosts, leased_hosts, lease_chan, tested, pc, lease, port, cont>>
      BY <1>5 DEF ShutdownSignal, ServerFails, Shutdown, vars, poolVars, hostVars, chanVars,
         taskVars, localVars
    <3>2. QED
      BY <3>1, PhaseOnly
  <2>2. QED
    BY <2>1, NoStray
<1>6. CASE DropReaped \/ Expire \/ PortReturned \/ AutoRemove \/ Crash
  <2>1. UNCHANGED Owner
    BY <1>6, SupportHidden DEF LP!vars, Owner
  <2>2. QED
    BY <2>1, NoStray
<1>7. CASE ShutdownStep
  BY <1>7, <1>5 DEF ShuttingDown, ShutdownStep, Shutdown, StillDraining, Drained, AbortWorkers,
     CollectAllHosts, DropCollected, AllDropped, ListManaged, ListFails, SweepStops, Exit
<1>8. QED
  BY <1>2, <1>3, <1>4, <1>5, <1>6, <1>7 DEF Next, Terminated

(***************************************************************************)
(* While the gateway is up a host goes astray only with a caller that hangs *)
(* up before it has its HostLease: a release is never dropped for want of   *)
(* room, because lease_host hands out no more leases than the channel holds.*)
(***************************************************************************)
THEOREM NoLeaseIsLost == Spec => NoLeaseLost
<1>1. Init => LeaseInv /\ ReturnsKept
  BY InitLease, InitReturns
<1>2. LeaseInv /\ ReturnsKept /\ [Next]_vars => LeaseInv' /\ ReturnsKept'
  BY StepLease, StepReturns
<1>3. Spec => [](LeaseInv /\ ReturnsKept)
  BY <1>1, <1>2, PTL DEF Spec
<1>4. ASSUME LeaseInv /\ ReturnsKept, LeaseInv', [Next]_vars
      PROVE  [\A c \in Containers : OwnerOf(c)' = "stray" =>
                \/ OwnerOf(c) = "stray" \/ ShuttingDown \/ LeaseCap < max_instances
                \/ \E r \in Requests : Cancel(r)]_vars
  <2>1. LeaseCap < max_instances \/ max_instances <= LeaseCap
    BY PoolAssumption
  <2>2. QED
    BY <1>4, <2>1, StepKeepsLeases
<1>5. QED
  BY <1>3, <1>4, PTL DEF Spec, NoLeaseLost
=============================================================================
