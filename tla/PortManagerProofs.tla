------------------------- MODULE PortManagerProofs -------------------------
(***************************************************************************)
(* Proofs about PortManager for every port range and channel capacity.      *)
(***************************************************************************)
EXTENDS MCPortManager, SeqLemmas

USE PortAssumption DEF InHand

(* Types: established by new, preserved by every operation. *)
THEOREM TypeCorrect == Spec => []TypeOK
<1>1. Init => TypeOK
  <2> SUFFICES ASSUME Init PROVE TypeOK
    OBVIOUS
  <2>1. Cardinality(Ports) \in Nat
    BY FS_CardinalityType
  <2>2. queue \in [1 .. Cardinality(Ports) -> Ports]
    BY DEF Init, Bijection, Injection
  <2>3. queue \in Seq(Ports)
    BY <2>1, <2>2
  <2>4. << >> \in Seq(Ports) /\ Len(<< >>) = 0
    BY EmptySeq
  <2> QED
    BY <2>3, <2>4, RangeOfSeq DEF Init, TypeOK
<1>2. TypeOK /\ [Next]_vars => TypeOK'
  <2> SUFFICES ASSUME TypeOK, [Next]_vars PROVE TypeOK'
    OBVIOUS
  <2> USE DEF TypeOK
  <2>1. CASE AllocatePort
    BY <2>1, HeadTailProperties DEF AllocatePort, QS!PopFront
  <2>2. CASE NoAvailablePorts
    BY <2>2 DEF NoAvailablePorts, vars
  <2>3. ASSUME NEW p \in Ports, DropPort(p) PROVE TypeOK'
    BY <2>3, AppendProperties, LenProperties DEF DropPort
  <2>4. ASSUME NEW p \in Ports, DropPortFull(p) PROVE TypeOK'
    BY <2>4 DEF DropPortFull
  <2>5. CASE ReceivePort
    BY <2>5, HeadTailProperties, LenProperties DEF ReceivePort
  <2>6. CASE PushPort
    BY <2>6, AppendProperties DEF PushPort, QS!PushBack
  <2>7. CASE UNCHANGED vars
    BY <2>7 DEF vars
  <2> QED
    BY <2>1, <2>2, <2>3, <2>4, <2>5, <2>6, <2>7 DEF Next, ProcessPortReturns
<1> QED
  BY <1>1, <1>2, PTL DEF Spec

(***************************************************************************)
(* Conservation of ports: with the types it is inductive as it stands.      *)
(***************************************************************************)
LEMMA InitConserves == Init => PortConservation
<1> SUFFICES ASSUME Init PROVE PortConservation
  OBVIOUS
<1>1. Cardinality(Ports) \in Nat
  BY FS_CardinalityType
<1>2. Range(queue) = Ports /\ IsInjective(queue)
  BY <1>1 DEF Init, Bijection, Injection, Surjection, Range
<1>3. Range(channel) = {} /\ IsInjective(channel)
  BY DEF Init, Range, IsInjective
<1> QED
  BY <1>2, <1>3 DEF Init, PortConservation

LEMMA StepConserves == TypeOK /\ PortConservation /\ [Next]_vars => PortConservation'
<1> SUFFICES ASSUME TypeOK, PortConservation, [Next]_vars PROVE PortConservation'
  OBVIOUS
<1> USE DEF TypeOK, PortConservation
<1>1. CASE AllocatePort
  BY <1>1, TailRange DEF AllocatePort, QS!PopFront
<1>2. CASE NoAvailablePorts
  BY <1>2 DEF NoAvailablePorts, vars
<1>3. ASSUME NEW p \in Ports, DropPort(p) PROVE PortConservation'
  <2>1. IsInjective(channel') /\ Range(channel') = Range(channel) \union {p}
    BY <1>3, AppendRange, AppendKeepsInjective DEF DropPort
  <2> QED
    BY <1>3, <2>1 DEF DropPort
<1>4. ASSUME NEW p \in Ports, DropPortFull(p) PROVE PortConservation'
  BY <1>4 DEF DropPortFull
<1>5. CASE ReceivePort
  <2>1. /\ IsInjective(channel')
        /\ Range(channel') = Range(channel) \ {Head(channel)}
        /\ Head(channel) \in Range(channel)
    BY <1>5, TailRange DEF ReceivePort
  <2> QED
    BY <1>5, <2>1 DEF ReceivePort
<1>6. CASE PushPort
  <2>1. in_hand \in Ports /\ in_hand \notin set
    BY <1>6 DEF PushPort
  <2>2. /\ IsInjective(queue')
        /\ Range(queue') = Range(queue) \union {in_hand}
    BY <1>6, <2>1, AppendRange, AppendKeepsInjective DEF PushPort, QS!PushBack
  <2> QED
    BY <1>6, <2>1, <2>2 DEF PushPort, QS!PushBack
<1>7. CASE UNCHANGED vars
  BY <1>7 DEF vars
<1> QED
  BY <1>1, <1>2, <1>3, <1>4, <1>5, <1>6, <1>7 DEF Next, ProcessPortReturns

(***************************************************************************)
(* At all times every port of the range is in exactly one place: available, *)
(* owned by one AllocatedPort, on its way back, or lost.                    *)
(***************************************************************************)
THEOREM Conservation == Spec => []PortConservation
  BY TypeCorrect, InitConserves, StepConserves, PTL DEF Spec

(***************************************************************************)
(* A guard's drop meets a full channel only when the range is larger than   *)
(* the channel: the channel's ports are distinct and none is the guard's.   *)
(***************************************************************************)
LEMMA FullChannelMeansLargeRange ==
    ASSUME TypeOK, PortConservation, NEW p \in allocated, Len(channel) >= capacity
    PROVE  Cardinality(Ports) > capacity
<1> DEFINE Others == Ports \ {p}
<1>1. Range(channel) \subseteq Others /\ p \in Ports
  BY RangeOfSeq DEF TypeOK, PortConservation
<1>2. channel \in Seq(Others)
  <2>1. channel \in Seq(Range(channel))
    BY SeqOfRange DEF TypeOK
  <2>2. /\ Len(channel) \in Nat
        /\ DOMAIN channel = 1 .. Len(channel)
        /\ channel = [i \in 1 .. Len(channel) |-> channel[i]]
    BY LenProperties DEF TypeOK
  <2>3. \A i \in 1 .. Len(channel) : channel[i] \in Others
    BY <1>1, <2>2 DEF Range
  <2> QED
    BY <2>2, <2>3
<1>3. /\ IsFiniteSet(Others)
      /\ Cardinality(Others) = Cardinality(Ports) - 1
      /\ Cardinality(Ports) \in Nat
  BY <1>1, FS_RemoveElement, FS_CardinalityType
<1>4. Len(channel) <= Cardinality(Others)
  BY <1>2, <1>3, InjectiveLen DEF PortConservation
<1>5. Len(channel) \in Nat /\ capacity \in Nat
  BY LenProperties, PortAssumption DEF TypeOK
<1> QED
  BY <1>3, <1>4, <1>5

(***************************************************************************)
(* The leak branch of AllocatedPort::drop is unreachable for every range    *)
(* that fits the channel.                                                   *)
(***************************************************************************)
THEOREM NeverLeaks == Spec => []NoPortLeak
<1>1. Init => NoPortLeak
  BY DEF Init, NoPortLeak
<1>2. TypeOK /\ PortConservation /\ NoPortLeak /\ [Next]_vars => NoPortLeak'
  <2> SUFFICES ASSUME TypeOK, PortConservation, NoPortLeak, [Next]_vars,
                      Cardinality(Ports) <= capacity'
               PROVE  lost' = {}
    BY DEF NoPortLeak
  <2>0. capacity' = capacity /\ capacity \in Nat
    BY PortAssumption DEF TypeOK, Next, AllocatePort, NoAvailablePorts, DropPort,
       DropPortFull, ProcessPortReturns, ReceivePort, PushPort, vars
  <2>1. lost = {}
    BY <2>0 DEF NoPortLeak
  <2>2. ASSUME NEW p \in Ports, DropPortFull(p) PROVE lost' = {}
    <3>1. Cardinality(Ports) > capacity
      BY <2>2, FullChannelMeansLargeRange DEF DropPortFull
    <3>2. Cardinality(Ports) \in Nat
      BY FS_CardinalityType
    <3> QED
      BY <2>0, <3>1, <3>2
  <2> QED
    BY <2>1, <2>2 DEF Next, AllocatePort, NoAvailablePorts, DropPort,
       ProcessPortReturns, ReceivePort, PushPort, vars
<1> QED
  BY <1>1, <1>2, TypeCorrect, Conservation, PTL DEF Spec

(***************************************************************************)
(* Refinement.  The ports that are neither available, held nor lost are the *)
(* ones on their way back.                                                  *)
(***************************************************************************)
LEMMA InitRefines == Init => PortPoolImpl!Init
<1> SUFFICES ASSUME Init PROVE PortPoolImpl!Init
  OBVIOUS
<1>1. Range(channel) = {} /\ InHand = {} /\ set = Range(queue)
  BY DEF Init, Range
<1>2. set = Ports
  BY <1>1, InitConserves DEF Init, PortConservation
<1> QED
  BY <1>2 DEF PortPoolImpl!Init, PortStateOf

LEMMA StepRefines ==
    ASSUME TypeOK, TypeOK', PortConservation, PortConservation', [Next]_vars
    PROVE  PortPoolImpl!Next \/ UNCHANGED [p \in Ports |-> PortStateOf(p)]
<1>0. /\ set \intersect allocated = {} /\ set \intersect lost = {}
      /\ allocated \intersect lost = {}
      /\ set \subseteq Ports /\ allocated \subseteq Ports
      /\ in_hand \notin set
      /\ set = Range(queue)
  BY DEF TypeOK, PortConservation
<1>1. CASE AllocatePort
  <2> DEFINE p == Head(queue)
  <2>1. p \in set /\ set' = set \ {p} /\ allocated' = allocated \union {p} /\ lost' = lost
    BY <1>1, TailRange DEF AllocatePort, QS!PopFront, TypeOK, PortConservation
  <2> HIDE DEF p
  <2>2. PortPoolImpl!Acquire(p)
    BY <1>0, <2>1 DEF PortPoolImpl!Acquire, PortPoolImpl!Moves, PortStateOf
  <2> QED
    BY <1>0, <2>1, <2>2 DEF PortPoolImpl!Next
<1>2. CASE NoAvailablePorts
  BY <1>2 DEF NoAvailablePorts, vars, PortStateOf
<1>3. ASSUME NEW p \in Ports, DropPort(p) PROVE PortPoolImpl!GiveBack(p)
  BY <1>0, <1>3 DEF DropPort, PortPoolImpl!GiveBack, PortPoolImpl!Moves, PortStateOf
<1>4. ASSUME NEW p \in Ports, DropPortFull(p) PROVE PortPoolImpl!Lose(p)
  BY <1>0, <1>4 DEF DropPortFull, PortPoolImpl!Lose, PortPoolImpl!Moves, PortStateOf
<1>5. CASE ReceivePort
  BY <1>5 DEF ReceivePort, PortStateOf
<1>6. CASE PushPort
  <2>1. PICK p \in Ports : p = in_hand
    BY <1>6 DEF PushPort, TypeOK
  <2>2. p \notin set /\ p \notin allocated /\ p \notin lost
    <3>1. p \in InHand
      BY <2>1
    <3> QED
      BY <3>1 DEF PortConservation
  <2>3. set' = set \union {p} /\ allocated' = allocated /\ lost' = lost
    BY <1>6, <2>1 DEF PushPort, QS!PushBack
  <2>4. PortPoolImpl!Restore(p)
    BY <2>2, <2>3 DEF PortPoolImpl!Restore, PortPoolImpl!Moves, PortStateOf
  <2> QED
    BY <2>4 DEF PortPoolImpl!Next
<1>7. CASE UNCHANGED vars
  BY <1>7 DEF vars, PortStateOf
<1> QED
  BY <1>1, <1>2, <1>3, <1>4, <1>5, <1>6, <1>7
  DEF Next, ProcessPortReturns, PortPoolImpl!Next

(* The port manager, for every range and capacity, is an abstract port pool. *)
THEOREM Refinement == Spec => ImplementsPortPool
<1> USE DEF ImplementsPortPool, PortPoolImpl!Spec
<1>1. Init => PortPoolImpl!Init
  BY InitRefines
<1>2. TypeOK /\ TypeOK' /\ PortConservation /\ PortConservation' /\ [Next]_vars
        => [PortPoolImpl!Next]_([p \in Ports |-> PortStateOf(p)])
  BY StepRefines
<1> QED
  BY <1>1, <1>2, TypeCorrect, Conservation, PTL DEF Spec

(***************************************************************************)
(* Rotation.  The ports a returned port still has to wait for stand before  *)
(* it in the queue; so the port at the head waits for none.                 *)
(***************************************************************************)
Before(i) == {queue[j] : j \in 1 .. (i - 1)}

WaitsForTheFront ==
    /\ ahead \in [Ports -> SUBSET Ports]
    /\ \A i \in 1 .. Len(queue) : ahead[queue[i]] \subseteq Before(i)

LEMMA RotationKept ==
    ASSUME TypeOK, PortConservation, WaitsForTheFront, Next, Remember
    PROVE  WaitsForTheFront'
<1> USE DEF WaitsForTheFront, Before
<1>0. /\ queue \in Seq(Ports) /\ Len(queue) \in Nat
      /\ \A i \in 1 .. Len(queue) : queue[i] \in Ports /\ queue[i] \in set
      /\ set = {queue[i] : i \in 1 .. Len(queue)} /\ set \subseteq Ports
  BY LenProperties DEF TypeOK, PortConservation, Range
<1>1. ahead' \in [Ports -> SUBSET Ports]
  BY <1>0 DEF Remember
<1>2. CASE AllocatePort
  <2>1. /\ queue' = Tail(queue) /\ queue # << >>
        /\ set' = set \ {queue[1]}
    BY <1>2 DEF AllocatePort, QS!PopFront
  <2>2. /\ Len(queue') = Len(queue) - 1
        /\ \A i \in 1 .. Len(queue') : queue'[i] = queue[i + 1]
    BY <1>0, <2>1, HeadTailProperties
  <2>3. ASSUME NEW i \in 1 .. Len(queue'), NEW q \in ahead'[queue'[i]]
        PROVE  \E j \in 1 .. (i - 1) : q = queue'[j]
    <3>1. i + 1 \in 1 .. Len(queue) /\ queue'[i] = queue[i + 1]
      BY <1>0, <2>2
    <3>2. q \in ahead[queue[i + 1]] /\ q # queue[1]
      BY <1>0, <2>1, <2>3, <3>1 DEF Remember
    <3>3. PICK k \in 1 .. i : q = queue[k]
      BY <3>1, <3>2
    <3>4. k - 1 \in 1 .. (i - 1) /\ k - 1 \in 1 .. Len(queue')
      BY <1>0, <2>2, <3>2, <3>3
    <3>5. queue'[k - 1] = queue[k]
      BY <2>2, <3>4
    <3> QED
      BY <3>3, <3>4, <3>5
  <2> QED
    BY <1>1, <2>3
<1>3. CASE PushPort
  <2>1. in_hand \in Ports /\ in_hand \notin set
    BY <1>3 DEF PushPort, TypeOK, PortConservation, InHand
  <2>2. queue' = Append(queue, in_hand) /\ set' = set \union {in_hand}
    BY <1>3, <2>1 DEF PushPort, QS!PushBack
  <2>3. /\ Len(queue') = Len(queue) + 1 /\ queue'[Len(queue) + 1] = in_hand
        /\ \A i \in 1 .. Len(queue) : queue'[i] = queue[i]
    BY <1>0, <2>1, <2>2, AppendProperties
  <2>4. ASSUME NEW i \in 1 .. Len(queue), NEW q \in ahead'[queue'[i]]
        PROVE  \E j \in 1 .. (i - 1) : q = queue'[j]
    <3>1. q \in ahead[queue[i]]
      BY <1>0, <2>2, <2>3, <2>4 DEF Remember
    <3>2. PICK j \in 1 .. (i - 1) : q = queue[j]
      BY <3>1
    <3>3. j \in 1 .. Len(queue)
      BY <1>0
    <3> QED
      BY <2>3, <3>2, <3>3
  <2>5. ahead'[in_hand] = set
    BY <2>1, <2>2 DEF Remember
  <2> QED
    BY <1>0, <1>1, <2>3, <2>4, <2>5
<1>4. ASSUME UNCHANGED <<queue, set>> PROVE WaitsForTheFront'
  <2>1. \A i \in 1 .. Len(queue) : ahead'[queue[i]] \subseteq ahead[queue[i]]
    BY <1>0, <1>4 DEF Remember
  <2>2. queue' = queue
    BY <1>4
  <2>3. ASSUME NEW i \in 1 .. Len(queue), NEW q \in ahead'[queue[i]]
        PROVE  q \in Before(i)
    BY <2>1, <2>3
  <2> QED
    BY <1>1, <2>2, <2>3
<1> QED
  BY <1>2, <1>3, <1>4 DEF Next, NoAvailablePorts, DropPort, DropPortFull,
     ProcessPortReturns, ReceivePort, vars

(***************************************************************************)
(* A returned port is handed out again only after every port that was       *)
(* available when it came back: allocate_port takes the head of the queue,  *)
(* and process_port_returns appends.                                        *)
(***************************************************************************)
THEOREM Rotation == MCSpec => RotationGrace
<1>1. MCInit => Init /\ WaitsForTheFront
  <2> SUFFICES ASSUME MCInit PROVE Init /\ WaitsForTheFront
    OBVIOUS
  <2>1. Len(queue) \in Nat /\ \A i \in 1 .. Len(queue) : queue[i] \in Ports
    BY FS_CardinalityType DEF MCInit, Init, Bijection, Injection
  <2> QED
    BY <2>1 DEF MCInit, WaitsForTheFront, Before
<1>2. [Next /\ Remember]_<<vars, ahead>> => [Next]_vars
  OBVIOUS
<1>3. /\ TypeOK /\ PortConservation /\ WaitsForTheFront
      /\ [Next /\ Remember]_<<vars, ahead>>
      => WaitsForTheFront'
  <2> SUFFICES ASSUME TypeOK, PortConservation, WaitsForTheFront,
                      [Next /\ Remember]_<<vars, ahead>>
               PROVE  WaitsForTheFront'
    OBVIOUS
  <2>1. CASE Next /\ Remember
    BY <2>1, RotationKept
  <2>2. CASE UNCHANGED <<vars, ahead>>
    BY <2>2 DEF vars, WaitsForTheFront, Before
  <2> QED
    BY <2>1, <2>2
<1>4. /\ TypeOK /\ PortConservation /\ WaitsForTheFront
      /\ [Next /\ Remember]_<<vars, ahead>>
      => [\A p \in allocated' \ allocated : ahead[p] = {}]_<<vars, ahead>>
  <2> SUFFICES ASSUME TypeOK, WaitsForTheFront, Next, NEW p \in allocated' \ allocated
               PROVE  ahead[p] = {}
    OBVIOUS
  <2>1. queue # << >> /\ p = queue[1]
    BY DEF Next, AllocatePort, NoAvailablePorts, DropPort, DropPortFull, ProcessPortReturns,
       ReceivePort, PushPort, QS!PopFront, vars
  <2>2. 1 \in 1 .. Len(queue)
    BY <2>1, HeadTailProperties, LenProperties DEF TypeOK
  <2> QED
    BY <2>1, <2>2 DEF WaitsForTheFront, Before
<1> QED
  BY <1>1, <1>2, <1>3, <1>4, TypeCorrect, Conservation, PTL DEF Spec, MCSpec, RotationGrace
=============================================================================
