--------------------------- MODULE GatewayProofs ---------------------------
(***************************************************************************)
(* Theorems about Gateway, over the lemmas about the two modules it is made *)
(* of: the abstract LeasePool, and the Runtime of every container.          *)
(***************************************************************************)
EXTENDS Gateway, FiniteSetTheorems, TLAPS

RP == INSTANCE RuntimeProofs WITH Servers <- Containers, Conns <- Requests

(***************************************************************************)
(* RP and RT are instances of the same definitions.                         *)
(***************************************************************************)
LEMMA SameHeld ==
    /\ \A c : RT!Held(c) = RP!Held(c)
    /\ \A c : RT!Held(c)' = RP!Held(c)'
BY DEF RT!Held, RP!Held, RT!Range, RP!Range

LEMMA SameTypes == RT!TypeOK <=> RP!TypeOK
BY DEF RT!TypeOK, RP!TypeOK, RT!Kinds, RP!Kinds, RT!NoStatus, RP!NoStatus

LEMMA SameInit == RT!Init => RP!Init
BY DEF RT!Init, RP!Init, RT!NoStatus, RP!NoStatus

LEMMA SameLaunch == ASSUME NEW c PROVE RT!Launch(c) => RP!Launch(c)
BY DEF RT!Launch, RP!Launch

LEMMA SameHangUp == ASSUME NEW r PROVE RT!HangUp(r) => RP!HangUp(r)
BY DEF RT!HangUp, RP!HangUp, RT!serverVars, RP!serverVars, RT!Waiting, RP!Waiting

LEMMA SameConnect == ASSUME NEW r, NEW c, NEW x PROVE RT!Connect(r, c, x) => RP!Connect(r, c, x)
BY DEF RT!Connect, RP!Connect

LEMMA SameDie == ASSUME NEW c PROVE RT!Die(c) => RP!Die(c)
BY DEF RT!Die, RP!Die, RT!Enter, RP!Enter, RT!Held, RP!Held, RT!Range, RP!Range, RT!Waiting, RP!Waiting

LEMMA SameServing ==
    ASSUME NEW c
    PROVE  /\ RT!Bind(c) => RP!Bind(c)
           /\ RT!Accept(c) => RP!Accept(c)
           /\ RT!ProcessInvoke(c) => RP!ProcessInvoke(c)
           /\ RT!WriteHead(c) => RP!WriteHead(c)
           /\ RT!WriteBody(c) => RP!WriteBody(c)
           /\ RT!ClientLost(c) => RP!ClientLost(c)
BY DEF RT!Bind, RP!Bind, RT!Accept, RP!Accept, RT!ProcessInvoke, RP!ProcessInvoke, RT!parse_request,
       RP!parse_request, RT!WriteHead, RP!WriteHead, RT!WriteBody, RP!WriteBody, RT!ClientLost,
       RP!ClientLost, RT!Polled, RP!Polled, RT!Enter, RP!Enter

LEMMA SameReturns == ASSUME NEW c PROVE RT!HandlerReturns(c) => RP!HandlerReturns(c)
BY DEF RT!HandlerReturns, RP!HandlerReturns, RT!Answer, RP!Answer, RT!Enter, RP!Enter,
       RT!build_http_response, RP!build_http_response
-----------------------------------------------------------------------------
(***************************************************************************)
(* What the runtimes do in a step of the gateway: they keep their           *)
(* invariant, and without a Connect nothing new comes to wait.              *)
(***************************************************************************)
RuntimeStep ==
    \/ UNCHANGED runtimeVars
    \/ \E r \in Requests : RT!HangUp(r)
    \/ \E c \in Containers : RT!Launch(c) \/ ContainerStep(c)

Quiet ==
    /\ \A c \in Containers : RT!Held(c)' \subseteq RT!Held(c)
    /\ \A r \in Requests :
        /\ client'[r] = "waiting" => client[r] = "waiting"
        /\ client'[r] = "none" <=> client[r] = "none"
        /\ sent'[r] = sent[r]
        /\ handled'[r] = handled[r] \/ (handled[r] = 0 /\ handled'[r] = 1)

LEMMA AssumedOfRuntime == RP!RuntimeAssumption
BY GatewayAssumption DEF RT!RuntimeAssumption, RP!RuntimeAssumption

LEMMA QuietAlike == RP!Quiet <=> Quiet
BY SameHeld DEF Quiet, RP!Quiet

LEMMA ServerStepAlike ==
    ASSUME NEW c \in Containers, ContainerStep(c)
    PROVE  RP!ServerStep(c) \/ RP!Die(c)
<1>1. RT!HandlerPanics(c) => RT!Die(c)
  BY DEF RT!HandlerPanics
<1>2. QED
  BY <1>1, SameDie, SameServing, SameReturns DEF ContainerStep, RP!ServerStep

LEMMA RuntimeQuiet ==
    ASSUME RP!RuntimeInv, RuntimeStep
    PROVE  RP!RuntimeInv' /\ Quiet /\ [RP!Next]_RP!vars
<1>1. CASE UNCHANGED runtimeVars
  <2>1. UNCHANGED RP!vars
    BY <1>1 DEF runtimeVars, RP!vars
  <2>2. RP!RuntimeInv'
    BY <2>1, AssumedOfRuntime, RP!StepRuntime
  <2>3. Quiet
    BY <1>1 DEF runtimeVars, Quiet, RT!Held
  <2>4. QED
    BY <2>1, <2>2, <2>3
<1>2. ASSUME NEW r \in Requests, RT!HangUp(r)
      PROVE  RP!RuntimeInv' /\ Quiet /\ [RP!Next]_RP!vars
  <2>1. RP!HangUp(r)
    BY <1>2, SameHangUp
  <2>2. [RP!Next]_RP!vars
    BY <2>1 DEF RP!Next
  <2>3. RP!RuntimeInv'
    BY <2>2, AssumedOfRuntime, RP!StepRuntime
  <2>4. Quiet
    BY <2>1, AssumedOfRuntime, RP!QuietHangUp, QuietAlike
  <2>5. QED
    BY <2>2, <2>3, <2>4
<1>3. ASSUME NEW c \in Containers, RT!Launch(c) \/ ContainerStep(c)
      PROVE  RP!RuntimeInv' /\ Quiet /\ [RP!Next]_RP!vars
  <2>1. RP!Launch(c) \/ RP!ServerStep(c) \/ RP!Die(c)
    BY <1>3, SameLaunch, ServerStepAlike
  <2>2. [RP!Next]_RP!vars
    BY <2>1 DEF RP!Next
  <2>3. RP!RuntimeInv'
    BY <2>2, AssumedOfRuntime, RP!StepRuntime
  <2>4. Quiet
    BY <2>1, AssumedOfRuntime, RP!QuietStep, QuietAlike
  <2>5. QED
    BY <2>2, <2>3, <2>4
<1>4. QED
  BY <1>1, <1>2, <1>3 DEF RuntimeStep
-----------------------------------------------------------------------------
(***************************************************************************)
(* The invariant.  A lease and the request that has it know each other.     *)
(***************************************************************************)
LocalTypes ==
    /\ LP!TypeOK
    /\ pc \in [Requests -> {"new", "convert", "attempt", "lease", "forward", "body",
                            "answered", "gone"}]
    /\ attempt \in [Requests -> 0 .. max_attempts]
    /\ on \in [Requests -> Containers \union {NoContainer}]
    /\ answer \in [Requests -> {NoAnswer, FromLambda, 400, 500, 502, 503, 504}]

Calls ==
    \A r \in Requests :
        /\ caller[r] = "calling" => pc[r] = "lease"
        /\ caller[r] = "holding" => pc[r] \in {"lease", "forward"} /\ on[r] \in Containers
        /\ pc[r] \in {"lease", "forward"} => caller[r] # "idle"
        /\ pc[r] \in {"new", "convert", "attempt"} => on[r] = NoContainer

Leased ==
    \A r \in Requests, c \in Containers : owner[c] = r => on[r] = c /\ caller[r] # "idle"

(***************************************************************************)
(* Nobody else has the container of a lease, nor gets it after the shutdown *)
(* has collected its host, until the request has ended.                     *)
(***************************************************************************)
Sole ==
    \A r \in Requests : caller[r] # "idle" /\ on[r] \in Containers =>
        /\ owner[on[r]] \in {r, "none"}
        /\ \A s \in Requests \ {r} : caller[s] # "idle" => on[s] # on[r]

(* What a request has sent, and what it may have been told. *)
Requested(r) ==
    /\ pc[r] \in {"new", "convert", "attempt", "lease"} => client[r] = "none" /\ answer[r] = NoAnswer
    /\ answer[r] \in {400, 503} => client[r] = "none"
    /\ client[r] # "none" => sent[r] = "invoke"
    /\ client[r] = "waiting" =>
         /\ pc[r] = "forward" /\ caller[r] = "holding"
         /\ \A c \in Containers : r \in RT!Held(c) => on[r] = c
    /\ pc[r] = "body" => handled[r] = 1
    /\ answer[r] \in {500, FromLambda} => handled[r] = 1
    /\ handled[r] \in {0, 1}

(* The inductive invariant behind every invariant of Gateway. *)
CallerInv == LocalTypes /\ Calls /\ Leased /\ Sole
GatewayInv == RP!RuntimeInv /\ CallerInv /\ \A r \in Requests : Requested(r)

LEMMA InitGateway == Init => GatewayInv
<1> SUFFICES ASSUME Init
             PROVE  GatewayInv
  OBVIOUS
<1>1. RP!RuntimeInv
  BY SameInit, AssumedOfRuntime, RP!InitRuntime DEF Init
<1>2. LocalTypes
  BY DEF Init, LP!Init, LocalTypes, LP!TypeOK, LP!Places, LP!Phases, max_attempts
<1>3. Calls /\ Leased /\ Sole
  BY GatewayAssumption DEF Init, LP!Init, Calls, Leased, Sole, LP!LeasePoolAssumption, LP!Places
<1>4. \A r \in Requests : Requested(r)
  BY DEF Init, RT!Init, Requested, NoAnswer, FromLambda
<1>5. QED
  BY <1>1, <1>2, <1>3, <1>4 DEF GatewayInv, CallerInv

(* A request is nobody's place in the pool. *)
LEMMA NoRequestIsAPlace ==
    \A r \in Requests : r \notin {"none", "spare", "returning", "stray"}
BY GatewayAssumption DEF LP!LeasePoolAssumption, LP!Places

(***************************************************************************)
(* Requests the step does not concern: their locals stay, and the runtimes  *)
(* are quiet.                                                               *)
(***************************************************************************)
LEMMA OthersKept ==
    ASSUME Quiet, NEW r \in Requests, Requested(r),
           pc'[r] = pc[r], answer'[r] = answer[r], on'[r] = on[r], caller'[r] = caller[r]
    PROVE  Requested(r)'
<1>1. /\ \A c \in Containers : RT!Held(c)' \subseteq RT!Held(c)
      /\ client'[r] = "waiting" => client[r] = "waiting"
      /\ client'[r] = "none" <=> client[r] = "none"
      /\ sent'[r] = sent[r]
      /\ handled'[r] = handled[r] \/ (handled[r] = 0 /\ handled'[r] = 1)
  BY DEF Quiet
<1>2. QED
  BY <1>1 DEF Requested, NoAnswer, FromLambda

(***************************************************************************)
(* A request that has no lease after the step: it had none, or gives it up. *)
(***************************************************************************)
GivesUp(r) ==
    /\ caller' \in [Requests -> {"idle", "calling", "holding"}]
    /\ caller'[r] = "idle" /\ \A s \in Requests \ {r} : caller'[s] = caller[s]
    /\ owner' \in [Containers -> LP!Places \union Requests]
    /\ \A c \in Containers :
         IF owner[c] = r THEN owner'[c] \in {"none", "returning", "stray"} ELSE owner'[c] = owner[c]
    /\ tested' \subseteq Containers
    /\ UNCHANGED phase

LEMMA GivesUpWhen ==
    ASSUME LocalTypes, NEW r \in Requests,
           \/ LP!NotReady(r) \/ LP!GiveBack(r) \/ LP!HangUp(r)
           \/ LP!Refuse(r)
    PROVE  GivesUp(r)
<1>1. /\ caller \in [Requests -> {"idle", "calling", "holding"}]
      /\ owner \in [Containers -> LP!Places \union Requests] /\ tested \subseteq Containers
  BY DEF LocalTypes, LP!TypeOK
<1>2. caller' = [caller EXCEPT ![r] = "idle"] /\ UNCHANGED phase
  BY DEF LP!NotReady, LP!GiveBack, LP!HangUp, LP!Refuse, LP!Become
<1>3. CASE LP!Refuse(r)
  BY <1>1, <1>2, <1>3 DEF LP!Refuse, LP!At, GivesUp
<1>4. ASSUME NEW place \in {"none", "returning", "stray"}, LP!Move(LP!At(r), place)
      PROVE  GivesUp(r)
  <2>1. /\ owner' = [c \in Containers |-> IF owner[c] = r THEN place ELSE owner[c]]
        /\ tested' \subseteq Containers
    BY <1>1, <1>4 DEF LP!Move, LP!At
  <2>2. QED
    BY <1>1, <1>2, <2>1 DEF GivesUp, LP!Places
<1>5. QED
  BY <1>3, <1>4 DEF LP!NotReady, LP!GiveBack, LP!HangUp

LEMMA GivesUpWithout ==
    ASSUME CallerInv, NEW r \in Requests, caller[r] = "idle", UNCHANGED poolVars
    PROVE  GivesUp(r)
BY DEF CallerInv, LocalTypes, LP!TypeOK, Leased, GivesUp, poolVars

(* A step changes the locals of one request, within their types. *)
Alone(r) ==
    /\ attempt' \in [Requests -> 0 .. max_attempts]
    /\ answer' \in [Requests -> {NoAnswer, FromLambda, 400, 500, 502, 503, 504}]
    /\ pc' \in [Requests -> {"new", "convert", "attempt", "lease", "forward", "body",
                             "answered", "gone"}]
    /\ on' \in [Requests -> Containers \union {NoContainer}]
    /\ \A s \in Requests \ {r} : pc'[s] = pc[s] /\ on'[s] = on[s] /\ answer'[s] = answer[s]

LEMMA CallerInvGivesUp ==
    ASSUME CallerInv, NEW r \in Requests, GivesUp(r), Alone(r),
           pc'[r] \notin {"lease", "forward"},
           pc'[r] \in {"new", "convert", "attempt"} => on'[r] = NoContainer
    PROVE  CallerInv'
<1>1. LocalTypes'
  BY DEF CallerInv, LocalTypes, LP!TypeOK, GivesUp, Alone
<1>2. Calls'
  BY DEF CallerInv, Calls, GivesUp, Alone
<1>3. \A c \in Containers : owner'[c] # r /\ owner'[c] \in {owner[c], "none", "returning", "stray"}
  BY NoRequestIsAPlace DEF GivesUp
<1>4. Leased'
  BY <1>3, NoRequestIsAPlace DEF CallerInv, Leased, GivesUp, Alone
<1>5. Sole'
  <2>1. SUFFICES ASSUME NEW s \in Requests, caller'[s] # "idle", on'[s] \in Containers
                 PROVE  /\ owner'[on'[s]] \in {s, "none"}
                        /\ \A t \in Requests \ {s} : caller'[t] # "idle" => on'[t] # on'[s]
    BY DEF Sole
  <2>2. s # r /\ caller[s] # "idle" /\ on'[s] = on[s]
    BY <2>1 DEF GivesUp, Alone
  <2>3. owner[on[s]] \in {s, "none"} /\ \A t \in Requests \ {s} : caller[t] # "idle" => on[t] # on[s]
    BY <2>1, <2>2 DEF CallerInv, Sole
  <2>4. owner'[on[s]] = owner[on[s]]
    BY <2>1, <2>2, <2>3, NoRequestIsAPlace DEF GivesUp
  <2>5. QED
    BY <2>1, <2>2, <2>3, <2>4 DEF GivesUp, Alone
<1>6. QED
  BY <1>1, <1>2, <1>4, <1>5 DEF CallerInv

LEMMA GivesUpStep ==
    ASSUME GatewayInv, NEW r \in Requests, GivesUp(r), Alone(r), RuntimeStep,
           pc'[r] \notin {"lease", "forward"},
           pc'[r] \in {"new", "convert", "attempt"} => on'[r] = NoContainer,
           Quiet => Requested(r)'
    PROVE  GatewayInv'
<1>1. RP!RuntimeInv' /\ Quiet
  BY RuntimeQuiet DEF GatewayInv
<1>2. CallerInv'
  BY CallerInvGivesUp DEF GatewayInv
<1>3. \A s \in Requests \ {r} : Requested(s)'
  BY <1>1, OthersKept DEF GatewayInv, GivesUp, Alone
<1>4. QED
  BY <1>1, <1>2, <1>3 DEF GatewayInv

(* The parts of End, and of a move to another await. *)
LEMMA EndLocals ==
    ASSUME LocalTypes, NEW r \in Requests, NEW place \in {"answered", "gone"},
           NEW a \in {NoAnswer, FromLambda, 400, 500, 502, 503, 504}, End(r, place, a)
    PROVE  Alone(r) /\ pc'[r] = place /\ answer'[r] = a /\ on'[r] = NoContainer
BY DEF LocalTypes, End, Goto, Alone, max_attempts

LEMMA GotoLocals ==
    ASSUME LocalTypes, NEW r \in Requests,
           NEW place \in {"convert", "attempt", "lease", "forward", "body"}, Goto(r, place),
           attempt' \in [Requests -> 0 .. max_attempts],
           on' = on \/ (\E c \in Containers \union {NoContainer} : on' = [on EXCEPT ![r] = c]),
           UNCHANGED answer
    PROVE  Alone(r) /\ pc'[r] = place
<1>1. pc'[r] = place /\ \A s \in Requests \ {r} : pc'[s] = pc[s]
  BY DEF LocalTypes, Goto
<1>2. pc' \in [Requests -> {"new", "convert", "attempt", "lease", "forward", "body",
                            "answered", "gone"}]
  BY DEF LocalTypes, Goto
<1>3. /\ on' \in [Requests -> Containers \union {NoContainer}]
      /\ \A s \in Requests \ {r} : on'[s] = on[s]
  BY DEF LocalTypes
<1>4. QED
  BY <1>1, <1>2, <1>3 DEF LocalTypes, Alone
-----------------------------------------------------------------------------
(***************************************************************************)
(* A request that gives its lease up, or has none, moves on or ends.        *)
(***************************************************************************)
LEMMA HandleRequestStep ==
    ASSUME GatewayInv, NEW r \in Requests, HandleRequest(r)
    PROVE  GatewayInv'
<1>1. /\ pc[r] = "new" /\ Goto(r, "convert")
      /\ UNCHANGED <<poolVars, runtimeVars, attempt, on, answer>>
  BY DEF HandleRequest, At
<1>2. Alone(r) /\ pc'[r] = "convert"
  BY <1>1, GotoLocals DEF GatewayInv, CallerInv, LocalTypes
<1>3. caller[r] = "idle" /\ on[r] = NoContainer
  BY <1>1 DEF GatewayInv, CallerInv, Calls, LocalTypes, LP!TypeOK
<1>4. GivesUp(r)
  BY <1>1, <1>3, GivesUpWithout DEF GatewayInv
<1>5. ASSUME Quiet
      PROVE  Requested(r)'
  BY <1>1, <1>2, <1>5 DEF GatewayInv, Requested, Quiet, NoAnswer, FromLambda
<1>6. QED
  BY <1>1, <1>2, <1>3, <1>4, <1>5, GivesUpStep DEF RuntimeStep

LEMMA ConvertStep ==
    ASSUME GatewayInv, NEW r \in Requests, Convert(r)
    PROVE  GatewayInv'
<1>1. /\ pc[r] = "convert" /\ Goto(r, "attempt")
      /\ attempt' = [attempt EXCEPT ![r] = 1]
      /\ UNCHANGED <<poolVars, runtimeVars, on, answer>>
  BY DEF Convert, At
<1>2. attempt' \in [Requests -> 0 .. max_attempts]
  BY <1>1 DEF GatewayInv, CallerInv, LocalTypes, max_attempts
<1>3. Alone(r) /\ pc'[r] = "attempt"
  BY <1>1, <1>2, GotoLocals DEF GatewayInv, CallerInv
<1>4. caller[r] = "idle" /\ on[r] = NoContainer
  BY <1>1 DEF GatewayInv, CallerInv, Calls, LocalTypes, LP!TypeOK
<1>5. GivesUp(r)
  BY <1>1, <1>4, GivesUpWithout DEF GatewayInv
<1>6. ASSUME Quiet
      PROVE  Requested(r)'
  BY <1>1, <1>3, <1>6 DEF GatewayInv, Requested, Quiet, NoAnswer, FromLambda
<1>7. QED
  BY <1>1, <1>3, <1>4, <1>5, <1>6, GivesUpStep DEF RuntimeStep

(* A request ends with an answer or without. *)
LEMMA EndStep ==
    ASSUME GatewayInv, NEW r \in Requests, NEW place \in {"answered", "gone"},
           NEW a \in {NoAnswer, FromLambda, 400, 500, 502, 503, 504}, End(r, place, a),
           GivesUp(r), RuntimeStep,
           Quiet => client'[r] # "waiting",
           a \in {400, 503} => client[r] = "none",
           a \in {500, FromLambda} => handled[r] = 1
    PROVE  GatewayInv'
<1>1. Alone(r) /\ pc'[r] = place /\ answer'[r] = a /\ on'[r] = NoContainer
  BY EndLocals DEF GatewayInv, CallerInv
<1>2. ASSUME Quiet
      PROVE  Requested(r)'
  BY <1>1, <1>2 DEF GatewayInv, Requested, Quiet
<1>3. QED
  BY <1>1, <1>2, GivesUpStep

LEMMA EndsUnleased ==
    ASSUME GatewayInv, NEW r \in Requests,
           ConvertFails(r) \/ ShuttingDown(r) \/ Respond(r) \/ BodyFails(r)
    PROVE  GatewayInv'
<1>1. UNCHANGED poolVars /\ RuntimeStep
  BY DEF ConvertFails, ShuttingDown, Respond, BodyFails, RuntimeStep
<1>2. pc[r] \in {"convert", "attempt", "body"}
  BY DEF ConvertFails, ShuttingDown, Respond, BodyFails, At
<1>3. caller[r] = "idle"
  BY <1>2 DEF GatewayInv, CallerInv, Calls, LocalTypes, LP!TypeOK
<1>4. GivesUp(r)
  BY <1>1, <1>3, GivesUpWithout DEF GatewayInv
<1>5. Requested(r) /\ (Quiet => client'[r] # "waiting")
  BY <1>2 DEF GatewayInv, Requested, Quiet
<1>6. CASE ConvertFails(r)
  <2>1. End(r, "answered", 400) /\ client[r] = "none"
    BY <1>5, <1>6 DEF ConvertFails, Fails, status_code, At, Requested
  <2>2. QED
    BY <1>1, <1>4, <1>5, <2>1, EndStep DEF FromLambda
<1>7. CASE ShuttingDown(r)
  <2>1. End(r, "answered", 503) /\ client[r] = "none"
    BY <1>5, <1>7 DEF ShuttingDown, Fails, status_code, At, Requested
  <2>2. QED
    BY <1>1, <1>4, <1>5, <2>1, EndStep DEF FromLambda
<1>8. CASE Respond(r)
  <2>1. End(r, "answered", FromLambda) /\ handled[r] = 1
    BY <1>5, <1>8 DEF Respond, At, Requested
  <2>2. QED
    BY <1>1, <1>4, <1>5, <2>1, EndStep DEF FromLambda
<1>9. CASE BodyFails(r)
  <2>1. End(r, "answered", 500) /\ handled[r] = 1
    BY <1>5, <1>9 DEF BodyFails, Fails, status_code, At, Requested
  <2>2. QED
    BY <1>1, <1>4, <1>5, <2>1, EndStep DEF FromLambda
<1>10. QED
  BY <1>6, <1>7, <1>8, <1>9

(* The lease is refused, or its host never gets ready. *)
LEMMA LeaseFails ==
    ASSUME GatewayInv, NEW r \in Requests, LeaseRefused(r) \/ ContainerNotReady(r)
    PROVE  GatewayInv'
<1>1. pc[r] = "lease" /\ RuntimeStep /\ GivesUp(r)
  BY GivesUpWhen DEF LeaseRefused, ContainerNotReady, At, RuntimeStep, GatewayInv, CallerInv
<1>2. client[r] = "none" /\ answer[r] = NoAnswer /\ Requested(r)
  BY <1>1 DEF GatewayInv, Requested
<1>3. CASE Fails(r, "Pool")
  <2>1. End(r, "answered", 503)
    BY <1>3 DEF Fails, status_code
  <2>2. Quiet => client'[r] # "waiting"
    BY <1>2 DEF Quiet
  <2>3. QED
    BY <1>1, <1>2, <2>1, <2>2, EndStep DEF FromLambda
<1>4. CASE ContainerNotReady(r) /\ ~Fails(r, "Pool")
  <2>1. /\ attempt[r] < max_attempts /\ Goto(r, "attempt") /\ UNCHANGED answer
        /\ attempt' = [attempt EXCEPT ![r] = attempt[r] + 1]
        /\ on' = [on EXCEPT ![r] = NoContainer]
    BY <1>4 DEF ContainerNotReady
  <2>2. attempt' \in [Requests -> 0 .. max_attempts]
    BY <2>1 DEF GatewayInv, CallerInv, LocalTypes, max_attempts
  <2>3. Alone(r) /\ pc'[r] = "attempt"
    BY <2>1, <2>2, GotoLocals DEF GatewayInv, CallerInv
  <2>4. on'[r] = NoContainer
    BY <2>1 DEF GatewayInv, CallerInv, LocalTypes
  <2>5. ASSUME Quiet
        PROVE  Requested(r)'
    BY <1>2, <2>1, <2>3, <2>5 DEF Requested, Quiet, NoAnswer, FromLambda
  <2>6. QED
    BY <1>1, <2>3, <2>4, <2>5, GivesUpStep
<1>5. QED
  BY <1>3, <1>4 DEF LeaseRefused

(* The forward ends: in time or not, with an answer or without. *)
LEMMA ForwardEnds ==
    ASSUME GatewayInv, NEW r \in Requests, TimesOut(r) \/ ForwardFails(r)
    PROVE  GatewayInv'
<1>1. GivesUp(r)
  BY GivesUpWhen DEF TimesOut, ForwardFails, GatewayInv, CallerInv
<1>2. CASE TimesOut(r)
  <2>1. RT!HangUp(r) /\ End(r, "answered", 504)
    BY <1>2 DEF TimesOut, Fails, status_code
  <2>2. client'[r] = "gone"
    BY <2>1 DEF RT!HangUp, GatewayInv, RP!RuntimeInv, RP!TypeOK
  <2>3. QED
    BY <1>1, <2>1, <2>2, EndStep DEF RuntimeStep, FromLambda
<1>3. CASE ForwardFails(r)
  <2>1. UNCHANGED runtimeVars /\ End(r, "answered", 502) /\ client[r] # "waiting"
    BY <1>3 DEF ForwardFails, Fails, status_code
  <2>2. Quiet => client'[r] # "waiting"
    BY <2>1 DEF Quiet
  <2>3. QED
    BY <1>1, <2>1, <2>2, EndStep DEF RuntimeStep, FromLambda
<1>4. QED
  BY <1>2, <1>3

LEMMA ReturnHostStep ==
    ASSUME GatewayInv, NEW r \in Requests, ReturnHost(r)
    PROVE  GatewayInv'
<1>1. GivesUp(r)
  BY GivesUpWhen DEF ReturnHost, GatewayInv, CallerInv
<1>2. /\ pc[r] = "forward" /\ Goto(r, "body") /\ client[r] \in {"head", "done"}
      /\ UNCHANGED <<runtimeVars, attempt, on, answer>>
  BY DEF ReturnHost, At
<1>3. Alone(r) /\ pc'[r] = "body"
  BY <1>2, GotoLocals DEF GatewayInv, CallerInv, LocalTypes
<1>4. handled[r] = 1
  <2>1. RP!Told(r)
    BY <1>2 DEF GatewayInv, RP!RuntimeInv, RP!Informed
  <2>2. sent[r] = "invoke"
    BY <1>2 DEF GatewayInv, Requested
  <2>3. QED
    BY <2>1, <2>2 DEF RP!Told
<1>5. ASSUME Quiet
      PROVE  Requested(r)'
  BY <1>2, <1>3, <1>4, <1>5 DEF GatewayInv, Requested, Quiet
<1>6. QED
  BY <1>1, <1>2, <1>3, <1>5, GivesUpStep DEF RuntimeStep

LEMMA ClientHangsUpStep ==
    ASSUME GatewayInv, NEW r \in Requests, ClientHangsUp(r)
    PROVE  GatewayInv'
<1>1. End(r, "gone", NoAnswer)
  BY DEF ClientHangsUp
<1>2. GivesUp(r)
  <2>1. caller[r] \in {"idle", "calling", "holding"}
    BY DEF GatewayInv, CallerInv, LocalTypes, LP!TypeOK
  <2>2. CASE caller[r] = "idle"
    <3>1. UNCHANGED poolVars
      BY <2>2 DEF ClientHangsUp
    <3>2. QED
      BY <2>2, <3>1, GivesUpWithout DEF GatewayInv
  <2>3. CASE caller[r] = "calling"
    <3>1. LP!HangUp(r)
      BY <2>3 DEF ClientHangsUp
    <3>2. QED
      BY <3>1, GivesUpWhen DEF GatewayInv, CallerInv
  <2>4. CASE caller[r] = "holding"
    <3>1. LP!GiveBack(r)
      BY <2>4 DEF ClientHangsUp
    <3>2. QED
      BY <3>1, GivesUpWhen DEF GatewayInv, CallerInv
  <2>5. QED
    BY <2>1, <2>2, <2>3, <2>4
<1>3. CASE RT!Waiting(r)
  <2>1. RT!HangUp(r)
    BY <1>3 DEF ClientHangsUp
  <2>2. client'[r] = "gone"
    BY <2>1 DEF RT!HangUp, GatewayInv, RP!RuntimeInv, RP!TypeOK
  <2>3. QED
    BY <1>1, <1>2, <2>1, <2>2, EndStep DEF RuntimeStep, NoAnswer, FromLambda
<1>4. CASE ~RT!Waiting(r)
  <2>1. UNCHANGED runtimeVars /\ client[r] # "waiting"
    BY <1>4 DEF ClientHangsUp, RT!Waiting
  <2>2. Quiet => client'[r] # "waiting"
    BY <2>1 DEF Quiet
  <2>3. QED
    BY <1>1, <1>2, <2>1, <2>2, EndStep DEF RuntimeStep, NoAnswer, FromLambda
<1>5. QED
  BY <1>3, <1>4
-----------------------------------------------------------------------------
(***************************************************************************)
(* A request gets a lease and uses it.                                      *)
(***************************************************************************)
LEMMA LeaseHostStep ==
    ASSUME GatewayInv, NEW r \in Requests, LeaseHost(r)
    PROVE  GatewayInv'
<1>1. /\ pc[r] = "attempt" /\ caller[r] = "idle" /\ on[r] = NoContainer /\ Goto(r, "lease")
      /\ UNCHANGED <<owner, tested, phase, runtimeVars, attempt, on, answer>>
  BY DEF LeaseHost, LP!Call, At, GatewayInv, CallerInv, Calls
<1>2. Alone(r) /\ pc'[r] = "lease"
  BY <1>1, GotoLocals DEF GatewayInv, CallerInv, LocalTypes
<1>3. /\ caller' \in [Requests -> {"idle", "calling", "holding"}] /\ caller'[r] = "calling"
      /\ \A s \in Requests \ {r} : caller'[s] = caller[s]
  BY DEF LeaseHost, LP!Call, LP!Become, GatewayInv, CallerInv, LocalTypes, LP!TypeOK
<1>4. RP!RuntimeInv' /\ Quiet
  BY <1>1, RuntimeQuiet DEF RuntimeStep, GatewayInv
<1>5. LocalTypes' /\ Calls' /\ Leased'
  BY <1>1, <1>2, <1>3 DEF GatewayInv, CallerInv, LocalTypes, LP!TypeOK, Calls, Leased, Alone
<1>6. Sole'
  BY <1>1, <1>3, GatewayAssumption DEF GatewayInv, CallerInv, Sole, NoContainer
<1>7. Requested(r)'
  BY <1>1, <1>2, <1>4 DEF GatewayInv, Requested, Quiet, NoAnswer, FromLambda
<1>8. \A s \in Requests \ {r} : Requested(s)'
  BY <1>1, <1>2, <1>3, <1>4, OthersKept DEF GatewayInv, Alone
<1>9. QED
  BY <1>4, <1>5, <1>6, <1>7, <1>8 DEF GatewayInv, CallerInv

LEMMA GetHostStep ==
    ASSUME GatewayInv, NEW r \in Requests, GetHost(r)
    PROVE  GatewayInv'
<1>1. PICK c \in Containers : LP!Reserve(r, c) /\ LaunchIfNew(c) /\ on' = [on EXCEPT ![r] = c]
  BY DEF GetHost
<1>2. pc[r] = "lease" /\ UNCHANGED <<pc, attempt, answer, phase>>
  BY <1>1 DEF GetHost, At, LP!Reserve
<1>3. /\ caller[r] = "calling" /\ caller'[r] \in {"calling", "holding"}
      /\ caller' \in [Requests -> {"idle", "calling", "holding"}]
      /\ \A s \in Requests \ {r} : caller'[s] = caller[s]
  <2>1. caller' \in {caller, [caller EXCEPT ![r] = "holding"]} /\ caller[r] = "calling"
    BY <1>1 DEF LP!Reserve, LP!Become
  <2>2. QED
    BY <2>1 DEF GatewayInv, CallerInv, LocalTypes, LP!TypeOK
<1>4. /\ owner' \in [Containers -> LP!Places \union Requests] /\ owner'[c] = r
      /\ tested' \subseteq Containers
      /\ \A d \in Containers \ {c} : owner'[d] = owner[d]
      /\ \A d \in Containers : owner[d] # r
  <2>1. /\ owner' = [d \in Containers |-> IF d = c THEN r ELSE owner[d]]
        /\ tested' \in {tested, tested \ {c}}
        /\ \A d \in Containers : owner[d] # r
    BY <1>1 DEF LP!Reserve, LP!Move, LP!At
  <2>2. QED
    BY <2>1 DEF GatewayInv, CallerInv, LocalTypes, LP!TypeOK
<1>5. \A s \in Requests \ {r} : caller[s] # "idle" => on[s] # c
  <2>1. CASE owner[c] = "spare"
    BY <2>1, NoRequestIsAPlace DEF GatewayInv, CallerInv, Sole
  <2>2. CASE owner[c] = "none"
    BY <1>1, <2>2 DEF LaunchIfNew, Fresh
  <2>3. QED
    BY <1>1, <2>1, <2>2 DEF LP!Reserve
<1>6. /\ on' \in [Requests -> Containers \union {NoContainer}] /\ on'[r] = c
      /\ \A s \in Requests \ {r} : on'[s] = on[s]
  BY <1>1 DEF GatewayInv, CallerInv, LocalTypes
<1>7. RP!RuntimeInv' /\ Quiet
  <2>1. RuntimeStep
    BY <1>1 DEF LaunchIfNew, RuntimeStep
  <2>2. QED
    BY <2>1, RuntimeQuiet DEF GatewayInv
<1>8. LocalTypes'
  BY <1>2, <1>3, <1>4, <1>6 DEF GatewayInv, CallerInv, LocalTypes, LP!TypeOK
<1>9. Calls'
  BY <1>2, <1>3, <1>6 DEF GatewayInv, CallerInv, Calls
<1>10. Leased'
  BY <1>3, <1>4, <1>6 DEF GatewayInv, CallerInv, Leased
<1>11. Sole'
  <2>1. SUFFICES ASSUME NEW s \in Requests, caller'[s] # "idle", on'[s] \in Containers
                 PROVE  /\ owner'[on'[s]] \in {s, "none"}
                        /\ \A t \in Requests \ {s} : caller'[t] # "idle" => on'[t] # on'[s]
    BY DEF Sole
  <2>2. CASE s = r
    BY <1>3, <1>4, <1>5, <1>6, <2>2
  <2>3. CASE s # r
    <3>1. caller[s] # "idle" /\ on'[s] = on[s] /\ on[s] # c
      BY <1>3, <1>5, <1>6, <2>1, <2>3
    <3>2. /\ owner[on[s]] \in {s, "none"}
          /\ \A t \in Requests \ {s} : caller[t] # "idle" => on[t] # on[s]
      BY <2>1, <3>1 DEF GatewayInv, CallerInv, Sole
    <3>3. QED
      BY <1>3, <1>4, <1>6, <2>1, <3>1, <3>2
  <2>4. QED
    BY <2>2, <2>3
<1>12. Requested(r)'
  BY <1>2, <1>7 DEF GatewayInv, Requested, Quiet, NoAnswer, FromLambda
<1>13. \A s \in Requests \ {r} : Requested(s)'
  BY <1>2, <1>3, <1>6, <1>7, OthersKept DEF GatewayInv
<1>14. QED
  BY <1>7, <1>8, <1>9, <1>10, <1>11, <1>12, <1>13 DEF GatewayInv, CallerInv

LEMMA HostReadyStep ==
    ASSUME GatewayInv, NEW r \in Requests, HostReady(r)
    PROVE  GatewayInv'
<1>1. /\ pc[r] = "lease" /\ caller[r] = "calling"
      /\ UNCHANGED <<owner, phase, runtimeVars, requestVars>>
  BY DEF HostReady, At, LP!Ready
<1>2. UNCHANGED <<pc, attempt, on, answer>>
  BY <1>1 DEF requestVars
<1>3. PICK c \in Containers : owner[c] = r
  BY DEF HostReady, LP!Ready, LP!At
<1>4. on[r] \in Containers
  BY <1>3 DEF GatewayInv, CallerInv, Leased
<1>5. /\ caller' \in [Requests -> {"idle", "calling", "holding"}] /\ caller'[r] = "holding"
      /\ \A s \in Requests \ {r} : caller'[s] = caller[s]
      /\ tested' \subseteq Containers
  BY DEF HostReady, LP!Ready, LP!Become, LP!At, GatewayInv, CallerInv, LocalTypes, LP!TypeOK
<1>6. RP!RuntimeInv' /\ Quiet
  BY <1>1, RuntimeQuiet DEF RuntimeStep, GatewayInv
<1>7. LocalTypes' /\ Calls' /\ Leased'
  BY <1>1, <1>2, <1>4, <1>5 DEF GatewayInv, CallerInv, LocalTypes, LP!TypeOK, Calls, Leased
<1>8. Sole'
  BY <1>1, <1>2, <1>5 DEF GatewayInv, CallerInv, Sole
<1>9. Requested(r)'
  BY <1>1, <1>2, <1>6 DEF GatewayInv, Requested, Quiet, NoAnswer, FromLambda
<1>10. \A s \in Requests \ {r} : Requested(s)'
  BY <1>2, <1>5, <1>6, OthersKept DEF GatewayInv
<1>11. QED
  BY <1>6, <1>7, <1>8, <1>9, <1>10 DEF GatewayInv, CallerInv

(* A lease leads to a container, so a forward is a Connect to a runtime. *)
LEMMA ForwardConnects ==
    ASSUME GatewayInv, NEW r \in Requests, Forward(r)
    PROVE  on[r] \in Containers /\ RP!Connect(r, on[r], "invoke")
<1>1. on[r] \in Containers
  BY DEF Forward, GatewayInv, CallerInv, Calls
<1>2. QED
  BY <1>1, SameConnect DEF Forward

LEMMA ForwardStep ==
    ASSUME GatewayInv, NEW r \in Requests, Forward(r)
    PROVE  GatewayInv'
<1>1. /\ pc[r] = "lease" /\ caller[r] = "holding" /\ Goto(r, "forward")
      /\ UNCHANGED <<caller, owner, tested, phase, attempt, on, answer>>
  BY DEF Forward, At, poolVars
<1>2. Alone(r) /\ pc'[r] = "forward"
  BY <1>1, GotoLocals DEF GatewayInv, CallerInv, LocalTypes
<1>3. /\ on[r] \in Containers /\ RP!Connect(r, on[r], "invoke")
      /\ "invoke" \in RP!Kinds /\ RP!RuntimeInv
  BY ForwardConnects DEF RP!Kinds, GatewayInv
<1>4. RP!RuntimeInv'
  BY <1>3, AssumedOfRuntime, RP!ConnectStep
<1> PICK d \in Containers : d = on[r]
  BY <1>3
<1>5. /\ client[r] = "none" /\ client'[r] \in {"waiting", "refused"} /\ sent'[r] = "invoke"
      /\ \A s \in Requests \ {r} : client'[s] = client[s] /\ sent'[s] = sent[s]
      /\ UNCHANGED handled
      /\ RT!Held(d)' \subseteq RT!Held(d) \union {r}
      /\ \A c \in Containers \ {d} : RT!Held(c)' = RT!Held(c)
      /\ \A c \in Containers : r \notin RT!Held(c)
  BY <1>1, <1>3, AssumedOfRuntime, SameHeld, RP!ConnectEffect
<1>6. CallerInv'
  BY <1>1, <1>2 DEF GatewayInv, CallerInv, LocalTypes, LP!TypeOK, Calls, Leased, Sole, Alone
<1>7. Requested(r)'
  BY <1>1, <1>2, <1>5 DEF GatewayInv, Requested, NoAnswer, FromLambda
<1>8. ASSUME NEW s \in Requests \ {r}
      PROVE  Requested(s)'
  <2>1. \A c \in Containers : s \in RT!Held(c)' => s \in RT!Held(c)
    BY <1>5, <1>8
  <2>2. pc'[s] = pc[s] /\ client'[s] = client[s] /\ sent'[s] = sent[s]
    BY <1>2, <1>5, <1>8 DEF Alone
  <2>3. QED
    BY <1>1, <1>5, <2>1, <2>2 DEF GatewayInv, Requested
<1>9. QED
  BY <1>4, <1>6, <1>7, <1>8 DEF GatewayInv
-----------------------------------------------------------------------------
(***************************************************************************)
(* What goes on beside the requests: the pool's own tasks move hosts nobody *)
(* has leased, until the shutdown collects them all.                        *)
(***************************************************************************)
PoolMoves ==
    /\ UNCHANGED <<caller, requestVars>>
    /\ phase' \in LP!Phases /\ tested' \subseteq Containers
    /\ owner' \in [Containers -> LP!Places \union Requests]
    /\ \A c \in Containers :
        \/ owner'[c] \in {owner[c], "none"}
        \/ owner[c] = "returning" /\ owner'[c] \in {"spare", "stray"}
        \/ owner[c] = "none" /\ owner'[c] = "spare" /\ \A r \in Requests : on[r] # c

LEMMA PoolStepMoves ==
    ASSUME LocalTypes, PoolStep
    PROVE  PoolMoves /\ RuntimeStep
<1>1. UNCHANGED requestVars
  BY DEF PoolStep
<1>2. phase \in LP!Phases
  BY DEF LocalTypes, LP!TypeOK
<1> DEFINE Free(c) == owner[c] = "none" /\ \A r \in Requests : on[r] # c
<1>moved. ASSUME NEW cs \in SUBSET Containers, NEW place \in {"none", "spare"}, LP!Move(cs, place),
             UNCHANGED caller, phase' \in LP!Phases,
             \A c \in cs : place = "none" \/ owner[c] = "returning" \/ Free(c)
      PROVE  PoolMoves
  <2>1. /\ owner' = [c \in Containers |-> IF c \in cs THEN place ELSE owner[c]]
        /\ tested' \in {tested, tested \ cs}
    BY <1>moved DEF LP!Move
  <2>2. owner' \in [Containers -> LP!Places \union Requests] /\ tested' \subseteq Containers
    BY <2>1 DEF LocalTypes, LP!TypeOK, LP!Places
  <2>3. QED
    BY <1>moved, <1>1, <2>1, <2>2 DEF PoolMoves
<1> HIDE DEF Free
<1>3. ASSUME NEW c \in Containers, LP!Settle(c), UNCHANGED runtimeVars
      PROVE  PoolMoves /\ RuntimeStep
  <2>1. owner[c] = "returning" /\ UNCHANGED <<caller, requestVars>> /\ phase' \in LP!Phases
    BY <1>1, <1>2, <1>3 DEF LP!Settle
  <2>2. PICK place \in {"none", "spare"} : LP!Move({c}, place)
    BY <1>3 DEF LP!Settle
  <2>3. {c} \in SUBSET Containers /\ \A d \in {c} : owner[d] = "returning"
    BY <2>1
  <2>4. PoolMoves
    BY <1>moved, <2>1, <2>2, <2>3
  <2>5. QED
    BY <1>3, <2>4 DEF RuntimeStep
<1>4. ASSUME NEW c \in Containers, LP!Retire({c}), UNCHANGED runtimeVars
      PROVE  PoolMoves /\ RuntimeStep
  <2>1. UNCHANGED <<caller, requestVars>> /\ phase' \in LP!Phases
    BY <1>1, <1>2, <1>4 DEF LP!Retire
  <2>2. LP!Move({c}, "none") /\ {c} \in SUBSET Containers
    BY <1>4 DEF LP!Retire
  <2>3. PoolMoves
    BY <1>moved, <2>1, <2>2
  <2>4. QED
    BY <1>4, <2>3 DEF RuntimeStep
<1>5. ASSUME NEW c \in Containers, LP!Scale(c), LaunchIfNew(c)
      PROVE  PoolMoves /\ RuntimeStep
  <2>1. UNCHANGED <<caller, requestVars>> /\ phase' \in LP!Phases /\ owner[c] = "none"
    BY <1>1, <1>2, <1>5 DEF LP!Scale
  <2>2. RT!Launch(c) /\ \A r \in Requests : on[r] # c
    BY <1>5, <2>1 DEF LaunchIfNew, Fresh
  <2>3. LP!Move({c}, "spare") /\ {c} \in SUBSET Containers /\ \A d \in {c} : Free(d)
    BY <1>5, <2>1, <2>2 DEF LP!Scale, Free
  <2>4. PoolMoves
    BY <1>moved, <2>1, <2>3
  <2>5. QED
    BY <2>2, <2>4 DEF RuntimeStep
<1>6. CASE LP!AbortReturns /\ UNCHANGED runtimeVars
  <2>1. PICK cs \in SUBSET LP!At("returning") :
          /\ owner' = [c \in Containers |-> IF owner[c] # "returning" THEN owner[c]
                                            ELSE IF c \in cs THEN "none" ELSE "stray"]
          /\ tested' = tested \ cs
    BY <1>6 DEF LP!AbortReturns
  <2>2. UNCHANGED <<caller, requestVars>> /\ phase' \in LP!Phases
    BY <1>1, <1>2, <1>6 DEF LP!AbortReturns
  <2>3. owner' \in [Containers -> LP!Places \union Requests] /\ tested' \subseteq Containers
    BY <2>1 DEF LocalTypes, LP!TypeOK, LP!Places
  <2>4. QED
    BY <1>6, <2>1, <2>2, <2>3 DEF PoolMoves, RuntimeStep
<1>7. CASE (LP!Drained \/ LP!End \/ LP!ShutdownSignal) /\ UNCHANGED runtimeVars
  <2>1. UNCHANGED <<caller, owner, tested, requestVars>> /\ phase' \in LP!Phases
    BY <1>1, <1>7 DEF LP!Drained, LP!End, LP!ShutdownSignal, LP!Enter, LP!Phases
  <2>2. QED
    BY <1>7, <2>1 DEF LocalTypes, LP!TypeOK, PoolMoves, RuntimeStep
<1>8. CASE LP!CollectAllHosts /\ UNCHANGED runtimeVars
  <2>1. LP!Move(Containers, "none") /\ UNCHANGED <<caller, requestVars>> /\ phase' \in LP!Phases
    BY <1>1, <1>8 DEF LP!CollectAllHosts, LP!Enter, LP!Phases
  <2>2. Containers \in SUBSET Containers
    OBVIOUS
  <2>3. PoolMoves
    BY <1>moved, <2>1, <2>2
  <2>4. QED
    BY <1>8, <2>3 DEF RuntimeStep
<1>9. QED
  BY <1>3, <1>4, <1>5, <1>6, <1>7, <1>8 DEF PoolStep

LEMMA BesideStep ==
    ASSUME GatewayInv, PoolMoves, RuntimeStep
    PROVE  GatewayInv'
<1>1. RP!RuntimeInv' /\ Quiet
  BY RuntimeQuiet DEF GatewayInv
<1>2. UNCHANGED <<caller, pc, attempt, on, answer>>
  BY DEF PoolMoves, requestVars
<1>3. LocalTypes' /\ Calls'
  BY <1>2 DEF GatewayInv, CallerInv, LocalTypes, Calls, LP!TypeOK, PoolMoves
<1>4. Leased'
  BY <1>2, NoRequestIsAPlace DEF GatewayInv, CallerInv, Leased, PoolMoves
<1>5. Sole'
  <2>1. SUFFICES ASSUME NEW r \in Requests, caller[r] # "idle", on[r] \in Containers
                 PROVE  owner'[on[r]] \in {r, "none"}
    BY <1>2 DEF GatewayInv, CallerInv, Sole
  <2>2. owner[on[r]] \in {r, "none"}
    BY <2>1 DEF GatewayInv, CallerInv, Sole
  <2>3. QED
    BY <2>1, <2>2, NoRequestIsAPlace DEF PoolMoves
<1>6. \A r \in Requests : Requested(r)'
  BY <1>1, <1>2, OthersKept DEF GatewayInv
<1>7. QED
  BY <1>1, <1>3, <1>4, <1>5, <1>6 DEF GatewayInv, CallerInv

LEMMA ContainerStepStep ==
    ASSUME GatewayInv, NEW c \in Containers, ContainerStep(c)
    PROVE  GatewayInv'
<1>1. UNCHANGED <<caller, owner, tested, phase, requestVars>>
  BY DEF ContainerStep, poolVars
<1>2. PoolMoves
  BY <1>1 DEF PoolMoves, GatewayInv, CallerInv, LocalTypes, LP!TypeOK
<1>3. QED
  BY <1>2, BesideStep DEF RuntimeStep

LEMMA StutterStep ==
    ASSUME GatewayInv, UNCHANGED vars
    PROVE  GatewayInv'
<1>1. UNCHANGED <<caller, owner, tested, phase, requestVars, runtimeVars>>
  BY DEF vars, poolVars
<1>2. PoolMoves
  BY <1>1 DEF PoolMoves, GatewayInv, CallerInv, LocalTypes, LP!TypeOK
<1>3. QED
  BY <1>1, <1>2, BesideStep DEF RuntimeStep
-----------------------------------------------------------------------------
LEMMA StepGateway ==
    ASSUME GatewayInv, [Next]_vars
    PROVE  GatewayInv'
<1>1. ASSUME NEW r \in Requests, Proceed(r)
      PROVE  GatewayInv'
  <2>1. CASE ConvertFails(r) \/ ShuttingDown(r) \/ Respond(r) \/ BodyFails(r)
    BY <2>1, EndsUnleased
  <2>2. CASE Convert(r)
    BY <2>2, ConvertStep
  <2>3. CASE LeaseHost(r)
    BY <2>3, LeaseHostStep
  <2>4. CASE GetHost(r)
    BY <2>4, GetHostStep
  <2>5. CASE HostReady(r)
    BY <2>5, HostReadyStep
  <2>6. CASE LeaseRefused(r) \/ ContainerNotReady(r)
    BY <2>6, LeaseFails
  <2>7. CASE Forward(r)
    BY <2>7, ForwardStep
  <2>8. CASE TimesOut(r) \/ ForwardFails(r)
    BY <2>8, ForwardEnds
  <2>9. CASE ReturnHost(r)
    BY <2>9, ReturnHostStep
  <2>10. QED
    BY <1>1, <2>1, <2>2, <2>3, <2>4, <2>5, <2>6, <2>7, <2>8, <2>9 DEF Proceed
<1>2. ASSUME NEW r \in Requests, HandleRequest(r) \/ ClientHangsUp(r)
      PROVE  GatewayInv'
  BY <1>2, HandleRequestStep, ClientHangsUpStep
<1>3. CASE PoolStep
  BY <1>3, PoolStepMoves, BesideStep DEF GatewayInv, CallerInv
<1>4. ASSUME NEW c \in Containers, ContainerStep(c)
      PROVE  GatewayInv'
  BY <1>4, ContainerStepStep
<1>5. CASE UNCHANGED vars \/ StillDraining \/ Ended
  BY <1>5, StutterStep DEF StillDraining, Ended
<1>6. QED
  BY <1>1, <1>2, <1>3, <1>4, <1>5 DEF Next
-----------------------------------------------------------------------------
(***************************************************************************)
(* The gateway is a client of the pool: what it does with leases, and what  *)
(* goes on beside, are steps of the abstract LeasePool, in its order.       *)
(***************************************************************************)
THEOREM GatewayUsesThePool == Spec => LP!Spec
<1>1. Init => LP!Init
  BY DEF Init
<1>2. ASSUME [Next]_vars
      PROVE  [LP!vars' # LP!vars /\ LP!Next]_LP!vars
  <2>1. SUFFICES LP!Next \/ UNCHANGED poolVars
    BY DEF poolVars, LP!vars
  <2>2. ASSUME NEW r \in Requests, Running, Proceed(r) \/ HandleRequest(r) \/ ClientHangsUp(r)
        PROVE  LP!Next \/ UNCHANGED poolVars
    <3>1. \/ UNCHANGED poolVars
          \/ LP!Call(r) \/ LP!Refuse(r) \/ LP!Ready(r) \/ LP!NotReady(r)
          \/ LP!GiveBack(r) \/ LP!HangUp(r)
          \/ \E c \in Containers : LP!Reserve(r, c)
      <4>1. CASE HandleRequest(r)
        BY <4>1 DEF HandleRequest
      <4>2. CASE ClientHangsUp(r)
        BY <4>2 DEF ClientHangsUp
      <4>3. CASE Proceed(r)
        BY <4>3 DEF Proceed, ConvertFails, Convert, LeaseHost, ShuttingDown, GetHost, HostReady,
                    LeaseRefused, ContainerNotReady, Forward, TimesOut, ForwardFails, ReturnHost,
                    Respond, BodyFails
      <4>4. QED
        BY <2>2, <4>1, <4>2, <4>3
    <3>2. QED
      BY <2>2, <3>1 DEF Running, LP!Next
  <2>3. ASSUME PoolStep
        PROVE  LP!Next
    <3>1. phase # "ended"
      BY <2>3 DEF PoolStep, Running
    <3>2. ASSUME NEW c \in Containers, LP!Retire({c})
          PROVE  LP!Next
      <4>1. {c} \in SUBSET LP!At("spare")
        BY <3>2 DEF LP!Retire
      <4>2. QED
        BY <3>1, <3>2, <4>1 DEF LP!Next
    <3>3. QED
      BY <2>3, <3>1, <3>2 DEF PoolStep, LP!Next
  <2>4. ASSUME NEW c \in Containers, ContainerStep(c)
        PROVE  UNCHANGED poolVars
    BY <2>4 DEF ContainerStep
  <2>5. CASE UNCHANGED vars \/ StillDraining \/ Ended
    BY <2>5 DEF StillDraining, Ended, vars
  <2>6. QED
    BY <1>2, <2>2, <2>3, <2>4, <2>5 DEF Next, Proceed
<1>3. QED
  BY <1>1, <1>2, PTL DEF Spec, LP!Spec

(***************************************************************************)
(* What the runtimes see of the gateway is a behaviour of Runtime: each     *)
(* forward is one Connect to the container of the lease, each timeout or    *)
(* hang-up closes a connection that is open.                                *)
(***************************************************************************)
THEOREM GatewayDrivesTheRuntimes == Spec => RP!Spec
<1>1. Init => RP!Init
  BY SameInit DEF Init
<1>2. ASSUME GatewayInv, [Next]_vars
      PROVE  [RP!Next]_RP!vars
  <2>1. ASSUME RuntimeStep
        PROVE  [RP!Next]_RP!vars
    BY <1>2, <2>1, RuntimeQuiet DEF GatewayInv
  <2>2. ASSUME NEW r \in Requests, Proceed(r) \/ HandleRequest(r) \/ ClientHangsUp(r)
        PROVE  RuntimeStep \/ RP!Next
    <3>1. CASE Forward(r)
      <4>1. on[r] \in Containers /\ RP!Connect(r, on[r], "invoke") /\ "invoke" \in RP!Kinds
        BY <1>2, <3>1, ForwardConnects DEF RP!Kinds
      <4>2. QED
        BY <4>1 DEF RP!Next
    <3>2. CASE GetHost(r)
      BY <3>2 DEF GetHost, LaunchIfNew, RuntimeStep
    <3>3. CASE ~Forward(r) /\ ~GetHost(r)
      BY <2>2, <3>3 DEF HandleRequest, ClientHangsUp, Proceed, ConvertFails, Convert, LeaseHost,
                        ShuttingDown, HostReady, LeaseRefused, ContainerNotReady, TimesOut,
                        ForwardFails, ReturnHost, Respond, BodyFails, RuntimeStep
    <3>4. QED
      BY <3>1, <3>2, <3>3
  <2>3. PoolStep => RuntimeStep
    BY <1>2, PoolStepMoves DEF GatewayInv, CallerInv
  <2>4. ASSUME NEW c \in Containers, ContainerStep(c)
        PROVE  RuntimeStep
    BY <2>4 DEF RuntimeStep
  <2>5. UNCHANGED vars \/ StillDraining \/ Ended => RuntimeStep
    BY DEF StillDraining, Ended, vars, RuntimeStep
  <2>6. QED
    BY <1>2, <2>1, <2>2, <2>3, <2>4, <2>5 DEF Next
<1>3. QED
  BY <1>1, <1>2, InitGateway, StepGateway, PTL DEF Spec, RP!Spec

(* The gateway's data, the pool's and the runtimes' have their types. *)
THEOREM GatewayTypes == Spec => []TypeOK
<1>1. GatewayInv => TypeOK
  BY SameTypes DEF GatewayInv, RP!RuntimeInv, CallerInv, LocalTypes, TypeOK
<1>2. QED
  BY <1>1, InitGateway, StepGateway, PTL DEF Spec

(***************************************************************************)
(* A status of 400 or 503 promises that no handler has seen the request or  *)
(* will, and 500 and the lambda's own answer that one has, whatever         *)
(* timeouts, hang-ups, crashes and the shutdown do meanwhile.               *)
(***************************************************************************)
THEOREM RetryIsSafe == Spec => []SafeToRetry
<1>1. GatewayInv => SafeToRetry
  <2>1. SUFFICES ASSUME GatewayInv, NEW r \in Requests
                 PROVE  /\ answer[r] \in {400, 503} =>
                             handled[r] = 0 /\ \A c \in Containers : r \notin RT!Held(c)
                        /\ answer[r] \in {500, FromLambda} => handled[r] = 1
    BY DEF SafeToRetry
  <2>2. Requested(r) /\ RP!RuntimeInv
    BY <2>1 DEF GatewayInv
  <2>3. ASSUME client[r] = "none"
        PROVE  handled[r] = 0 /\ \A c \in Containers : r \notin RT!Held(c)
    <3>1. handled[r] = 0
      BY <2>2, <2>3 DEF RP!RuntimeInv, RP!Informed, RP!Untouched
    <3>2. \A c \in Containers : r \notin RP!Held(c)
      BY <2>2, <2>3, AssumedOfRuntime, RP!NotYetHeld
    <3>3. QED
      BY <3>1, <3>2, SameHeld
  <2>4. QED
    BY <2>2, <2>3 DEF Requested
<1>2. QED
  BY <1>1, InitGateway, StepGateway, PTL DEF Spec

(* The handler is called at most once for a request, however often it is attempted. *)
THEOREM HandlerRunsAtMostOnce == Spec => []RunsAtMostOnce
<1>1. GatewayInv => RunsAtMostOnce
  BY DEF GatewayInv, Requested, RunsAtMostOnce
<1>2. QED
  BY <1>1, InitGateway, StepGateway, PTL DEF Spec

(* A request has at most one lease, that of its container, and only while it uses it. *)
THEOREM LeasesAreInUse == Spec => []LeaseInUse
<1>1. GatewayInv => LeaseInUse
  BY DEF GatewayInv, CallerInv, LocalTypes, LP!TypeOK, Calls, Leased, LeaseInUse, LP!At
<1>2. QED
  BY <1>1, InitGateway, StepGateway, PTL DEF Spec

(***************************************************************************)
(* Never do two requests of the gateway wait at the same container, though  *)
(* the runtime would queue them, and hosts are leased again and again.      *)
(***************************************************************************)
THEOREM OneForwardAtATime == Spec => []OneForwardPerHost
<1>1. GatewayInv => OneForwardPerHost
  <2>1. SUFFICES ASSUME GatewayInv, NEW c \in Containers
                 PROVE  Cardinality({r \in RT!Held(c) : client[r] = "waiting"}) <= 1
    BY DEF OneForwardPerHost
  <2> DEFINE W == {r \in RT!Held(c) : client[r] = "waiting"}
  <2>2. W \subseteq Requests
    BY <2>1, AssumedOfRuntime, RP!HeldParts, SameHeld DEF GatewayInv, RP!RuntimeInv
  <2>3. \A r \in W : caller[r] = "holding" /\ on[r] = c
    BY <2>1, <2>2 DEF GatewayInv, Requested
  <2>4. \A r, s \in W : r = s
    BY <2>1, <2>2, <2>3 DEF GatewayInv, CallerInv, Sole
  <2>5. CASE W = {}
    BY <2>5, FS_EmptySet
  <2>6. ASSUME NEW r \in W
        PROVE  Cardinality(W) = 1
    <3>1. W = {r}
      BY <2>4, <2>6
    <3>2. QED
      BY <3>1, FS_Singleton
  <2>7. QED
    BY <2>5, <2>6
<1>2. QED
  BY <1>1, InitGateway, StepGateway, PTL DEF Spec
=============================================================================
