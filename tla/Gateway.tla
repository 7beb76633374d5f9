------------------------------ MODULE Gateway ------------------------------
(***************************************************************************)
(* lambda-gateway/src/gateway: from a client's request to its answer, over  *)
(* the abstract LeasePool and one Runtime in every container.  A request    *)
(* is one call of forward_to_lambda: its pc names the await it is suspended *)
(* at.  It sends at most one connection to a container, which carries its   *)
(* name.                                                                    *)
(*                                                                          *)
(* A container's process is launched when the pool makes its host and may   *)
(* be stopped from the moment it has no owner.  That the port of a lease    *)
(* leads to the leased container is HostPool's NoMisroute.                  *)
(***************************************************************************)
EXTENDS Naturals, Sequences, FiniteSets, Functions

CONSTANTS Requests, Containers, NoConn, max_instances, AsyncHandler, Statuses,
          DrainTimesOut,
          Events            \* what the environment does in this instance

VARIABLES caller, owner, tested, phase,                 \* LeasePool
          process, backlog, serving, stage,             \* Runtime
          client, status, handled, sent,
          pc, attempt, on,                              \* locals of a request
          answer                                        \* what its client was told

poolVars == <<caller, owner, tested, phase>>
runtimeVars == <<process, backlog, serving, stage, client, status, handled, sent>>
requestVars == <<pc, attempt, on, answer>>
vars == <<poolVars, runtimeVars, requestVars>>

LP == INSTANCE LeasePool
RT == INSTANCE Runtime WITH Servers <- Containers, Conns <- Requests

AllEvents == {"hangup", "crash", "panic", "shutdown"}

ASSUME GatewayAssumption ==
    /\ Events \subseteq AllEvents
    /\ NoConn \notin Containers
    /\ LP!LeasePoolAssumption /\ RT!RuntimeAssumption

NoContainer == NoConn
Running == phase # "ended"
max_attempts == 3
NoAnswer == 0
FromLambda == 1             \* the lambda's own answer, whatever its status

(* Mutated: a failed forward is reported as temporary unavailability. *)
StatusCodeUnavailable(error) ==
    CASE error \in {"Pool", "ShuttingDown", "HttpClient"} -> 503
      [] error = "Convert" -> 400
      [] error = "Timeout" -> 504
      [] error = "Http" -> 500

(* GatewayError::status_code, for the errors a request can meet. *)
status_code(error) ==
    CASE error \in {"Pool", "ShuttingDown"} -> 503
      [] error = "Convert" -> 400
      [] error = "HttpClient" -> 502
      [] error = "Timeout" -> 504
      [] error = "Http" -> 500

Init ==
    /\ LP!Init /\ RT!Init
    /\ pc = [r \in Requests |-> "new"]
    /\ attempt = [r \in Requests |-> 0]
    /\ on = [r \in Requests |-> NoContainer]
    /\ answer = [r \in Requests |-> NoAnswer]

At(r, place) == pc[r] = place
Goto(r, place) == pc' = [pc EXCEPT ![r] = place]
-----------------------------------------------------------------------------
(* The future of a request ends, with an answer or without. *)
End(r, place, a) ==
    /\ Goto(r, place)
    /\ answer' = [answer EXCEPT ![r] = a]
    /\ attempt' = [attempt EXCEPT ![r] = 0]
    /\ on' = [on EXCEPT ![r] = NoContainer]

Fails(r, error) == End(r, "answered", status_code(error))

(* handle_request, also on a connection opened before the shutdown. *)
HandleRequest(r) ==
    /\ At(r, "new")
    /\ Goto(r, "convert")
    /\ UNCHANGED <<poolVars, runtimeVars, attempt, on, answer>>

(* http_to_lambda_request: the body cannot be read, or is not UTF-8. *)
ConvertFails(r) ==
    /\ At(r, "convert")
    /\ Fails(r, "Convert")
    /\ UNCHANGED <<poolVars, runtimeVars>>

Convert(r) ==
    /\ At(r, "convert")
    /\ Goto(r, "attempt")
    /\ attempt' = [attempt EXCEPT ![r] = 1]
    /\ UNCHANGED <<poolVars, runtimeVars, on, answer>>
-----------------------------------------------------------------------------
(* lease_host_with_retry *)
LeaseHost(r) ==
    /\ At(r, "attempt")
    /\ LP!Call(r)
    /\ Goto(r, "lease")
    /\ UNCHANGED <<runtimeVars, attempt, on, answer>>

ShuttingDown(r) ==
    /\ At(r, "attempt") /\ phase # "up"
    /\ Fails(r, "ShuttingDown")
    /\ UNCHANGED <<poolVars, runtimeVars>>

(* Bound: the container ids nothing refers to any more. *)
Fresh(c) == owner[c] = "none" /\ process[c] = "down" /\ \A r \in Requests : on[r] # c

(* The container of a host that has just been made. *)
LaunchIfNew(c) == IF owner[c] = "none" THEN Fresh(c) /\ RT!Launch(c) ELSE UNCHANGED runtimeVars

GetHost(r) ==
    /\ At(r, "lease")
    /\ \E c \in Containers :
        /\ LP!Reserve(r, c)
        /\ LaunchIfNew(c)
        /\ on' = [on EXCEPT ![r] = c]
    /\ UNCHANGED <<pc, attempt, answer>>

(* One of the health probes was answered. *)
HostReady(r) ==
    /\ At(r, "lease")
    /\ LP!Ready(r)
    /\ process[on[r]] = "listening"
    /\ UNCHANGED <<runtimeVars, requestVars>>

(* MaxInstancesReached and whatever else is not repeated. *)
LeaseRefused(r) ==
    /\ At(r, "lease")
    /\ LP!Refuse(r)
    /\ Fails(r, "Pool")
    /\ UNCHANGED runtimeVars

(* Mutated: the comparison that ends the loop is off by one. *)
ContainerNotReadyOnceMore(r) ==
    /\ At(r, "lease")
    /\ LP!NotReady(r)
    /\ IF attempt[r] <= max_attempts
       THEN /\ Goto(r, "attempt")
            /\ attempt' = [attempt EXCEPT ![r] = @ + 1]
            /\ on' = [on EXCEPT ![r] = NoContainer]
            /\ UNCHANGED answer
       ELSE Fails(r, "Pool")
    /\ UNCHANGED runtimeVars

(* ContainerNotReady: again after a pause, unless this was the last attempt. *)
ContainerNotReady(r) ==
    /\ At(r, "lease")
    /\ LP!NotReady(r)
    /\ IF attempt[r] < max_attempts
       THEN /\ Goto(r, "attempt")
            /\ attempt' = [attempt EXCEPT ![r] = @ + 1]
            /\ on' = [on EXCEPT ![r] = NoContainer]
            /\ UNCHANGED answer
       ELSE Fails(r, "Pool")
    /\ UNCHANGED runtimeVars
-----------------------------------------------------------------------------
(* Mutated: the lease is bound to _ and dropped before the request is sent. *)
ForwardUnleased(r) ==
    /\ At(r, "lease")
    /\ LP!GiveBack(r)
    /\ RT!Connect(r, on[r], "invoke")
    /\ Goto(r, "forward")
    /\ UNCHANGED <<attempt, on, answer>>

(* POST /invoke to the container; the lease is kept meanwhile. *)
Forward(r) ==
    /\ At(r, "lease") /\ caller[r] = "holding"
    /\ RT!Connect(r, on[r], "invoke")
    /\ Goto(r, "forward")
    /\ UNCHANGED <<poolVars, attempt, on, answer>>

(* Mutated: the timeout covers only the connect. *)
TimesOutConnecting(r) ==
    /\ At(r, "forward") /\ client[r] = "none"
    /\ RT!HangUp(r)
    /\ LP!GiveBack(r)
    /\ Fails(r, "Timeout")

(* Mutated: the future of the forward is detached, its connection stays open. *)
TimesOutDetached(r) ==
    /\ At(r, "forward") /\ client[r] = "waiting"
    /\ LP!GiveBack(r)
    /\ Fails(r, "Timeout")
    /\ UNCHANGED runtimeVars

(* request_timeout: the future of the forward is dropped, and the lease with it. *)
TimesOut(r) ==
    /\ At(r, "forward") /\ client[r] = "waiting"
    /\ RT!HangUp(r)
    /\ LP!GiveBack(r)
    /\ Fails(r, "Timeout")

(* Mutated: the forward is tried again on another host. *)
ForwardFailsAndRetries(r) ==
    /\ At(r, "forward") /\ client[r] \in {"refused", "reset"}
    /\ LP!GiveBack(r)
    /\ Goto(r, "attempt")
    /\ client' = [client EXCEPT ![r] = "none"]
    /\ on' = [on EXCEPT ![r] = NoContainer]
    /\ UNCHANGED <<process, backlog, serving, stage, status, handled, sent, attempt, answer>>

ForwardFails(r) ==
    /\ At(r, "forward") /\ client[r] \in {"refused", "reset"}
    /\ LP!GiveBack(r)
    /\ Fails(r, "HttpClient")
    /\ UNCHANGED runtimeVars

(* Mutated: drop(&host_lease). *)
ReturnHostByReference(r) ==
    /\ At(r, "forward") /\ client[r] \in {"head", "done"}
    /\ Goto(r, "body")
    /\ UNCHANGED <<poolVars, runtimeVars, attempt, on, answer>>

(* The head of the answer is here: "return host to pool immediately". *)
ReturnHost(r) ==
    /\ At(r, "forward") /\ client[r] \in {"head", "done"}
    /\ LP!GiveBack(r)
    /\ Goto(r, "body")
    /\ UNCHANGED <<runtimeVars, attempt, on, answer>>

(* The body is buffered, without a timeout. *)
Respond(r) ==
    /\ At(r, "body") /\ client[r] = "done"
    /\ End(r, "answered", FromLambda)
    /\ UNCHANGED <<poolVars, runtimeVars>>

BodyFails(r) ==
    /\ At(r, "body") /\ client[r] = "reset"
    /\ Fails(r, "Http")
    /\ UNCHANGED <<poolVars, runtimeVars>>

(***************************************************************************)
(* The client hangs up and hyper drops the request's future: a call of      *)
(* lease_host is abandoned, a lease goes back, a connection is closed.      *)
(***************************************************************************)
ClientHangsUp(r) ==
    /\ "hangup" \in Events
    /\ pc[r] \notin {"new", "answered", "gone"}
    /\ CASE caller[r] = "calling" -> LP!HangUp(r)
         [] caller[r] = "holding" -> LP!GiveBack(r)
         [] OTHER -> UNCHANGED poolVars
    /\ IF RT!Waiting(r) THEN RT!HangUp(r) ELSE UNCHANGED runtimeVars
    /\ End(r, "gone", NoAnswer)

Proceed(r) ==
    /\ Running
    /\ \/ ConvertFails(r) \/ Convert(r)
       \/ LeaseHost(r) \/ ShuttingDown(r) \/ GetHost(r) \/ HostReady(r)
       \/ LeaseRefused(r) \/ ContainerNotReady(r)
       \/ Forward(r) \/ TimesOut(r) \/ ForwardFails(r) \/ ReturnHost(r)
       \/ Respond(r) \/ BodyFails(r)
-----------------------------------------------------------------------------
(* The pool's background tasks and the shutdown. *)
PoolStep ==
    /\ Running
    /\ \/ \E c \in Containers :
            \/ LP!Settle(c) /\ UNCHANGED runtimeVars
            \/ LP!Retire({c}) /\ UNCHANGED runtimeVars
            \/ LP!Scale(c) /\ LaunchIfNew(c)
       \/ /\ LP!AbortReturns \/ LP!Drained \/ LP!CollectAllHosts \/ LP!End
          /\ UNCHANGED runtimeVars
       \/ "shutdown" \in Events /\ LP!ShutdownSignal /\ UNCHANGED runtimeVars
    /\ UNCHANGED requestVars

(* An ownerless container is stopped; any may crash, or take its handler's panic. *)
ContainerStep(c) ==
    /\ \/ owner[c] = "none" /\ RT!Die(c)
       \/ "crash" \in Events /\ RT!Die(c)
       \/ "panic" \in Events /\ RT!HandlerPanics(c)
       \/ RT!Bind(c) \/ RT!Accept(c) \/ RT!ProcessInvoke(c) \/ RT!HandlerReturns(c)
       \/ RT!WriteHead(c) \/ RT!WriteBody(c) \/ RT!ClientLost(c)
    /\ UNCHANGED <<poolVars, requestVars>>

(* wait_for_requests_to_drain: a tick that finds leased hosts. *)
StillDraining == phase = "draining" /\ ~LP!NothingLeased /\ UNCHANGED vars

Ended == ~Running /\ UNCHANGED vars

Next ==
    \/ \E r \in Requests : Proceed(r) \/ (Running /\ (HandleRequest(r) \/ ClientHangsUp(r)))
    \/ PoolStep
    \/ Running /\ \E c \in Containers : ContainerStep(c)
    \/ StillDraining \/ Ended

Spec == Init /\ [][Next]_vars

(***************************************************************************)
(* Fairness.  A future that can proceed is polled, its timer fires, and     *)
(* lease_host returns (HostPool's LeaseAnswered).  The runtime's task runs  *)
(* on.  Nothing is assumed of the user's handler: it may never return.      *)
(***************************************************************************)
ServerStep(c, A) == Running /\ A /\ UNCHANGED <<poolVars, requestVars>>

FairSpec ==
    /\ Spec
    /\ \A r \in Requests : WF_vars(Proceed(r))
    /\ \A c \in Containers :
        /\ WF_vars(ServerStep(c, RT!Bind(c)))
        /\ WF_vars(ServerStep(c, RT!Accept(c)))
        /\ WF_vars(ServerStep(c, RT!ProcessInvoke(c)))
        /\ WF_vars(ServerStep(c, RT!WriteHead(c) \/ RT!WriteBody(c)))
        /\ WF_vars(ServerStep(c, RT!ClientLost(c)))
-----------------------------------------------------------------------------
TypeOK ==
    /\ LP!TypeOK /\ RT!TypeOK
    /\ pc \in [Requests -> {"new", "convert", "attempt", "lease", "forward", "body",
                            "answered", "gone"}]
    /\ attempt \in [Requests -> 0 .. max_attempts]
    /\ on \in [Requests -> Containers \union {NoContainer}]
    /\ answer \in [Requests -> {NoAnswer, FromLambda, 400, 500, 502, 503, 504}]

(***************************************************************************)
(* The status tells the client whether its request may be repeated: after   *)
(* 400 and 503 no handler has seen it, and none ever will.  The request may *)
(* have run after 502 and 504, and has run after 500 from the gateway.      *)
(***************************************************************************)
SafeToRetry ==
    \A r \in Requests :
        /\ answer[r] \in {400, 503} =>
              /\ handled[r] = 0
              /\ \A c \in Containers : r \notin RT!Held(c)
        /\ answer[r] \in {500, FromLambda} => handled[r] = 1

(* No request runs twice, whatever the gateway repeats. *)
RunsAtMostOnce == \A r \in Requests : handled[r] <= 1

(***************************************************************************)
(* A lease lives exactly as long as its use: the pool counts a host as      *)
(* leased to a request only while that request waits for its health check   *)
(* or for the answer's head, and not once it is answered or hung up.        *)
(***************************************************************************)
LeaseInUse ==
    \A r \in Requests :
        /\ caller[r] # "idle" <=> pc[r] \in {"lease", "forward"}
        /\ LP!At(r) # {} => pc[r] \in {"lease", "forward"} /\ LP!At(r) = {on[r]}

(***************************************************************************)
(* The runtime serves one connection at a time, and the gateway never lets  *)
(* two of its requests wait for the same container, although hosts are      *)
(* returned, timed out, collected and leased again.                         *)
(***************************************************************************)
OneForwardPerHost ==
    \A c \in Containers : Cardinality({r \in RT!Held(c) : client[r] = "waiting"}) <= 1

(* Every request is answered, even if the handler never returns. *)
RequestAnswered ==
    \A r \in Requests : At(r, "convert") ~> (pc[r] \in {"answered", "gone"} \/ ~Running)

(***************************************************************************)
(* A handler that never returns does not occupy its host for ever: the      *)
(* gateway's timeout reaches the runtime as a hang-up, and the connections  *)
(* queued behind are served.  (With AsyncHandler; a blocking handler is     *)
(* not interrupted.)                                                        *)
(***************************************************************************)
HostFreed == \A r \in Requests, c \in Containers : r \in RT!Held(c) ~> r \notin RT!Held(c) \/ ~Running

(***************************************************************************)
(* What a comment promises, and the code does not keep.                     *)
(***************************************************************************)
(* pool_manager.rs, shutdown_all_containers: "2. Wait for all in-flight     *)
(* requests to complete": a drain that does not time out ends when no       *)
(* request is still reading its answer from a container.                    *)
DrainWaits ==
    [][phase = "draining" /\ phase' = "drained" => \A r \in Requests : ~At(r, "body")]_vars
=============================================================================
