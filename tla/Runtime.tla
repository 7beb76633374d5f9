------------------------------ MODULE Runtime ------------------------------
(***************************************************************************)
(* lambda-runtime: the HTTP server inside every container, around the       *)
(* user's handler.  It accepts one connection, serves the one request that  *)
(* arrives on it (keep-alive is off), and only then accepts the next; the   *)
(* listener queues the others.  A connection is named by its client.        *)
(*                                                                          *)
(* Requests arrive whole or not at all, and their bytes outlive a client   *)
(* that hangs up; answers leave as a head and then a body.  Hyper notices   *)
(* a hang-up while a handler awaits and drops its future, not while a       *)
(* handler blocks.                                                          *)
(***************************************************************************)
EXTENDS Naturals, Sequences, FiniteSets, Functions

CONSTANTS Servers, Conns, NoConn,
          AsyncHandler,     \* the handler awaits (run), or blocks (run_sync)
          Statuses          \* what the user's handler may answer: any final status

(* A garbled invoke carries no LambdaRequest; a silent client connects and sends nothing. *)
Kinds == {"health", "invoke", "garbled", "other", "silent"}
NoStatus == 0

ASSUME RuntimeAssumption ==
    /\ NoConn \notin Conns /\ AsyncHandler \in BOOLEAN
    /\ Statuses \subseteq 200 .. 999

VARIABLES
    process,    \* of each container: down, starting, or listening
    backlog,    \* the listener's queue
    serving,    \* the connection in serve_connection
    stage,      \* of its request
    client,     \* what the other end of each connection has seen
    status,     \* the status its request was given
    handled,    \* how often the user's handler was called for it
    sent        \* what was sent on it

vars == <<process, backlog, serving, stage, client, status, handled, sent>>
serverVars == <<process, backlog, serving, stage>>

Init ==
    /\ process = [s \in Servers |-> "down"]
    /\ backlog = [s \in Servers |-> << >>]
    /\ serving = [s \in Servers |-> NoConn]
    /\ stage = [s \in Servers |-> "idle"]
    /\ client = [k \in Conns |-> "none"]
    /\ status = [k \in Conns |-> NoStatus]
    /\ handled = [k \in Conns |-> 0]
    /\ sent = [k \in Conns |-> "nothing"]

Waiting(k) == client[k] \in {"waiting", "head"}
Held(s) == Range(backlog[s]) \union ({serving[s]} \ {NoConn})
Enter(s, p) == stage' = [stage EXCEPT ![s] = p]
-----------------------------------------------------------------------------
(* run: Docker has started the process; then LambdaServer::start binds the port. *)
Launch(s) ==
    /\ process[s] = "down"
    /\ process' = [process EXCEPT ![s] = "starting"]
    /\ UNCHANGED <<backlog, serving, stage, client, status, handled, sent>>

Bind(s) ==
    /\ process[s] = "starting"
    /\ process' = [process EXCEPT ![s] = "listening"]
    /\ UNCHANGED <<backlog, serving, stage, client, status, handled, sent>>

(* The kernel queues the connection, or refuses it where nobody listens. *)
Connect(k, s, x) ==
    /\ client[k] = "none"
    /\ sent' = [sent EXCEPT ![k] = x]
    /\ IF process[s] = "listening"
       THEN /\ backlog' = [backlog EXCEPT ![s] = Append(@, k)]
            /\ client' = [client EXCEPT ![k] = "waiting"]
       ELSE /\ client' = [client EXCEPT ![k] = "refused"]
            /\ UNCHANGED backlog
    /\ UNCHANGED <<process, serving, stage, status, handled>>

HangUp(k) ==
    /\ Waiting(k)
    /\ client' = [client EXCEPT ![k] = "gone"]
    /\ UNCHANGED <<serverVars, status, handled, sent>>
-----------------------------------------------------------------------------
(* Mutated: accepts whenever somebody waits, whatever is being served. *)
AcceptAnytime(s) ==
    /\ backlog[s] # << >>
    /\ serving' = [serving EXCEPT ![s] = Head(backlog[s])]
    /\ backlog' = [backlog EXCEPT ![s] = Tail(@)]
    /\ Enter(s, "request")
    /\ UNCHANGED <<process, client, status, handled, sent>>

(* listener.accept, once the connection before has ended. *)
Accept(s) ==
    /\ stage[s] = "idle" /\ backlog[s] # << >>
    /\ serving' = [serving EXCEPT ![s] = Head(backlog[s])]
    /\ backlog' = [backlog EXCEPT ![s] = Tail(@)]
    /\ Enter(s, "request")
    /\ UNCHANGED <<process, client, status, handled, sent>>

Answer(s, code) ==
    /\ status' = [status EXCEPT ![serving[s]] = code]
    /\ Enter(s, "head")
    /\ UNCHANGED <<process, backlog, serving, client, sent>>

HandleHealth(s) ==
    /\ stage[s] = "request" /\ sent[serving[s]] = "health"
    /\ Answer(s, 200)
    /\ UNCHANGED handled

HandleNotFound(s) ==
    /\ stage[s] = "request" /\ sent[serving[s]] = "other"
    /\ Answer(s, 404)
    /\ UNCHANGED handled

(* What arrived on the connection being served is a LambdaRequest. *)
parse_request(s) == sent[serving[s]] = "invoke"

(* handle_invoke, when parse_request fails. *)
InvokeRejected(s) ==
    /\ stage[s] = "request" /\ sent[serving[s]] \in {"invoke", "garbled"}
    /\ ~parse_request(s)
    /\ Answer(s, 500)
    /\ UNCHANGED handled

(* Mutated: the body is handed on without being parsed. *)
ProcessInvokeUnparsed(s) ==
    /\ stage[s] = "request" /\ sent[serving[s]] \in {"invoke", "garbled"}
    /\ handled' = [handled EXCEPT ![serving[s]] = @ + 1]
    /\ Enter(s, "handler")
    /\ UNCHANGED <<process, backlog, serving, client, status, sent>>

(* process_invoke: the user's handler is called. *)
ProcessInvoke(s) ==
    /\ stage[s] = "request" /\ parse_request(s)
    /\ handled' = [handled EXCEPT ![serving[s]] = @ + 1]
    /\ Enter(s, "handler")
    /\ UNCHANGED <<process, backlog, serving, client, status, sent>>

(* The handler's own status, whichever it is, or 500 if its headers make no response. *)
build_http_response(code) == {code, 500}

HandlerReturns(s) ==
    /\ stage[s] = "handler"
    /\ \E code \in Statuses : \E answer \in build_http_response(code) : Answer(s, answer)
    /\ UNCHANGED handled

WriteHead(s) ==
    /\ stage[s] = "head"
    /\ client' = [client EXCEPT ![serving[s]] = IF @ = "waiting" THEN "head" ELSE @]
    /\ Enter(s, "body")
    /\ UNCHANGED <<process, backlog, serving, status, handled, sent>>

(* Mutated: keep_alive(true), the connection stays open for another request. *)
WriteBodyKeepAlive(s) ==
    /\ stage[s] = "body"
    /\ client' = [client EXCEPT ![serving[s]] = IF @ = "head" THEN "done" ELSE @]
    /\ Enter(s, "kept")
    /\ UNCHANGED <<process, backlog, serving, status, handled, sent>>

(* serve_connection returns: without keep-alive the connection is closed. *)
WriteBody(s) ==
    /\ stage[s] = "body"
    /\ client' = [client EXCEPT ![serving[s]] = IF @ = "head" THEN "done" ELSE @]
    /\ serving' = [serving EXCEPT ![s] = NoConn]
    /\ Enter(s, "idle")
    /\ UNCHANGED <<process, backlog, status, handled, sent>>

(* Nothing can be noticed while a blocking handler, run by run_sync, computes. *)
Polled(s) == stage[s] \in {"request", "head", "body"} \/ (stage[s] = "handler" /\ AsyncHandler)

(* serve_connection fails because the client is gone; an awaiting handler is dropped. *)
ClientLost(s) ==
    /\ Polled(s)
    /\ client[serving[s]] = "gone"
    /\ serving' = [serving EXCEPT ![s] = NoConn]
    /\ Enter(s, "idle")
    /\ UNCHANGED <<process, backlog, client, status, handled, sent>>

(* The process ends, stopped or crashed; the kernel resets its connections. *)
Die(s) ==
    /\ process[s] # "down"
    /\ process' = [process EXCEPT ![s] = "down"]
    /\ backlog' = [backlog EXCEPT ![s] = << >>]
    /\ serving' = [serving EXCEPT ![s] = NoConn]
    /\ Enter(s, "idle")
    /\ client' = [k \in Conns |-> IF k \in Held(s) /\ Waiting(k) THEN "reset" ELSE client[k]]
    /\ UNCHANGED <<status, handled, sent>>

(* A panic unwinds through serve_connection and ends main. *)
HandlerPanics(s) == stage[s] = "handler" /\ Die(s)

ServerStep(s) ==
    \/ Bind(s) \/ Accept(s)
    \/ HandleHealth(s) \/ HandleNotFound(s) \/ InvokeRejected(s) \/ ProcessInvoke(s)
    \/ HandlerReturns(s) \/ HandlerPanics(s)
    \/ WriteHead(s) \/ WriteBody(s) \/ ClientLost(s)

Next ==
    \/ \E s \in Servers : Launch(s) \/ ServerStep(s) \/ Die(s)
    \/ \E k \in Conns : HangUp(k) \/ \E s \in Servers, x \in Kinds : Connect(k, s, x)

Spec == Init /\ [][Next]_vars

(* The single task of the server runs on; whether handlers return is a separate matter. *)
ServerFairness(s) ==
    /\ WF_vars(Bind(s)) /\ WF_vars(Accept(s))
    /\ WF_vars(HandleHealth(s) \/ HandleNotFound(s) \/ InvokeRejected(s) \/ ProcessInvoke(s))
    /\ WF_vars(WriteHead(s) \/ WriteBody(s))
    /\ WF_vars(ClientLost(s))

(* Both clients in the gateway have a timeout: 5 s for a probe, request_timeout for a forward. *)
SilentGivesUp(k) == sent[k] = "silent" /\ HangUp(k)

FairSpec ==
    /\ Spec
    /\ \A k \in Conns : WF_vars(SilentGivesUp(k))
    /\ \A s \in Servers :
        /\ ServerFairness(s)
        /\ WF_vars(HandlerReturns(s) \/ HandlerPanics(s))
-----------------------------------------------------------------------------
TypeOK ==
    /\ process \in [Servers -> {"down", "starting", "listening"}]
    /\ backlog \in [Servers -> Seq(Conns)]
    /\ serving \in [Servers -> Conns \union {NoConn}]
    /\ stage \in [Servers -> {"idle", "request", "handler", "head", "body"}]
    /\ client \in [Conns -> {"none", "waiting", "head", "done", "refused", "reset", "gone"}]
    /\ status \in [Conns -> {NoStatus, 200, 404, 500} \union Statuses]
    /\ handled \in [Conns -> Nat]
    /\ sent \in [Conns -> Kinds \union {"nothing"}]

(***************************************************************************)
(* No connection is dropped behind its client's back: whoever still waits   *)
(* is queued at, or served by, exactly one live server, once.               *)
(***************************************************************************)
NoLostConnection ==
    \A k \in Conns : Waiting(k) =>
        \E s \in Servers :
            /\ process[s] = "listening"
            /\ k \in Held(s) /\ \A t \in Servers \ {s} : k \notin Held(t)
            /\ Cardinality({i \in DOMAIN backlog[s] : backlog[s][i] = k})
                 = (IF serving[s] = k THEN 0 ELSE 1)

(* What a request may be answered with.  Only an invoke gets the handler's status. *)
AnswersTo(x) ==
    CASE x = "health" -> {200}
      [] x = "other" -> {404}
      [] x = "garbled" -> {500}
      [] x = "invoke" -> Statuses \union {500}
      [] OTHER -> {}

(***************************************************************************)
(* The end of a connection tells its client whether the handler ran.        *)
(* Refused: it did not.  Answered: it ran exactly once if this connection   *)
(* brought an invoke, and the answer is one to what was sent here, so only  *)
(* a status the runtime itself gives leaves the matter open.  However a     *)
(* connection ends, by hang-up, crash or panic too, the handler never ran   *)
(* for it twice, or for anything but an invoke.                             *)
(***************************************************************************)
AnswerTruthful ==
    \A k \in Conns :
        /\ handled[k] = 0 \/ (handled[k] = 1 /\ sent[k] = "invoke")
        /\ client[k] = "refused" => handled[k] = 0
        /\ client[k] \in {"head", "done"} =>
              /\ handled[k] = (IF sent[k] = "invoke" THEN 1 ELSE 0)
              /\ status[k] \in AnswersTo(sent[k])

(***************************************************************************)
(* Serving one connection at a time starves nobody: whoever waits gets the  *)
(* whole answer, or learns that the process is gone, although clients hang  *)
(* up as they like and a silent one holds the server until it gives up.     *)
(***************************************************************************)
EveryClientAnswered == \A k \in Conns : Waiting(k) ~> ~Waiting(k)

(***************************************************************************)
(* What the documentation promises, and the code does not keep.             *)
(***************************************************************************)
(* lambda-runtime/README.md, Features: "Built-in HTTP/1.1 server with       *)
(* keep-alive support": a connection whose answer is complete stays with    *)
(* its server, for the next request of the same client.                     *)
KeepsAlive ==
    [][\A k \in Conns : client[k] # "done" /\ client'[k] = "done" =>
          \E s \in Servers : k \in Held(s)']_vars
=============================================================================
