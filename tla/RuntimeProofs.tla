--------------------------- MODULE RuntimeProofs ---------------------------
(***************************************************************************)
(* Theorems about Runtime: no connection is lost, and an answer tells the   *)
(* truth about its request.                                                 *)
(***************************************************************************)
EXTENDS Runtime, SeqLemmas

(***************************************************************************)
(* A connection is held once: by one server, in its backlog or in service.  *)
(***************************************************************************)
HeldOnce ==
    /\ \A s \in Servers : IsInjective(backlog[s]) /\ serving[s] \notin Range(backlog[s])
    /\ \A s, t \in Servers : s # t => Held(s) \intersect Held(t) = {}

(* Only a listening server holds connections, and it serves one unless it is idle. *)
Serves ==
    \A s \in Servers :
        /\ stage[s] = "idle" <=> serving[s] = NoConn
        /\ Held(s) # {} => process[s] = "listening"

(* What is known of a request before it is read, and of one that has its status. *)
Untouched(k) == status[k] = NoStatus /\ handled[k] = 0

Told(k) ==
    /\ handled[k] = (IF sent[k] = "invoke" THEN 1 ELSE 0)
    /\ status[k] \in AnswersTo(sent[k])

(* The handler is called once, and for an invoke. *)
CalledFor(k) == handled[k] = 0 \/ (handled[k] = 1 /\ sent[k] = "invoke")

(* A connection follows the stage of its request. *)
Progress(k, s) ==
    /\ client[k] \in (IF stage[s] = "body" THEN {"head", "gone"} ELSE {"waiting", "gone"})
    /\ stage[s] = "request" => Untouched(k)
    /\ stage[s] = "handler" => status[k] = NoStatus /\ handled[k] = 1 /\ sent[k] = "invoke"
    /\ stage[s] \in {"head", "body"} => Told(k)

Connected ==
    \A s \in Servers :
        /\ \A k \in Range(backlog[s]) : client[k] \in {"waiting", "gone"} /\ Untouched(k)
        /\ serving[s] \in Conns => Progress(serving[s], s)

Informed ==
    \A k \in Conns :
        /\ client[k] \in {"none", "refused"} => Untouched(k)
        /\ client[k] \in {"head", "done"} => Told(k)
        /\ CalledFor(k)
        /\ Waiting(k) => \E s \in Servers : k \in Held(s)

(* The inductive invariant behind NoLostConnection and AnswerTruthful. *)
RuntimeInv == TypeOK /\ HeldOnce /\ Serves /\ Connected /\ Informed
-----------------------------------------------------------------------------
LEMMA InitRuntime == Init => RuntimeInv
<1> SUFFICES ASSUME Init
             PROVE  RuntimeInv
  OBVIOUS
<1>1. \A s \in Servers : backlog[s] = << >> /\ serving[s] = NoConn /\ stage[s] = "idle"
  BY DEF Init
<1>2. Range(<< >>) = {} /\ IsInjective(<< >>) /\ << >> \in Seq(Conns)
  BY DEF Range, IsInjective
<1>3. \A s \in Servers : Held(s) = {}
  BY <1>1, <1>2 DEF Held
<1>4. TypeOK
  BY <1>2 DEF Init, TypeOK
<1>5. HeldOnce /\ Serves
  BY <1>1, <1>2, <1>3 DEF HeldOnce, Serves
<1>6. Connected
  BY <1>1, <1>2, RuntimeAssumption DEF Connected
<1>7. Informed
  BY DEF Init, Informed, Untouched, Waiting, CalledFor
<1>8. QED
  BY <1>4, <1>5, <1>6, <1>7 DEF RuntimeInv

(* Held and the two parts it has. *)
LEMMA HeldParts ==
    ASSUME TypeOK, NEW s \in Servers
    PROVE  /\ backlog[s] \in Seq(Conns) /\ Range(backlog[s]) \subseteq Conns
           /\ Held(s) \subseteq Conns /\ NoConn \notin Conns
           /\ serving[s] \in Conns => serving[s] \in Held(s)
           /\ serving[s] \notin Conns => serving[s] = NoConn
<1>1. backlog[s] \in Seq(Conns) /\ serving[s] \in Conns \union {NoConn}
  BY DEF TypeOK
<1>2. Range(backlog[s]) \subseteq Conns
  BY <1>1 DEF Range
<1>3. QED
  BY <1>1, <1>2, RuntimeAssumption DEF Held

(***************************************************************************)
(* Steps that leave the connections where they are: a process is launched,  *)
(* a client hangs up, a request is read, handled, or answered.              *)
(***************************************************************************)
LEMMA QueuesKept ==
    ASSUME HeldOnce, UNCHANGED <<backlog, serving>>
    PROVE  HeldOnce' /\ \A s \in Servers : Held(s)' = Held(s)
BY DEF HeldOnce, Held

LEMMA LaunchStep ==
    ASSUME RuntimeInv, NEW s \in Servers, Launch(s) \/ Bind(s)
    PROVE  RuntimeInv'
<1>1. UNCHANGED <<backlog, serving, stage, client, status, handled, sent>>
  BY DEF Launch, Bind
<1>2. HeldOnce' /\ \A t \in Servers : Held(t)' = Held(t)
  BY <1>1, QueuesKept DEF RuntimeInv
<1>3. process[s] # "listening" /\ \A t \in Servers \ {s} : process'[t] = process[t]
  BY DEF Launch, Bind, RuntimeInv, TypeOK
<1>4. Serves'
  BY <1>1, <1>2, <1>3 DEF RuntimeInv, Serves
<1>5. TypeOK'
  <2>1. process' \in [Servers -> {"down", "starting", "listening"}]
    <3>1. process \in [Servers -> {"down", "starting", "listening"}]
      BY DEF RuntimeInv, TypeOK
    <3>2. CASE Launch(s)
      BY <3>1, <3>2 DEF Launch
    <3>3. CASE Bind(s)
      BY <3>1, <3>3 DEF Bind
    <3>4. QED
      BY <3>2, <3>3
  <2>2. QED
    BY <1>1, <2>1 DEF RuntimeInv, TypeOK
<1>6. Connected' /\ Informed'
  BY <1>1, <1>2 DEF RuntimeInv, Connected, Informed, Progress, Untouched, Told, CalledFor, Waiting
<1>7. QED
  BY <1>2, <1>4, <1>5, <1>6 DEF RuntimeInv

LEMMA HangUpStep ==
    ASSUME RuntimeInv, NEW k \in Conns, HangUp(k)
    PROVE  RuntimeInv'
<1>1. UNCHANGED <<process, backlog, serving, stage, status, handled, sent>>
  BY DEF HangUp, serverVars
<1>2. HeldOnce' /\ \A t \in Servers : Held(t)' = Held(t)
  BY <1>1, QueuesKept DEF RuntimeInv
<1>3. client'[k] = "gone" /\ \A j \in Conns \ {k} : client'[j] = client[j]
  BY DEF HangUp, RuntimeInv, TypeOK
<1>4. TypeOK' /\ Serves'
  BY <1>1, <1>2 DEF RuntimeInv, TypeOK, Serves, HangUp
<1>5. Connected'
  <2>1. \A s \in Servers : Range(backlog[s]) \subseteq Conns
    BY HeldParts DEF RuntimeInv
  <2>2. QED
    BY <1>1, <1>3, <2>1 DEF RuntimeInv, Connected, Progress, Untouched, Told
<1>6. Informed'
  BY <1>1, <1>2, <1>3 DEF RuntimeInv, Informed, Untouched, Told, CalledFor, Waiting
<1>7. QED
  BY <1>2, <1>4, <1>5, <1>6 DEF RuntimeInv

(* A request moves on to another stage. *)
LEMMA StageStep ==
    ASSUME RuntimeInv, NEW s \in Servers, serving[s] \in Conns,
           UNCHANGED <<process, backlog, serving, sent>>, TypeOK',
           stage'[s] # "idle", \A t \in Servers \ {s} : stage'[t] = stage[t],
           \A j \in Conns \ {serving[s]} :
             client'[j] = client[j] /\ status'[j] = status[j] /\ handled'[j] = handled[j],
           Waiting(serving[s])' => Waiting(serving[s]),
           client'[serving[s]] \notin {"none", "refused"}, CalledFor(serving[s])',
           client'[serving[s]] \in {"head", "done"} => Told(serving[s])',
           Progress(serving[s], s)'
    PROVE  RuntimeInv'
<1> DEFINE k == serving[s]
<1>1. HeldOnce' /\ \A t \in Servers : Held(t)' = Held(t)
  BY QueuesKept DEF RuntimeInv
<1>2. Serves'
  <2>1. serving[s] # NoConn
    BY HeldParts DEF RuntimeInv
  <2>2. QED
    BY <1>1, <2>1 DEF RuntimeInv, Serves
<1>3. /\ \A t \in Servers : k \notin Range(backlog[t])
      /\ \A t \in Servers \ {s} : serving[t] # k
  <2>1. k \in Held(s) /\ k # NoConn
    BY HeldParts DEF RuntimeInv
  <2>2. QED
    BY <2>1 DEF RuntimeInv, HeldOnce, Held
<1>4. Connected'
  <2>1. SUFFICES ASSUME NEW t \in Servers
                 PROVE  /\ \A j \in Range(backlog[t]) : client'[j] \in {"waiting", "gone"} /\ Untouched(j)'
                        /\ serving[t] \in Conns => Progress(serving[t], t)'
    BY DEF Connected, Progress, Untouched, Told
  <2>2. \A j \in Range(backlog[t]) : client'[j] \in {"waiting", "gone"} /\ Untouched(j)'
    BY <1>3, HeldParts DEF RuntimeInv, Connected, Untouched
  <2>3. CASE t = s
    BY <2>2, <2>3 DEF Progress, Told, Untouched
  <2>4. CASE t # s
    <3>1. ASSUME serving[t] \in Conns
          PROVE  Progress(serving[t], t)'
      BY <1>3, <2>4, <3>1 DEF RuntimeInv, Connected, Progress, Untouched, Told
    <3>2. QED
      BY <2>2, <3>1
  <2>5. QED
    BY <2>3, <2>4
<1>5. Informed'
  <2>1. SUFFICES ASSUME NEW j \in Conns
                 PROVE  /\ client'[j] \in {"none", "refused"} => Untouched(j)'
                        /\ client'[j] \in {"head", "done"} => Told(j)'
                        /\ CalledFor(j)'
                        /\ Waiting(j)' => \E t \in Servers : j \in Held(t)
    BY <1>1 DEF Informed, Waiting, Untouched, Told, CalledFor
  <2>2. CASE j = k
    BY <2>2, <1>1 DEF RuntimeInv, Informed, Untouched, Told, CalledFor
  <2>3. CASE j # k
    BY <2>3 DEF RuntimeInv, Informed, Untouched, Told, CalledFor, Waiting
  <2>4. QED
    BY <2>2, <2>3
<1>6. QED
  BY <1>1, <1>2, <1>4, <1>5 DEF RuntimeInv

(***************************************************************************)
(* The stages of a request, each an instance of StageStep.                  *)
(***************************************************************************)
LEMMA ServingWhen ==
    ASSUME RuntimeInv, NEW s \in Servers, stage[s] # "idle"
    PROVE  serving[s] \in Conns /\ Progress(serving[s], s)
BY DEF RuntimeInv, TypeOK, Serves, Connected

LEMMA AnswerTypes == \A x : AnswersTo(x) \subseteq {200, 404, 500} \union Statuses
BY DEF AnswersTo

LEMMA AnswerStep ==
    ASSUME RuntimeInv, NEW s \in Servers, NEW code \in AnswersTo(sent[serving[s]]),
           Answer(s, code), UNCHANGED handled, stage[s] \in {"request", "handler"},
           handled[serving[s]] = (IF sent[serving[s]] = "invoke" THEN 1 ELSE 0)
    PROVE  RuntimeInv'
<1> DEFINE k == serving[s]
<1>1. k \in Conns /\ Progress(k, s) /\ client[k] \in {"waiting", "gone"}
  BY ServingWhen DEF Progress
<1>2. UNCHANGED <<process, backlog, serving, client, sent, handled>>
  BY DEF Answer
<1>3. /\ stage' \in [Servers -> {"idle", "request", "handler", "head", "body"}]
      /\ stage'[s] = "head" /\ \A t \in Servers \ {s} : stage'[t] = stage[t]
  BY DEF Answer, Enter, RuntimeInv, TypeOK
<1>4. /\ status' \in [Conns -> {NoStatus, 200, 404, 500} \union Statuses]
      /\ status'[k] = code /\ \A j \in Conns \ {k} : status'[j] = status[j]
  BY <1>1, AnswerTypes DEF Answer, RuntimeInv, TypeOK
<1>5. TypeOK'
  BY <1>2, <1>3, <1>4 DEF RuntimeInv, TypeOK
<1>6. Told(k)' /\ CalledFor(k)'
  BY <1>2, <1>4 DEF Told, CalledFor
<1>7. Progress(serving[s], s)'
  BY <1>1, <1>2, <1>3, <1>6 DEF Progress, Told
<1>8. QED
  BY <1>1, <1>2, <1>3, <1>4, <1>5, <1>6, <1>7, StageStep DEF Waiting

LEMMA RequestAnswered ==
    ASSUME RuntimeInv, NEW s \in Servers,
           HandleHealth(s) \/ HandleNotFound(s) \/ InvokeRejected(s)
    PROVE  RuntimeInv'
<1>1. stage[s] = "request"
  BY DEF HandleHealth, HandleNotFound, InvokeRejected
<1>2. handled[serving[s]] = 0 /\ UNCHANGED handled
  BY <1>1, ServingWhen DEF Progress, Untouched, HandleHealth, HandleNotFound, InvokeRejected
<1>3. CASE HandleHealth(s)
  BY <1>1, <1>2, <1>3, AnswerStep DEF HandleHealth, AnswersTo
<1>4. CASE HandleNotFound(s)
  BY <1>1, <1>2, <1>4, AnswerStep DEF HandleNotFound, AnswersTo
<1>5. CASE InvokeRejected(s)
  BY <1>1, <1>2, <1>5, AnswerStep DEF InvokeRejected, parse_request, AnswersTo
<1>6. QED
  BY <1>3, <1>4, <1>5

LEMMA HandlerReturnsStep ==
    ASSUME RuntimeInv, NEW s \in Servers, HandlerReturns(s)
    PROVE  RuntimeInv'
<1>1. stage[s] = "handler" /\ UNCHANGED handled
  BY DEF HandlerReturns
<1>2. PICK code \in Statuses \union {500} : Answer(s, code)
  BY DEF HandlerReturns, build_http_response
<1>3. handled[serving[s]] = 1 /\ sent[serving[s]] = "invoke"
  BY <1>1, ServingWhen DEF Progress
<1>4. code \in AnswersTo(sent[serving[s]])
  BY <1>3 DEF AnswersTo
<1>5. QED
  BY <1>1, <1>2, <1>3, <1>4, AnswerStep

LEMMA ProcessInvokeStep ==
    ASSUME RuntimeInv, NEW s \in Servers, ProcessInvoke(s)
    PROVE  RuntimeInv'
<1> DEFINE k == serving[s]
<1>1. stage[s] = "request" /\ sent[k] = "invoke"
  BY DEF ProcessInvoke, parse_request
<1>2. k \in Conns /\ client[k] \in {"waiting", "gone"} /\ status[k] = NoStatus /\ handled[k] = 0
  BY <1>1, ServingWhen DEF Progress, Untouched
<1>3. UNCHANGED <<process, backlog, serving, client, status, sent>>
  BY DEF ProcessInvoke
<1>4. /\ stage' \in [Servers -> {"idle", "request", "handler", "head", "body"}]
      /\ stage'[s] = "handler" /\ \A t \in Servers \ {s} : stage'[t] = stage[t]
  BY DEF ProcessInvoke, Enter, RuntimeInv, TypeOK
<1>5. /\ handled' \in [Conns -> Nat]
      /\ handled'[k] = 1 /\ \A j \in Conns \ {k} : handled'[j] = handled[j]
  BY <1>2 DEF ProcessInvoke, RuntimeInv, TypeOK
<1>6. TypeOK'
  BY <1>3, <1>4, <1>5 DEF RuntimeInv, TypeOK
<1>7. Progress(serving[s], s)'
  BY <1>1, <1>2, <1>3, <1>4, <1>5 DEF Progress, Untouched, Told
<1>8. CalledFor(k)'
  BY <1>1, <1>3, <1>5 DEF CalledFor
<1>9. QED
  BY <1>2, <1>3, <1>4, <1>5, <1>6, <1>7, <1>8, StageStep DEF Waiting

LEMMA WriteHeadStep ==
    ASSUME RuntimeInv, NEW s \in Servers, WriteHead(s)
    PROVE  RuntimeInv'
<1> DEFINE k == serving[s]
<1>1. k \in Conns /\ client[k] \in {"waiting", "gone"} /\ Told(k)
  BY ServingWhen DEF WriteHead, Progress
<1>2. UNCHANGED <<process, backlog, serving, status, handled, sent>>
  BY DEF WriteHead
<1>3. /\ stage' \in [Servers -> {"idle", "request", "handler", "head", "body"}]
      /\ stage'[s] = "body" /\ \A t \in Servers \ {s} : stage'[t] = stage[t]
  BY DEF WriteHead, Enter, RuntimeInv, TypeOK
<1>4. /\ client' = [client EXCEPT ![k] = IF client[k] = "waiting" THEN "head" ELSE client[k]]
      /\ client \in [Conns -> {"none", "waiting", "head", "done", "refused", "reset", "gone"}]
  BY DEF WriteHead, RuntimeInv, TypeOK
<1>5. /\ client' \in [Conns -> {"none", "waiting", "head", "done", "refused", "reset", "gone"}]
      /\ client'[k] = (IF client[k] = "waiting" THEN "head" ELSE "gone")
      /\ \A j \in Conns \ {k} : client'[j] = client[j]
  BY <1>1, <1>4
<1>6. TypeOK'
  BY <1>2, <1>3, <1>5 DEF RuntimeInv, TypeOK
<1>7. Told(k)'
  BY <1>1, <1>2 DEF Told
<1>8. Progress(serving[s], s)'
  BY <1>1, <1>2, <1>3, <1>5, <1>7 DEF Progress, Told
<1>9. CalledFor(k)'
  BY <1>1, <1>2 DEF RuntimeInv, Informed, CalledFor
<1>10. QED
  BY <1>1, <1>2, <1>3, <1>5, <1>6, <1>7, <1>8, <1>9, StageStep DEF Waiting
-----------------------------------------------------------------------------
(***************************************************************************)
(* Steps that move connections: one is accepted, ends, is reset, or opens.  *)
(***************************************************************************)
LEMMA AcceptStep ==
    ASSUME RuntimeInv, NEW s \in Servers, Accept(s)
    PROVE  RuntimeInv'
<1> DEFINE k == Head(backlog[s])
<1>1. /\ stage[s] = "idle" /\ backlog[s] # << >>
      /\ UNCHANGED <<process, client, status, handled, sent>>
  BY DEF Accept
<1>2. /\ backlog[s] \in Seq(Conns) /\ IsInjective(backlog[s])
      /\ serving[s] = NoConn /\ NoConn \notin Conns
  BY <1>1, HeldParts DEF RuntimeInv, HeldOnce, Serves
<1>3. /\ Range(Tail(backlog[s])) = Range(backlog[s]) \ {k} /\ IsInjective(Tail(backlog[s]))
      /\ k \in Range(backlog[s]) /\ k \in Conns
      /\ Tail(backlog[s]) \in Seq(Conns)
  BY <1>1, <1>2, TailRange, HeldParts DEF RuntimeInv
<1>4. /\ backlog' \in [Servers -> Seq(Conns)] /\ backlog'[s] = Tail(backlog[s])
      /\ \A t \in Servers \ {s} : backlog'[t] = backlog[t]
  <2>1. backlog' = [backlog EXCEPT ![s] = Tail(backlog[s])] /\ backlog \in [Servers -> Seq(Conns)]
    BY DEF Accept, RuntimeInv, TypeOK
  <2> HIDE DEF k
  <2>2. QED
    BY <1>3, <2>1
<1>5. /\ serving' \in [Servers -> Conns \union {NoConn}] /\ serving'[s] = k
      /\ \A t \in Servers \ {s} : serving'[t] = serving[t]
  <2>1. serving' = [serving EXCEPT ![s] = k] /\ serving \in [Servers -> Conns \union {NoConn}]
    BY DEF Accept, RuntimeInv, TypeOK
  <2>2. QED
    BY <1>3, <2>1
<1>6. /\ stage' \in [Servers -> {"idle", "request", "handler", "head", "body"}]
      /\ stage'[s] = "request" /\ \A t \in Servers \ {s} : stage'[t] = stage[t]
  BY DEF Accept, Enter, RuntimeInv, TypeOK
<1> HIDE DEF k
<1>7. TypeOK'
  BY <1>1, <1>4, <1>5, <1>6 DEF RuntimeInv, TypeOK
<1>8. \A t \in Servers : Held(t)' = Held(t)
  BY <1>2, <1>3, <1>4, <1>5 DEF Held
<1>9. HeldOnce'
  BY <1>3, <1>4, <1>5, <1>8 DEF RuntimeInv, HeldOnce
<1>10. Serves'
  BY <1>1, <1>2, <1>3, <1>5, <1>6, <1>8 DEF RuntimeInv, Serves
<1>11. Connected'
  <2>1. SUFFICES ASSUME NEW t \in Servers
                 PROVE  /\ \A j \in Range(backlog'[t]) : client'[j] \in {"waiting", "gone"} /\ Untouched(j)'
                        /\ serving'[t] \in Conns => Progress(serving[t], t)'
    BY DEF Connected, Progress, Untouched, Told
  <2>2. \A j \in Range(backlog'[t]) : client'[j] \in {"waiting", "gone"} /\ Untouched(j)'
    BY <1>1, <1>3, <1>4 DEF RuntimeInv, Connected, Untouched
  <2>3. CASE t = s
    <3>1. client[k] \in {"waiting", "gone"} /\ Untouched(k)
      BY <1>3 DEF RuntimeInv, Connected
    <3>2. QED
      BY <1>1, <1>5, <1>6, <2>2, <2>3, <3>1 DEF Progress, Untouched
  <2>4. CASE t # s
    BY <1>1, <1>5, <1>6, <2>2, <2>4 DEF RuntimeInv, Connected, Progress, Untouched, Told
  <2>5. QED
    BY <2>3, <2>4
<1>12. Informed'
  BY <1>1, <1>8 DEF RuntimeInv, Informed, Untouched, Told, CalledFor, Waiting
<1>13. QED
  BY <1>7, <1>9, <1>10, <1>11, <1>12 DEF RuntimeInv

(* A connection that is served is held nowhere else. *)
LEMMA ServedAlone ==
    ASSUME RuntimeInv, NEW s \in Servers, serving[s] \in Conns
    PROVE  /\ serving[s] # NoConn
           /\ \A t \in Servers : serving[s] \notin Range(backlog[t])
           /\ \A t \in Servers \ {s} : serving[t] # serving[s]
<1>1. serving[s] \in Held(s) /\ serving[s] # NoConn
  BY HeldParts DEF RuntimeInv
<1>2. QED
  BY <1>1 DEF RuntimeInv, HeldOnce, Held

(* The connection being served ends: its client is served, or gone. *)
LEMMA EndStep ==
    ASSUME RuntimeInv, NEW s \in Servers, serving[s] \in Conns,
           UNCHANGED <<process, backlog, status, handled, sent>>,
           serving' = [serving EXCEPT ![s] = NoConn],
           Enter(s, "idle"),
           client' \in [Conns -> {"none", "waiting", "head", "done", "refused", "reset", "gone"}],
           client'[serving[s]] \in {"done", "gone"},
           client'[serving[s]] = "done" => Told(serving[s]),
           \A j \in Conns \ {serving[s]} : client'[j] = client[j]
    PROVE  RuntimeInv'
<1> DEFINE k == serving[s]
<1>1. /\ k # NoConn /\ \A t \in Servers : k \notin Range(backlog[t])
      /\ \A t \in Servers \ {s} : serving[t] # k
  BY ServedAlone
<1>2. /\ serving' \in [Servers -> Conns \union {NoConn}] /\ serving'[s] = NoConn
      /\ \A t \in Servers \ {s} : serving'[t] = serving[t]
  BY DEF RuntimeInv, TypeOK
<1>3. /\ stage' \in [Servers -> {"idle", "request", "handler", "head", "body"}]
      /\ stage'[s] = "idle" /\ \A t \in Servers \ {s} : stage'[t] = stage[t]
  BY DEF Enter, RuntimeInv, TypeOK
<1>4. TypeOK'
  BY <1>2, <1>3 DEF RuntimeInv, TypeOK
<1>5. /\ Held(s)' = Held(s) \ {k} /\ \A t \in Servers \ {s} : Held(t)' = Held(t)
  BY <1>1, <1>2 DEF Held
<1>6. HeldOnce'
  <2>1. \A t \in Servers : NoConn \notin Range(backlog[t])
    BY HeldParts DEF RuntimeInv
  <2>2. \A t \in Servers : IsInjective(backlog[t])' /\ (serving[t] \notin Range(backlog[t]))'
    BY <1>2, <2>1 DEF RuntimeInv, HeldOnce
  <2>3. \A t \in Servers : Held(t)' \subseteq Held(t)
    BY <1>5
  <2>4. \A t, u \in Servers : t # u => Held(t)' \intersect Held(u)' = {}
    BY <2>3 DEF RuntimeInv, HeldOnce
  <2>5. QED
    BY <2>2, <2>4 DEF HeldOnce
<1>7. Serves'
  BY <1>2, <1>3, <1>5 DEF RuntimeInv, Serves
<1>8. Connected'
  <2>1. SUFFICES ASSUME NEW t \in Servers
                 PROVE  /\ \A j \in Range(backlog[t]) : client'[j] \in {"waiting", "gone"} /\ Untouched(j)'
                        /\ serving'[t] \in Conns => Progress(serving[t], t)'
    BY DEF Connected, Progress, Untouched, Told
  <2>2. \A j \in Range(backlog[t]) : client'[j] \in {"waiting", "gone"} /\ Untouched(j)'
    BY <1>1, HeldParts DEF RuntimeInv, Connected, Untouched
  <2>3. ASSUME serving'[t] \in Conns
        PROVE  Progress(serving[t], t)'
    BY <1>1, <1>2, <1>3, <2>3, HeldParts DEF RuntimeInv, Connected, Progress, Untouched, Told
  <2>4. QED
    BY <2>2, <2>3
<1>9. Informed'
  <2>1. SUFFICES ASSUME NEW j \in Conns
                 PROVE  /\ client'[j] \in {"none", "refused"} => Untouched(j)'
                        /\ client'[j] \in {"head", "done"} => Told(j)'
                        /\ CalledFor(j)'
                        /\ Waiting(j)' => \E t \in Servers : j \in Held(t)'
    BY DEF Informed, Waiting, Untouched, Told, CalledFor
  <2>2. CASE j = k
    BY <2>2 DEF RuntimeInv, Informed, Waiting, Told, Untouched, CalledFor
  <2>3. CASE j # k
    BY <1>5, <2>3 DEF RuntimeInv, Informed, Untouched, Told, CalledFor, Waiting
  <2>4. QED
    BY <2>2, <2>3
<1>10. QED
  BY <1>4, <1>6, <1>7, <1>8, <1>9 DEF RuntimeInv

LEMMA WriteBodyStep ==
    ASSUME RuntimeInv, NEW s \in Servers, WriteBody(s)
    PROVE  RuntimeInv'
<1> DEFINE k == serving[s]
<1>1. k \in Conns /\ client[k] \in {"head", "gone"} /\ Told(k)
  BY ServingWhen DEF WriteBody, Progress
<1>2. /\ client' = [client EXCEPT ![k] = IF client[k] = "head" THEN "done" ELSE client[k]]
      /\ client \in [Conns -> {"none", "waiting", "head", "done", "refused", "reset", "gone"}]
  BY DEF WriteBody, RuntimeInv, TypeOK
<1>3. /\ client' \in [Conns -> {"none", "waiting", "head", "done", "refused", "reset", "gone"}]
      /\ client'[k] \in {"done", "gone"}
      /\ \A j \in Conns \ {k} : client'[j] = client[j]
  BY <1>1, <1>2
<1>4. UNCHANGED <<process, backlog, status, handled, sent>>
      /\ serving' = [serving EXCEPT ![s] = NoConn] /\ Enter(s, "idle")
  BY DEF WriteBody
<1>5. QED
  BY <1>1, <1>3, <1>4, EndStep

LEMMA ClientLostStep ==
    ASSUME RuntimeInv, NEW s \in Servers, ClientLost(s)
    PROVE  RuntimeInv'
<1>1. serving[s] \in Conns /\ client[serving[s]] = "gone"
  BY ServingWhen DEF ClientLost, Polled
<1>2. QED
  BY <1>1, EndStep DEF ClientLost, RuntimeInv, TypeOK

LEMMA DieStep ==
    ASSUME RuntimeInv, NEW s \in Servers, Die(s)
    PROVE  RuntimeInv'
<1>1. UNCHANGED <<status, handled, sent>>
  BY DEF Die
<1>2. /\ process' \in [Servers -> {"down", "starting", "listening"}]
      /\ \A t \in Servers \ {s} : process'[t] = process[t]
  BY DEF Die, RuntimeInv, TypeOK
<1>3. /\ backlog' \in [Servers -> Seq(Conns)] /\ backlog'[s] = << >>
      /\ \A t \in Servers \ {s} : backlog'[t] = backlog[t]
  BY DEF Die, RuntimeInv, TypeOK
<1>4. /\ serving' \in [Servers -> Conns \union {NoConn}] /\ serving'[s] = NoConn
      /\ \A t \in Servers \ {s} : serving'[t] = serving[t]
  BY DEF Die, RuntimeInv, TypeOK
<1>5. /\ stage' \in [Servers -> {"idle", "request", "handler", "head", "body"}]
      /\ stage'[s] = "idle" /\ \A t \in Servers \ {s} : stage'[t] = stage[t]
  BY DEF Die, Enter, RuntimeInv, TypeOK
<1>6. /\ client' \in [Conns -> {"none", "waiting", "head", "done", "refused", "reset", "gone"}]
      /\ \A j \in Conns : client'[j] = IF j \in Held(s) /\ Waiting(j) THEN "reset" ELSE client[j]
  BY DEF Die, RuntimeInv, TypeOK
<1>7. TypeOK'
  BY <1>1, <1>2, <1>3, <1>4, <1>5, <1>6 DEF RuntimeInv, TypeOK
<1>8. Range(<< >>) = {} /\ IsInjective(<< >>)
  BY DEF Range, IsInjective
<1>9. Held(s)' = {} /\ \A t \in Servers \ {s} : Held(t)' = Held(t)
  BY <1>3, <1>4, <1>8 DEF Held
<1>10. HeldOnce'
  BY <1>3, <1>4, <1>8, <1>9 DEF RuntimeInv, HeldOnce
<1>11. Serves'
  BY <1>2, <1>4, <1>5, <1>9 DEF RuntimeInv, Serves
<1>12. \A t \in Servers \ {s} : \A j \in Held(t) : j \in Conns /\ j \notin Held(s)
  BY HeldParts DEF RuntimeInv, HeldOnce
<1>13. Connected'
  <2>1. SUFFICES ASSUME NEW t \in Servers
                 PROVE  /\ \A j \in Range(backlog'[t]) : client'[j] \in {"waiting", "gone"} /\ Untouched(j)'
                        /\ serving'[t] \in Conns => Progress(serving[t], t)'
    BY DEF Connected, Progress, Untouched, Told
  <2>2. CASE t = s
    BY <1>3, <1>4, <1>8, <2>2, RuntimeAssumption
  <2>3. CASE t # s
    <3>1. \A j \in Held(t) : client'[j] = client[j]
      BY <1>6, <1>12, <2>3
    <3>2. \A j \in Range(backlog'[t]) : client'[j] \in {"waiting", "gone"} /\ Untouched(j)'
      BY <1>1, <1>3, <2>3, <3>1 DEF RuntimeInv, Connected, Untouched, Held
    <3>3. ASSUME serving'[t] \in Conns
          PROVE  Progress(serving[t], t)'
      BY <1>1, <1>4, <1>5, <2>3, <3>1, <3>3, HeldParts DEF RuntimeInv, Connected, Progress, Untouched, Told
    <3>4. QED
      BY <3>2, <3>3
  <2>4. QED
    BY <2>2, <2>3
<1>14. Informed'
  BY <1>1, <1>6, <1>9 DEF RuntimeInv, Informed, Untouched, Told, CalledFor, Waiting
<1>15. QED
  BY <1>7, <1>10, <1>11, <1>13, <1>14 DEF RuntimeInv

(* A client that has not connected yet is held nowhere. *)
LEMMA NotYetHeld ==
    ASSUME RuntimeInv, NEW k \in Conns, client[k] = "none", NEW t \in Servers
    PROVE  k \notin Held(t)
<1>1. k \notin Range(backlog[t])
  BY DEF RuntimeInv, Connected
<1>2. serving[t] # k
  <2>1. SUFFICES ASSUME serving[t] = k
                 PROVE  FALSE
    OBVIOUS
  <2>2. Progress(k, t)
    BY <2>1 DEF RuntimeInv, Connected
  <2>3. QED
    BY <2>2 DEF Progress
<1>3. QED
  BY <1>1, <1>2 DEF Held

LEMMA ConnectStep ==
    ASSUME RuntimeInv, NEW k \in Conns, NEW s \in Servers, NEW x \in Kinds, Connect(k, s, x)
    PROVE  RuntimeInv'
<1>1. /\ client[k] = "none" /\ Untouched(k)
      /\ UNCHANGED <<process, serving, stage, status, handled>>
  BY DEF Connect, RuntimeInv, Informed
<1>2. \A t \in Servers : k \notin Held(t) /\ k \notin Range(backlog[t]) /\ serving[t] # k
  <2>1. k # NoConn
    BY RuntimeAssumption
  <2>2. QED
    BY <1>1, <2>1, NotYetHeld DEF Held
<1>3. /\ sent' \in [Conns -> Kinds \union {"nothing"}]
      /\ \A j \in Conns \ {k} : sent'[j] = sent[j]
  BY DEF Connect, RuntimeInv, TypeOK
<1>4. CASE process[s] = "listening"
  <2>1. /\ client' \in [Conns -> {"none", "waiting", "head", "done", "refused", "reset", "gone"}]
        /\ client'[k] = "waiting" /\ \A j \in Conns \ {k} : client'[j] = client[j]
    <3>1. client' = [client EXCEPT ![k] = "waiting"]
      BY <1>4 DEF Connect
    <3>2. QED
      BY <3>1 DEF RuntimeInv, TypeOK
  <2>2. /\ backlog[s] \in Seq(Conns) /\ IsInjective(backlog[s]) /\ k \notin Range(backlog[s])
    BY <1>2 DEF RuntimeInv, TypeOK, HeldOnce
  <2>3. /\ Range(Append(backlog[s], k)) = Range(backlog[s]) \union {k}
        /\ IsInjective(Append(backlog[s], k)) /\ Append(backlog[s], k) \in Seq(Conns)
    BY <2>2, AppendRange, AppendKeepsInjective
  <2>4. /\ backlog' \in [Servers -> Seq(Conns)] /\ backlog'[s] = Append(backlog[s], k)
        /\ \A t \in Servers \ {s} : backlog'[t] = backlog[t]
    <3>1. backlog' = [backlog EXCEPT ![s] = Append(backlog[s], k)]
      BY <1>4 DEF Connect
    <3>2. backlog \in [Servers -> Seq(Conns)]
      BY DEF RuntimeInv, TypeOK
    <3>3. QED
      BY <2>3, <3>1, <3>2
  <2>5. TypeOK'
    BY <1>1, <1>3, <2>1, <2>4 DEF RuntimeInv, TypeOK
  <2>6. /\ Held(s)' = Held(s) \union {k} /\ \A t \in Servers \ {s} : Held(t)' = Held(t)
    BY <1>1, <2>3, <2>4 DEF Held
  <2>7. HeldOnce'
    <3>1. \A t \in Servers : IsInjective(backlog[t])' /\ (serving[t] \notin Range(backlog[t]))'
      BY <1>1, <1>2, <2>3, <2>4 DEF RuntimeInv, HeldOnce
    <3>2. \A t, u \in Servers : t # u => Held(t)' \intersect Held(u)' = {}
      BY <1>2, <2>6 DEF RuntimeInv, HeldOnce
    <3>3. QED
      BY <3>1, <3>2 DEF HeldOnce
  <2>8. Serves'
    BY <1>1, <1>4, <2>6 DEF RuntimeInv, Serves
  <2>9. Connected'
    <3>1. SUFFICES ASSUME NEW t \in Servers
                   PROVE  /\ \A j \in Range(backlog'[t]) : client'[j] \in {"waiting", "gone"} /\ Untouched(j)'
                          /\ serving'[t] \in Conns => Progress(serving[t], t)'
      BY DEF Connected, Progress, Untouched, Told
    <3>2. \A j \in Range(backlog[t]) : client'[j] \in {"waiting", "gone"} /\ Untouched(j)'
      BY <1>1, <1>2, <2>1, HeldParts DEF RuntimeInv, Connected, Untouched
    <3>3. \A j \in Range(backlog'[t]) : client'[j] \in {"waiting", "gone"} /\ Untouched(j)'
      BY <1>1, <2>1, <2>3, <2>4, <3>2 DEF Untouched
    <3>4. ASSUME serving'[t] \in Conns
          PROVE  Progress(serving[t], t)'
      BY <1>1, <1>2, <1>3, <2>1, <3>4 DEF RuntimeInv, Connected, Progress, Untouched, Told
    <3>5. QED
      BY <3>3, <3>4
  <2>10. Informed'
    BY <1>1, <1>3, <2>1, <2>6 DEF RuntimeInv, Informed, Untouched, Told, CalledFor, Waiting
  <2>11. QED
    BY <2>5, <2>7, <2>8, <2>9, <2>10 DEF RuntimeInv
<1>5. CASE process[s] # "listening"
  <2>1. /\ client' \in [Conns -> {"none", "waiting", "head", "done", "refused", "reset", "gone"}]
        /\ client'[k] = "refused" /\ \A j \in Conns \ {k} : client'[j] = client[j]
        /\ UNCHANGED backlog
    <3>1. client' = [client EXCEPT ![k] = "refused"] /\ UNCHANGED backlog
      BY <1>5 DEF Connect
    <3>2. QED
      BY <3>1 DEF RuntimeInv, TypeOK
  <2>2. TypeOK'
    BY <1>1, <1>3, <2>1 DEF RuntimeInv, TypeOK
  <2>3. HeldOnce' /\ \A t \in Servers : Held(t)' = Held(t)
    BY <1>1, <2>1, QueuesKept DEF RuntimeInv
  <2>4. Serves'
    BY <1>1, <2>3 DEF RuntimeInv, Serves
  <2>5. Connected'
    <3>1. SUFFICES ASSUME NEW t \in Servers
                   PROVE  /\ \A j \in Range(backlog[t]) : client'[j] \in {"waiting", "gone"} /\ Untouched(j)'
                          /\ serving'[t] \in Conns => Progress(serving[t], t)'
      BY <2>1 DEF Connected, Progress, Untouched, Told
    <3>2. \A j \in Range(backlog[t]) : client'[j] \in {"waiting", "gone"} /\ Untouched(j)'
      BY <1>1, <1>2, <2>1, HeldParts DEF RuntimeInv, Connected, Untouched
    <3>3. ASSUME serving'[t] \in Conns
          PROVE  Progress(serving[t], t)'
      BY <1>1, <1>2, <1>3, <2>1, <3>3 DEF RuntimeInv, Connected, Progress, Untouched, Told
    <3>4. QED
      BY <3>2, <3>3
  <2>6. Informed'
    BY <1>1, <1>3, <2>1, <2>3 DEF RuntimeInv, Informed, Untouched, Told, CalledFor, Waiting
  <2>7. QED
    BY <2>2, <2>3, <2>4, <2>5, <2>6 DEF RuntimeInv
<1>6. QED
  BY <1>4, <1>5
-----------------------------------------------------------------------------
LEMMA StepRuntime ==
    ASSUME RuntimeInv, [Next]_vars
    PROVE  RuntimeInv'
<1>1. CASE UNCHANGED vars
  BY <1>1 DEF vars, RuntimeInv, TypeOK, HeldOnce, Held, Serves, Connected, Progress, Told, CalledFor,
              Untouched, Informed, Waiting
<1>2. ASSUME NEW s \in Servers, Launch(s) \/ ServerStep(s) \/ Die(s)
      PROVE  RuntimeInv'
  <2>1. CASE Launch(s) \/ Bind(s)
    BY <2>1, LaunchStep
  <2>2. CASE Accept(s)
    BY <2>2, AcceptStep
  <2>3. CASE HandleHealth(s) \/ HandleNotFound(s) \/ InvokeRejected(s)
    BY <2>3, RequestAnswered
  <2>4. CASE ProcessInvoke(s)
    BY <2>4, ProcessInvokeStep
  <2>5. CASE HandlerReturns(s)
    BY <2>5, HandlerReturnsStep
  <2>6. CASE HandlerPanics(s) \/ Die(s)
    BY <2>6, DieStep DEF HandlerPanics
  <2>7. CASE WriteHead(s)
    BY <2>7, WriteHeadStep
  <2>8. CASE WriteBody(s)
    BY <2>8, WriteBodyStep
  <2>9. CASE ClientLost(s)
    BY <2>9, ClientLostStep
  <2>10. QED
    BY <1>2, <2>1, <2>2, <2>3, <2>4, <2>5, <2>6, <2>7, <2>8, <2>9 DEF ServerStep
<1>3. ASSUME NEW k \in Conns, HangUp(k)
      PROVE  RuntimeInv'
  BY <1>3, HangUpStep
<1>4. ASSUME NEW k \in Conns, NEW s \in Servers, NEW x \in Kinds, Connect(k, s, x)
      PROVE  RuntimeInv'
  BY <1>4, ConnectStep
<1>5. QED
  BY <1>1, <1>2, <1>3, <1>4 DEF Next

(***************************************************************************)
(* Nothing but Connect brings a connection: in every other step no client   *)
(* begins to wait, no server comes to hold another one, and the handler is  *)
(* called only for a request it has not been called for.  (What Gateway     *)
(* needs to know of the runtime.)                                           *)
(***************************************************************************)
Quiet ==
    /\ \A s \in Servers : Held(s)' \subseteq Held(s)
    /\ \A k \in Conns :
        /\ client'[k] = "waiting" => client[k] = "waiting"
        /\ client'[k] = "none" <=> client[k] = "none"
        /\ sent'[k] = sent[k]
        /\ handled'[k] = handled[k] \/ (handled[k] = 0 /\ handled'[k] = 1)

LEMMA QuietHangUp ==
    ASSUME RuntimeInv, NEW k \in Conns, HangUp(k)
    PROVE  Quiet
<1>1. /\ UNCHANGED <<backlog, serving, handled, sent>> /\ Waiting(k)
      /\ client'[k] = "gone" /\ \A j \in Conns \ {k} : client'[j] = client[j]
  BY DEF HangUp, serverVars, RuntimeInv, TypeOK
<1>2. QED
  BY <1>1 DEF Quiet, Held, Waiting

LEMMA QuietStep ==
    ASSUME RuntimeInv, NEW s \in Servers, Launch(s) \/ ServerStep(s) \/ Die(s)
    PROVE  Quiet
<1>1. CASE \/ Launch(s) \/ Bind(s) \/ HandlerReturns(s)
           \/ HandleHealth(s) \/ HandleNotFound(s) \/ InvokeRejected(s)
  <2>1. UNCHANGED <<backlog, serving, client, handled, sent>>
    BY <1>1 DEF Launch, Bind, HandlerReturns, HandleHealth, HandleNotFound, InvokeRejected, Answer
  <2>2. QED
    BY <2>1 DEF Quiet, Held
<1>2. CASE Accept(s)
  <2>1. UNCHANGED <<client, handled, sent>>
    BY <1>2 DEF Accept
  <2>2. \A t \in Servers : Held(t)' \subseteq Held(t)
    <3>1. /\ backlog[s] \in Seq(Conns) /\ backlog[s] # << >> /\ IsInjective(backlog[s])
      BY <1>2 DEF Accept, RuntimeInv, TypeOK, HeldOnce
    <3>2. Range(Tail(backlog[s])) = Range(backlog[s]) \ {Head(backlog[s])}
          /\ Head(backlog[s]) \in Range(backlog[s])
      BY <3>1, TailRange
    <3>3. /\ backlog'[s] = Tail(backlog[s]) /\ serving'[s] = Head(backlog[s])
          /\ \A t \in Servers \ {s} : backlog'[t] = backlog[t] /\ serving'[t] = serving[t]
      BY <1>2 DEF Accept, RuntimeInv, TypeOK
    <3>4. QED
      BY <3>2, <3>3 DEF Held
  <2>3. QED
    BY <2>1, <2>2 DEF Quiet
<1>3. CASE ProcessInvoke(s)
  <2>1. serving[s] \in Conns /\ handled[serving[s]] = 0
    BY <1>3, ServingWhen DEF ProcessInvoke, Progress, Untouched
  <2>2. /\ handled'[serving[s]] = 1
        /\ \A j \in Conns \ {serving[s]} : handled'[j] = handled[j]
    BY <1>3, <2>1 DEF ProcessInvoke, RuntimeInv, TypeOK
  <2>3. UNCHANGED <<backlog, serving, client, sent>>
    BY <1>3 DEF ProcessInvoke
  <2>4. QED
    BY <2>1, <2>2, <2>3 DEF Quiet, Held
<1>4. CASE WriteHead(s)
  <2>1. UNCHANGED <<backlog, serving, handled, sent>>
    BY <1>4 DEF WriteHead
  <2>2. client' = [client EXCEPT ![serving[s]] = IF client[serving[s]] = "waiting" THEN "head"
                                                 ELSE client[serving[s]]]
        /\ client \in [Conns -> {"none", "waiting", "head", "done", "refused", "reset", "gone"}]
    BY <1>4 DEF WriteHead, RuntimeInv, TypeOK
  <2>3. \A k \in Conns : client'[k] = client[k] \/ (client[k] = "waiting" /\ client'[k] = "head")
    BY <2>2
  <2>4. QED
    BY <2>1, <2>3 DEF Quiet, Held
<1>5. CASE WriteBody(s)
  <2>1. UNCHANGED <<backlog, handled, sent>> /\ serving' = [serving EXCEPT ![s] = NoConn]
    BY <1>5 DEF WriteBody
  <2>2. client' = [client EXCEPT ![serving[s]] = IF client[serving[s]] = "head" THEN "done"
                                                 ELSE client[serving[s]]]
        /\ client \in [Conns -> {"none", "waiting", "head", "done", "refused", "reset", "gone"}]
    BY <1>5 DEF WriteBody, RuntimeInv, TypeOK
  <2>3. \A k \in Conns : client'[k] = client[k] \/ (client[k] = "head" /\ client'[k] = "done")
    BY <2>2
  <2>4. \A t \in Servers : serving'[t] \in {serving[t], NoConn}
    BY <2>1 DEF RuntimeInv, TypeOK
  <2>5. QED
    BY <2>1, <2>3, <2>4 DEF Quiet, Held
<1>6. CASE ClientLost(s)
  <2>1. UNCHANGED <<backlog, client, handled, sent>> /\ serving' = [serving EXCEPT ![s] = NoConn]
    BY <1>6 DEF ClientLost
  <2>2. \A t \in Servers : serving'[t] \in {serving[t], NoConn}
    BY <2>1 DEF RuntimeInv, TypeOK
  <2>3. QED
    BY <2>1, <2>2 DEF Quiet, Held
<1>7. CASE Die(s) \/ HandlerPanics(s)
  <2>1. Die(s)
    BY <1>7 DEF HandlerPanics
  <2>2. \A k \in Conns : client'[k] = client[k] \/ (Waiting(k) /\ client'[k] = "reset")
    BY <2>1 DEF Die, RuntimeInv, TypeOK
  <2>3. UNCHANGED <<handled, sent>>
    BY <2>1 DEF Die
  <2>4. \A t \in Servers : Held(t)' \subseteq Held(t)
    <3>1. /\ backlog'[s] = << >> /\ serving'[s] = NoConn
          /\ \A t \in Servers \ {s} : backlog'[t] = backlog[t] /\ serving'[t] = serving[t]
      BY <2>1 DEF Die, RuntimeInv, TypeOK
    <3>2. Range(<< >>) = {}
      BY DEF Range
    <3>3. QED
      BY <3>1, <3>2 DEF Held
  <2>5. QED
    BY <2>2, <2>3, <2>4 DEF Quiet, Waiting
<1>8. QED
  BY <1>1, <1>2, <1>3, <1>4, <1>5, <1>6, <1>7 DEF ServerStep

LEMMA ConnectEffect ==
    ASSUME RuntimeInv, NEW k \in Conns, NEW s \in Servers, NEW x \in Kinds, Connect(k, s, x)
    PROVE  /\ client[k] = "none" /\ client'[k] \in {"waiting", "refused"} /\ sent'[k] = x
           /\ \A j \in Conns \ {k} : client'[j] = client[j] /\ sent'[j] = sent[j]
           /\ UNCHANGED handled
           /\ Held(s)' \subseteq Held(s) \union {k}
           /\ \A t \in Servers \ {s} : Held(t)' = Held(t)
           /\ \A t \in Servers : k \notin Held(t)
<1>1. client[k] = "none" /\ UNCHANGED <<serving, handled>>
  BY DEF Connect
<1>2. sent'[k] = x /\ \A j \in Conns \ {k} : sent'[j] = sent[j]
  BY DEF Connect, RuntimeInv, TypeOK
<1>3. client' \in {[client EXCEPT ![k] = "waiting"], [client EXCEPT ![k] = "refused"]}
  BY DEF Connect
<1>4. client'[k] \in {"waiting", "refused"} /\ \A j \in Conns \ {k} : client'[j] = client[j]
  BY <1>3 DEF RuntimeInv, TypeOK
<1>5. backlog' \in {backlog, [backlog EXCEPT ![s] = Append(backlog[s], k)]}
  BY DEF Connect
<1>6. /\ backlog'[s] \in {backlog[s], Append(backlog[s], k)}
      /\ \A t \in Servers \ {s} : backlog'[t] = backlog[t]
  BY <1>5 DEF RuntimeInv, TypeOK
<1>7. Range(Append(backlog[s], k)) = Range(backlog[s]) \union {k}
  BY AppendRange DEF RuntimeInv, TypeOK
<1>8. Held(s)' \subseteq Held(s) \union {k} /\ \A t \in Servers \ {s} : Held(t)' = Held(t)
  BY <1>1, <1>6, <1>7 DEF Held
<1>9. QED
  BY <1>1, <1>2, <1>4, <1>8, NotYetHeld

(* What a member of an injective sequence is counted as. *)
LEMMA CountedOnce ==
    ASSUME NEW q, IsInjective(q), NEW k
    PROVE  Cardinality({i \in DOMAIN q : q[i] = k}) = (IF k \in Range(q) THEN 1 ELSE 0)
<1> DEFINE I == {i \in DOMAIN q : q[i] = k}
<1>1. CASE k \in Range(q)
  <2>1. PICK i \in DOMAIN q : q[i] = k
    BY <1>1 DEF Range
  <2>2. I = {i}
    BY <2>1 DEF IsInjective
  <2>3. QED
    BY <1>1, <2>2, FS_Singleton
<1>2. CASE k \notin Range(q)
  <2>1. I = {}
    BY <1>2 DEF Range
  <2>2. QED
    BY <1>2, <2>1, FS_EmptySet
<1>3. QED
  BY <1>1, <1>2

(***************************************************************************)
(* The server's data has its types, in every reachable state, for any       *)
(* number of containers and of clients.                                     *)
(***************************************************************************)
THEOREM RuntimeTypes == Spec => []TypeOK
<1>1. RuntimeInv => TypeOK
  BY DEF RuntimeInv
<1>2. QED
  BY <1>1, InitRuntime, StepRuntime, PTL DEF Spec

(***************************************************************************)
(* Whoever waits for an answer is queued at, or served by, exactly one live *)
(* server, once: accepting one connection at a time, hang-ups and crashes   *)
(* lose and double none.                                                    *)
(***************************************************************************)
THEOREM NoConnectionIsLost == Spec => []NoLostConnection
<1>1. RuntimeInv => NoLostConnection
  <2>1. SUFFICES ASSUME RuntimeInv, NEW k \in Conns, Waiting(k)
                 PROVE  \E s \in Servers :
                          /\ process[s] = "listening"
                          /\ k \in Held(s) /\ \A t \in Servers \ {s} : k \notin Held(t)
                          /\ Cardinality({i \in DOMAIN backlog[s] : backlog[s][i] = k})
                               = (IF serving[s] = k THEN 0 ELSE 1)
    BY DEF NoLostConnection
  <2>2. PICK s \in Servers : k \in Held(s)
    BY <2>1 DEF RuntimeInv, Informed
  <2>3. process[s] = "listening" /\ \A t \in Servers \ {s} : k \notin Held(t)
    BY <2>1, <2>2 DEF RuntimeInv, Serves, HeldOnce
  <2>4. IsInjective(backlog[s]) /\ (k \in Range(backlog[s]) <=> serving[s] # k)
    BY <2>1, <2>2 DEF RuntimeInv, HeldOnce, Held
  <2>5. Cardinality({i \in DOMAIN backlog[s] : backlog[s][i] = k}) = (IF serving[s] = k THEN 0 ELSE 1)
    BY <2>4, CountedOnce
  <2>6. QED
    BY <2>2, <2>3, <2>5
<1>2. QED
  BY <1>1, InitRuntime, StepRuntime, PTL DEF Spec

(***************************************************************************)
(* The end of a connection tells the truth about it, whatever the handler   *)
(* answers with: refused, the handler did not run; answered, it ran once    *)
(* for an invoke, never otherwise, and the answer is one to what was sent.  *)
(***************************************************************************)
THEOREM AnswersAreTruthful == Spec => []AnswerTruthful
<1>1. RuntimeInv => AnswerTruthful
  BY DEF RuntimeInv, Informed, AnswerTruthful, Told, Untouched, CalledFor
<1>2. QED
  BY <1>1, InitRuntime, StepRuntime, PTL DEF Spec
=============================================================================
