--------------------------- MODULE MCPortManager ---------------------------
(***************************************************************************)
(* PortManager with the history its rotation claim is about.                *)
(***************************************************************************)
EXTENDS PortManager

VARIABLE ahead      \* ahead[p]: the ports that were available when p came
                    \* back and have not been handed out since

MCInit == Init /\ ahead = [p \in Ports |-> {}]

Remember ==
    ahead' = [p \in Ports |-> IF p \in set' \ set THEN set ELSE ahead[p] \intersect set']

(* The background task is a spawned tokio task that is never aborted: it is fair. *)
MCSpec ==
    /\ MCInit
    /\ [][Next /\ Remember]_<<vars, ahead>>
    /\ WF_<<vars, ahead>>(ProcessPortReturns /\ Remember)

(***************************************************************************)
(* port_manager.rs, "By the time we cycle through all other ports, Docker   *)
(* should have freed this one": a returned port is handed out again only    *)
(* after every port that was available when it came back.                   *)
(***************************************************************************)
RotationGrace == [][\A p \in allocated' \ allocated : ahead[p] = {}]_<<vars, ahead>>
=============================================================================
