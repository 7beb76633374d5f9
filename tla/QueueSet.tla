------------------------------ MODULE QueueSet ------------------------------
(***************************************************************************)
(* The QueueSet of lambda-gateway/src/data_structure/queue_set.rs: a FIFO   *)
(* queue (VecDeque) that refuses duplicates by keeping its members a second *)
(* time in a HashSet.  The two fields are separate state, and everything    *)
(* the port manager relies on rests on their never drifting apart.  The     *)
(* operations the program calls are here; PortManager composes them.        *)
(***************************************************************************)
EXTENDS Sequences

VARIABLES queue,        \* VecDeque<T>
          set           \* HashSet<T>

(***************************************************************************)
(* push_back: HashSet::insert answers whether the value was new, and only   *)
(* then is it appended to the queue.                                        *)
(***************************************************************************)
PushBack(v) ==
    /\ set' = set \union {v}
    /\ queue' = IF v \in set THEN queue ELSE Append(queue, v)

(* pop_front of a queue that is not empty (an empty one answers None). *)
PopFront ==
    /\ queue # << >>
    /\ queue' = Tail(queue)
    /\ set' = set \ {Head(queue)}
=============================================================================
