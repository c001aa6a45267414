----------------------------- MODULE ReadyFifo -----------------------------
(***************************************************************************)
(* What the ready queue promises: a bounded sequence of task ids with       *)
(* pushes at both ends, a pop at the front, and the removal of the first    *)
(* element a caller's predicate accepts.  A predicate is the set of ids it  *)
(* accepts.                                                                 *)
(***************************************************************************)
EXTENDS Integers, Sequences, SequencesExt

CONSTANTS Ids, Capacity, Accepts

VARIABLES
    queue,
    out     \* the id the last operation returned, 0 for none

vars == <<queue, out>>

Init == queue = <<>> /\ out = 0

PushBack(id) == Len(queue) < Capacity /\ queue' = Append(queue, id) /\ out' = 0

PushFront(id) ==
    Len(queue) < Capacity /\ queue' = <<id>> \o queue /\ out' = 0

PopFront == queue # <<>> /\ out' = Head(queue) /\ queue' = Tail(queue)

TakeFirst(accepted) ==
    \E i \in DOMAIN queue :
        /\ queue[i] \in accepted
        /\ \A j \in 1..(i - 1) : queue[j] \notin accepted
        /\ out' = queue[i]
        /\ queue' = RemoveAt(queue, i)

Clear == queue' = <<>> /\ out' = 0

Next ==
    \/ \E id \in Ids : PushBack(id) \/ PushFront(id)
    \/ PopFront
    \/ \E accepted \in Accepts : TakeFirst(accepted)
    \/ Clear

Spec == Init /\ [][Next]_vars
=============================================================================
