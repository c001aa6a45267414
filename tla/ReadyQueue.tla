----------------------------- MODULE ReadyQueue -----------------------------
(***************************************************************************)
(* The ready queue (scheduler/state/storage/ready/queue.hpp): a singly      *)
(* linked list over two arrays, with its free slots on a second list        *)
(* through the same next array.  Links are slot numbers from 1; 0 ends a    *)
(* list.                                                                   *)
(***************************************************************************)
EXTENDS Integers, Sequences, FiniteSets, SequencesExt

CONSTANTS
    Ids,       \* task ids
    Capacity,  \* task_capacity, given to configure
    Accepts    \* the predicates of take_first: sets of ids they accept

Slots == 1..Capacity

VARIABLES ids, next, head, tail, free, size,
          out   \* what the last operation returned, 0 for none

vars == <<ids, next, head, tail, free, size, out>>

-----------------------------------------------------------------------------
(* The list a chain of links spells.                                       *)

\* The n-th slot from a given first one.
Chain(first) ==
    LET at[n \in 0..Capacity] ==
          IF n = 0 THEN first
          ELSE IF at[n - 1] = 0 THEN 0 ELSE next[at[n - 1]]
    IN  at

ChainSlots(first) ==
    LET at == Chain(first)
        len == Cardinality({n \in 0..(Capacity - 1) : at[n] # 0})
    IN  [i \in 1..len |-> at[i - 1]]

Queue == LET slots == ChainSlots(head) IN [i \in DOMAIN slots |-> ids[slots[i]]]

-----------------------------------------------------------------------------
(* Slots.                                                                  *)

\* clear: every slot free, in order.
Cleared ==
    /\ head' = 0 /\ tail' = 0 /\ size' = 0
    /\ free' = 1
    /\ ids' = [s \in Slots |-> 0]
    /\ next' = [s \in Slots |-> IF s < Capacity THEN s + 1 ELSE 0]

\* claim: the first free slot takes an id, its link cut.
Claim(id) ==
    /\ free # 0
    /\ free' = next[free]
    /\ ids' = [ids EXCEPT ![free] = id]
    /\ size' = size + 1

Cut == [next EXCEPT ![free] = 0]

\* Slip: size_ is not counted down.
ReleaseUncounted(s, nx) ==
    /\ ids' = [ids EXCEPT ![s] = 0]
    /\ next' = [nx EXCEPT ![s] = free]
    /\ free' = s
    /\ size' = size

\* release: the slot goes to the front of the free list, over next array nx.
Release(s, nx) ==
    /\ ids' = [ids EXCEPT ![s] = 0]
    /\ next' = [nx EXCEPT ![s] = free]
    /\ free' = s
    /\ size' = size - 1

-----------------------------------------------------------------------------
(* Operations.                                                             *)

\* Slip: taking the last element leaves the tail on the freed slot.
UnlinkKeepsTail(previous, s) ==
    LET nx == IF previous = 0 THEN next
              ELSE [next EXCEPT ![previous] = next[s]]
    IN  /\ head' = IF previous = 0 THEN next[s] ELSE head
        /\ tail' = tail
        /\ Release(s, nx)

PushBack(id) ==
    /\ Claim(id)
    /\ head' = IF tail = 0 THEN free ELSE head
    /\ next' = IF tail = 0 THEN Cut ELSE [Cut EXCEPT ![tail] = free]
    /\ tail' = free
    /\ out' = 0

PushFront(id) ==
    /\ Claim(id)
    /\ next' = [next EXCEPT ![free] = head]
    /\ head' = free
    /\ tail' = IF tail = 0 THEN free ELSE tail
    /\ out' = 0

PopFront ==
    /\ head # 0
    /\ out' = ids[head]
    /\ head' = next[head]
    /\ tail' = IF next[head] = 0 THEN 0 ELSE tail
    /\ Release(head, next)

Unlink(previous, s) ==
    LET nx == IF previous = 0 THEN next
              ELSE [next EXCEPT ![previous] = next[s]]
    IN  /\ head' = IF previous = 0 THEN next[s] ELSE head
        /\ tail' = IF tail = s THEN previous ELSE tail
        /\ Release(s, nx)

\* take_first: the first element in the set the predicate accepts.
TakeFirst(accepted) ==
    LET at == Chain(head)
        hits == {n \in 0..(Capacity - 1) : at[n] # 0 /\ ids[at[n]] \in accepted}
    IN  \E n \in hits :
          /\ \A m \in hits : n <= m
          /\ out' = ids[at[n]]
          /\ Unlink(IF n = 0 THEN 0 ELSE at[n - 1], at[n])

Clear == Cleared /\ out' = 0

Init ==
    /\ ids = [s \in Slots |-> 0]
    /\ next = [s \in Slots |-> IF s < Capacity THEN s + 1 ELSE 0]
    /\ head = 0 /\ tail = 0 /\ free = 1 /\ size = 0 /\ out = 0

-----------------------------------------------------------------------------

\* The type invariant: links are slots or 0, entries are task ids or 0.
TypeOK ==
    /\ ids \in [Slots -> Ids \cup {0}]
    /\ next \in [Slots -> 0..Capacity]
    /\ {head, tail, free, size} \subseteq 0..Capacity
    /\ out \in Ids \cup {0}

\* The linked list implements the bounded sequence: every operation takes the
\* sequence the links spell to the one ReadyFifo says, and returns its element.
Fifo == INSTANCE ReadyFifo WITH queue <- Queue

ImplementsFifo == Fifo!Spec
=============================================================================
