----------------------------- MODULE TaskStorage -----------------------------
(***************************************************************************)
(* What a spawn takes and a retirement gives back: a record slot and its    *)
(* entry in the task index, a place in the ready queue and, for a coroutine *)
(* whose result is observed, a completion cell.  The steps are those of the *)
(* scheduler on one task; the lane that ran a task to its end releases the  *)
(* cell after it gave up its turn, and result handles are used by other     *)
(* threads throughout.                                                      *)
(***************************************************************************)
EXTENDS Integers, Sequences, FiniteSets, SequencesExt

CONSTANTS
    TaskCapacity,   \* task_capacity
    ReadyCapacity,  \* ready_queue_capacity: the bound on independent spawns
    Lanes,          \* quanta that run at once
    Workloads,      \* bounds: pairs of plain and of observed spawns to come
    Gaps,           \* ids a dropped range leaves out before a spawn
    MaxId,          \* bound: the largest task id issued
    Accepts,        \* the scopes a scoped pick looks for, as sets of ids
    MaxGeneration, Holders

ASSUME StorageAssumption ==
    /\ {TaskCapacity, ReadyCapacity, Lanes} \subseteq Nat \ {0}
    /\ Workloads \subseteq Nat \X Nat
    /\ Gaps \subseteq Nat
    /\ {MaxId, MaxGeneration} \subseteq Nat \ {0}

VARIABLES
    recordId, freeSlots, table, nextId,         \* TaskIndex
    ids, next, head, tail, free, size, out,     \* ReadyQueue
    cells, freeCells, refs, handle,             \* CompletionPool
    task,    \* the rest of TaskRecord: state, quantum, completion
    frames,  \* leases in lane frames, to be released after the quantum
    open,    \* the scheduler has not been reset
    left     \* spawns still to come, plain and observed

Idx == INSTANCE TaskIndex
Ready == INSTANCE ReadyQueue WITH Ids <- 1..MaxId, Capacity <- TaskCapacity
Done == INSTANCE CompletionPool WITH CellCapacity <- TaskCapacity

index == <<recordId, freeSlots, table, nextId>>
queue == <<ids, next, head, tail, free, size, out>>
pool == <<cells, freeCells, refs>>
vars == <<index, queue, pool, handle, task, frames, open, left>>

Slots == 1..TaskCapacity
Steps == {"rest", "body", "prepared", "published"}

\* A record off its lane: its state, where its quantum is, its completion.
Task(state, step, lease) == [state |-> state, step |-> step, lease |-> lease]
NoTask == Task("none", "rest", Done!NoLease)

Queued == {ids[s] : s \in Slots} \ {0}

\* A task taken off the ready queue and not yet on its lane.
Picked(s) ==
    task[s].state = "Ready" /\ task[s].step = "rest" /\ recordId[s] \notin Queued

Init ==
    /\ Idx!Init /\ Ready!Init /\ Done!Init
    /\ task = [s \in Slots |-> NoTask]
    /\ frames = {}
    /\ open = TRUE
    /\ left \in Workloads

-----------------------------------------------------------------------------
(* Admission.                                                              *)

\* ValidateSpawnBudget: a continuation is not held to the backlog's bound.
Admits(continuation) ==
    /\ open
    /\ freeSlots # <<>>
    /\ continuation \/ size < ReadyCapacity

\* SpawnPreparedCommitted: record, index entry, place in the queue.
Spawn ==
    /\ Admits(FALSE)
    /\ left[1] > 0 /\ left' = [left EXCEPT ![1] = @ - 1]
    /\ \E gap \in Gaps :
         /\ Idx!Spawn(nextId + gap)
         /\ Ready!PushBack(nextId + gap)
         /\ task' = [task EXCEPT ![Head(freeSlots)] =
                       Task("Ready", "rest", Done!NoLease)]
    /\ UNCHANGED <<pool, handle, frames, open>>

\* The same for a coroutine that is awaited or submitted: it also claims a
\* completion cell, and without one the record slot goes back where it was.
SpawnObserved ==
    \E h \in Holders, continuation \in BOOLEAN :
        /\ Admits(continuation)
        /\ left[2] > 0 /\ left' = [left EXCEPT ![2] = @ - 1]
        /\ handle[h] = Done!NoHandle
        /\ freeCells # <<>>
        /\ LET c == Head(freeCells)
               lease == [cell |-> c, gen |-> cells[c].gen]
               p == Done!Claimed(Done!Pool)
           IN  /\ cells' = p.cells /\ freeCells' = p.free /\ refs' = p.refs
               /\ handle' = [handle EXCEPT ![h].lease = lease]
               /\ task' = [task EXCEPT ![Head(freeSlots)] =
                             Task("Ready", "rest", lease)]
        /\ Idx!Spawn(nextId)
        /\ Ready!PushBack(nextId)
        /\ UNCHANGED <<frames, open>>

-----------------------------------------------------------------------------
(* Quanta.                                                                 *)

\* PopReady, over the whole queue or for a scope.
Pick ==
    /\ Ready!PopFront \/ \E accepted \in Accepts : Ready!TakeFirst(accepted)
    /\ UNCHANGED <<index, pool, handle, task, frames, open, left>>

\* RestoreReadyFront and RequeueReadyTask: the lane was not to be had.
Restore(s) ==
    /\ Picked(s)
    /\ Ready!PushFront(recordId[s])
    /\ UNCHANGED <<index, pool, handle, task, frames, open, left>>

\* ResumeCoroutine up to the body: a parked completion is made Ready first.
Resume(s) ==
    LET lease == task[s].lease
        readied == IF cells[lease.cell].phase = "Parked"
                   THEN Done!Transition(cells, lease, "Ready") ELSE cells
    IN  /\ Picked(s)
        /\ Cardinality({l \in Slots : task[l].step # "rest"}) < Lanes
        /\ task' = [task EXCEPT ![s].state = "Running", ![s].step = "body"]
        /\ cells' = IF lease = Done!NoLease THEN cells
                    ELSE Done!Transition(readied, lease, "Running")
        /\ UNCHANGED <<index, queue, freeCells, refs, handle, frames, open, left>>

InBody(s) == task[s].state = "Running" /\ task[s].step = "body"

\* The coroutine suspends: it yields, or parks on a wait.
Suspend(s) ==
    /\ InBody(s)
    /\ \E state \in {"Ready", "Blocked"} :
         /\ task' = [task EXCEPT ![s].state = state, ![s].step = "rest"]
         /\ IF state = "Ready" THEN Ready!PushBack(recordId[s])
            ELSE UNCHANGED queue
    /\ cells' = Done!Transition(cells, task[s].lease, "Parked")
    /\ UNCHANGED <<index, freeCells, refs, handle, frames, open, left>>

\* A timer, channel, reactor or join ends the wait.
Wake(s) ==
    /\ task[s].state = "Blocked"
    /\ task' = [task EXCEPT ![s].state = "Ready"]
    /\ Ready!PushBack(recordId[s])
    /\ UNCHANGED <<index, pool, handle, frames, open, left>>

\* A task without a completion ends, well or not.
Finish(s) ==
    /\ InBody(s)
    /\ task[s].lease = Done!NoLease
    /\ task' = [task EXCEPT ![s].state = "Completed", ![s].step = "rest"]
    /\ UNCHANGED <<index, queue, pool, handle, frames, open, left>>

\* The coroutine is done: its result or its reason code is prepared.
Commit(s) ==
    LET committing == Done!Transition(cells, task[s].lease, "Committing")
    IN  /\ InBody(s)
        /\ task[s].lease # Done!NoLease
        /\ \/ /\ task' = [task EXCEPT ![s].state = "Completed",
                                      ![s].step = "prepared"]
              /\ cells' = Done!Prepare(committing, task[s].lease, recordId[s])
           \/ /\ task' = [task EXCEPT ![s].state = "Failed",
                                      ![s].step = "prepared"]
              /\ cells' = Done!Prepare(committing, task[s].lease, Done!Failure)
        /\ UNCHANGED <<index, queue, freeCells, refs, handle, frames, open, left>>

\* The task is failed from inside its body, by FailCurrentTaskOrScheduler or
\* because it suspended on something that is not a scheduler wait: its quantum
\* ends without a prepared outcome.
FailBody(s) ==
    /\ InBody(s)
    /\ task[s].lease # Done!NoLease
    /\ task' = [task EXCEPT ![s].state = "Failed", ![s].step = "prepared"]
    /\ UNCHANGED <<index, queue, pool, handle, frames, open, left>>

\* RunCoroutineQuantum: the outcome is published; when that is refused the
\* task fails.
Publish(s) ==
    LET lease == task[s].lease
    IN  /\ task[s].step = "prepared"
        /\ cells' = Done!Published(cells, lease)
        /\ task' = [task EXCEPT
             ![s].step = "published",
             ![s].state = IF Done!Publishable(cells, lease) THEN @
                          ELSE "Failed"]
        /\ UNCHANGED <<index, queue, freeCells, refs, handle, frames, open, left>>

\* The waiters are notified, the record lets go of its completion, and the lane
\* keeps the lease in its frame.
EndQuantum(s) ==
    LET lease == task[s].lease
    IN  /\ task[s].step = "published"
        /\ handle' = Done!Notified(handle, cells, lease)
        /\ task' = [task EXCEPT ![s].step = "rest", ![s].lease = Done!NoLease]
        /\ frames' = frames \cup {lease}
        /\ UNCHANGED <<index, queue, pool, open, left>>

\* PublishRegularJob: the lane is idle again and releases the completion.
ReleaseFrame ==
    \E lease \in frames :
        LET p == Done!ReleaseProducer(Done!Pool, lease)
        IN  /\ cells' = p.cells /\ freeCells' = p.free /\ refs' = p.refs
            /\ frames' = frames \ {lease}
            /\ UNCHANGED <<index, queue, handle, task, open, left>>

-----------------------------------------------------------------------------
(* Retirement, reset and observers.                                        *)

Ended(s) == task[s].state \in {"Completed", "Failed"} /\ task[s].step = "rest"

\* RetireTaskRecord: a terminal task that was joined or awaited.
Retire(s) ==
    /\ Ended(s)
    /\ Idx!Retire(s)
    /\ task' = [task EXCEPT ![s] = NoTask]
    /\ UNCHANGED <<queue, pool, handle, frames, open, left>>

\* The completion pool after DestroyTask of the first n records, for each n.
Destroyed ==
    LET after[n \in 0..TaskCapacity] ==
          IF n = 0 THEN Done!Pool
          ELSE Done!Destroy(after[n - 1], task[n].lease)
    IN  after

\* Reset, with the lanes stopped: every record that still has a completion
\* terminates and releases it (DestroyTask), in the order of the slots, which
\* ends the sleep of its observer, and the pool drops its reference.
Reset ==
    LET p == Destroyed[TaskCapacity]
        notified(h) == \E s \in Slots :
          task[s].lease # Done!NoLease
            /\ handle[h].lease.cell = task[s].lease.cell
    IN  /\ open
        /\ frames = {} /\ \A s \in Slots : task[s].step = "rest"
        /\ open' = FALSE
        /\ Idx!Clear /\ Ready!Clear
        /\ task' = [s \in Slots |-> NoTask]
        /\ cells' = p.cells /\ freeCells' = p.free /\ refs' = p.refs - 1
        /\ handle' = [h \in Holders |->
                        IF notified(h) THEN [handle[h] EXCEPT !.asleep = FALSE]
                        ELSE handle[h]]
        /\ UNCHANGED <<frames, left>>

\* wait and the end of a result handle, on any thread.
ObserverWaits ==
    /\ \E h \in Holders : Done!Sleeps(h)
    /\ UNCHANGED <<index, queue, task, frames, open, left>>

ObserverLeaves ==
    /\ \E h \in Holders : Done!DropHandle(h)
    /\ UNCHANGED <<index, queue, task, frames, open, left>>

Next ==
    \/ Spawn \/ SpawnObserved
    \/ Pick
    \/ \E s \in Slots :
         \/ Restore(s) \/ Resume(s) \/ Suspend(s) \/ Wake(s)
         \/ Finish(s) \/ Commit(s) \/ FailBody(s) \/ Publish(s)
         \/ EndQuantum(s) \/ Retire(s)
    \/ ReleaseFrame
    \/ Reset
    \/ ObserverWaits \/ ObserverLeaves

Spec == Init /\ [][Next]_vars

-----------------------------------------------------------------------------

\* The type invariant of the three stores and of the records between them.
TypeOK ==
    /\ Idx!TypeOK /\ Ready!TypeOK /\ Done!TypeOK
    /\ \A s \in Slots : task[s].step \in Steps

\* Find returns the record of every live task and none for any other id, in
\* particular not the record of a later task in a retired one's slot, and each
\* search ends at an empty place.  PopReady relies on it: every queued id is
\* the id of exactly one record, which is Ready.
LookupExact ==
    /\ Idx!LookupExact
    /\ Idx!EmptyPlaceLeft
    /\ \A id \in Queued :
         LET s == Idx!IndexFor(table, recordId, id)
         IN  s # Idx!NoSlot /\ task[s].state = "Ready" /\ task[s].step = "rest"

\* A task that is in no ready queue still finds a free slot in it, although the
\* queue is no larger than the set of records.
RoomLeft ==
    \A s \in Slots : task[s] # NoTask /\ recordId[s] \notin Queued => free # 0

\* The linked list implements the bounded sequence of ReadyFifo, through the
\* pushes and picks of spawns, yields, wakes, restores and resets; a task that
\* is not in it always finds room, so EnqueueProgress and RestoreReadyFront do
\* not abort.
ImplementsFifo == Ready!ImplementsFifo /\ []RoomLeft

\* A result handle reads its own task's outcome: its cell is not recycled under
\* it although the producer and the observer let go in either order, the
\* outcome is the one its task prepared, and its owner sleeps only while its
\* task still has the cell, up to the notification that follows the publish.
\* The exception is a quantum that ended without an outcome (FailBody): it
\* leaves the cell Running, and the owner asleep, for good.
ResultExact ==
    /\ Done!HandleCurrent
    /\ Done!FreeUnowned
    /\ \A s \in Slots : task[s].lease # Done!NoLease =>
         /\ Done!Current(cells, task[s].lease)
         /\ cells[task[s].lease.cell].outcome
              \in {Done!Pending, Done!Failure, recordId[s]}
    /\ \A h \in Holders : handle[h].asleep =>
         LET cell == cells[handle[h].lease.cell]
         IN  \/ \E s \in Slots :
                  /\ task[s].lease = handle[h].lease
                  /\ Done!Terminal(cell.phase) => task[s].step = "published"
             \/ cell.phase = "Running" /\ cell.outcome = Done!Pending

\* A claimed cell belongs to a task that has not given it up, to the lane that
\* ran it, or to a result handle: cells are bounded by the tasks and handles
\* that exist at once, and not by the submissions of the whole run.
CellsReused ==
    \A c \in Slots : cells[c].phase # "Idle" =>
        \/ \E s \in Slots : task[s].lease.cell = c
        \/ \E lease \in frames : lease.cell = c
        \/ \E h \in Holders : handle[h].lease.cell = c
=============================================================================
