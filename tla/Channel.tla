------------------------------ MODULE Channel ------------------------------
(***************************************************************************)
(* One channel<T> (node/include/rund/task/channel) and the scheduler side  *)
(* of its waits (node/src/runtime/task/scheduler/channel, and              *)
(* WakeDeadlockedTasks in progress/ready/wait.cpp).                        *)
(*                                                                         *)
(* A coroutine holds the commit turn for the whole of send_impl, recv_impl *)
(* or close, so each is one action; what interleaves is the order in which *)
(* tasks are resumed, the wakes of other tasks between a park and its      *)
(* resume, the deadlock wake, and the retirement of a task record, whose   *)
(* slot, the index of all per-task state of the channel, goes to a later   *)
(* task.  The ring buffer is a sequence.                                   *)
(***************************************************************************)
EXTENDS Integers, Sequences, FiniteSets, SequencesExt, Subsequence

CONSTANTS
    MaxTask,        \* bound: task ids ever issued
    TaskCapacity,   \* task_capacity: record slots
    Limits,         \* the pairs of buffer slots (0 for rendezvous) and
                    \* channel_wait_capacity to consider
    MaxOps          \* bound: operations the tasks start, all together

ASSUME ChannelAssumption ==
    /\ MaxTask \in Nat /\ TaskCapacity \in Nat /\ MaxOps \in Nat
    /\ Limits \subseteq Nat \X Nat

Tasks == 1..MaxTask
Slots == 1..TaskCapacity
NoSlot == 0
NoValue == 0

VARIABLES
    \* The scheduler's view of the tasks.
    slotOf,      \* slot of a task's record, NoSlot before spawn, after retire
    freeSlots,   \* the record free list, last freed first
    state,       \* TaskRecord::state
    waitId,      \* TaskRecord::wait_id
    waitResult,  \* TaskRecord::wait_result
    onChannel,   \* TaskRecord::wait_source_id is this channel
    op,          \* the await the task's coroutine is suspended in
    ready,       \* the ready queue
    cur,         \* the task whose quantum runs, 0 for the root
    nextTask, nextWait,
    liveWaits,   \* live_channel_waits
    \* The channel's control block.
    capacity,       \* fixed when the channel is made
    waitCapacity,   \* channel_wait_capacity of the scheduler
    buffer, closed, released, owned,
    sendq, recvq,   \* the two intrusive waiter queues
    sendValue,      \* send_value_by_task
    rendezvous,     \* rendezvous_by_receiver
    completed,      \* completed_send_by_task
    counted,        \* counted_wake_count
    inFlight,       \* in_flight_wakes (always equal to counted_wake_entries)
    \* History.
    used,        \* operations started
    nextValue,   \* values are numbered in the order send was called
    admitted,    \* values the channel took and did not give back, in order
    matched,     \* values handed to receivers, in matching order
    received,    \* values recv returned
    outcome,     \* result of each task's latest operation
    stale        \* some wait ended by the deadlock wake alone was resumed

tasks == <<slotOf, freeSlots, state, waitId, waitResult, onChannel, op,
           ready, cur, nextTask, nextWait, liveWaits>>
waits == <<sendq, recvq, sendValue, rendezvous, completed, counted, inFlight>>
history == <<used, nextValue, admitted, matched, received, outcome, stale>>
owner == <<owned, capacity, waitCapacity>>
vars == <<tasks, buffer, closed, released, owner, waits, history>>

-----------------------------------------------------------------------------
(* The waiter queues: linked by task id, indexed by record slot.           *)

EmptyQueue ==
    [head |-> 0, tail |-> 0, next |-> [s \in Slots |-> 0], on |-> {},
     count |-> 0]

\* TaskSlot: the record slot of a task, if it still has one.
TaskSlot(t) == IF t \in Tasks THEN slotOf[t] ELSE NoSlot

\* PushSendWaiter, PushRecvWaiter: a slot that is marked already is not linked
\* again; a tail whose record is gone cannot be linked to.
PushWaiter(q, t) ==
    LET s == TaskSlot(t)
        fresh == [q.next EXCEPT ![s] = 0]
    IN  IF s \in q.on THEN q
        ELSE [head |-> IF q.tail = 0 THEN t ELSE q.head,
              tail |-> t,
              next |-> IF TaskSlot(q.tail) = NoSlot THEN fresh
                       ELSE [fresh EXCEPT ![TaskSlot(q.tail)] = t],
              on |-> q.on \cup {s},
              count |-> q.count + 1]

\* PopSendWaiter, PopRecvWaiter: no result if the front's record is gone.  (A
\* front that has a record is always marked, so none is skipped.)
CanPop(q) == q.head # 0 /\ TaskSlot(q.head) # NoSlot

PopWaiter(q) ==
    LET s == TaskSlot(q.head)
        following == q.next[s]
    IN  [head |-> following,
         tail |-> IF following = 0 THEN 0 ELSE q.tail,
         next |-> [q.next EXCEPT ![s] = 0],
         on |-> q.on \ {s},
         count |-> q.count - 1]

\* The tasks a walk from the head meets, as UnlinkSendWaiter walks.
Walk(q) ==
    LET at[n \in 0..TaskCapacity] ==
          IF n = 0 THEN q.head
          ELSE IF TaskSlot(at[n - 1]) = NoSlot THEN 0
          ELSE q.next[TaskSlot(at[n - 1])]
    IN  at

\* The places where a walk that stops in time meets a task.
Places(q, t) == {n \in 0..(TaskCapacity - 1) : Walk(q)[n] = t}

\* RemoveSendWaiter, RemoveRecvWaiter: unmark, and unlink where found.
RemoveWaiter(q, t) ==
    LET s == TaskSlot(t)
        n == Min(Places(q, t))
        previous == IF n = 0 THEN 0 ELSE Walk(q)[n - 1]
    IN  IF s \notin q.on THEN q
        ELSE IF Places(q, t) = {}
        THEN [head |-> q.head, tail |-> q.tail, next |-> [q.next EXCEPT ![s] = 0],
              on |-> q.on \ {s}, count |-> q.count - 1]
        ELSE [head |-> IF n = 0 THEN q.next[s] ELSE q.head,
              tail |-> IF q.tail = t THEN previous ELSE q.tail,
              next |-> [x \in Slots |->
                          IF x = s THEN 0
                          ELSE IF n > 0 /\ x = TaskSlot(previous)
                          THEN q.next[s] ELSE q.next[x]],
              on |-> q.on \ {s}, count |-> q.count - 1]

-----------------------------------------------------------------------------
(* The scheduler's side.                                                   *)

SetOf(f, ts, v) == [t \in Tasks |-> IF t \in ts THEN v ELSE f[t]]

\* The tasks of a set that are sorted up to and including t, by wait_id and
\* then by id.
UpTo(ts, t) ==
    {u \in ts : waitId[u] < waitId[t] \/ (waitId[u] = waitId[t] /\ u <= t)}

\* The tasks of a set in wait_id order (WakeDeadlockedTasks and
\* WakeChannelWaiters sort by wait_id, then id).
ByWait(ts) ==
    [n \in 1..Cardinality(ts) |->
       CHOOSE t \in ts : Cardinality(UpTo(ts, t)) = n]

\* WakeChannel for each task of a sequence: a blocked one is made ready, a
\* pending deadlock result is superseded, anything else is left alone.
WakeChannel(ts) ==
    LET blocked == {t \in ToSet(ts) : state[t] = "ChannelBlocked"}
        pending == {t \in ToSet(ts) : /\ state[t] = "Ready" /\ onChannel[t]
                                      /\ waitResult[t] = "TaskDeadlock"}
    IN  /\ state' = SetOf(state, blocked, "Ready")
        /\ waitResult' = SetOf(waitResult, blocked \cup pending, "Ok")
        /\ ready' = ready \o Keep(ts, blocked)
        /\ liveWaits' = liveWaits - Cardinality(blocked)

NoWake == UNCHANGED <<state, waitResult, ready, liveWaits>>

Init ==
    /\ slotOf = [t \in Tasks |-> NoSlot] /\ freeSlots = <<>>
    /\ state = [t \in Tasks |-> "None"]
    /\ waitId = [t \in Tasks |-> 0]
    /\ waitResult = [t \in Tasks |-> "Ok"]
    /\ onChannel = [t \in Tasks |-> FALSE]
    /\ op = [t \in Tasks |-> "none"]
    /\ ready = <<>> /\ cur = 0 /\ nextTask = 1 /\ nextWait = 1
    /\ liveWaits = 0
    /\ \E limit \in Limits : capacity = limit[1] /\ waitCapacity = limit[2]
    /\ owned = TRUE
    /\ buffer = <<>> /\ closed = FALSE /\ released = FALSE
    /\ sendq = EmptyQueue /\ recvq = EmptyQueue
    /\ sendValue = [s \in Slots |-> NoValue]
    /\ rendezvous = [s \in Slots |-> NoValue]
    /\ completed = [s \in Slots |-> FALSE]
    /\ counted = [s \in Slots |-> 0] /\ inFlight = 0
    /\ used = 0 /\ nextValue = 1
    /\ admitted = <<>> /\ matched = <<>> /\ received = {}
    /\ outcome = [t \in Tasks |-> "none"] /\ stale = FALSE

-----------------------------------------------------------------------------
(* Task life, as far as the channel can tell.                              *)

Live == {t \in Tasks : slotOf[t] # NoSlot}

\* ClaimSpawnTaskSlot: the slot freed last, or else a new record.
ClaimSpawnTaskSlot ==
    IF freeSlots # <<>> THEN Head(freeSlots) ELSE Cardinality(Live) + 1

\* A task is admitted while a record slot is left.
Spawn ==
    /\ nextTask <= MaxTask /\ Cardinality(Live) < TaskCapacity
    /\ slotOf' = [slotOf EXCEPT ![nextTask] = ClaimSpawnTaskSlot]
    /\ freeSlots' = IF freeSlots # <<>> THEN Tail(freeSlots) ELSE <<>>
    /\ state' = [state EXCEPT ![nextTask] = "Ready"]
    /\ ready' = Append(ready, nextTask)
    /\ nextTask' = nextTask + 1
    /\ UNCHANGED <<waitId, waitResult, onChannel, op, cur, nextWait, liveWaits,
                   buffer, closed, released, owner, waits, history>>

\* The root runs the front of the ready queue.
Dispatch ==
    /\ cur = 0 /\ ready # <<>>
    /\ cur' = Head(ready) /\ ready' = Tail(ready)
    /\ state' = [state EXCEPT ![Head(ready)] = "Running"]
    /\ UNCHANGED <<slotOf, freeSlots, waitId, waitResult, onChannel, op,
                   nextTask, nextWait, liveWaits, buffer, closed, released,
                   owner, waits, history>>

\* A task that is not inside an await and may go on.
Free(t) == cur = t /\ state[t] = "Running" /\ op[t] = "none"

Yield(t) ==
    /\ Free(t) /\ used < MaxOps
    /\ used' = used + 1
    /\ state' = [state EXCEPT ![t] = "Ready"]
    /\ ready' = Append(ready, t) /\ cur' = 0
    /\ UNCHANGED <<slotOf, freeSlots, waitId, waitResult, onChannel, op,
                   nextTask, nextWait, liveWaits, buffer, closed, released,
                   owner, waits, nextValue, admitted, matched, received,
                   outcome, stale>>

\* The coroutine returns; DestroyTask resets the record's wait fields.
Finish(t) ==
    /\ Free(t)
    /\ state' = [state EXCEPT ![t] = "Completed"] /\ cur' = 0
    /\ waitId' = [waitId EXCEPT ![t] = 0]
    /\ waitResult' = [waitResult EXCEPT ![t] = "Ok"]
    /\ onChannel' = [onChannel EXCEPT ![t] = FALSE]
    /\ UNCHANGED <<slotOf, freeSlots, op, ready, nextTask, nextWait, liveWaits,
                   buffer, closed, released, owner, waits, history>>

\* A join observed the result: RetireTaskRecord frees the slot.
Retire(t) ==
    /\ state[t] = "Completed"
    /\ state' = [state EXCEPT ![t] = "Retired"]
    /\ slotOf' = [slotOf EXCEPT ![t] = NoSlot]
    /\ freeSlots' = <<slotOf[t]>> \o freeSlots
    /\ UNCHANGED <<waitId, waitResult, onChannel, op, ready, cur, nextTask,
                   nextWait, liveWaits, buffer, closed, released, owner, waits,
                   history>>

\* Slip: the victims are marked ready and never enqueued.
WakeDeadlockedTasksUnqueued ==
    LET victims == {t \in Tasks : state[t] = "ChannelBlocked"}
    IN  /\ cur = 0 /\ ready = <<>> /\ victims # {}
        /\ waitResult' = SetOf(waitResult, victims, "TaskDeadlock")
        /\ state' = SetOf(state, victims, "Ready")
        /\ liveWaits' = liveWaits - Cardinality(victims)
        /\ UNCHANGED <<slotOf, freeSlots, waitId, onChannel, op, ready, cur,
                       nextTask, nextWait, buffer, closed, released, owner,
                       waits, history>>

\* WakeDeadlockedTasks: nothing is ready, so every channel wait is ended.
WakeDeadlockedTasks ==
    LET victims == {t \in Tasks : state[t] = "ChannelBlocked"}
    IN  /\ cur = 0 /\ ready = <<>> /\ victims # {}
        /\ waitResult' = SetOf(waitResult, victims, "TaskDeadlock")
        /\ state' = SetOf(state, victims, "Ready")
        /\ liveWaits' = liveWaits - Cardinality(victims)
        /\ ready' = ByWait(victims)
        /\ UNCHANGED <<slotOf, freeSlots, waitId, onChannel, op, cur, nextTask,
                       nextWait, buffer, closed, released, owner, waits,
                       history>>

-----------------------------------------------------------------------------
(* The channel operations.                                                 *)

\* Slip: wakes that were given and not yet resumed do not hold the record.
TryReleaseIgnoringWakes ==
    released' = \/ released
                \/ /\ closed' /\ buffer' = <<>>
                   /\ sendq'.count = 0 /\ recvq'.count = 0
                   /\ \A s \in Slots :
                        rendezvous'[s] = NoValue /\ ~completed'[s]

\* TryReleaseSchedulerRecord, on the state the operation leaves.
TryReleaseSchedulerRecord ==
    released' = \/ released
                \/ /\ closed' /\ buffer' = <<>> /\ inFlight' = 0
                   /\ sendq'.count = 0 /\ recvq'.count = 0
                   /\ \A s \in Slots :
                        rendezvous'[s] = NoValue /\ ~completed'[s]

\* AddCountedWake for a set of tasks whose records exist.
AddCountedWake(ts) ==
    /\ counted' = [s \in Slots |->
                     IF \E t \in ts : TaskSlot(t) = s THEN counted[s] + 1
                     ELSE counted[s]]
    /\ inFlight' = inFlight + Cardinality(ts)

\* CompleteCountedWake, when a woken task resumes.
CompleteCountedWake(t) ==
    LET s == TaskSlot(t)
        some == counted[s] > 0
    IN  /\ counted' = [counted EXCEPT ![s] = IF some THEN @ - 1 ELSE @]
        /\ inFlight' = IF some THEN inFlight - 1 ELSE inFlight

\* ParkChannel, succeeding.
Park(t, kind) ==
    /\ state' = [state EXCEPT ![t] = "ChannelBlocked"]
    /\ waitId' = [waitId EXCEPT ![t] = nextWait] /\ nextWait' = nextWait + 1
    /\ waitResult' = [waitResult EXCEPT ![t] = "Ok"]
    /\ onChannel' = [onChannel EXCEPT ![t] = TRUE]
    /\ op' = [op EXCEPT ![t] = kind]
    /\ liveWaits' = liveWaits + 1
    /\ cur' = 0
    /\ UNCHANGED <<slotOf, freeSlots, ready, nextTask>>

\* An operation that starts: counted, and a send takes the next value.
Start(t) == Free(t) /\ owned /\ used < MaxOps
            /\ used' = used + 1

Ended(t, result) == outcome' = [outcome EXCEPT ![t] = result]

\* Slip: off by one.
RoomForOneMore == Len(buffer) <= capacity

RoomFor == Len(buffer) < capacity

SendClosed(t) ==
    /\ Start(t) /\ closed
    /\ Ended(t, "ChannelClosed")
    /\ UNCHANGED <<tasks, buffer, closed, released, owner, waits, nextValue,
                   admitted, matched, received, stale>>

\* A receiver waits: the value goes to it and it is woken.  If the front of
\* the queue has no record any more nothing is popped, and send still
\* reports success.
SendToReceiver(t) ==
    /\ Start(t) /\ ~closed /\ recvq.count # 0 /\ (capacity = 0 \/ RoomFor)
    /\ IF CanPop(recvq)
         THEN /\ rendezvous' =
                   [rendezvous EXCEPT ![TaskSlot(recvq.head)] = nextValue]
              /\ WakeChannel(<<recvq.head>>)
              /\ recvq' = PopWaiter(recvq)
              /\ matched' = Append(matched, nextValue)
         ELSE NoWake /\ UNCHANGED <<rendezvous, recvq, matched>>
    /\ admitted' = Append(admitted, nextValue) /\ nextValue' = nextValue + 1
    /\ Ended(t, "Ok")
    /\ UNCHANGED <<slotOf, freeSlots, waitId, onChannel, op, cur, nextTask,
                   nextWait, buffer, closed, released, owner, sendq, sendValue,
                   completed, counted, inFlight, received, stale>>

SendToBuffer(t) ==
    /\ Start(t) /\ ~closed /\ recvq.count = 0 /\ RoomFor
    /\ buffer' = Append(buffer, nextValue)
    /\ admitted' = Append(admitted, nextValue) /\ nextValue' = nextValue + 1
    /\ Ended(t, "Ok")
    /\ UNCHANGED <<tasks, closed, released, owner, waits, matched, received,
                   stale>>

\* No room: the value is queued with the sender, which parks.
SendParks(t) ==
    /\ Start(t) /\ ~closed /\ ~RoomFor /\ ~(recvq.count # 0 /\ capacity = 0)
    /\ liveWaits < waitCapacity
    /\ sendq' = PushWaiter(sendq, t)
    /\ sendValue' = [sendValue EXCEPT ![TaskSlot(t)] = nextValue]
    /\ Park(t, "send")
    /\ admitted' = Append(admitted, nextValue) /\ nextValue' = nextValue + 1
    /\ UNCHANGED <<buffer, closed, released, owner, recvq, rendezvous,
                   completed, counted, inFlight, matched, received, outcome,
                   stale>>

\* ParkChannel refused: the entry is taken back and the sender is told.
SendCannotPark(t) ==
    /\ Start(t) /\ ~closed /\ ~RoomFor /\ ~(recvq.count # 0 /\ capacity = 0)
    /\ liveWaits >= waitCapacity
    /\ sendq' = RemoveWaiter(PushWaiter(sendq, t), t)
    /\ sendValue' = [sendValue EXCEPT ![TaskSlot(t)] = NoValue]
    /\ CompleteCountedWake(t)
    /\ nextValue' = nextValue + 1
    /\ Ended(t, "ChannelWaitCapacityExceeded")
    /\ UNCHANGED <<tasks, buffer, closed, released, owner, recvq, rendezvous,
                   completed, admitted, matched, received, stale>>

\* Hand the front of what is buffered to a waiting receiver, if both exist.
HandsOver(b) == b # <<>> /\ recvq.count # 0 /\ CanPop(recvq)

\* Slip: the sender whose value is taken is woken, its send not completed.
CompleteParkedSendUnmarked(ts) == completed' = completed

\* CompleteParkedSend: the send of a parked task has succeeded.
CompleteParkedSend(ts) ==
    completed' = [s \in Slots |-> \/ completed[s]
                                  \/ \E u \in ToSet(ts) : TaskSlot(u) = s]

\* The part of recv_impl that is common to the branches with a value: v goes
\* to t, b is buffered now, and the senders ts were completed.
RecvGets(t, v, b, ts) ==
    LET over == HandsOver(b)
        woken == IF over THEN ToSet(ts) \cup {recvq.head} ELSE ToSet(ts)
        own == IF rendezvous[TaskSlot(t)] # NoValue
                 THEN [rendezvous EXCEPT ![TaskSlot(t)] = NoValue]
                 ELSE rendezvous
    IN  /\ buffer' = IF over THEN Tail(b) ELSE b
        /\ rendezvous' = IF over
                           THEN [own EXCEPT ![TaskSlot(recvq.head)] = Head(b)]
                           ELSE own
        /\ recvq' = IF over THEN PopWaiter(recvq) ELSE recvq
        /\ CompleteParkedSend(ts)
        /\ AddCountedWake(woken)
        /\ WakeChannel(IF over THEN Append(ts, recvq.head) ELSE ts)
        /\ matched' = matched
                      \o (IF rendezvous[TaskSlot(t)] # NoValue
                            THEN <<>> ELSE <<v>>)
                      \o (IF over THEN <<Head(b)>> ELSE <<>>)
        /\ received' = received \cup {v}
        /\ Ended(t, "Ok")
        /\ UNCHANGED <<slotOf, freeSlots, waitId, onChannel, op, cur, nextTask,
                       nextWait, closed, owner, nextValue, admitted, stale>>
        /\ TryReleaseSchedulerRecord

\* A value was left for this record slot.
RecvRendezvous(t) ==
    /\ Start(t) /\ rendezvous[TaskSlot(t)] # NoValue
    /\ UNCHANGED <<sendq, sendValue>>
    /\ RecvGets(t, rendezvous[TaskSlot(t)], buffer, <<>>)

\* Slip: the freed place in the buffer is not offered to a parked sender.
RecvBufferedNoRefill(t) ==
    /\ Start(t) /\ rendezvous[TaskSlot(t)] = NoValue /\ buffer # <<>>
    /\ UNCHANGED <<sendq, sendValue>>
    /\ RecvGets(t, Head(buffer), Tail(buffer), <<>>)

\* The oldest buffered value; the longest-parked sender takes its place.
RecvBuffered(t) ==
    /\ Start(t) /\ rendezvous[TaskSlot(t)] = NoValue /\ buffer # <<>>
    /\ IF CanPop(sendq)
         THEN LET s == TaskSlot(sendq.head)
              IN  /\ sendq' = PopWaiter(sendq)
                  /\ sendValue' = [sendValue EXCEPT ![s] = NoValue]
                  /\ RecvGets(t, Head(buffer),
                              Append(Tail(buffer), sendValue[s]),
                              <<sendq.head>>)
         ELSE /\ UNCHANGED <<sendq, sendValue>>
              /\ RecvGets(t, Head(buffer), Tail(buffer), <<>>)

\* Slip: the front sender is read, not popped.
RecvFromSenderKept(t) ==
    /\ Start(t) /\ rendezvous[TaskSlot(t)] = NoValue /\ buffer = <<>>
    /\ sendq.count # 0 /\ CanPop(sendq)
    /\ UNCHANGED <<sendq, sendValue>>
    /\ RecvGets(t, sendValue[TaskSlot(sendq.head)], <<>>, <<sendq.head>>)

\* Nothing buffered, but a sender is parked: its value is taken directly.  If
\* its record is gone the code reads an empty optional: any outcome, here a
\* value nobody sent.
RecvFromSender(t) ==
    /\ Start(t) /\ rendezvous[TaskSlot(t)] = NoValue /\ buffer = <<>>
    /\ sendq.count # 0
    /\ IF CanPop(sendq)
         THEN LET s == TaskSlot(sendq.head)
              IN  /\ sendq' = PopWaiter(sendq)
                  /\ sendValue' = [sendValue EXCEPT ![s] = NoValue]
                  /\ RecvGets(t, sendValue[s], <<>>, <<sendq.head>>)
         ELSE /\ UNCHANGED <<sendq, sendValue>>
              /\ RecvGets(t, NoValue, <<>>, <<>>)

\* recv_impl has nothing to give.
NothingToReceive(t) ==
    rendezvous[TaskSlot(t)] = NoValue /\ buffer = <<>> /\ sendq.count = 0

RecvClosed(t) ==
    /\ Start(t) /\ NothingToReceive(t) /\ closed
    /\ Ended(t, "ChannelClosed")
    /\ UNCHANGED <<tasks, buffer, closed, released, owner, waits, nextValue,
                   admitted, matched, received, stale>>

\* Slip: the receiver parks without entering the queue.
RecvParksUnqueued(t) ==
    /\ Start(t) /\ NothingToReceive(t) /\ ~closed
    /\ liveWaits < waitCapacity
    /\ Park(t, "recv")
    /\ UNCHANGED <<buffer, closed, released, owner, waits, nextValue, admitted,
                   matched, received, outcome, stale>>

RecvParks(t) ==
    /\ Start(t) /\ NothingToReceive(t) /\ ~closed
    /\ liveWaits < waitCapacity
    /\ recvq' = PushWaiter(recvq, t)
    /\ Park(t, "recv")
    /\ UNCHANGED <<buffer, closed, released, owner, sendq, sendValue,
                   rendezvous, completed, counted, inFlight, nextValue,
                   admitted, matched, received, outcome, stale>>

RecvCannotPark(t) ==
    /\ Start(t) /\ NothingToReceive(t) /\ ~closed
    /\ liveWaits >= waitCapacity
    /\ recvq' = RemoveWaiter(PushWaiter(recvq, t), t)
    /\ CompleteCountedWake(t)
    /\ Ended(t, "ChannelWaitCapacityExceeded")
    /\ UNCHANGED <<tasks, buffer, closed, released, owner, sendq, sendValue,
                   rendezvous, completed, nextValue, admitted, matched,
                   received, stale>>

\* What a resumed wait reports when nothing was left for it.
Missing == IF closed THEN "ChannelClosed" ELSE "TaskContextMissing"

\* CoroutineResumeSend: succeeds if some receiver completed the send.
\* wait_result is not consulted.
CoroutineResumeSend(t) ==
    LET done == completed[TaskSlot(t)]
    IN  /\ cur = t /\ state[t] = "Running" /\ op[t] = "send"
        /\ op' = [op EXCEPT ![t] = "none"]
        /\ CompleteCountedWake(t)
        /\ completed' = [completed EXCEPT ![TaskSlot(t)] = FALSE]
        /\ Ended(t, IF done THEN "Ok" ELSE Missing)
        /\ stale' = (stale \/ waitResult[t] = "TaskDeadlock")
        /\ UNCHANGED <<slotOf, freeSlots, state, waitId, waitResult, onChannel,
                       ready, cur, nextTask, nextWait, liveWaits, buffer,
                       closed, owner, sendq, recvq, sendValue, rendezvous,
                       used, nextValue, admitted, matched, received>>
        /\ TryReleaseSchedulerRecord

\* Slip: the value stays in the task's slot.
CoroutineResumeRecvKeepsValue(t) ==
    LET v == rendezvous[TaskSlot(t)]
    IN  /\ cur = t /\ state[t] = "Running" /\ op[t] = "recv"
        /\ op' = [op EXCEPT ![t] = "none"]
        /\ CompleteCountedWake(t)
        /\ received' = IF v = NoValue THEN received ELSE received \cup {v}
        /\ Ended(t, IF v # NoValue THEN "Ok" ELSE Missing)
        /\ stale' = (stale \/ waitResult[t] = "TaskDeadlock")
        /\ UNCHANGED <<slotOf, freeSlots, state, waitId, waitResult, onChannel,
                       ready, cur, nextTask, nextWait, liveWaits, buffer,
                       closed, owner, sendq, recvq, sendValue, rendezvous,
                       completed, used, nextValue, admitted, matched>>
        /\ TryReleaseSchedulerRecord

\* CoroutineResumeRecv: succeeds if a value was left in the task's slot.
CoroutineResumeRecv(t) ==
    LET v == rendezvous[TaskSlot(t)]
    IN  /\ cur = t /\ state[t] = "Running" /\ op[t] = "recv"
        /\ op' = [op EXCEPT ![t] = "none"]
        /\ CompleteCountedWake(t)
        /\ rendezvous' = [rendezvous EXCEPT ![TaskSlot(t)] = NoValue]
        /\ received' = IF v = NoValue THEN received ELSE received \cup {v}
        /\ Ended(t, IF v # NoValue THEN "Ok" ELSE Missing)
        /\ stale' = (stale \/ waitResult[t] = "TaskDeadlock")
        /\ UNCHANGED <<slotOf, freeSlots, state, waitId, waitResult, onChannel,
                       ready, cur, nextTask, nextWait, liveWaits, buffer,
                       closed, owner, sendq, recvq, sendValue, completed, used,
                       nextValue, admitted, matched>>
        /\ TryReleaseSchedulerRecord

\* Every waiter a walk reaches, until one whose record is gone.
Reachable(q) ==
    {t \in Tasks : TaskSlot(t) # NoSlot
                   /\ \E n \in 0..(TaskCapacity - 1) : Walk(q)[n] = t}

\* close(): all those waiters are popped; the two ends are reset.
Detached(q) ==
    LET slots == {TaskSlot(t) : t \in Reachable(q)}
    IN  [head |-> 0, tail |-> 0,
         next |-> [s \in Slots |-> IF s \in slots THEN 0 ELSE q.next[s]],
         on |-> q.on \ slots,
         count |-> q.count - Cardinality(Reachable(q))]

\* close() from whoever runs, leaving b buffered.
CloseEffects(b) ==
    LET senders == Reachable(sendq)
        waiters == senders \cup Reachable(recvq)
        lost == {sendValue[TaskSlot(u)] : u \in senders}
                  \cup (ToSet(buffer) \ ToSet(b))
    IN  /\ closed' = TRUE /\ buffer' = b
        /\ sendq' = Detached(sendq) /\ recvq' = Detached(recvq)
        /\ sendValue' = [s \in Slots |->
                           IF \E u \in senders : TaskSlot(u) = s THEN NoValue
                           ELSE sendValue[s]]
        /\ AddCountedWake(waiters)
        /\ WakeChannel(ByWait(waiters))
        /\ admitted' = Keep(admitted, ToSet(admitted) \ lost)
        /\ UNCHANGED <<slotOf, freeSlots, waitId, onChannel, op, cur, nextTask,
                       nextWait, rendezvous, completed, nextValue, matched,
                       received, stale>>
        /\ TryReleaseSchedulerRecord

\* close() called by a task, or by the root between two quanta.
Close ==
    /\ owned
    /\ \/ cur = 0 /\ ~closed /\ UNCHANGED <<used, outcome>>
       \/ \E t \in Tasks : Start(t) /\ Ended(t, "Ok")
    /\ CloseEffects(buffer)
    /\ UNCHANGED owner

\* The owner is destroyed: close, then the buffered values are discarded.
Abandon ==
    /\ owned /\ owned' = FALSE /\ UNCHANGED <<capacity, waitCapacity>>
    /\ cur = 0 \/ \E t \in Tasks : Free(t)
    /\ CloseEffects(<<>>)
    /\ UNCHANGED <<used, outcome>>

-----------------------------------------------------------------------------
Send(t) == \/ SendClosed(t) \/ SendToReceiver(t) \/ SendToBuffer(t)
           \/ SendParks(t) \/ SendCannotPark(t)

Recv(t) == \/ RecvRendezvous(t) \/ RecvBuffered(t) \/ RecvFromSender(t)
           \/ RecvClosed(t) \/ RecvParks(t) \/ RecvCannotPark(t)

Quantum(t) == \/ Send(t) \/ Recv(t) \/ Yield(t) \/ Finish(t)
              \/ CoroutineResumeSend(t) \/ CoroutineResumeRecv(t)

Next ==
    \/ Spawn \/ Dispatch \/ WakeDeadlockedTasks \/ Close \/ Abandon
    \/ \E t \in Tasks : Quantum(t) \/ Retire(t)

Spec == Init /\ [][Next]_vars

\* The root keeps stepping while it joins, drains or ends a scope, and a
\* quantum that was started goes on.
Progress == Dispatch \/ WakeDeadlockedTasks \/ \E t \in Tasks : Quantum(t)

Fairness == WF_vars(Progress)

FairSpec == Spec /\ Fairness

-----------------------------------------------------------------------------
Queues == [head : {0} \cup Tasks, tail : {0} \cup Tasks,
           next : [Slots -> {0} \cup Tasks], on : SUBSET Slots, count : Nat]

\* The type invariant: tasks and slots are known ones, counters are natural
\* numbers, the buffer keeps within its capacity.
TypeOK ==
    /\ slotOf \in [Tasks -> Slots \cup {NoSlot}]
    /\ state \in [Tasks -> {"None", "Ready", "Running", "ChannelBlocked",
                            "Completed", "Retired"}]
    /\ waitResult \in [Tasks -> {"Ok", "TaskDeadlock"}]
    /\ op \in [Tasks -> {"none", "send", "recv"}]
    /\ cur \in {0} \cup Tasks /\ ready \in Seq(Tasks)
    /\ liveWaits \in 0..waitCapacity /\ inFlight \in Nat
    /\ <<capacity, waitCapacity>> \in Limits
    /\ buffer \in Seq(1..(nextValue - 1)) /\ Len(buffer) <= capacity
    /\ sendq \in Queues /\ recvq \in Queues
    /\ counted \in [Slots -> Nat]

Blocked(kind) == {t \in Tasks : state[t] = "ChannelBlocked" /\ op[t] = kind}

\* The values of parked senders, in queue order.
PendingValues ==
    [n \in 1..Cardinality(Reachable(sendq)) |->
       sendValue[TaskSlot(Walk(sendq)[n - 1])]]

\* A value handed to a receiver reaches a recv call exactly once: it waits in
\* the receiver's rendezvous slot or was returned (PushRendezvous,
\* TakeRendezvous, the slot being reused by later tasks).
HandedOverOnce ==
    LET left == {s \in Slots : rendezvous[s] # NoValue}
    IN  /\ ToSet(matched) = received \cup {rendezvous[s] : s \in left}
        /\ Len(matched) = Cardinality(received) + Cardinality(left)

\* Values leave the channel in the order they entered it, through the buffer,
\* the queue of parked senders and the direct hand-over alike, and none is
\* lost or doubled on the way or after it (send_impl, recv_impl, close); as
\* long as no wait was resumed by the deadlock wake alone.
Fifo ==
    ~stale => /\ admitted = matched \o buffer \o PendingValues
              /\ HandedOverOnce

\* Nobody is parked while it could be served: parked receivers mean an empty
\* buffer and no parked sender, also after the deadlock wake ended a wait, and
\* until then parked senders mean a full buffer.
NoMissedMatch ==
    /\ recvq.count # 0 => buffer = <<>> /\ sendq.count = 0
    /\ ~stale /\ sendq.count # 0 => Len(buffer) = capacity

\* A parked task stands in the queue a later operation will look at, and
\* close() leaves nobody parked.  It is put in the ready queue exactly once
\* when it is woken, and channel_wait_capacity is accounted exactly, also when
\* waits end by a hand-over, by close or by the deadlock wake.
ParkedIsQueued ==
    /\ ~stale => /\ Blocked("send") \subseteq Reachable(sendq)
                 /\ Blocked("recv") \subseteq Reachable(recvq)
                 /\ closed => Blocked("send") \cup Blocked("recv") = {}
    /\ liveWaits = Cardinality(Blocked("send") \cup Blocked("recv"))
    /\ IsInjective(ready)
    /\ ToSet(ready) = {t \in Tasks : state[t] = "Ready"}

\* The scheduler record of the channel is given back only when no operation
\* that was parked or woken can still come back to it.
ReleasedQuiet ==
    released => /\ closed /\ buffer = <<>>
                /\ stale \/ \A t \in Tasks : op[t] = "none"

\* Every resumed operation learns what happened to it: a value, its value
\* taken, or channel_closed; unless the deadlock wake ended the wait.
DefiniteOutcome ==
    ~stale => \A t \in Tasks : outcome[t] # "TaskContextMissing"

\* docs/contracts/scheduler/channel.md: a matching operation enqueues the
\* parked record.  So a send that finds a waiting receiver and succeeds
\* leaves a receiver ready to run with the value.
MatchWakesReceiver ==
    [][\A t \in Tasks :
         (cur = t /\ nextValue' # nextValue /\ recvq.count # 0
            /\ outcome'[t] = "Ok")
           => \E u \in Tasks : /\ op[u] = "recv" /\ state'[u] = "Ready"
                               /\ rendezvous'[TaskSlot(u)] = nextValue]_vars

\* A parked operation is resumed: by its counterpart, by close, or by the
\* deadlock wake once nothing else can run.  Operations are bounded, so in the
\* end nobody is parked or waiting to run.
WaitEnds == <>[](\A t \in Tasks : state[t] \notin {"ChannelBlocked", "Ready"})

\* An abandoned channel's record goes back to the scheduler.
AbandonReleases == <>[](owned \/ released \/ stale)
=============================================================================
