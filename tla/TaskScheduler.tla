--------------------------- MODULE TaskScheduler ---------------------------
(***************************************************************************)
(* The task scheduler's progress loop                                      *)
(* (node/src/runtime/task/scheduler): spawn, the ready queue, the quanta of *)
(* leaves and coroutines, join, scope, drain, timers and the deadlock wake. *)
(*                                                                         *)
(* The root thread drives progress only inside join, EndScope and Drain.   *)
(* LaneCommit shows that the tasks of one batch take effect in ticket      *)
(* order, so here a batch is run one task after the other; what interleaves *)
(* is the order of wakes, the cut of batches, timers coming due, record    *)
(* slots going to later tasks, and several joiners of one task.  A channel  *)
(* (module Channel) appears as a wait some running task may end.           *)
(***************************************************************************)
EXTENDS Integers, Sequences, FiniteSets, SequencesExt, Subsequence

CONSTANTS
    MaxTask,             \* bound: task ids ever issued
    MaxScope,            \* bound: scope ids ever issued
    TaskCapacity,        \* task_capacity: record slots
    ReadyQueueCapacity,  \* ready_queue_capacity: spawn backlog, batch length
    TimerCapacity,       \* timer_capacity
    MaxOps,              \* bound: primitives one task body calls
    MaxRootOps           \* bound: operations the root calls

ASSUME SchedulerAssumption ==
    /\ MaxTask \in Nat /\ MaxScope \in Nat \ {0} /\ TimerCapacity \in Nat
    /\ TaskCapacity \in Nat \ {0} /\ ReadyQueueCapacity \in Nat \ {0}
    /\ MaxOps \in Nat /\ MaxRootOps \in Nat

Tasks == 1..MaxTask
Scopes == 1..MaxScope
RootScope == 1
AnyScope == 0      \* only_scope_id = 0: Step takes any task
NoSlot == 0

\* Result codes.  A failed task's code is its id, so that a report names it.
Ok == 0
TaskDeadlock == -1
HandleUnknown == -2

States == {"None", "Ready", "Running", "JoinBlocked", "Sleeping",
           "ChannelBlocked", "Completed", "Failed", "Retired"}
Terminal == {"Completed", "Failed"}

VARIABLES
    slotOf,       \* slot of a task's record, NoSlot before spawn, after retire
    freeSlots,    \* the record free list, last freed first
    state,        \* TaskRecord::state
    coroutine,    \* the tasks spawned with a coroutine frame
    scopeOf,      \* TaskRecord::scope_id
    failure,      \* failure_code of a task (kept when its record is retired)
    ready,        \* the ready queue
    batch,        \* dispatched tasks whose quantum has not ended, in order
    joinWaits,    \* join_waits: <<waiter, target>> in admission order
    awaiting,     \* the handle a coroutine's co_await is on, 0 for none
    waitResult,   \* TaskRecord::wait_result
    channelWaits, \* the ChannelBlocked tasks in wait_id order
    timers,       \* the sleeping tasks in deadline order
    nextTask,     \* next_task_id
    reservation,  \* spawn_id_reservation: next id, ids left, scope
    scopes,       \* the open scopes, innermost last
    nextScope,    \* next_scope_id
    rootOp,       \* the progress operation the root is in
    targets,      \* the handles of the root's join
    used,         \* primitives each task (0: the root) has called
    report,       \* history: the last result join, scope or drain returned
    closed        \* history: scopes whose EndScope found them terminal

records == <<slotOf, freeSlots, coroutine, scopeOf, failure>>
waits == <<joinWaits, awaiting, waitResult, channelWaits, timers>>
ids == <<nextTask, reservation>>
root == <<scopes, nextScope, rootOp, targets, closed>>
vars == <<records, state, ready, batch, waits, ids, root, used, report>>

-----------------------------------------------------------------------------
(* Records.                                                                *)

HasRecord(t) == slotOf[t] # NoSlot
Live == {t \in Tasks : HasRecord(t)}
CurrentScope == scopes[Len(scopes)]
Current == Head(batch)
Set(f, ts, v) == [t \in DOMAIN f |-> IF t \in ts THEN v ELSE f[t]]

\* TerminalAt, for join's handles: a handle whose record is gone never is.
TerminalAt(hs) == \A i \in DOMAIN hs : state[hs[i]] \in Terminal

\* Slip: a scope whose tasks all wait passes for terminal.
ScopeTerminalIdle(s) == \A t \in Live : scopeOf[t] = s => state[t] \notin {"Ready", "Running"}

\* ScopeTerminal scans all records.
ScopeTerminal(s) == \A t \in Live : scopeOf[t] = s => state[t] \in Terminal

\* The first failed record of a set, in slot order.
FirstFailureOf(ts) ==
    LET failed == {t \in ts : HasRecord(t) /\ state[t] = "Failed"}
    IN  IF failed = {} THEN Ok
        ELSE failure[CHOOSE t \in failed :
                        \A u \in failed : slotOf[t] <= slotOf[u]]

ScopeFailureCode(s) == FirstFailureOf({t \in Tasks : scopeOf[t] = s})
FirstFailureCode == FirstFailureOf(Tasks)

\* FailureCodeAt: the first failed target in handle order.
FailureCodeAt(hs) ==
    LET failed == {i \in DOMAIN hs : state[hs[i]] = "Failed"}
    IN  IF failed = {} THEN Ok
        ELSE failure[hs[CHOOSE i \in failed : \A j \in failed : i <= j]]

\* RetireTaskRecord, for each handle whose record is still there; a handle
\* that occurs again finds the record gone.
Retire(hs) ==
    LET first == {i \in DOMAIN hs : /\ HasRecord(hs[i])
                                    /\ \A j \in 1..(i - 1) : hs[j] # hs[i]}
        order == Keep([i \in DOMAIN hs |-> i], first)
        gone == {hs[i] : i \in first}
    IN  /\ freeSlots' = Reverse([i \in DOMAIN order |-> slotOf[hs[order[i]]]])
                        \o freeSlots
        /\ slotOf' = Set(slotOf, gone, NoSlot)
        /\ scopeOf' = Set(scopeOf, gone, RootScope)
        /\ state' = Set(state, gone, "Retired")

-----------------------------------------------------------------------------
(* Spawn.                                                                  *)

RangeSize == IF TaskCapacity < ReadyQueueCapacity THEN TaskCapacity
             ELSE ReadyQueueCapacity
NoReservation == [next |-> 0, left |-> 0, scope |-> 0]

\* Slip: a spawn of a task leaves the root's reserved range in place.
IssueSpawnTaskIdKeepsRange(parent, s) ==
    IF parent # 0
    THEN [id |-> nextTask, next |-> nextTask + 1, range |-> reservation]
    ELSE LET match == reservation.left # 0 /\ reservation.scope = s
             first == IF match THEN reservation.next ELSE nextTask
             left == (IF match THEN reservation.left ELSE RangeSize) - 1
         IN  [id |-> first,
              next |-> IF match THEN nextTask ELSE nextTask + RangeSize,
              range |-> IF left = 0 THEN NoReservation
                        ELSE [next |-> first + 1, left |-> left, scope |-> s]]

\* IssueSpawnTaskId: the root takes ids from a range reserved for its scope; a
\* task takes the next id and drops the root's range.
IssueSpawnTaskId(parent, s) ==
    IF parent # 0
    THEN [id |-> nextTask, next |-> nextTask + 1, range |-> NoReservation]
    ELSE LET match == reservation.left # 0 /\ reservation.scope = s
             first == IF match THEN reservation.next ELSE nextTask
             left == (IF match THEN reservation.left ELSE RangeSize) - 1
         IN  [id |-> first,
              next |-> IF match THEN nextTask ELSE nextTask + RangeSize,
              range |-> IF left = 0 THEN NoReservation
                        ELSE [next |-> first + 1, left |-> left, scope |-> s]]

\* SpawnPreparedCommitted once ValidateSpawnBudget has found a record slot: a
\* Ready record in the spawner's scope.  (A refused spawn changes nothing.)
MakeRecord(parent, s, isCoroutine, t) ==
    /\ freeSlots # <<>>
    /\ t = IssueSpawnTaskId(parent, s).id
    /\ t \in Tasks
    /\ nextTask' = IssueSpawnTaskId(parent, s).next
    /\ reservation' = IssueSpawnTaskId(parent, s).range
    /\ slotOf' = [slotOf EXCEPT ![t] = Head(freeSlots)]
    /\ freeSlots' = Tail(freeSlots)
    /\ coroutine' = IF isCoroutine THEN coroutine \cup {t} ELSE coroutine
    /\ scopeOf' = [scopeOf EXCEPT ![t] = s]
    /\ UNCHANGED failure

\* EnqueueSpawn: the backlog bound applies to spawns only.
SpawnRoom == Len(ready) < ReadyQueueCapacity

Spawn(parent, s) ==
    /\ SpawnRoom
    /\ \E t \in Tasks, c \in BOOLEAN :
          /\ MakeRecord(parent, s, c, t)
          /\ state' = [state EXCEPT ![t] = "Ready"]
          /\ ready' = Append(ready, t)
    /\ used' = [used EXCEPT ![parent] = @ + 1]
    /\ UNCHANGED <<batch, waits, root, report>>

-----------------------------------------------------------------------------
(* Picking what runs next.                                                 *)

\* WakeDueTimers, when the first k timers are due: the ready queue after it.
WakeDueTimers(k) ==
    ready \o Keep(SubSeq(timers, 1, k), {t \in Tasks : state[t] = "Sleeping"})

StateAfterTimers(k) ==
    Set(state, {t \in Range(SubSeq(timers, 1, k)) : state[t] = "Sleeping"},
        "Ready")

\* What PopReady may take from queue q under task states st.
Runnable(q, st, s) ==
    {i \in DOMAIN q : /\ HasRecord(q[i]) /\ st[q[i]] = "Ready"
                      /\ s = AnyScope \/ scopeOf[q[i]] = s}

\* RunMultiLaneReadyBatch takes leaves up to the first coroutine, a full lane
\* or ready_queue_capacity; a coroutine, or a task of a given scope, runs alone.
BatchLengths(q, st, s, i) ==
    {n \in 1..ReadyQueueCapacity :
        \/ n = 1
        \/ /\ s = AnyScope
           /\ i + n - 1 <= Len(q)
           /\ \A j \in i..(i + n - 1) :
                 j \in Runnable(q, st, s) /\ q[j] \notin coroutine}

\* Step that dispatches (PopReady, PrepareLaneQuantum), or finds nothing to
\* run after sleeping until some timers are due.
Step(s) ==
    /\ batch = <<>>
    /\ \E k \in 0..Len(timers) :
         LET q == WakeDueTimers(k)
             st == StateAfterTimers(k)
             able == Runnable(q, st, s)
         IN  /\ timers' = SubSeq(timers, k + 1, Len(timers))
             /\ \/ \E i \in able : \E n \in BatchLengths(q, st, s, i) :
                     LET taken == SubSeq(q, i, i + n - 1) IN
                     /\ \A j \in able : i <= j
                     /\ batch' = taken
                     /\ state' = Set(st, Range(taken), "Running")
                     /\ ready' = (IF s = AnyScope THEN <<>>
                                  ELSE SubSeq(q, 1, i - 1))
                                 \o SubSeq(q, i + n, Len(q))
                \/ /\ able = {} /\ k > 0
                   /\ ready' = q /\ state' = st /\ UNCHANGED batch
    /\ UNCHANGED <<records, joinWaits, awaiting, waitResult, channelWaits, ids,
                   root, used, report>>

\* Step returns false: nothing in the scope is Ready and no timer is pending.
StepFails(s) ==
    batch = <<>> /\ timers = <<>> /\ Runnable(ready, state, s) = {}

\* The waits WakeDeadlockedTasks would end.
Victims(s) ==
    Keep(channelWaits, {t \in Tasks : s = AnyScope \/ scopeOf[t] = s})

\* Slip: the victims get their result but are not made Ready.
WakeDeadlockedTasksUnqueued(s) ==
    /\ StepFails(s)
    /\ Victims(s) # <<>>
    /\ waitResult' = Set(waitResult, Range(Victims(s)), TaskDeadlock)
    /\ UNCHANGED <<records, state, ready, channelWaits, batch, joinWaits, awaiting, timers, ids, root,
                   used, report>>

\* WakeDeadlockedTasks: all channel waits (of the scope), in wait_id order.
WakeDeadlockedTasks(s) ==
    /\ StepFails(s)
    /\ Victims(s) # <<>>
    /\ state' = Set(state, Range(Victims(s)), "Ready")
    /\ waitResult' = Set(waitResult, Range(Victims(s)), TaskDeadlock)
    /\ ready' = ready \o Victims(s)
    /\ channelWaits' = Keep(channelWaits, Tasks \ Range(Victims(s)))
    /\ UNCHANGED <<records, batch, joinWaits, awaiting, timers, ids, root,
                   used, report>>

-----------------------------------------------------------------------------
(* The operations of the root thread.                                      *)

RootMayCall ==
    /\ rootOp = "idle" /\ batch = <<>>
    /\ used[0] < MaxRootOps

CountRoot == used' = [used EXCEPT ![0] = @ + 1]

RootSpawn == RootMayCall /\ Spawn(0, CurrentScope)

\* Join, JoinManyWithSlots: all handles are checked first; duplicates may occur.
Join ==
    /\ RootMayCall
    /\ \E hs \in {<<t>> : t \in Live} \cup (Live \X Live) :
          rootOp' = "join" /\ targets' = hs
    /\ CountRoot
    /\ UNCHANGED <<records, state, ready, batch, waits, ids, scopes, nextScope,
                   closed, report>>

\* Slip: the scope id is taken after the counter has moved.
BeginScopeIncrementsFirst ==
    /\ RootMayCall
    /\ nextScope \in Scopes
    /\ scopes' = Append(scopes, nextScope + 1)
    /\ nextScope' = nextScope + 1
    /\ CountRoot
    /\ UNCHANGED <<records, state, ready, batch, waits, ids, rootOp, targets,
                   closed, report>>

\* BeginScope.
BeginScope ==
    /\ RootMayCall
    /\ nextScope \in Scopes
    /\ scopes' = Append(scopes, nextScope)
    /\ nextScope' = nextScope + 1
    /\ CountRoot
    /\ UNCHANGED <<records, state, ready, batch, waits, ids, rootOp, targets,
                   closed, report>>

EndScope ==
    /\ RootMayCall
    /\ Len(scopes) > 1
    /\ rootOp' = "scope"
    /\ CountRoot
    /\ UNCHANGED <<records, state, ready, batch, waits, ids, scopes, nextScope,
                   targets, closed, report>>

Drain ==
    /\ RootMayCall
    /\ rootOp' = "drain"
    /\ CountRoot
    /\ UNCHANGED <<records, state, ready, batch, waits, ids, scopes, nextScope,
                   targets, closed, report>>

\* The scope a progress loop steps, and whether it has what it waits for.
StepScope == IF rootOp = "scope" THEN CurrentScope ELSE AnyScope

Reached ==
    \/ rootOp = "join" /\ TerminalAt(targets)
    \/ rootOp = "scope" /\ ScopeTerminal(CurrentScope)

RootStep == rootOp # "idle" /\ ~Reached /\ Step(StepScope)

RootWakesDeadlocked ==
    rootOp # "idle" /\ ~Reached /\ WakeDeadlockedTasks(StepScope)

Stuck == ~Reached /\ StepFails(StepScope) /\ Victims(StepScope) = <<>>

Return(on, code) ==
    /\ rootOp' = "idle"
    /\ targets' = <<>>
    /\ report' = [by |-> 0, op |-> rootOp, on |-> on, code |-> code]

\* The end of Join: the first failure in handle order; the targets retire.
JoinDone ==
    /\ batch = <<>> /\ rootOp = "join" /\ Reached
    /\ Return(targets, FailureCodeAt(targets))
    /\ Retire(targets)
    /\ UNCHANGED <<coroutine, failure, ready, batch, waits, ids, scopes,
                   nextScope, closed, used>>

JoinDeadlock ==
    /\ rootOp = "join" /\ Stuck
    /\ Return(targets, TaskDeadlock)
    /\ UNCHANGED <<records, state, ready, batch, waits, ids, scopes, nextScope,
                   closed, used>>

\* The end of EndScope: under the root scope the failure of any record.
ScopeDone ==
    /\ batch = <<>> /\ rootOp = "scope" /\ Reached
    /\ Return(<<CurrentScope>>,
              IF scopes[Len(scopes) - 1] = RootScope THEN FirstFailureCode
              ELSE ScopeFailureCode(CurrentScope))
    /\ scopes' = Front(scopes)
    /\ closed' = closed \cup {CurrentScope}
    /\ UNCHANGED <<records, state, ready, batch, waits, ids, nextScope, used>>

ScopeDeadlock ==
    /\ rootOp = "scope" /\ Stuck
    /\ Return(<<CurrentScope>>, TaskDeadlock)
    /\ scopes' = Front(scopes)
    /\ UNCHANGED <<records, state, ready, batch, waits, ids, nextScope, closed,
                   used>>

\* The end of Drain.
DrainDone ==
    /\ rootOp = "drain" /\ Stuck
    /\ Return(<<>>, IF \A t \in Live : state[t] \in Terminal
                    THEN FirstFailureCode ELSE TaskDeadlock)
    /\ UNCHANGED <<records, state, ready, batch, waits, ids, scopes, nextScope,
                   closed, used>>

-----------------------------------------------------------------------------
(* The quanta of tasks.                                                    *)

\* The current task runs and has not yet resumed from the wait it was in.
InBody == batch # <<>> /\ (Current \in coroutine => awaiting[Current] = 0)
MayCall == InBody /\ used[Current] < MaxOps
MayAwait == MayCall /\ Current \in coroutine
CountTask == used' = [used EXCEPT ![Current] = @ + 1]

TaskSpawn == MayCall /\ Spawn(Current, scopeOf[Current])

\* The rest of BeginJoinAwait once the target is known to be unfinished.
ParkJoin(target) ==
    /\ joinWaits' = Append(joinWaits, <<Current, target>>)
    /\ awaiting' = [awaiting EXCEPT ![Current] = target]
    /\ waitResult' = [waitResult EXCEPT ![Current] = Ok]

\* co_await of a Task: SpawnAwaited admits the child as a continuation, past
\* the backlog bound, and the parent joins it.
AwaitNested ==
    /\ MayAwait
    /\ \E t \in Tasks :
          /\ MakeRecord(Current, scopeOf[Current], TRUE, t)
          /\ state' = [state EXCEPT ![t] = "Ready", ![Current] = "JoinBlocked"]
          /\ ready' = Append(ready, t)
          /\ ParkJoin(t)
    /\ batch' = <<>>
    /\ CountTask
    /\ UNCHANGED <<channelWaits, timers, root, report>>

\* co_await of a Handle that is stale, names the task itself, or is terminal:
\* no suspension; await_resume retires a terminal target.
JoinAtOnce ==
    /\ MayAwait
    /\ \E t \in Tasks :
          /\ state[t] # "None"
          /\ \/ t = Current \/ ~HasRecord(t) \/ state[t] \in Terminal
          /\ report' = [by |-> Current, op |-> "join", on |-> <<t>>,
                        code |-> IF ~HasRecord(t) THEN HandleUnknown
                                 ELSE IF t = Current THEN TaskDeadlock
                                 ELSE FailureCodeAt(<<t>>)]
          /\ IF state[t] \in Terminal THEN Retire(<<t>>)
             ELSE UNCHANGED <<freeSlots, slotOf, scopeOf, state>>
    /\ CountTask
    /\ UNCHANGED <<coroutine, failure, ready, batch, waits, ids, root>>

\* Slip: the target may have ended before the wait is registered.
JoinParksUnchecked ==
    /\ MayAwait
    /\ \E t \in Live \ {Current} :
          /\ ParkJoin(t)
    /\ state' = [state EXCEPT ![Current] = "JoinBlocked"]
    /\ batch' = <<>>
    /\ CountTask
    /\ UNCHANGED <<records, ready, channelWaits, timers, ids, root, report>>

JoinParks ==
    /\ MayAwait
    /\ \E t \in Live \ {Current} :
          /\ state[t] \notin Terminal
          /\ ParkJoin(t)
    /\ state' = [state EXCEPT ![Current] = "JoinBlocked"]
    /\ batch' = <<>>
    /\ CountTask
    /\ UNCHANGED <<records, ready, channelWaits, timers, ids, root, report>>

\* Slip: await_resume asks the target's record for the result.
JoinResumesFromRecord ==
    /\ batch # <<>> /\ Current \in coroutine /\ awaiting[Current] # 0
    /\ LET t == awaiting[Current] IN
          /\ report' = [by |-> Current, op |-> "join", on |-> <<t>>,
                        code |-> IF HasRecord(t) THEN failure[t] ELSE Ok]
          /\ IF state[t] \in Terminal THEN Retire(<<t>>)
             ELSE UNCHANGED <<freeSlots, slotOf, scopeOf, state>>
          /\ awaiting' = [awaiting EXCEPT ![Current] = 0]
    /\ waitResult' = [waitResult EXCEPT ![Current] = Ok]
    /\ UNCHANGED <<coroutine, failure, ready, batch, joinWaits, channelWaits,
                   timers, ids, root, used>>

\* HandleAwaiter::await_resume, TaskAwaiter::await_resume: the result the wake
\* delivered; the target retires unless another joiner retired it.
JoinResumes ==
    /\ batch # <<>> /\ Current \in coroutine /\ awaiting[Current] # 0
    /\ LET t == awaiting[Current] IN
          /\ report' = [by |-> Current, op |-> "join", on |-> <<t>>,
                        code |-> waitResult[Current]]
          /\ IF state[t] \in Terminal THEN Retire(<<t>>)
             ELSE UNCHANGED <<freeSlots, slotOf, scopeOf, state>>
          /\ awaiting' = [awaiting EXCEPT ![Current] = 0]
    /\ waitResult' = [waitResult EXCEPT ![Current] = Ok]
    /\ UNCHANGED <<coroutine, failure, ready, batch, joinWaits, channelWaits,
                   timers, ids, root, used>>

Yield ==
    /\ MayAwait
    /\ state' = [state EXCEPT ![Current] = "Ready"]
    /\ ready' = Append(ready, Current)
    /\ batch' = <<>>
    /\ CountTask
    /\ UNCHANGED <<records, waits, ids, root, report>>

\* Sleep: the deadline may fall anywhere among the pending ones.
Sleep ==
    /\ MayAwait
    /\ Len(timers) < TimerCapacity
    /\ \E i \in 1..(Len(timers) + 1) : timers' = InsertAt(timers, i, Current)
    /\ state' = [state EXCEPT ![Current] = "Sleeping"]
    /\ batch' = <<>>
    /\ CountTask
    /\ UNCHANGED <<records, ready, joinWaits, awaiting, waitResult,
                   channelWaits, ids, root, report>>

\* A channel operation that has to wait (ParkChannel), ...
ParkChannel ==
    /\ MayAwait
    /\ channelWaits' = Append(channelWaits, Current)
    /\ state' = [state EXCEPT ![Current] = "ChannelBlocked"]
    /\ waitResult' = [waitResult EXCEPT ![Current] = Ok]
    /\ batch' = <<>>
    /\ CountTask
    /\ UNCHANGED <<records, ready, joinWaits, awaiting, timers, ids, root,
                   report>>

\* ... and one that ends the wait of another task (WakeChannel).
WakeChannel ==
    /\ MayCall
    /\ \E i \in DOMAIN channelWaits :
          LET t == channelWaits[i] IN
          /\ state' = [state EXCEPT ![t] = "Ready"]
          /\ ready' = Append(ready, t)
          /\ channelWaits' = RemoveAt(channelWaits, i)
    /\ CountTask
    /\ UNCHANGED <<records, batch, joinWaits, awaiting, waitResult, timers,
                   ids, root, report>>

\* The tasks WakeJoinWaiters makes Ready, in admission order.
Joiners(t) ==
    LET waiting == Keep(joinWaits,
                        {w \in Tasks \X Tasks :
                           /\ w[2] = t
                           /\ state[w[1]] = "JoinBlocked"
                           /\ awaiting[w[1]] = t})
    IN  [i \in DOMAIN waiting |-> waiting[i][1]]

\* The end of a body (RunLeafQuantum, RunCoroutineQuantum): the verdict, then
\* WakeJoinWaiters.  The record stays for whoever joins the task.
Finish ==
    /\ InBody
    /\ \E verdict \in Terminal :
         LET t == Current
             code == IF verdict = "Failed" THEN t ELSE Ok
             woken == Joiners(t)
         IN  /\ state' = [Set(state, Range(woken), "Ready") EXCEPT
                            ![t] = verdict]
             /\ failure' = [failure EXCEPT ![t] = code]
             /\ waitResult' = Set(waitResult, Range(woken), code)
             /\ ready' = ready \o woken
             /\ joinWaits' = Keep(joinWaits, {w \in Tasks \X Tasks : w[2] # t})
    /\ batch' = Tail(batch)
    /\ UNCHANGED <<slotOf, freeSlots, coroutine, scopeOf, awaiting,
                   channelWaits, timers, ids, root, used, report>>

-----------------------------------------------------------------------------

Init ==
    /\ slotOf = [t \in Tasks |-> NoSlot]
    /\ freeSlots = [i \in 1..TaskCapacity |-> i]
    /\ state = [t \in Tasks |-> "None"]
    /\ coroutine = {}
    /\ scopeOf = [t \in Tasks |-> RootScope]
    /\ failure = [t \in Tasks |-> Ok]
    /\ ready = <<>> /\ batch = <<>>
    /\ joinWaits = <<>> /\ channelWaits = <<>> /\ timers = <<>>
    /\ awaiting = [t \in Tasks |-> 0]
    /\ waitResult = [t \in Tasks |-> Ok]
    /\ nextTask = 1
    /\ reservation = NoReservation
    /\ scopes = <<RootScope>>
    /\ nextScope = 2
    /\ rootOp = "idle" /\ targets = <<>>
    /\ used = [t \in 0..MaxTask |-> 0]
    /\ report = [by |-> 0, op |-> "idle", on |-> <<>>, code |-> Ok]
    /\ closed = {}

\* What the root asks for, and what then happens without it asking.
RootCall == RootSpawn \/ Join \/ BeginScope \/ EndScope \/ Drain
RootLoop == \/ RootStep \/ RootWakesDeadlocked
            \/ JoinDone \/ JoinDeadlock \/ ScopeDone \/ ScopeDeadlock
            \/ DrainDone
Body == \/ TaskSpawn \/ AwaitNested \/ JoinAtOnce \/ JoinParks \/ JoinResumes
        \/ Yield \/ Sleep \/ ParkChannel \/ WakeChannel \/ Finish

Next == RootCall \/ RootLoop \/ Body

Spec == Init /\ [][Next]_vars

\* The root runs its loop, and a task body, once dispatched, runs on (its
\* primitives are bounded, so it ends or parks); nothing obliges the root to
\* call anything.
FairSpec == Spec /\ WF_vars(RootLoop) /\ WF_vars(Body)

-----------------------------------------------------------------------------
(* Properties.                                                             *)

\* The type invariant: queues and waits hold tasks, the open scopes and the
\* reservation keep within the ids that were issued.
TypeOK ==
    /\ slotOf \in [Tasks -> 0..TaskCapacity]
    /\ freeSlots \in Seq(1..TaskCapacity)
    /\ state \in [Tasks -> States]
    /\ coroutine \subseteq Tasks
    /\ scopeOf \in [Tasks -> Scopes]
    /\ failure \in [Tasks -> 0..MaxTask]
    /\ ready \in Seq(Tasks) /\ batch \in Seq(Tasks)
    /\ joinWaits \in Seq(Tasks \X Tasks)
    /\ channelWaits \in Seq(Tasks) /\ timers \in Seq(Tasks)
    /\ awaiting \in [Tasks -> 0..MaxTask]
    /\ waitResult \in [Tasks -> -1..MaxTask]
    /\ nextTask \in Nat /\ nextScope \in Nat
    /\ reservation \in [next : Nat, left : 0..RangeSize, scope : 0..MaxScope]
    /\ scopes \in Seq(Scopes) /\ closed \subseteq Scopes
    /\ rootOp \in {"idle", "join", "scope", "drain"}
    /\ targets \in Seq(Tasks)
    /\ used \in [0..MaxTask -> Nat]
    /\ report.code \in -2..MaxTask

Placed(q, s) ==
    /\ IsInjective(q)
    /\ Range(q) = {t \in Tasks : HasRecord(t) /\ state[t] = s}

\* No wake is lost at the end of a task: whoever is JoinBlocked waits for a
\* task that still has a record and is not terminal.
NoLostJoin ==
    \A i \in DOMAIN joinWaits :
        LET t == joinWaits[i][2] IN
        HasRecord(t) /\ state[t] \notin Terminal
                     /\ awaiting[joinWaits[i][1]] = t

\* The record slots: each is free once or carries one task.
SlotsPartitioned ==
    /\ IsInjective(freeSlots)
    /\ \A t, u \in Live : slotOf[t] = slotOf[u] => t = u
    /\ Range(freeSlots) = (1..TaskCapacity) \ {slotOf[t] : t \in Live}

\* Every task is where its state says, once: Ready in the ready queue, Running
\* in the batch, JoinBlocked in join_waits on a target that is not finished,
\* Sleeping among the timers, ChannelBlocked among the channel waits.  A task
\* missing from its queue never runs again; one queued twice runs a quantum it
\* is not entitled to.  With one slot per task it follows that EnqueueProgress
\* never finds the ready queue full (it would abort) and that a running
\* coroutine always finds room in join_waits.
EveryTaskPlaced ==
    /\ Placed(ready, "Ready")
    /\ Placed(batch, "Running")
    /\ Placed([i \in DOMAIN joinWaits |-> joinWaits[i][1]], "JoinBlocked")
    /\ Placed(timers, "Sleeping")
    /\ Placed(channelWaits, "ChannelBlocked")
    /\ NoLostJoin /\ SlotsPartitioned

\* A join that returns Ok has seen all its targets complete; one that returns
\* a failure names the failure of a target, and the first one in handle order;
\* also when another joiner retired the target in between.
JoinReportsTarget ==
    report.op = "join" =>
      LET failed == {i \in DOMAIN report.on : failure[report.on[i]] # Ok}
          over(t) == state[t] \in Terminal \cup {"Retired"}
      IN  /\ report.code = Ok =>
               failed = {} /\ \A i \in DOMAIN report.on : over(report.on[i])
          /\ report.code > 0 =>
               \E i \in failed : /\ report.code = failure[report.on[i]]
                                 /\ \A j \in failed : i <= j

\* A scope whose EndScope did not report a deadlock leaves no task behind: no
\* unfinished task is ever a member of it again.
ScopeConfined ==
    \A t \in Live : scopeOf[t] \in closed => state[t] \in Terminal

\* A failure is not lost to the scope it happened in: a scope reports success
\* only if every member that failed was joined, whichever slots the records of
\* its members lay in and later tasks took over, and no member fails after its
\* scope's report; the failure it names is one that happened.
FailureReported ==
    (report.op = "scope" /\ report.code # TaskDeadlock) =>
      LET lost(t) == scopeOf[t] = report.on[1] /\ state[t] = "Failed"
      IN  /\ report.code = Ok => \A t \in Tasks : ~lost(t)
          /\ report.code # Ok => \E t \in Tasks : failure[t] = report.code

\* Task ids ascend in spawn order, whoever spawns, although the root takes its
\* ids from reserved ranges: a new task's id is above every id issued before.
IdsAscend ==
    [][\A t \in Tasks : state[t] = "None" /\ state'[t] # "None" =>
          \A u \in Tasks : state[u] # "None" => u < t]_vars

\* A progress operation of the root returns: join, scope and drain do not wait
\* forever, whatever the tasks wait for.  The root makes finitely many calls.
RootReturns == <>[](rootOp = "idle")
=============================================================================
