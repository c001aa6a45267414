------------------------------ MODULE Reactor ------------------------------
(***************************************************************************)
(* The reactor of the task scheduler                                       *)
(* (node/src/runtime/task/scheduler/reactor): waits of tasks on sockets,   *)
(* with and without a timeout, singly or as a group (wait on many), their  *)
(* registration with the kernel's poller, the drain of ready events under  *)
(* a budget, the timer store, stop requests, and the closing of sockets by *)
(* tasks and by threads outside the scheduler.                             *)
(*                                                                         *)
(* A wait ends in one of five ways (event, timeout, stop, close, backend   *)
(* failure), each of which has to find the task, the timer, the sibling    *)
(* waits, the backlog entry and the kernel registration of the wait.       *)
(* Every primitive runs at the commit turn of its task (module LaneCommit),*)
(* so primitives are atomic; the kernel, the clock and other threads are   *)
(* not.  The code's handlers call each other in sequence on one state, so  *)
(* the operators below take and return a world: the record of that state   *)
(* and of what the call in progress has computed so far.                   *)
(***************************************************************************)
EXTENDS Integers, Sequences, FiniteSets, SequencesExt

CONSTANTS
    Tasks,          \* task ids
    Fds,            \* descriptor numbers
    Programs,       \* a task's body: sequences of operations, see Op
    WaitCapacity,   \* reactor_wait_capacity: waits, and descriptors listed
    TimerCapacity,  \* timer_capacity
    TaskCapacity,   \* task_capacity: the ready queue's room for wakes
    ReadyBudget,    \* reactor_ready_budget: events one drain applies
    OutsideFds,     \* the sockets threads outside the scheduler may close
    MaxNs,          \* the largest nanosecond count (int64 in the code)
    MaxGen,         \* bound: sockets a descriptor number is used for
    MaxFaults       \* bound: failures of the backend

ASSUME ReactorAssumption ==
    /\ Tasks \subseteq Nat \ {0} /\ Fds \subseteq Nat
    /\ IsFiniteSet(Tasks) /\ IsFiniteSet(Fds)
    /\ WaitCapacity \in Nat \ {0} /\ TimerCapacity \in Nat
    /\ TaskCapacity \in Nat \ {0} /\ ReadyBudget \in Nat \ {0}
    /\ OutsideFds \subseteq Fds /\ MaxNs \in Nat /\ MaxGen \in Nat /\ MaxFaults \in Nat

\* An operation of a body: what it does, the descriptors with their interests
\* (a request list), a duration, and whether it carries the stop token.
Op(kind, requests, ns, stop) ==
    [kind |-> kind, requests |-> requests, ns |-> ns, stop |-> stop,
     max |-> Len(requests)]

VARIABLES
    reactor,   \* ReactorRuntime: waits, descriptor states, changes, backlog
    many,      \* groups, requests and event slots of waits on many
    timers,    \* the timer store
    clock,     \* the wall clock, and logical_time_ns
    tasks,     \* TaskRecord: state, wait_id, wait_source_id, io_result, and
               \* the await its suspended frame completes (a group, Timed, 0)
    ready,     \* the ready queue
    ids,       \* next_wait_id, next group id, next timer sequence
    net,       \* sockets (generation, open), kernel interest, the registrations
               \* the backend believes in, oldest first, and its health
    stopped,   \* the stop source's requested flag
    body,      \* what each task still has to do
    cur,       \* the running task, 0 while the progress loop runs
    phase,     \* where the progress loop is in a step
    faults,    \* backend failures so far
    reported   \* history: the result codes tasks have seen

vars == <<reactor, many, timers, clock, tasks, ready, ids, net, stopped, body,
          cur, phase, faults, reported>>

\* The state, and the scratch of a call: ok, whether the cleanup of one wait
\* has succeeded so far; all, the same over several waits; hit, whether a wait
\* was cleaned up; applied and token, the last result of the backend; batch
\* and codes, the ready entries being drained and their results; polls, whether
\* a drain has come to the poll; code, the result of a primitive; runs, the
\* task the progress loop picked.
world == [reactor |-> reactor, many |-> many, timers |-> timers,
          clock |-> clock, tasks |-> tasks, ready |-> ready, ids |-> ids,
          net |-> net, ok |-> TRUE, all |-> TRUE, hit |-> FALSE,
          applied |-> "Success", token |-> <<>>, batch |-> <<>>, codes |-> <<>>,
          polls |-> FALSE, code |-> "Ok", runs |-> 0]

Becomes(w) ==
    /\ reactor' = w.reactor /\ many' = w.many /\ timers' = w.timers
    /\ clock' = w.clock /\ tasks' = w.tasks /\ ready' = w.ready
    /\ ids' = w.ids /\ net' = w.net

Fails(w) == [w EXCEPT !.ok = FALSE]
Fresh(w) == [w EXCEPT !.ok = TRUE, !.all = TRUE, !.hit = FALSE]
Smallest(s) == CHOOSE x \in s : \A y \in s : x <= y
Lower(a, b) == IF a < b THEN a ELSE b
ById(a, b) == a.id < b.id
InOrder(waits) == SetToSortSeq(waits, ById)

-----------------------------------------------------------------------------
(* Descriptor registry and registration changes.                           *)

Unlisted == [phase |-> "Idle", interest |-> {}, gen |-> 0]
Active(interest, gen) == [phase |-> "Active", interest |-> interest, gen |-> gen]

WaitOf(w, id) == {x \in w.reactor.waits : x.id = id}
WaitsOn(w, fd) == {x \in w.reactor.waits : x.fd = fd}
Interest(w, fd) == UNION {x.interest : x \in WaitsOn(w, fd)}

\* The descriptors with an entry in registry.fds.
Listed(w) == {fd \in Fds : w.reactor.fds[fd].phase # "Idle" \/ WaitsOn(w, fd) # {}}

\* An entry that is neither registered nor waited on is erased.
Tidy(w) == [w EXCEPT !.reactor.fds = [fd \in Fds |->
                IF fd \in Listed(w) THEN @[fd] ELSE Unlisted]]

ReserveChanges(w, n) == Len(w.reactor.changes) + n <= w.reactor.room
Reserved(w, n) ==
    [w EXCEPT !.reactor.room =
        IF @ < Len(w.reactor.changes) + n THEN Len(w.reactor.changes) + n ELSE @]
Strict(fd, interest, gen) ==
    [fd |-> fd, interest |-> interest, gen |-> gen, remove |-> FALSE]
CleanupRemove(fd, gen) ==
    [fd |-> fd, interest |-> {}, gen |-> gen, remove |-> TRUE]

\* Registers interest of a descriptor, with a change unless it is the old one.
Register(w, fd, interest, old, gen) ==
    LET quiet == old.phase # "Idle" /\ old.interest = interest
    IN  IF ~ReserveChanges(w, 1) THEN Fails(w)
        ELSE [w EXCEPT !.reactor.fds[fd] = Active(interest, gen),
                       !.reactor.changes = IF quiet THEN @
                                           ELSE Append(@, Strict(fd, interest, gen))]

\* ReactorRegistrationFlushDeferredRemoves, in descriptor order.
FlushPending(w, pending) ==
    IF ~ReserveChanges(w, Len(pending)) THEN Fails(w)
    ELSE Tidy([w EXCEPT
            !.reactor.changes = @ \o [i \in DOMAIN pending |->
                CleanupRemove(pending[i], w.reactor.fds[pending[i]].gen)],
            !.reactor.fds = [fd \in Fds |->
                IF @[fd].phase = "DeferredRemove"
                THEN [@[fd] EXCEPT !.phase = "Idle", !.interest = {}] ELSE @[fd]]])
FlushDeferredRemoves(w) ==
    FlushPending(w, SetToSortSeq({fd \in Fds :
                        w.reactor.fds[fd].phase = "DeferredRemove"}, <))

\* ReactorRegistryAddWait: a descriptor that is not listed needs an entry, and
\* a full list first gives up the entries that only await their removal.
NoEntry(w, x) == x.fd \notin Listed(w) /\ Cardinality(Listed(w)) >= WaitCapacity

\* Slip: a descriptor is listed although the list is full.
PlaceWaitAlways(w, x) == IF ~w.ok THEN w ELSE [w EXCEPT !.reactor.waits = @ \cup {x}]
PlaceWait(w, x) ==
    IF ~w.ok \/ NoEntry(w, x) THEN Fails(w)
    ELSE [w EXCEPT !.reactor.waits = @ \cup {x}]
RegistryAddWait(w, x) ==
    IF Cardinality(w.reactor.waits) >= WaitCapacity THEN Fails(w)
    ELSE PlaceWait(IF NoEntry(w, x) THEN FlushDeferredRemoves(w) ELSE w, x)

\* Slip: a registration left by an earlier socket of the number is trusted.
CollectForWaitAddAnyGeneration(w, x) ==
    IF ~w.ok THEN w
    ELSE Register(w, x.fd, Interest(w, x.fd), w.reactor.fds[x.fd], x.gen)

\* ReactorRegistrationCollectForWaitAdd, after a wait was added.
CollectForWaitAdd(w, x) ==
    LET old == w.reactor.fds[x.fd]
    IN  IF ~w.ok THEN w
        ELSE Register(w, x.fd, Interest(w, x.fd),
                      IF old.gen = x.gen THEN old ELSE Unlisted, x.gen)

\* ReactorRegistrationCollectForWaitRemove, given the interest before it.
CollectForWaitRemove(w, fd, before) ==
    LET old == w.reactor.fds[fd]
    IN  IF fd \notin Listed(w) \/ Interest(w, fd) = before THEN w
        ELSE IF Interest(w, fd) = {}
        THEN [w EXCEPT !.reactor.fds[fd].phase =
                          IF @ = "Idle" THEN @ ELSE "DeferredRemove"]
        ELSE Register(w, fd, Interest(w, fd), old, old.gen)

\* ReactorRegistrationForgetGeneration.
ForgetGeneration(w, fd, gen) ==
    LET other(c) == ~(c.fd = fd /\ c.gen = gen)
    IN  Tidy([w EXCEPT !.reactor.changes = SelectSeq(@, other),
                       !.reactor.fds[fd] = IF @.gen = gen THEN Unlisted ELSE @])

\* ReactorChangeQueueAcknowledgeInvalid: the strict changes of a descriptor go.
DropStrict(changes, fds) ==
    LET keep(c) == c.remove \/ c.fd \notin fds
    IN  SelectSeq(changes, keep)

\* The backend's own list of registrations: a change that succeeds is entered,
\* a removal is struck out even when the descriptor is closed.
Mirrored(known, c, open) ==
    LET other(fd) == fd # c.fd
    IN  IF c.remove THEN SelectSeq(known, other)
        ELSE IF open[c.fd] /\ ~Contains(known, c.fd) THEN Append(known, c.fd) ELSE known

\* The changes before the first one that a waited descriptor refuses are done.
\* A removal the kernel refuses is done too, and a strict change of a closed
\* descriptor nobody waits on is dropped.
ApplyUpTo(w, done, refused) ==
    LET ch == w.reactor.changes
        apply(k, c) == IF w.net.open[c.fd] THEN [k EXCEPT ![c.fd] = c.interest] ELSE k
        mirror(known, c) == Mirrored(known, c, w.net.open)
        whole == done = Len(ch)
    IN  [w EXCEPT !.net.kernel = FoldLeft(apply, @, SubSeq(ch, 1, done)),
                  !.net.known = FoldLeft(mirror, @, SubSeq(ch, 1, done)),
                  !.reactor.changes = DropStrict(SubSeq(@, done + 1, Len(@)),
                                        {ch[i].fd : i \in {j \in refused : j <= done}}),
                  !.applied = IF whole THEN "Success" ELSE "Invalid",
                  !.token = IF whole THEN <<>> ELSE <<ch[done + 1].fd, ch[done + 1].gen>>]

\* ReactorBackendApplyChanges; a result that forbids logical progress fails.
BackendApplyChanges(w) ==
    LET ch == w.reactor.changes
        refused == {i \in DOMAIN ch : ~ch[i].remove /\ ~w.net.open[ch[i].fd]}
        reports == {i \in refused : WaitsOn(w, ch[i].fd) # {}}
    IN  IF ~w.net.up /\ ch # <<>> THEN [Fails(w) EXCEPT !.applied = "Failed", !.token = <<>>]
        ELSE ApplyUpTo(w, IF reports = {} THEN Len(ch) ELSE Smallest(reports) - 1, refused)

BacklogRemoveWait(w, id) ==
    LET other(e) == e.id # id IN [w EXCEPT !.reactor.backlog = SelectSeq(@, other)]
RegistryRemoveWait(w, id) == Tidy([w EXCEPT !.reactor.waits = {x \in @ : x.id # id}])

-----------------------------------------------------------------------------
(* Groups: the requests and event slots of all groups lie in two vectors,  *)
(* a group being a span of both.                                           *)

GroupAt(w, id) == {i \in DOMAIN w.many.groups : w.many.groups[i].id = id}
ManyRequests(w, g) ==
    IF g.first + g.count > Len(w.many.requests) THEN <<>>
    ELSE SubSeq(w.many.requests, g.first + 1, g.first + g.count)

\* ReactorManyFindRequest: by the offset from the first request's wait.
FindRequest(reqs, id) ==
    {i \in DOMAIN reqs : i = id - reqs[1].wait + 1 /\ reqs[i].wait = id}

\* ReactorManyEventSlotsAppend, for group i and one of its requests.
EventSlotsAppend(w, i, request) ==
    LET g == w.many.groups[i]
        at == g.first + request.slot + 1
    IN  IF request.group # g.id \/ at > Len(w.many.slots) THEN w
        ELSE IF w.many.slots[at] # 0 THEN w
        ELSE IF g.stored >= g.max THEN [w EXCEPT !.many.groups[i].exhausted = TRUE]
        ELSE [w EXCEPT !.many.slots[at] = g.id, !.many.groups[i].stored = @ + 1]

\* ReactorManyEventSlotsCopy: the events that will be copied out.
EventSlots(w, g) ==
    {i \in (g.first + 1)..Lower(g.first + g.count, Len(w.many.slots)) :
        w.many.slots[i] = g.id}

Cut(s, first, last) == SubSeq(s, 1, first) \o SubSeq(s, last + 1, Len(s))

\* Slip: the spans behind the erased one keep their place.
EraseSpanNoShift(w, i, last) ==
    LET g == w.many.groups[i]
    IN  [w EXCEPT !.many.groups = RemoveAt(@, i),
                  !.many.requests = Cut(@, g.first, last),
                  !.many.slots = Cut(@, g.first, g.first + g.count)]

\* ReactorManyEventSlotsEraseGroup and ReactorManyEraseGroup of requests up to
\* last: the spans behind move down by the requests really erased.
EraseSpan(w, i, last) ==
    LET g == w.many.groups[i]
        down(h) == IF last > g.first /\ h.first >= last
                   THEN [h EXCEPT !.first = @ - (last - g.first)] ELSE h
    IN  [w EXCEPT !.many.groups = [k \in 1..(Len(@) - 1) |-> down(RemoveAt(@, i)[k])],
                  !.many.requests = Cut(@, g.first, last),
                  !.many.slots = Cut(@, g.first, g.first + g.count)]
EraseGroup(w, i) ==
    LET g == w.many.groups[i]
        limit == Lower(g.first + g.count, Len(w.many.requests))
        foreign == {k \in (g.first + 1)..limit : w.many.requests[k].group # g.id}
    IN  EraseSpan(w, i, IF foreign = {} THEN limit ELSE Smallest(foreign) - 1)

-----------------------------------------------------------------------------
(* Cleanup: what ends a wait, whatever ended it.                            *)

\* A ReactorCleanupRequest with the fields most callers give it.
Cleanup(id, reason, timeout) ==
    [id |-> id, group |-> 0, reason |-> reason, timeout |-> timeout,
     siblings |-> TRUE, erase |-> FALSE, wake |-> TRUE, store |-> FALSE]

CancelTimeoutTimer(w, id, policy) ==
    LET hit == {x \in w.timers : x.wait = id}
    IN  IF policy = "None" THEN w
        ELSE [w EXCEPT !.timers = @ \ hit,
                       !.ok = @ /\ (policy = "IfPresent" \/ hit # {})]

WakeTask(w, t, reason) ==
    [w EXCEPT !.tasks[t].state = "Ready",
              !.tasks[t].io = IF w.ok THEN reason ELSE "IoPollFailed",
              !.ready = Append(@, t)]

\* RemoveRegisteredManyWaits: those of the requests still in the registry.
RemoveRequest(w, q) ==
    IF WaitOf(w, q.wait) = {} THEN BacklogRemoveWait(w, q.wait)
    ELSE CollectForWaitRemove(RegistryRemoveWait(BacklogRemoveWait(w, q.wait), q.wait),
                              q.fd, Interest(w, q.fd))
RemoveRegisteredManyWaits(w, reqs) ==
    BackendApplyChanges(FlushDeferredRemoves(FoldLeft(RemoveRequest, w, reqs)))

\* The event of the request for wait q.id, if the group has it.
StoreEvent(w, q, i) ==
    LET reqs == ManyRequests(w, w.many.groups[i])
        hit == FindRequest(reqs, q.id)
    IN  IF q.store /\ hit # {} THEN EventSlotsAppend(w, i, reqs[Smallest(hit)]) ELSE w

\* The first end of a group: its timer and its other waits go.
CompleteGroup(w, q, i) ==
    LET g == w.many.groups[i]
        policy == IF q.timeout = "IfPresent" /\ g.timer # 0 THEN "Required" ELSE q.timeout
        rest == IF q.siblings THEN ManyRequests(w, g) ELSE <<>>
        cancelled == CancelTimeoutTimer(w, g.timer, policy)
    IN  [(IF q.siblings THEN RemoveRegisteredManyWaits(cancelled, rest) ELSE cancelled)
            EXCEPT !.many.groups[i].completed = TRUE]

WakeGroup(w, q, i) ==
    LET g == w.many.groups[i]
        owner == w.tasks[g.task]
    IN  IF q.wake /\ owner.state = "IoBlocked" /\ owner.source = g.id
        THEN WakeTask(w, g.task, q.reason) ELSE w

\* CleanupGroup.
EndGroup(w, q, i) ==
    LET g == w.many.groups[i]
        stored == StoreEvent(w, q, i)
        woken == WakeGroup(IF g.completed THEN stored ELSE CompleteGroup(stored, q, i), q, i)
    IN  IF Len(ManyRequests(w, g)) # g.count THEN Fails(w)
        ELSE IF q.erase \/ (q.reason = "TaskCancelled" /\ ~g.completed)
        THEN EraseGroup(woken, i)
        ELSE woken
CleanupGroup(w, q) ==
    LET at == GroupAt(w, q.group)
    IN  IF at = {} THEN w ELSE EndGroup(w, q, Smallest(at))

WakeSingle(w, q, x) ==
    LET owner == w.tasks[x.task]
    IN  IF q.wake /\ owner.state = "IoBlocked" /\ owner.wait = x.id
        THEN WakeTask(w, x.task, q.reason) ELSE w

\* CleanupSingleWait: a wait whose task has a wait source is one of a group.
EndSingle(w, q, x) ==
    LET gone == RegistryRemoveWait(w, x.id)
        collected == CollectForWaitRemove(gone, x.fd, Interest(w, x.fd))
        applied == BackendApplyChanges(FlushDeferredRemoves(collected))
        source == w.tasks[x.task].source
    IN  IF q.siblings /\ source # 0 THEN CleanupGroup(gone, [q EXCEPT !.group = source])
        ELSE WakeSingle(CancelTimeoutTimer(applied, x.id, q.timeout), q, x)
CleanupSingleWait(w, q) ==
    IF WaitOf(w, q.id) = {} THEN BacklogRemoveWait(w, q.id)
    ELSE EndSingle(BacklogRemoveWait(w, q.id), q, CHOOSE x \in WaitOf(w, q.id) : TRUE)

\* ReactorCleanupWait.
CleanupWait(w, q) ==
    IF q.group # 0 THEN CleanupGroup([w EXCEPT !.ok = TRUE], q)
    ELSE IF q.id = 0 THEN [w EXCEPT !.ok = TRUE]
    ELSE CleanupSingleWait([w EXCEPT !.ok = TRUE], q)

\* ReactorCleanupRemovedWait: the wait x has left the registry already.
EndRemoved(w, x, q) ==
    LET source == w.tasks[x.task].source
    IN  IF source # 0 THEN CleanupGroup(w, [q EXCEPT !.group = source])
        ELSE WakeSingle(CancelTimeoutTimer(w, x.id, q.timeout), q, x)
CleanupRemovedWait(w, x, q) ==
    EndRemoved([(IF q.siblings THEN BacklogRemoveWait(w, x.id) ELSE w) EXCEPT !.ok = TRUE],
               x, q)

-----------------------------------------------------------------------------
(* Sockets that are gone.                                                  *)

\* IsCurrentSocket: the socket of the wait is open and not a later one.
IsCurrent(w, x) == w.net.open[x.fd] /\ w.net.gen[x.fd] = x.gen

Tally(w) == [w EXCEPT !.all = @ /\ w.ok, !.hit = TRUE]
EndInvalid(w, x) ==
    Tally(CleanupWait(w, [Cleanup(x.id, "IoFdInvalid", "IfPresent") EXCEPT !.store = TRUE]))

\* CleanupInvalid over waits in id order.
CleanupInvalid(w, order) ==
    LET forget(v, x) == ForgetGeneration(v, x.fd, x.gen)
        end(v, x) == IF WaitOf(v, x.id) = {} THEN v ELSE EndInvalid(v, x)
    IN  FoldLeft(end, FoldLeft(forget, Fresh(w), order), order)

\* ReactorGenerationCleanupStaleWaits: waits on an earlier socket of the number.
CleanupStaleWaits(w, fd) ==
    CleanupInvalid(w, InOrder({x \in WaitsOn(w, fd) : x.gen # w.net.gen[fd]}))

\* ReactorGenerationCleanupInvalidWaits.
CleanupInvalidWaits(w) ==
    CleanupInvalid(w, InOrder({x \in w.reactor.waits : ~IsCurrent(w, x)}))

\* The kernel forgets a descriptor when it is closed.
NativeClose(w, fds) ==
    [w EXCEPT !.net.open = [fd \in Fds |-> @[fd] /\ fd \notin fds],
              !.net.kernel = [fd \in Fds |-> IF fd \in fds THEN {} ELSE @[fd]]]

\* ReactorCloseInvalidateFd, then the native close.
CloseSocket(w, fd) ==
    NativeClose(FoldLeft(EndInvalid, Reserved(w, Cardinality(Listed(w))),
                         InOrder(WaitsOn(w, fd))), {fd})

-----------------------------------------------------------------------------
(* Timers.                                                                 *)

\* Signed addition that wraps, as the addition of time points does.
Wrapped(n) == IF n > MaxNs THEN n - 2 * (MaxNs + 1) ELSE n

\* MakeTimerDeadline: the logical deadline saturates.
MakeTimerDeadline(w, ns) ==
    IF ns > 0 /\ w.clock.logical > MaxNs - ns THEN [wall |-> MaxNs, ns |-> MaxNs]
    ELSE [wall |-> Wrapped(w.clock.now + ns), ns |-> w.clock.logical + ns]

\* TimerStorePush of a timer of task t on wait id.
TimerStorePush(w, kind, t, id, deadline) ==
    [w EXCEPT !.timers = @ \cup {[kind |-> kind, task |-> t, wait |-> id,
                                  wall |-> deadline.wall, ns |-> deadline.ns,
                                  seq |-> w.ids.timer]},
              !.ids.timer = @ + 1]

TimerBefore(a, b) == a.ns < b.ns \/ (a.ns = b.ns /\ a.seq < b.seq)

\* Slip: the timer of a group is taken for the timer of a wait.
WakeTimeoutSingle(w, x) == CleanupWait(w, Cleanup(x.wait, "IoTimedOut", "None"))

\* WakeReactorTimeout and WakeReactorManyTimeout.
WakeTimeout(w, x) ==
    LET group == {i \in DOMAIN w.many.groups : w.many.groups[i].timer = x.wait}
        single == Cleanup(x.wait, "IoTimedOut", "None")
    IN  IF x.kind = "Timeout" THEN CleanupWait(w, single)
        ELSE IF group = {} THEN w
        ELSE CleanupWait(w, [single EXCEPT !.id = 0,
                                !.group = w.many.groups[Smallest(group)].id])
WakeSleeper(w, x) ==
    IF w.tasks[x.task].state # "Sleeping" THEN w
    ELSE [w EXCEPT !.tasks[x.task].state = "Ready", !.ready = Append(@, x.task)]
WakeTimer(w, x) == IF x.kind = "Sleep" THEN WakeSleeper(w, x) ELSE WakeTimeout(w, x)

\* The timer leaves the store and logical time advances to its deadline.
PopTimer(w, x) ==
    [w EXCEPT !.timers = @ \ {x}, !.clock.logical = IF @ < x.ns THEN x.ns ELSE @]

\* Slip: due timers are taken whatever stands before them in the store.
WakeDueTimersUnordered(w) ==
    LET fire(v, x) == IF x.wall > v.clock.now THEN v ELSE WakeTimer(PopTimer(v, x), x)
    IN  FoldLeft(fire, w, SetToSortSeq(w.timers, TimerBefore))

\* WakeDueTimers: the head of the store is popped while its wall deadline has
\* passed; a timer behind one that is not due waits for it.
WakeDueTimers(w) ==
    LET early(v, x) == \E y \in v.timers : (y = x \/ TimerBefore(y, x)) /\ y.wall > v.clock.now
        fire(v, x) == IF early(v, x) THEN v ELSE WakeTimer(PopTimer(v, x), x)
    IN  FoldLeft(fire, w, SetToSortSeq(w.timers, TimerBefore))

-----------------------------------------------------------------------------
(* Draining ready events.                                                  *)

Expand(waits, disposition) ==
    LET order == InOrder(waits)
    IN  [i \in DOMAIN order |-> [id |-> order[i].id, task |-> order[i].task,
                                 fd |-> order[i].fd, what |-> disposition]]

\* The prefix a drain takes: the budget, extended until no entry left behind
\* shares a descriptor with an invalid entry taken, or a group with any.
TakenPrefix(w, ordered, budget) ==
    LET group(i) == w.tasks[ordered[i].task].source
        bound(i, j) == \/ ordered[i].what = "Invalid" /\ ordered[i].fd = ordered[j].fd
                       \/ group(i) # 0 /\ group(i) = group(j)
        closed(n) == \A i \in 1..n : \A j \in (n + 1)..Len(ordered) : ~bound(i, j)
    IN  IF Len(ordered) <= budget THEN Len(ordered)
        ELSE Smallest({n \in budget..Len(ordered) : closed(n)})

\* ReactorBuildDrainBatch: the waits of a batch leave the registry, then each
\* descriptor's registration follows the interest that is left.
BuildDrainBatch(w, ordered) ==
    LET gone == {e.id : e \in ToSet(ordered)}
        touched(fds, e) == IF Contains(fds, e.fd) THEN fds ELSE Append(fds, e.fd)
        collect(v, fd) == CollectForWaitRemove(v, fd, Interest(w, fd))
    IN  Tidy(FoldLeft(collect,
                      [Reserved(w, Len(ordered)) EXCEPT
                          !.ok = TRUE, !.reactor.waits = {x \in @ : x.id \notin gone}],
                      FoldLeft(touched, <<>>, ordered)))

\* ReactorChangeQueueAcknowledgeInvalid: the refused change heads the queue.
AcknowledgeInvalid(w, token) ==
    LET front == Head(w.reactor.changes)
    IN  IF ~w.ok \/ token = <<>> THEN w
        ELSE IF /\ WaitsOn(w, token[1]) = {} /\ w.reactor.changes # <<>>
                /\ ~front.remove /\ front.fd = token[1] /\ front.gen = token[2]
        THEN [w EXCEPT !.reactor.changes = DropStrict(@, {token[1]})]
        ELSE Fails(w)

\* A thread outside the scheduler closes a socket in the middle of a drain: at
\* moment 0 before the poll's result is looked at, at 1 before the batch takes
\* its leases, at i + 1 before entry i of the batch is looked at; the native
\* close of a leased socket waits for the batch.
ClosedAt(poll, moment) == IF poll.moment = moment THEN poll.closes ELSE {}
Retired(poll, i) == IF poll.moment \in 2..(i + 1) THEN poll.closes ELSE {}

\* Every entry is cleaned up, siblings and timers included; a close that began
\* under the leases has retired the generations of some sockets, ...
ReadyCode(clean, e, retired) ==
    IF ~clean \/ e.what = "PollFailed" THEN "IoPollFailed"
    ELSE IF e.what = "Invalid" \/ e.fd \in retired THEN "IoFdInvalid" ELSE "Ok"
Coded(w, code) ==
    [w EXCEPT !.codes = Append(@, IF w.ok THEN code ELSE "IoPollFailed")]

\* Slip: the event that ends a group is not stored.
CleanEntryNoEvent(w, e, code) ==
    Coded(CleanupRemovedWait(w, e, [Cleanup(e.id, code, "IfPresent") EXCEPT
                                       !.wake = FALSE]), code)
CleanEntry(w, e, code) ==
    Coded(CleanupRemovedWait(w, e, [Cleanup(e.id, code, "IfPresent") EXCEPT
                                       !.store = TRUE, !.wake = FALSE]), code)
CleanBatch(w, ordered, poll) ==
    LET clean(v, i) == CleanEntry(v, ordered[i],
                                  ReadyCode(w.ok, ordered[i], Retired(poll, i)))
    IN  FoldLeft(clean, [w EXCEPT !.codes = <<>>], [i \in DOMAIN ordered |-> i])

\* ... before the first owner is woken.
WakeAnyway(w, t, code) ==
    IF w.ok \/ w.tasks[t].state # "IoBlocked" THEN w
    ELSE WakeTask([w EXCEPT !.ok = TRUE], t, code)
WakeEntry(w, e, code) ==
    WakeAnyway(CleanupRemovedWait(w, e, [Cleanup(e.id, code, "None") EXCEPT
                                            !.siblings = FALSE]), e.task, code)
WakeBatch(w, ordered) ==
    LET wake(v, i) == WakeEntry(v, ordered[i], v.codes[i])
    IN  FoldLeft(wake, w, [i \in DOMAIN ordered |-> i])

\* DrainReactorReadyBatch, with a lease on the socket of every entry.
ApplyBatch(w) == IF w.ok THEN BackendApplyChanges(w) ELSE w
DrainReactorReadyBatch(w, ordered, token, poll) ==
    IF \E e \in ToSet(ordered) : \A x \in WaitOf(w, e.id) : ~IsCurrent(w, x)
    THEN CleanupInvalidWaits(w)
    ELSE WakeBatch(CleanBatch(ApplyBatch(AcknowledgeInvalid(
             BuildDrainBatch(w, ordered), token)), ordered, poll), ordered)

\* What the kernel's poll returned, and the socket closed meanwhile, if any.
PollOutcomes ==
    LET closes == {{}} \cup {{fd} : fd \in {x \in OutsideFds : net.open[x]}}
    IN  {poll \in [result : IF net.up THEN {"Success"} ELSE {"Success", "Invalid", "Failed"},
                   events : SUBSET UNION {{fd} \X Interest(world, fd) : fd \in Fds},
                   closes : closes, moment : 0..(WaitCapacity + 1)] :
            poll.closes = {} => poll.moment = 0}
Quiet == [result |-> "Success", events |-> {}, closes |-> {}, moment |-> 0]

\* The ready entries after the changes were applied with result w.
PolledEvents(w, poll) ==
    LET match(x) == \E i \in x.interest \cap w.net.kernel[x.fd] : <<x.fd, i>> \in poll.events
    IN  CASE w.applied = "Invalid" -> Expand(WaitsOn(w, w.token[1]), "Invalid")
          [] w.applied = "Failed" \/ poll.result = "Failed" ->
                 Expand(w.reactor.waits, "PollFailed")
          [] poll.result = "Invalid" -> Expand(w.reactor.waits, "Invalid")
          [] OTHER -> Expand({x \in w.reactor.waits : match(x)}, "Ready")

\* The first n entries are drained, the rest wait in the backlog.
TakeBatch(w, ordered, n, token) ==
    [w EXCEPT !.batch = SubSeq(ordered, 1, n), !.token = token,
              !.reactor.backlog = SubSeq(ordered, n + 1, Len(ordered))]
SelectBatch(w, events, token, budget) ==
    LET live(e) == WaitOf(w, e.id) # {}
        ordered == SelectSeq(events, live)
    IN  IF ~w.all THEN w
        ELSE TakeBatch(w, ordered, TakenPrefix(w, ordered, budget), token)

DrainBudget(w) == Lower(ReadyBudget, TaskCapacity - Len(w.ready))

\* DrainReadyReactor: what was polled is selected and drained, ...
DrainBatch(w, poll) ==
    IF w.batch = <<>> THEN w
    ELSE NativeClose(DrainReactorReadyBatch(w, w.batch, w.token, poll),
                     Retired(poll, WaitCapacity))
DrainEvents(w, events, poll) ==
    IF events = <<>> THEN NativeClose(w, ClosedAt(poll, 0))
    ELSE DrainBatch(NativeClose(
            SelectBatch(CleanupInvalidWaits(NativeClose(w, ClosedAt(poll, 0))),
                        events, w.token, DrainBudget(w)),
            ClosedAt(poll, 1)), poll)
DrainPolled(w, poll) ==
    IF w.polls THEN DrainEvents(w, PolledEvents(w, poll), poll) ELSE w

\* ... once the removals put off are flushed and the changes applied, unless
\* the backlog has entries left ...
DrainFlushed(w, poll) ==
    LET backlog == w.reactor.backlog
    IN  IF ~w.ok THEN w
        ELSE IF w.reactor.waits = {}
        THEN IF w.reactor.changes = <<>> THEN w ELSE BackendApplyChanges(w)
        ELSE IF Len(w.ready) > 1 \/ DrainBudget(w) <= 0 THEN w
        ELSE IF backlog # <<>>
        THEN DrainBatch(NativeClose(
                TakeBatch(w, backlog, Lower(DrainBudget(w), Len(backlog)), <<>>),
                ClosedAt(poll, 1)), poll)
        ELSE [BackendApplyChanges(w) EXCEPT !.polls = TRUE]

\* ... or some wait's socket is gone.
DrainChecked(w, poll) ==
    IF ~w.all \/ w.hit THEN w
    ELSE DrainFlushed(IF w.ready = <<>> THEN FlushDeferredRemoves(w) ELSE w, poll)
DrainUpToPoll(w, poll) == DrainChecked(CleanupInvalidWaits(w), poll)
ComesToPoll(w) == w.polls /\ w.applied = "Success"
DrainReadyReactor(w, poll) == DrainPolled(DrainUpToPoll(w, poll), poll)

-----------------------------------------------------------------------------
(* Primitives: the world left, with its result in code; "Suspend" parks.   *)

Decision(w, code) == [w EXCEPT !.code = code]
TakeWaitIds(w, n) == [w EXCEPT !.ids.wait = @ + n]
Blocked(w, t, state, id) ==
    Decision([w EXCEPT !.tasks[t].state = state, !.tasks[t].wait = id], "Suspend")

\* What the probe of the descriptors finds before a wait is parked.
Probes == IF net.up THEN {"Ready", "NotReady"} ELSE {"Failed"}

NoTimeout == -1  \* a wait on many without a timeout only polls
Timed == -1      \* the frame of a timed wait

NewWait(w, id, t, q, stop) ==
    [id |-> id, task |-> t, fd |-> q.fd, interest |-> q.interest,
     gen |-> w.net.gen[q.fd], stop |-> stop]
AddWait(w, x) == CollectForWaitAdd(RegistryAddWait(w, x), x)

\* The end of a park on wait x, which was added to the registry or not.
ParkWait(w, t, o, x) ==
    IF ~w.ok THEN Decision(RegistryRemoveWait(w, x.id), "WaitCapacityExceeded")
    ELSE IF o.kind = "wait" THEN Blocked(w, t, "IoBlocked", x.id)
    ELSE Blocked(TimerStorePush([w EXCEPT !.tasks[t].io = "Ok", !.tasks[t].frame = Timed],
                                "Timeout", t, x.id, MakeTimerDeadline(w, o.ns)),
                 t, "IoBlocked", x.id)
ProbeWait(w, t, o, q, probe) ==
    LET timed == o.kind = "timed"
    IN  IF ~w.all \/ probe = "Failed" THEN Decision(w, "IoPollFailed")
        ELSE IF probe = "Ready" THEN Decision(w, "Ok")
        ELSE IF timed /\ o.ns = 0 THEN Decision(w, "IoTimedOut")
        ELSE IF timed /\ Cardinality(w.timers) >= TimerCapacity
        THEN Decision(w, "TimerCapacityExceeded")
        ELSE IF Cardinality(w.reactor.waits) >= WaitCapacity
        THEN Decision(w, "WaitCapacityExceeded")
        ELSE ParkWait(AddWait(TakeWaitIds(w, 1), NewWait(w, w.ids.wait, t, q, o.stop)),
                      t, o, NewWait(w, w.ids.wait, t, q, o.stop))

\* WaitReactor ("wait") and WaitReactorTimed ("timed").
WaitReactor(w, t, o, probe) ==
    LET q == o.requests[1]
    IN  IF ~w.net.open[q.fd] THEN Decision(w, "IoFdInvalid")
        ELSE IF o.kind = "timed" /\ o.stop /\ stopped THEN Decision(w, "TaskCancelled")
        ELSE ProbeWait(CleanupStaleWaits(w, q.fd), t, o, q, probe)

\* ReadyManyParkPublishGroup.
PublishGroup(w, t, timer, o) ==
    LET n == Len(o.requests)
        g == w.ids.group
        at == Len(w.many.requests)
        request(i) == [group |-> g, wait |-> w.ids.wait + i - 1, fd |-> o.requests[i].fd,
                       interest |-> o.requests[i].interest, slot |-> i - 1]
    IN  [TakeWaitIds(w, n) EXCEPT
            !.ids.group = @ + 1,
            !.many.groups = Append(@, [id |-> g, task |-> t, timer |-> timer,
                                       first |-> at, count |-> n, max |-> o.max,
                                       stored |-> 0, exhausted |-> FALSE,
                                       completed |-> FALSE]),
            !.many.requests = @ \o [i \in 1..n |-> request(i)],
            !.many.slots = SubSeq(@, 1, at) \o [i \in 1..n |-> 0]
                               \o SubSeq(@, at + 1, Len(@))]

\* ParkRegisterWaits: stops at the first wait that cannot be registered.
RegisterWaits(w, t, stop) ==
    LET register(v, q) == IF v.ok THEN AddWait(v, NewWait(w, q.wait, t, q, stop)) ELSE v
    IN  FoldLeft(register, w, ManyRequests(w, Last(w.many.groups)))

\* Slip: a park that failed half way leaves the waits it registered.
RollbackNothing(w, g) == w

\* RollbackPublishedPark.
RollbackPublishedPark(w, g) ==
    CleanupWait(w, [Cleanup(0, "WaitCapacityExceeded", "None") EXCEPT
                        !.group = g, !.erase = TRUE, !.wake = FALSE])

\* The park of the group just published, whose waits were registered or not.
ParkMany(w, t, o, g, timer) ==
    IF ~w.ok THEN Decision(RollbackPublishedPark(w, g), "WaitCapacityExceeded")
    ELSE Blocked(TimerStorePush([w EXCEPT !.tasks[t].source = g, !.tasks[t].frame = g,
                                          !.tasks[t].io = "Ok"],
                                "ManyTimeout", t, timer, MakeTimerDeadline(w, o.ns)),
                 t, "IoBlocked", g)
ProbeMany(w, t, o, probe) ==
    IF ~w.all \/ probe = "Failed" THEN Decision(w, "IoPollFailed")
    ELSE IF probe = "Ready" \/ o.ns = NoTimeout THEN Decision(w, "Ok")
    ELSE IF o.ns = 0 THEN Decision(w, "IoTimedOut")
    ELSE IF Cardinality(w.reactor.waits) + Len(o.requests) > WaitCapacity
    THEN Decision(w, "WaitCapacityExceeded")
    ELSE IF Cardinality(w.timers) >= TimerCapacity
    THEN Decision(w, "TimerCapacityExceeded")
    ELSE ParkMany(RegisterWaits(PublishGroup(TakeWaitIds(w, 1), t, w.ids.wait, o),
                                t, o.stop),
                  t, o, w.ids.group, w.ids.wait)

\* WaitReactorMany: PrepareEntry, TryImmediate, Park.
WaitReactorMany(w, t, o, probe) ==
    LET reqs == o.requests
        prepare(v, q) == IF v.all THEN CleanupStaleWaits(v, q.fd) ELSE v
    IN  IF Len(reqs) > WaitCapacity THEN Decision(w, "WaitCapacityExceeded")
        ELSE IF \E i \in DOMAIN reqs : ~w.net.open[reqs[i].fd]
        THEN Decision(w, "IoFdInvalid")
        ELSE IF o.stop /\ stopped THEN Decision(w, "TaskCancelled")
        ELSE IF \E i, j \in DOMAIN reqs : i # j /\ reqs[i] = reqs[j]
        THEN Decision(w, "TaskInvalid")
        ELSE ProbeMany(FoldLeft(prepare, w, reqs), t, o, probe)

\* Sleep.
Sleep(w, t, o) ==
    IF o.ns = 0 THEN Decision(w, "Ok")
    ELSE IF Cardinality(w.timers) >= TimerCapacity
    THEN Decision(w, "TimerCapacityExceeded")
    ELSE Blocked(TimerStorePush(TakeWaitIds(w, 1), "Sleep", t, w.ids.wait,
                                MakeTimerDeadline(w, o.ns)),
                 t, "Sleeping", w.ids.wait)

\* ParkChannel, seen from here: channel ids and group ids both start at one.
ChannelId == 1
ParkChannel(w, t) ==
    Blocked([TakeWaitIds(w, 1) EXCEPT !.tasks[t].source = ChannelId],
            t, "ChannelBlocked", w.ids.wait)

Tried(w) == Decision(w, IF w.all THEN "Ok" ELSE "IoPollFailed")

\* RequestStop: the waits that carry the token, in task and id order.
RequestStop(w) ==
    LET before(a, b) == a.task < b.task \/ (a.task = b.task /\ a.id < b.id)
        cancel(v, x) ==
            Tally(CleanupWait(v, [Cleanup(x.id, "TaskCancelled", "Required") EXCEPT
                                     !.group = v.tasks[x.task].source]))
    IN  IF stopped THEN Decision(w, "Ok")
        ELSE Tried(FoldLeft(cancel, w, SetToSortSeq({x \in w.reactor.waits : x.stop}, before)))

\* Close of a socket by a task.
Close(w, fd) ==
    IF w.net.open[fd] THEN Tried(CloseSocket(w, fd)) ELSE Decision(w, "IoFdInvalid")

\* ReadyManyAccess::Resume of group g by its task.
ResetMany(w, t, code) ==
    Decision([w EXCEPT !.tasks[t].wait = 0, !.tasks[t].source = 0,
                       !.tasks[t].io = "Ok", !.tasks[t].frame = 0],
             IF code = "Ok" /\ ~w.ok THEN "IoPollFailed" ELSE code)
FinishMany(w, t, g, code) ==
    ResetMany(CleanupWait(w, [Cleanup(0, code, "None") EXCEPT
                                 !.group = g, !.erase = TRUE, !.wake = FALSE]), t, code)
ResumeMany(w, t, g) ==
    LET at == GroupAt(w, g)
        io == w.tasks[t].io
    IN  IF io = "TaskCancelled" THEN ResetMany(w, t, io)
        ELSE IF at = {} THEN ResetMany(w, t, "TaskContextMissing")
        ELSE FinishMany(w, t, g, IF io = "Ok" /\ EventSlots(w, w.many.groups[Smallest(at)]) = {}
                                 THEN "IoPollFailed" ELSE io)

\* The end of the await a task was suspended in.
Resume(w, t) ==
    IF w.tasks[t].frame > 0 THEN ResumeMany(w, t, w.tasks[t].frame)
    ELSE IF w.tasks[t].frame = Timed
    THEN Decision([w EXCEPT !.tasks[t].io = "Ok", !.tasks[t].wait = 0,
                            !.tasks[t].frame = 0], w.tasks[t].io)
    ELSE Decision([w EXCEPT !.tasks[t].io = "Ok"], w.tasks[t].io)

\* The next ready task, if there is one, runs.
RunReady(w) ==
    LET t == Head(w.ready)
    IN  IF w.ready = <<>> THEN Decision(w, "Idle")
        ELSE Resume([w EXCEPT !.ready = Tail(@), !.tasks[t].state = "Running",
                              !.runs = t], t)

-----------------------------------------------------------------------------
(* Actions.                                                                *)

NewTask == [state |-> "Ready", wait |-> 0, source |-> 0, io |-> "Ok", frame |-> 0]

Init ==
    /\ reactor = [waits |-> {}, fds |-> [fd \in Fds |-> Unlisted], changes |-> <<>>,
                  backlog |-> <<>>, room |-> 2 * WaitCapacity]
    /\ many = [groups |-> <<>>, requests |-> <<>>, slots |-> <<>>]
    /\ timers = {}
    /\ clock = [now |-> 0, logical |-> 0]
    /\ tasks = [t \in Tasks |-> NewTask]
    /\ ready = SetToSortSeq(Tasks, <)
    /\ ids = [wait |-> 1, group |-> 1, timer |-> 1]
    /\ net = [gen |-> [fd \in Fds |-> 1], open |-> [fd \in Fds |-> TRUE],
              kernel |-> [fd \in Fds |-> {}], known |-> <<>>, up |-> TRUE]
    /\ stopped = FALSE
    /\ body \in Programs
    /\ cur = 0 /\ phase = "Timers" /\ faults = 0 /\ reported = {}

\* The running task takes the next operation of its body.
Does(t, kinds) == cur = t /\ body[t] # <<>> /\ Head(body[t]).kind \in kinds
Takes(t, w) ==
    /\ Becomes(w)
    /\ body' = [body EXCEPT ![t] = Tail(@)]
    /\ cur' = IF w.code = "Suspend" THEN 0 ELSE t
    /\ reported' = IF w.code = "Suspend" THEN reported ELSE reported \cup {w.code}
    /\ UNCHANGED <<phase, faults>>

TaskWaits(t) ==
    /\ Does(t, {"wait", "timed"})
    /\ \E probe \in Probes :
          \E w \in {WaitReactor(world, t, Head(body[t]), probe)} : Takes(t, w)
    /\ UNCHANGED stopped

TaskWaitsMany(t) ==
    /\ Does(t, {"many"})
    /\ \E probe \in Probes :
          \E w \in {WaitReactorMany(world, t, Head(body[t]), probe)} : Takes(t, w)
    /\ UNCHANGED stopped

TaskSleeps(t) ==
    /\ Does(t, {"sleep"})
    /\ Takes(t, Sleep(world, t, Head(body[t])))
    /\ UNCHANGED stopped

TaskParksOnChannel(t) ==
    /\ Does(t, {"channel"})
    /\ Takes(t, ParkChannel(world, t))
    /\ UNCHANGED stopped

TaskStops(t) ==
    /\ Does(t, {"stop"})
    /\ \E w \in {RequestStop(world)} : Takes(t, w)
    /\ stopped' = TRUE

TaskCloses(t) ==
    /\ Does(t, {"close"})
    /\ \E w \in {Close(world, Head(body[t]).requests[1].fd)} : Takes(t, w)
    /\ UNCHANGED stopped

TaskExits(t) ==
    /\ cur = t /\ body[t] = <<>>
    /\ tasks' = [tasks EXCEPT ![t].state = "Done"]
    /\ cur' = 0
    /\ UNCHANGED <<reactor, many, timers, clock, ready, ids, net, stopped, body,
                   phase, faults, reported>>

\* A step of the progress loop: PopReady (due timers, ready events, the next
\* task), and when no task is ready WaitUntilProgressReady.
Unfinished == \E t \in Tasks : tasks[t].state # "Done"

PopReadyTimers ==
    /\ cur = 0 /\ phase = "Timers" /\ Unfinished
    /\ \E w \in {WakeDueTimers(world)} : Becomes(w)
    /\ phase' = "Drain"
    /\ UNCHANGED <<cur, reported, stopped, body, faults>>

PopReadyDrain ==
    /\ cur = 0 /\ phase = "Drain"
    /\ \E poll \in PollOutcomes : \E w \in {DrainReadyReactor(world, poll)} : Becomes(w)
    /\ phase' = "Pop"
    /\ UNCHANGED <<cur, reported, stopped, body, faults>>

PopReadyTask ==
    /\ cur = 0 /\ phase = "Pop"
    /\ \E w \in {RunReady(world)} :
          /\ Becomes(w) /\ cur' = w.runs
          /\ reported' = IF w.runs = 0 THEN reported ELSE reported \cup {w.code}
    /\ phase' = IF ready = <<>> THEN "Block" ELSE "Timers"
    /\ UNCHANGED <<stopped, body, faults>>

\* The first timer of the store is due.
TimerDue ==
    \E x \in timers : x.wall <= clock.now /\ \A y \in timers \ {x} : TimerBefore(x, y)

\* With no wait in the registry the root sleeps until the next deadline.
SleepsUntilDeadline ==
    /\ cur = 0 /\ phase = "Block" /\ reactor.waits = {}
    /\ timers = {} \/ TimerDue
    /\ phase' = "Timers"
    /\ UNCHANGED <<reactor, many, timers, clock, tasks, ready, ids, net, stopped, body,
                   cur, faults, reported>>

\* With waits it drains, which comes to the poll and blocks there, ...
BlocksInDrain ==
    /\ cur = 0 /\ phase = "Block" /\ reactor.waits # {}
    /\ \E w \in {DrainUpToPoll(world, Quiet)} : ComesToPoll(w) /\ Becomes(w)
    /\ phase' = "Enter"
    /\ UNCHANGED <<cur, reported, stopped, body, faults>>

\* ... or has something to do before it.
DrainsBeforePoll ==
    /\ cur = 0 /\ phase = "Block" /\ reactor.waits # {}
    /\ \E poll \in PollOutcomes : \E w \in {DrainUpToPoll(world, poll)} :
          ~ComesToPoll(w) /\ Becomes(DrainPolled(w, poll))
    /\ phase' = "Timers"
    /\ UNCHANGED <<cur, reported, stopped, body, faults>>

\* PollReactorPlatform: a poll without a timeout first looks for a registration
\* whose descriptor is closed and reports it instead.  When nothing waits on
\* that descriptor the drain polls again, and finds it again.
Polling == [world EXCEPT !.polls = TRUE]
Gone == LET closed(fd) == ~net.open[fd] IN SelectSeq(net.known, closed)
Rediscovers ==
    timers = {} /\ Gone # <<>> /\ WaitsOn(world, Head(Gone)) = {}

PollEnters ==
    /\ cur = 0 /\ phase = "Enter" /\ ~Rediscovers
    /\ IF timers = {} /\ Gone # <<>>
       THEN /\ \E w \in {DrainEvents(Polling,
                             Expand(WaitsOn(world, Head(Gone)), "Invalid"), Quiet)} :
                  Becomes(w)
            /\ phase' = "Timers"
       ELSE Becomes(world) /\ phase' = "Poll"
    /\ UNCHANGED <<cur, reported, stopped, body, faults>>

\* The poll returns with events or an error, if any comes, ...
PollReports ==
    /\ cur = 0 /\ phase = "Poll"
    /\ \E poll \in PollOutcomes :
          /\ PolledEvents(Polling, poll) # <<>>
          /\ \E w \in {DrainPolled(Polling, poll)} : Becomes(w)
    /\ phase' = "Timers"
    /\ UNCHANGED <<cur, reported, stopped, body, faults>>

\* ... or after TimerBoundIoPollTimeoutMs, which is endless without a timer.
PollTimesOut ==
    /\ cur = 0 /\ phase = "Poll" /\ TimerDue
    /\ phase' = "Timers"
    /\ UNCHANGED <<reactor, many, timers, clock, tasks, ready, ids, net, stopped, body,
                   cur, faults, reported>>

\* A running task or the deadlock wake ends a channel wait.
ChannelWakes(t) ==
    /\ phase = "Timers" /\ tasks[t].state = "ChannelBlocked"
    /\ tasks' = [tasks EXCEPT ![t].state = "Ready"]
    /\ ready' = Append(ready, t)
    /\ UNCHANGED <<reactor, many, timers, clock, ids, net, stopped, body, cur,
                   phase, faults, reported>>

\* Time matters up to the last deadline.
Tick ==
    /\ \E x \in timers : x.wall > clock.now
    /\ clock' = [clock EXCEPT !.now = @ + 1]
    /\ UNCHANGED <<reactor, many, timers, tasks, ready, ids, net, stopped, body,
                   cur, phase, faults, reported>>

\* A thread outside the scheduler closes a socket.
CloseOutside(fd) ==
    /\ fd \in OutsideFds /\ net.open[fd]
    /\ net' = NativeClose(world, {fd}).net
    /\ UNCHANGED <<reactor, many, timers, clock, tasks, ready, ids, stopped, body,
                   cur, phase, faults, reported>>

\* The number of a closed descriptor is given to a new socket.
OpenSocket(fd) ==
    /\ ~net.open[fd] /\ net.gen[fd] < MaxGen
    /\ net' = [net EXCEPT !.open[fd] = TRUE, !.gen[fd] = @ + 1]
    /\ UNCHANGED <<reactor, many, timers, clock, tasks, ready, ids, stopped, body,
                   cur, phase, faults, reported>>

\* The backend fails (registrations, probes and polls), and recovers.
BackendTurns ==
    /\ net.up => faults < MaxFaults
    /\ faults' = IF net.up THEN faults + 1 ELSE faults
    /\ net' = [net EXCEPT !.up = ~@]
    /\ UNCHANGED <<reactor, many, timers, clock, tasks, ready, ids, stopped, body,
                   cur, phase, reported>>

TaskStep(t) ==
    \/ TaskWaits(t) \/ TaskWaitsMany(t) \/ TaskSleeps(t) \/ TaskParksOnChannel(t)
    \/ TaskStops(t) \/ TaskCloses(t) \/ TaskExits(t)

Next ==
    \/ \E t \in Tasks : TaskStep(t) \/ ChannelWakes(t)
    \/ PopReadyTimers \/ PopReadyDrain \/ PopReadyTask \/ SleepsUntilDeadline
    \/ BlocksInDrain \/ DrainsBeforePoll \/ PollEnters \/ PollReports \/ PollTimesOut
    \/ Tick \/ BackendTurns
    \/ \E fd \in Fds : CloseOutside(fd) \/ OpenSocket(fd)

Spec == Init /\ [][Next]_vars

\* The root thread keeps driving the loop while a join is open, a running task
\* reaches its next primitive, and time passes.  Nothing promises that a poll
\* reports: the root stays in it until its timeout, or for ever without one.
\* A turn of the loop is what changes phase, a turn of a task what shortens its
\* body.
LoopTurn ==
    /\ cur = 0 /\ Unfinished
    /\ \/ phase = "Timers" /\ phase' = "Drain"
       \/ phase = "Drain" /\ phase' = "Pop"
       \/ phase = "Pop" /\ phase' = IF ready = <<>> THEN "Block" ELSE "Timers"
       \/ phase = "Block" /\ (reactor.waits = {} => timers = {} \/ TimerDue)
          /\ phase' \in {"Timers", "Enter"}
       \/ phase = "Enter" /\ ~Rediscovers /\ phase' \in {"Timers", "Poll"}
       \/ phase = "Poll" /\ TimerDue /\ phase' = "Timers"
TaskTurn(t) == cur = t /\ body[t] # <<>> /\ body' = [body EXCEPT ![t] = Tail(@)]

FairSpec ==
    /\ Spec
    /\ WF_phase(LoopTurn) /\ WF_vars(Tick)
    /\ \A t \in Tasks : WF_body(TaskTurn(t)) /\ WF_vars(TaskExits(t))

-----------------------------------------------------------------------------
(* Properties.                                                             *)

TimerKinds == {"Sleep", "Timeout", "ManyTimeout"}
Codes == {"Ok", "IoFdInvalid", "IoPollFailed", "IoTimedOut", "TaskCancelled",
          "TaskInvalid", "TaskContextMissing", "WaitCapacityExceeded",
          "TimerCapacityExceeded"}

Phases == {"Timers", "Drain", "Pop", "Block", "Enter", "Poll"}

\* The reactor's state has the shape the code gives it, within its capacities.
TypeOK ==
    /\ \A x \in reactor.waits : x.task \in Tasks /\ x.fd \in Fds /\ x.id < ids.wait
    /\ Cardinality(reactor.waits) <= WaitCapacity
    /\ Cardinality(Listed(world)) <= WaitCapacity
    /\ Cardinality(timers) <= TimerCapacity
    /\ Len(reactor.changes) <= reactor.room
    /\ \A x \in timers : x.kind \in TimerKinds /\ x.wait < ids.wait
    /\ \A t \in Tasks : tasks[t].io \in Codes
    /\ cur \in Tasks \cup {0} /\ phase \in Phases
    /\ reported \subseteq Codes

Single(t) == tasks[t].frame <= 0
GroupOf(t) == {g \in ToSet(many.groups) : g.id = tasks[t].frame}
TimersOn(id) == {x \in timers : x.wait = id}
RequestsOf(g) == ToSet(ManyRequests(world, g))

\* What a blocked task waits for is there: its wait or its whole group, and
\* the timer of a timed one.
Held(t) ==
    CASE tasks[t].state = "IoBlocked" /\ Single(t) ->
             /\ \E x \in WaitOf(world, tasks[t].wait) : x.task = t
             /\ tasks[t].frame = Timed => TimersOn(tasks[t].wait) # {}
      [] tasks[t].state = "IoBlocked" ->
             \E g \in GroupOf(t) :
                /\ ~g.completed /\ tasks[t].source = g.id
                /\ TimersOn(g.timer) # {}
                /\ \A q \in RequestsOf(g) :
                      \E x \in WaitOf(world, q.wait) : x.task = t /\ x.fd = q.fd
      [] tasks[t].state = "Sleeping" -> TimersOn(tasks[t].wait) # {}
      [] tasks[t].state = "Ready" ->
             Cardinality({i \in DOMAIN ready : ready[i] = t}) = 1
      [] OTHER -> TRUE

\* What is there belongs to a task blocked on it.
Owned(x) ==
    /\ tasks[x.task].state = "IoBlocked"
    /\ \/ Single(x.task) /\ tasks[x.task].wait = x.id
       \/ \E g \in GroupOf(x.task) : \E q \in RequestsOf(g) : q.wait = x.id
OwnedTimer(x) ==
    CASE x.kind = "Sleep" -> tasks[x.task].state = "Sleeping" /\ tasks[x.task].wait = x.wait
      [] x.kind = "Timeout" -> WaitOf(world, x.wait) # {}
      [] OTHER -> \E g \in ToSet(many.groups) : g.timer = x.wait /\ ~g.completed

\* However a wait ends (event, timeout, stop, close, failure), exactly one
\* completion reaches its task: a blocked task's wait, group and timer are all
\* present, a woken task is queued once, and nothing of an ended wait stays in
\* the registry, the timer store or the ready backlog to complete it again.
WaitPlaced ==
    /\ \A t \in Tasks : Held(t)
    /\ \A t \in ToSet(ready) : tasks[t].state = "Ready"
    /\ \A x \in reactor.waits : Owned(x)
    /\ \A x \in timers : OwnedTimer(x)
    /\ \A e \in ToSet(reactor.backlog) :
          \E x \in WaitOf(world, e.id) : x.task = e.task /\ x.fd = e.fd

\* The groups' spans of the request and slot vectors stay disjoint and in
\* step while groups are published, erased and moved: a request lies in its
\* group's span at its slot, and an event is stored for the group it is of.
GroupSpans ==
    /\ Len(many.slots) = Len(many.requests)
    /\ \A i \in DOMAIN many.requests :
          Cardinality({g \in ToSet(many.groups) : g.first < i /\ i <= g.first + g.count}) = 1
    /\ \A g \in ToSet(many.groups) :
          /\ g.first + g.count <= Len(many.requests)
          /\ \A i \in 1..g.count :
                LET q == many.requests[g.first + i]
                    slot == many.slots[g.first + i]
                IN  q.group = g.id /\ q.slot = i - 1 /\ slot \in {0, g.id}
          /\ g.stored = Cardinality(EventSlots(world, g)) /\ g.stored <= g.max
          /\ g.completed => tasks[g.task].state \in {"Ready", "Running"}

\* What the kernel will watch a descriptor for once the queue is applied.
Watched(fd) ==
    LET on(c) == c.fd = fd
        pending == SelectSeq(reactor.changes, on)
    IN  IF pending = <<>> THEN net.kernel[fd] ELSE Last(pending).interest

\* The kernel watches, or will once the queued changes are applied, what the
\* waits on an open socket ask for: no wait sleeps on a descriptor that the
\* poller does not watch, across interest changes, removals that are put off
\* and cancelled, descriptor numbers used again, and failed applications.
RegistrationCovers ==
    \A fd \in Fds :
        (net.open[fd] /\ \A x \in WaitsOn(world, fd) : IsCurrent(world, x))
            => Interest(world, fd) \subseteq Watched(fd)

\* Logical time never passes a pending deadline, so that a timer never fires
\* at a logical time before the one it is stamped with.
LogicalOrder == \A x \in timers : x.ns >= clock.logical

\* A wait fails only for a failure: while the backend has not failed no task
\* sees a failed poll, a group woken without an event, or a vanished group.
NoSpuriousFailure ==
    faults = 0 => reported \cap {"IoPollFailed", "TaskContextMissing"} = {}

\* Waits end: no task sleeps or waits with a timeout for ever, whatever the
\* kernel reports, and none waits for ever on a socket that was closed, unless
\* the root is held in a poll without a timeout: a close by another thread does
\* not wake it there, and the wait ends only with the poll.
WaitsEnd ==
    <>[](\A t \in Tasks :
            /\ tasks[t].state # "Sleeping"
            /\ tasks[t].state = "IoBlocked" =>
                  /\ tasks[t].frame = 0
                  /\ \/ \A x \in WaitOf(world, tasks[t].wait) : IsCurrent(world, x)
                     \/ timers = {} /\ phase \in {"Enter", "Poll"})

\* The losing side of a wait is removed before its task resumes, and the
\* winning side resumes it: a blocked task's wait is registered.
WaitHasWaker ==
    \A t \in Tasks :
        (tasks[t].state = "IoBlocked" /\ Single(t)) => WaitOf(world, tasks[t].wait) # {}

=============================================================================
