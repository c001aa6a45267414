# A TLA+ model of the runD task scheduler

runD is a deterministic runtime in C++20. Its core is the task scheduler of
`node/src/runtime/task/scheduler`: tasks calculate on several worker lanes at
once, and everything observable they do takes effect in one canonical order.
This directory models that core: the commit order, the progress loop, channels,
the reactor with its timers, the waits for host I/O and compute work, and the
stores a task occupies while it lives.

Paths below are relative to `src/`; `S/` stands for
`node/src/runtime/task/scheduler/`, `H/` for `node/include/rund/task/channel/`
and `C/` for `node/src/runtime/compute/`.

## Inventory

### The system and its parts

| part | state | operations | what is hard | what makes it correct |
|---|---|---|---|---|
| Commit tickets, lane range (`S/task/commit.cpp`, `S/lane/segment`) | next ticket to issue and to commit; the words of the lane range (active, first, frontier, end, one completion word per ticket, waiters) | issue, wait, release, complete, advance the frontier, tear the range down | lock-free: several lanes complete and advance at once, waiters sleep on the frontier word | one holder of the turn, tickets in order, no lost wake, the range ends once |
| Progress loop (`S/progress`, `S/core/spawn`, `S/state`, `S/task/retire.cpp`) | task records in reused slots, ready queue, join waits, timers, scopes, id reservation | spawn, join, scope, drain, step, await, yield, sleep, deadlock wake, retire | order of wakes, slots going to later tasks, several joiners, `EndScope` steps only tasks of its own scope, queues at capacity | no task lost or queued twice, joins report their target, the root always returns |
| Channels (`H/`, `S/channel`) | ring buffer, two intrusive waiter queues indexed by record slot, rendezvous values, counted wakes | send, recv, close, abandon, resume | waits outlive the state they were queued in; deadlock wake; slot reuse; release of the scheduler's record | FIFO, each value handed over once, no missed match, release only when quiet |
| Reactor (`S/reactor`, `node/src/runtime/reactor`) | registry of waits and descriptors, change queue, ready backlog, groups of waits on many with their request and event spans | wait, timed wait, wait on many, apply changes, drain under a budget, end by event, timeout, stop, close or failure | five ways to end one wait, in any order; descriptor numbers used again; refused changes; erasing a group moves the others | one completion per wait and nothing of it left; the poller watches what is waited for |
| Timer store (`S/timer`) | deadlines in logical and wall time, index by wait id | add, cancel, pop due | saturation of the largest duration, wall clock overflow | logical time never passes a pending deadline |
| Cancellation (`S/cancel`) | stop sources, tokens in waits | request, refuse at admission | a request while waits, groups and events are under way | each wait ended once |
| External park and wake, direct jobs (`S/task/external`) | a four-valued phase word per await, wake list per lane, jobs in flight | park in two halves, complete, wake, dispatch, release | completion between the halves of the park; the root asleep on the jobs in flight | no lost completion, no wake of a finished task, drain ends |
| Lane workers (`S/lane/worker`, `S/lane/completion.cpp`) | regular job, wake list, direct list, mailbox, compute work | publish, claim, run, complete, stop | several sources of jobs, each with a ticket | jobs in ticket order, each once |
| Host I/O pool (`S/host/io`) | slots with sequences, free list, FIFO, payload bytes, one worker | admit, execute, complete, take, release, stop | slots reused before the worker saw the release; refusal after the claim | operations in submission order, the worker never waits in vain |
| Compute coordinator (`C/`) | remaining lanes of a CPU pass, device operation, phase word | submit, count down, await, re-arm | last lane or submitter completes while the coordinator parks; the word is used again | the await ends after its own pass |
| Ready queue (`S/state/storage/ready/queue.hpp`) | ready and free list threaded through one array | push at both ends, pop, take first match, clear | removal in the middle and at the ends | is a bounded FIFO with removal |
| Task index (`S/state/task/index.cpp`) | open addressing table with tombstones | insert, find, forget, rebuild | tombstones fill the table; rebuild while the record still carries its id | lookups exact, probes end |
| Completion pool (`S/task/completion`) | cells with a generation, a phase and two owners; free list; references | claim, transition, prepare, publish, terminate, release by either owner, wait | owners on two threads let go in either order; a handle of an earlier generation | a handle reads its own task's outcome, cells come back |
| Frame arena, callable pool (`S/task`) | slots | claim, release | - | released with the record |
| Evidence (`S/core/record`) | hashes, observations, metrics | record | order of records | order is the commit order |
| Replay (`node/src/runtime/replay`, `S/core/replay`) | recorded inputs and checkpoints | admit, compare, checkpoint | divergence part way | replay equals record |
| Runtime, numeric compute, accelerators, kernel, cluster, math, packaging | configuration, numeric kernels, plans | - | mostly data | mostly pure functions |

The root thread drives progress inside `join`, `EndScope` and `Drain`. A step
looks at due timers, drains the reactor, takes tasks from the ready queue and
hands them to lanes, as single quanta, as a batch with one ticket each, or as
lane-owned segments under one ticket range. A task's primitive (spawn, await,
channel operation, socket wait) first acquires the task's ticket, so it changes
scheduler state alone and in ticket order. A task that waits for host I/O or
compute work is woken by a foreign thread, which links it straight into its
lane's wake list as a *direct job* with a ticket of its own; when nothing is
ready the root sleeps until no such job is in flight. Task records live in slots
that later tasks reuse; channels, timers, socket waits and joins refer to tasks
by id and to per-task state by slot.

`PROJECT.json` lists the hazards this gives rise to, each at its line.

### Modules

| module | models | used by |
|---|---|---|
| `LaneCommit` | commit tickets and the lane range, one action per atomic access | `MCLaneCommit`, `LaneCommit_proofs` |
| `LaneCommit_proofs` | its types and its inductive invariant; order and exclusion of turns, no lost completion | - |
| `TaskScheduler` | the progress loop: spawn, step, join, scope, drain, await, timers | `MCTaskScheduler`, `TaskScheduler_proofs` |
| `Subsequence` | `Keep(q, S)`: a queue without the entries that are not in S | `TaskScheduler`, `Channel`, `ExternalIo`, `SequenceLemmas` |
| `SequenceLemmas` | what `Keep`, appends, cuts, removals and reversals do to a sequence without repetitions; induction on naturals | the proofs of `TaskScheduler`, `TaskStorage`, `Channel` and `ExternalIo` |
| `TaskScheduler_proofs` | its inductive invariant, kept by each step, and the theorems | - |
| `Channel` | one channel and the scheduler side of its waits | `MCChannel`, `Channel_proofs` |
| `Channel_proofs` | its inductive invariant and the six invariants the run checks | - |
| `Reactor` | socket waits, groups, registration, poller, timers, stop, close | `MCReactor` |
| `ExternalIo` | external parks, direct jobs, lane claims, host I/O pool and worker, compute coordinator, drain and reset | `MCExternalIo`, `ExternalIo_proofs` |
| `ExternalIo_proofs` | its inductive invariant and the four invariants the run checks | - |
| `TaskIndex` | the open addressing table | `TaskStorage` |
| `ReadyQueue` | the linked lists; implements `ReadyFifo` | `TaskStorage` |
| `ReadyFifo` | what the ready queue promises: a bounded sequence | `ReadyQueue` |
| `CompletionPool` | completion cells, their producers and observers | `TaskStorage` |
| `TaskStorage` | composes the three stores: what a spawn takes and a quantum, a retirement and a reset give back | `MCTaskStorage`, `TaskStorage_proofs` |
| `TaskStorage_proofs` | completion cells: owners, references, outcomes and sleepers | `TaskStorageQueue_proofs` |
| `TaskStorageQueue_proofs` | the ready list implements `ReadyFifo` | `TaskStorageIndex_proofs` |
| `TaskStorageIndex_proofs` | the task index is exact; the types of the stores | - |

The modules rest on one another by argument. `LaneCommit` shows that effects
happen one task at a time in ticket order, which is why `TaskScheduler`,
`Channel`, `Reactor` and the bodies in `ExternalIo` may take an operation of a
task as one action. `TaskScheduler` uses the ready queue as a sequence and a map
from ids to slots; `TaskStorage` instantiates the list, the index and the
completion cells in one specification, drives them with the spawns, picks,
yields, wakes, restores, retirements and reset of one scheduler, and shows that
they are such a sequence and such a map.

## How state and actions correspond to the code

**LaneCommit.** Variables `active`, `first`, `frontier`, `end`, `waiters` and
`commitLanes` are the `lane_commit_*` words of `SchedulerBatchState`; `next` is
the ticket `commit_mutex` guards. `pc[l]` is where lane `l` stands in
`WaitLaneCommit`, `AdvanceLaneCommit` and `CompleteLaneCommit`, and `seenFirst`,
`seenEnd`, `seenFrontier`, `cand` are that function's locals. Each load, store,
fetch-and-add and compare-exchange is an action, the weak one with its spurious
failure. The bodies of leaves are `pure` (publish their completion without
waiting), `reject` (a forbidden primitive, which fails the leaf at its turn) and
`effect` (a primitive that traps out of the segment). Memory is sequentially
consistent: the acquire, release and relaxed orders are not told apart.

**TaskScheduler.** `batch` holds the tasks dispatched by a step; they run one
after another, which is the order in which their effects commit. `Step` picks
what `PopReady` picks and cuts a batch at any place `RunMultiLaneReadyBatch`
may cut it (the lanes' occupation is not modelled). Time is the order in which
timers come due, any number of them at a step. A failed task's code is its id,
so that a report names the task it is about.

**Channel.** `sendq` and `recvq` are the waiter queues with their links by
record slot; `sendValue`, `rendezvous`, `completed` and `counted` are the arrays
indexed by slot. The ring buffer is a sequence. `stale` records that a wait was
ended by the deadlock wake alone, after which the waiter queues may hold entries
nobody waits behind; the properties about order are stated up to that point,
and the run `channel_match_wakes_receiver` shows what happens after it.

**Reactor.** `reactor` is `ReactorRuntime` (waits, descriptor states, pending
changes, backlog), `many` the three vectors of waits on many, `timers` the timer
store, `net` the sockets and what the kernel's poller watches. The code's
handlers call each other on one state; the operators take and return a *world*,
that state together with what the call has computed so far, and an action
applies the whole handler. A progress turn is three actions, as in `PopReady`:
due timers, the drain of events, the pick of a task. With nothing ready the root
blocks. When no wait is registered it sleeps until the next deadline
(`SleepsUntilDeadline`); otherwise it drains up to the poll, where it blocks
(`BlocksInDrain`), unless the drain has something to do before
(`DrainsBeforePoll`). The poll has the timeout of the first timer, and none
without a timer; it ends with a report (`PollReports`) or at the deadline
(`PollTimesOut`). `net.known` is the epoll backend's own list of registrations:
a poll without a timeout searches it for a closed descriptor before it enters
the kernel (`PollEnters`). The poller is external: it reports any ready subset
of what it watches, in any number, may return a failure while the backend is
down, and refuses changes then or when the descriptor's socket is closed.
Threads outside the scheduler may close the sockets of `OutsideFds` at any time,
between the stages of a drain too, where the event of a closed socket is
delivered as an invalid descriptor, and open new ones under the same numbers.
Nothing wakes a blocked poll on such a close. Durations have the width of `MaxNs`: the logical
deadline saturates there, the wall clock deadline wraps around.

**ExternalIo.** One action is the code between two accesses another thread can
see. `at[t]` is where a coroutine stands inside its await: the submission, the
two halves of `ParkExternal` (`park`, then `count` and `commit`), the hand-over
to the wake list, the completion and the re-arming of the phase word. `lane[l]`
holds the sources `Claim` chooses among and the worker's place in its loop;
`slot`, `free`, `queue`, `nextSub` and `nextExec` are the host I/O pool, `io` its
worker, `pass` the countdown of a CPU pass, `device[t]` the callback thread of a
device operation. The root runs `RunReady`, sleeps in `WaitForDirectJobs` on the
ready epoch and the jobs in flight, returns from `Drain`, and resets. What a
task awaits is a script; a second scope follows a reset, with the pool's
sequences kept as the code keeps them.

**TaskStorage, TaskIndex, ReadyQueue, CompletionPool.** Line by line: lists and
links, probes and tombstones, cells with their phase, generation, producer flag
and observers. `TaskStorage` adds what lies between: the record's state, the
steps of a quantum (body, prepared, published), the lane frame that releases a
lease after the turn was given up, and `Reset`. Each operation on a cell holds
its stripe mutex and is one step. The id of a task stands for its result.
`Reset` destroys the records in slot order, as the code's loop does: `Destroyed[n]`
is the pool after the first n of them, which fixes the order in which their cells
come back to the free list.

## Runs

All runs are small instances; every bound is a named constant of its module.

| run | instance | checks |
|---|---|---|
| `lane_commit` | 2 lanes, ranges up to 3 tickets, 5 tickets, all bodies | `TypeOK`, `CommitTurn`, `SequencerExclusive`, `NoAbort`, `FrontierCaughtUp`, `IndInv`, `CommitOrder`, `TurnMonotone`, `BatchDrains` |
| `lane_commit_stuck` | 2 lanes, 3 tickets, trapped leaves | violates `EveryBatchDrains` |
| `channel` | 3 tasks on 2 slots; capacity 0 or 1, room for 1 or 2 waits; 4 operations | `TypeOK`, `Fifo`, `NoMissedMatch`, `ParkedIsQueued`, `ReleasedQuiet`, `DefiniteOutcome`, `WaitEnds`, `AbandonReleases` |
| `channel_match_wakes_receiver` | 2 tasks | violates `MatchWakesReceiver` |
| `task_scheduler` | 4 tasks on 3 slots, 2 scopes, ready capacity 2 | `TypeOK`, `EveryTaskPlaced`, `JoinReportsTarget`, `FailureReported`, `IdsAscend`, `RootReturns` |
| `reactor` | 2 tasks, 4 descriptors, 5 pairs of bodies, one backend failure, budget 1 | `TypeOK`, `WaitPlaced`, `GroupSpans`, `RegistrationCovers`, `LogicalOrder`, `NoSpuriousFailure`, `WaitsEnd` |
| `reactor_stale` | 1 task: channel wait, then timed socket wait | violates `WaitHasWaker` |
| `external_io` | 3 tasks, 2 lanes, 2 slots, 3 programs, 2 scopes | `TypeOK`, `DrainQuiet`, `SubmissionOrder`, `AwaitedDone`, `DrainEnds`, `ReadyRuns` |
| `host_io_release` | 2 tasks: read, refused read, read | violates `ReleaseObserved` |
| `drain_deadlock` | 2 tasks, one yields after a read | violates `DeadlockMeansIdle` |
| `task_storage` | 3 records and cells, ready capacity 2, ids to 11, 2 generations, 2 observers | `TypeOK`, `LookupExact`, `ResultExact`, `ImplementsFifo` |
| `completion_leak` | the same | violates `CellsReused` |

What the passing runs show. *lane_commit*: the turn is exclusive, ordered and
never lost, and a batch without a trapped leaf drains. *channel*: values keep
their order, no match is missed, the record is released when and only when the
channel is quiet, every parked operation resumes. *task_scheduler*: no task falls
out of the queues, joins report their target, a scope reports the
failures that nobody joined and gets none after its report, ids ascend, join, scope and drain return. *reactor*: however a wait ends, exactly one completion reaches its task
and nothing of it is left in the registry, timer store, group vectors or
backlog; the poller watches what is waited for across reuse of a descriptor and
refused changes; sleeps and timed waits end whatever the kernel reports, and
waits on closed sockets end unless the root is held in a poll without a timeout.
*external_io*: a completion that races the park is not lost, host operations run
one at a time in submission order, a drain ends with nothing in flight, and a
task a join made ready runs even if a system call never returns. *task_storage*:
the shared life of a task's record, index entry, queue place and result cell.

Why the bounds are enough for the cases that matter:

* `lane_commit`: two lanes and ranges of three tickets let both lanes advance,
  lose the compare-exchange, wait and tear down at once; five tickets put a
  second range behind the first, so that a late lane meets its words.
* `channel`: three tasks on two slots make a slot's channel state meet a later
  task; room for one wait makes a wait be refused.
* `task_scheduler`: four tasks on three slots allow a spawner, two joiners of one
  target, and reuse of a retired slot.
* `reactor`: the bodies are pairs in which two groups share descriptors, a timed
  wait stands beside a group, a close or stop comes before, during and after the
  waits of the other task, a channel wait precedes a group, and a group does not
  fit the registry. A budget of one leaves ready events in the backlog. Two
  generations reuse a descriptor's number. With `MaxNs` 3 and durations up to 2,
  deadlines saturate and the wall clock wraps.
* `external_io`: two lanes with two coordinators on one of them let wakes of
  different tickets meet in one lane; two slots for two tasks with three reads reuse a
  slot; the second scope runs on the state a reset leaves. The scripts keep out
  a yield after a direct job and a refusal after a claim, which have runs of
  their own (`drain_deadlock`, `host_io_release`), as the bodies of `reactor`
  keep out a single socket wait after a channel wait (`reactor_stale`).
* `task_storage`: ids with gaps of six collide, wrap around and fill the table
  with tombstones until it is rebuilt; two generations exhaust a cell; two
  observers and a lane frame let go in every order.

`CHECK_DEADLOCK FALSE` stands where the program may stop: the bounds are used
up, or the root has returned and nothing obliges it to call anything.

### Fairness

* `lane_commit`: weak fairness of each lane's steps and of the root's: worker
  threads are running threads, and a sleeping one is enabled again when the word
  it waits on changes. Strong fairness of the compare-exchange (`AdvCas`): a
  `compare_exchange_weak` that is retried for ever does not fail spuriously for
  ever.
* `channel`, `task_scheduler`: weak fairness of the progress loop and of a
  dispatched body; its operations are bounded, so it ends or parks. Nothing
  obliges the root to begin an operation.
* `reactor`: weak fairness of a turn of the loop (`LoopTurn`, stated as a change
  of `phase`), of a running body reaching its next primitive (a change of
  `body`), and of the clock. A blocked poll is not a turn that must end: only its
  timeout is fair, once the timer is due, and without a timer nothing makes it
  return. No fairness of the poller's reports, of the threads that close sockets,
  or of the backend's recovery. `WaitsEnd` therefore holds without any event, and
  excepts the wait on a closed socket while the root is in a poll without a
  timeout: `::close` by another thread takes the descriptor out of epoll and
  wakes nobody, so there the wait hangs in the code as well.
* `external_io`: weak fairness of each lane, each callback thread, the I/O worker
  and the root. A system call may take for ever: its return is not fair.
  `DrainEnds` has it as its hypothesis, `ReadyRuns` does without.

### Disagreements between code and documentation

Each has a violating run and an entry under `findings`.

* `lane_commit_stuck`: a leaf that traps in a lane-owned segment ends its lane's
  loop; the tickets behind it on that lane never complete, and a leaf of another
  lane that waits for a later ticket never gets its turn.
* `channel_match_wakes_receiver`: the deadlock wake leaves a receiver in the
  waiter queue; a later send succeeds without a receiver for its value.
* `reactor_stale`: `wait_source_id` still holds the id of the channel a task
  waited on earlier, so the end of its single timed socket wait is taken for the
  end of a group; the wait is removed and nobody is woken.
* `host_io_release`: a host operation refused after it claimed a slot stores its
  own sequence over the release the worker has not seen, and the worker waits for
  ever.
* `drain_deadlock`: a yield inside a direct job enqueues the task without a ready
  epoch; `Drain` may then report a deadlock with a task in the ready queue.
* `completion_leak`: a coroutine failed from inside its body ends its quantum
  without an outcome; its completion cell is neither completed nor released.

Smaller ones met on the way, without a run: `join_all` reports `task_deadlock` for
a target that completed and whose record another joiner retired; a scope reports
`task_deadlock` although a task of it only waits for a Ready task of the outer
scope; a channel operation ended by the deadlock wake returns
`TaskContextMissing` and not `task_deadlock`; cycles of joins are left blocked by
the deadlock wake, which looks at channel waits only; `scope` and `drain` report
the first failure in slot order, not in the order of task ids
(`node/docs/contracts/scheduler/progress.md:321`): with a slot freed by a join and
taken by a later task, that task's failure is named before an earlier one's;
and a scope opened from the root scope reports the failure of any task.

One more follows from the model of the poller (`Rediscovers` in `Reactor`). When
another thread closed a socket that was waited for, the cleanup of its generation
(`S/reactor/registration.cpp:235`) forgets the registration without a removal for
the epoll backend, whose own list keeps it. The next poll without a timeout
reports that entry instead of entering the kernel; no wait matches it, and the
drain polls again with the same result, so that events of live waits are not
read unless the descriptor's number is opened again. `node/docs/contracts/scheduler/platform.md:94-96`
says that removing an invalid descriptor "also retires the platform-private
interest mirror", so that it "cannot be rediscovered indefinitely by a later
blocking poll"; here no removal is made.

## Theorems

Each is proved for every value of the constants of its module that satisfies the
module's named assumption. The runs evaluate these assumptions, and check most of
the properties the theorems state on small instances.

### LaneCommit

About `LaneCommit`, for every set of lanes, every set of bodies and all bounds.
The assumptions are the two of the module: `BodiesAssumption` (the bodies are
among the three kinds) and `BoundsAssumption` (the bounds are naturals).

| theorem | module | states |
|---|---|---|
| `TypeCorrect` | `LaneCommit_proofs` | `Spec => []TypeOK` |
| `Inductive` | `LaneCommit_proofs` | `Spec => []IndInv` |
| `TurnRespected` | `LaneCommit_proofs` | `Spec => []CommitTurn` |
| `Exclusive` | `LaneCommit_proofs` | `Spec => []SequencerExclusive` |
| `NeverAborts` | `LaneCommit_proofs` | `Spec => []NoAbort` |
| `OrderedCommits` | `LaneCommit_proofs` | `Spec => CommitOrder` |
| `TurnNeverBack` | `LaneCommit_proofs` | `Spec => TurnMonotone` |
| `CaughtUp` | `LaneCommit_proofs` | `Spec => []FrontierCaughtUp` |

*Types.* `TypeOK` is split into `TypeWords`, `TypeRange`, `TypeJobs` and
`TypeSeen`; the proof has one case per action.

*The inductive invariant.* `CommitTurn` alone is not inductive: nothing in it
says why a lane that finds the frontier at its ticket has no earlier ticket
before it. `IndInv` adds, one named conjunct each:

* `SegmentJobs` and `FrontierSound`: an incomplete ticket is above its lane's
  completion word, and the frontier only covers completed tickets. Together they
  put the frontier at or below every incomplete ticket (lemma `OpenRange`), so a
  lane that waits never finds it beyond its own, and a range with an incomplete
  ticket is still open (`RangeWords`).
* `JobOrder`: a ticket belongs to one lane, which starts its tickets in order.
* `Locals`: what a lane may rely on after it read `first`, `end` and `frontier`
  in three separate loads while another lane tears the range down. A zero can be
  read only after the range was closed, and then the frontier is at the end, so a
  lane scans only with a consistent pair (`Running`), and all it scanned is
  complete. This is what makes a successful exchange preserve `FrontierSound`
  and the index stay inside `segment_commit_lanes`.
* `OneCloser`: a single lane publishes and clears the words.
* `BatchJobs`, `PlainWords`: the same for plain tickets and control scopes, for
  which `next` is the turn.
* `LastBelow`: the history of effects lies below what is outstanding, from which
  `CommitOrder` follows.

The lane steps that change no shared word go through one frame lemma
(`QuietInv`), those on the words of the range through another (`RangeStep`), so
that each action only has to show what its own lane relies on afterwards.

*No lost completion.* `CaughtUp` rests on `IndInv` and one more inductive fact,
`AdvanceOwed`: while the ticket at the frontier is complete, some lane inside
`AdvanceLaneCommit` is going to look at the frontier again or has a candidate
beyond the value it read. The delicate case is a lane that scanned before the
completion and leaves with nothing to exchange: the lane that stored the
completion is then still behind it.

### TaskScheduler

Assumption: `SchedulerAssumption` (the bounds are naturals, there is a scope, a
slot and a ready place).

| theorem | states |
|---|---|
| `Inductive` | `Spec => []IndInv` |
| `TypeCorrect` | `Spec => []TypeOK` |
| `TasksPlaced` | `Spec => []EveryTaskPlaced` |
| `JoinsReport` | `Spec => []JoinReportsTarget` |
| `ScopesConfine` | `Spec => []ScopeConfined` |
| `IdsOrdered` | `Spec => IdsAscend` |

All in `TaskScheduler_proofs`. `IndInv` is `TypeOK` with four named parts.

* `RecordInv`. `IdsIssued`: every task that exists is below `nextTask`, and below
  the reserved range while the root has one; without it a spawn out of the
  reservation could issue an id again. `RecordSpan` and `SlotsPartitioned`: a
  record exists from spawn to retirement, and each slot is free or belongs to one
  task.
* `QueueInv`. `QueuesPlaced`: the ready queue, the batch, the join waits, the
  timers and the channel waits each hold the tasks of one state, once.
  `EveryTaskPlaced` follows, but is too weak to be kept by a step that moves
  several tasks at once. `CoroutineAlone` lets a coroutine's quantum end without
  looking at the rest of a batch; `NoLostJoin` says that a task blocked in a join
  waits for one that is not over.
* `JoinInv`. `AwaitKept`: who awaits a task is blocked on it or carries its
  verdict. `FailureKept`: a verdict outlives its record, which is what the join of
  a retired target reads. `ReportSettled` and `JoinReportsTarget`.
* `ScopeInv`. `ScopeStack`: open scopes are distinct and not closed, so the scope
  that ends is the one the root is in; with it `ScopeConfined`.

Most of the work is in three kinds of step: `Finish`, which wakes all joiners of
the ending task in the order of their waits; the steps that take several timers
or cut a batch off the ready queue; and the retirements of `join_all`. They rest
on `SequenceLemmas`: `Keep` leaves exactly the entries of a set, in order and
once, and concatenation, cut and removal keep sequences free of repetitions.

### TaskStorage: results

Assumption: `StorageAssumption` (capacities, lanes and bounds are positive
naturals, workloads and gaps are naturals).

| theorem | module | states |
|---|---|---|
| `Inductive` | `TaskStorage_proofs` | `Spec => []ResultInv` |
| `CellFollowsTask` | `TaskStorage_proofs` | `Spec => []StepInv` |
| `ResultsExact` | `TaskStorage_proofs` | `Spec => []ResultExact` |
| `Stored` | `TaskStorageQueue_proofs` | `Spec => []StorageInv` |
| `QueueImplementsFifo` | `TaskStorageQueue_proofs` | `Spec => ImplementsFifo` |
| `LookupsExact` | `TaskStorageIndex_proofs` | `Spec => []LookupExact` |
| `TypeCorrect` | `TaskStorageIndex_proofs` | `Spec => []TypeOK` |

`ResultExact` says that a handle's cell is not recycled under it, that what a
cell holds is its own task's outcome, and that a handle's owner sleeps only while
its task still has the cell, up to the notification that follows the publish. The
exception is part of the formula: a quantum that ended without an outcome
(`FailBody`, then a refused publish) leaves the cell `Running` and its owner
asleep, which is the state `completion_leak` reports. None of this is inductive:
whether a release recycles a cell depends on who else holds it. `ResultInv`
therefore speaks of the pool between the leases of
its producers (records and lane frames) and those of its observers:

* `PoolType`, `FreeList`: a free cell is idle, free once, and without owners;
* `Owned`: every lease anyone holds is of the cell's present generation, a
  producer's lease finds the producer flag set, and the observer count is the
  number of handles on the cell;
* `Counted`: the references are the owners and, until the reset, the pool's own;
* `RecordType`, `SlotsFree`: a free record is unused, so a spawn overwrites no
  lease;
* `OneOwner`: a lease has one producer, record or frame, and one handle. The
  second half of a quantum moves it from the record to the lane's frame;
* `LeaseKept`, `OutcomeOwn`, `SleeperKept`: a quantum that prepared an outcome
  still has its lease; an observer that sleeps on a terminal cell has the
  notification of the publishing quantum ahead of it.

That a sleeper's task still has the cell needs a second invariant, `StepInv`,
about the cell and the task rather than the cell and its owners:

* `InStep`: the cell of a record is in step with it, `Ready` or `Parked` while the
  task rests, `Running` in its body, `Committing` or still without an outcome when
  the quantum ends, terminal only when it has published;
* `HandlesAwait`: a cell that a handle observes and no record has any more has
  ended, or its last quantum had no outcome.

The operators of `CompletionPool` each get one lemma about a pool, two sets of
leases and a base count (`ReleaseProducerInv`, `ReleaseObserverInv` and so on);
the actions cite them. `Reset` releases any number of cells one after another:
the lemma on `Destroy` is carried along `Destroyed` by induction on the slot, once
for the owners and once for the end of every cell it leaves to an observer
(`DestroyEnds`, `LoopEnds`).

### TaskStorage: the ready queue

The inductive invariant `StorageInv` is `ResultInv` with the parts below.
`ImplementsFifo` has two parts: the list implements `ReadyFifo` through the
mapping `Queue`, the ids met when the links are followed from `head`; and
`[]RoomLeft`: a task that is not queued finds a free place, which is why
`EnqueueProgress` and `RestoreReadyFront`, which do not ask, need not abort.

* `QueueInv`: there are two sequences of slots, disjoint and together all slots,
  that the links spell from `head` and from `free`; `tail` is the last slot of the
  first and `size` its length. The lemmas `PushBackLists`, `PushFrontLists`,
  `UnlinkLists` and `ClearLists` say which two sequences the operations leave. That
  the recursive function `Chain` spells the first of them is proved by induction
  on its length.
* `IdsLive`, `EntriesInv`, `BlockedRests`: queued entries are the ids of tasks
  that wait, each once, and ids of records are distinct.
* `RoomLeft` follows by counting: if no slot of the queue were free, its
  `TaskCapacity` entries would be ids of distinct records at rest in the ready
  state, hence of all records, and no task would be outside it.

### TaskStorage: the task index

`LookupExact` says that a search returns the record of a live task and nothing
for another id, that some place of the table is empty, so that a search ends, and
that every queued id leads to a waiting record. `IndexInv` adds:

* `TableOf`: entries are the slots in use, each in one place; the search for the
  id of each *reaches* its entry, with no empty place among the probes before it;
  the counters are the numbers of entries and of tombstones. A tombstone is not
  an empty place, so forgetting an id keeps every other id reachable; this is
  what the mutant that empties the place breaks.
* `FewGraves`: the tombstones are at most as many as the entries, or below a
  quarter of the table. With at most `TaskCapacity` entries they leave one of the
  `2 * TaskCapacity + 1` places empty; hence `IndexTask` always finds a place, and
  the `abort` in `RebuildTaskIndex` is not reached.

The rebuild is an induction on the slots (`RebuildEnters`). That probing goes over
the whole table is a fact about remainders, proved in the same module.

### Channel

Assumption: `ChannelAssumption` (the bounds are naturals, and so are buffer sizes
and wait capacities; neither need be positive). All in `Channel_proofs`.

| theorem | states |
|---|---|
| `ChannelInductive` | `Spec => []ChannelInv` |
| `ChannelTypes` | `Spec => []TypeOK` |
| `ChannelFifo` | `Spec => []Fifo` |
| `NobodyMissed` | `Spec => []NoMissedMatch` |
| `ParkedQueued` | `Spec => []ParkedIsQueued` |
| `ReleaseQuiet` | `Spec => []ReleasedQuiet` |
| `OutcomeDefinite` | `Spec => []DefiniteOutcome` |

The deadlock wake resumes a task without taking it off its waiter queue, and the
task's record, slot and id may be gone when the queue next meets it. So the
invariant has three layers, and what a later layer says is not needed to keep an
earlier one.

* `TaskInv`: records, slots, the ready queue and the count of live waits. A slot
  belongs to one live task, is on the free list, or was never used (`SlotsDealt`);
  without it a reused slot could be marked for two tasks.
* `BlockInv`, in every state, stale waits or not. `Sound(q)`: the links of a
  waiter queue lead from its head through distinct live, marked tasks to nobody
  or to a task whose record is gone, and the count is the number of marks. That
  much survives a retirement in the middle of a queue, a push behind a tail that
  is gone, and a removal that does not find its task; it is why no counter wraps
  and no walk runs for ever. `WakesCounted`: `in_flight_wakes` is the number of
  wakes counted for slots. `ReceiversFirst`: while a receiver is marked, the
  buffer is empty and no sender is marked. A consequence is that the branches of
  `recv_impl` that hand a value on to a *waiting* receiver (`HandsOver`) are
  never taken: who finds a value to receive finds nobody waiting for one.
* `Exact`, until a wait was resumed by the deadlock wake alone. Each queue is a
  sequence of tasks (`Line`); those in it wait and those who await an operation
  and are not in it were served (`Standing`); a value or a mark in a slot belongs
  to a served task (`SlotsHold`), so that a task never meets what an earlier owner
  of its slot left; and the admitted values are those matched, buffered and left
  by the parked senders, in this order, none twice (`Flow`). With it go `Told`
  (every resumed operation found its outcome) and that a released channel is not
  awaited: no wake in flight means no slot counts one, hence nobody was served
  and not resumed.

Each operation has a lemma for each layer (`SendParksBlock`, `SendParksExact` and
so on); the queue operations have one about `Chain`, one about `Sound` and one
about `Line`. `CloseExact` is the largest: `close()` serves everyone at once,
completes both queues and takes the values of the parked senders back.

### ExternalIo

Assumptions: `SizeAssumption` (there is a task, a lane and a scope; there may be
no slot and no room for payloads) and `ScriptAssumption` (a coroutine that awaits
compute passes awaits nothing else: it is a coordinator). Scripts are otherwise
any sequences of operations. All in `ExternalIo_proofs`.

| theorem | states |
|---|---|
| `ExternalInductive` | `Spec => []IInv` |
| `ExternalTypes` | `Spec => []TypeOK` |
| `OneNativeCall` | `Spec => []SubmissionOrder` |
| `AwaitIsOver` | `Spec => [](\A t \in Tasks : WaitOver(t))` |
| `DrainLeavesNothing` | `Spec => [](root \in {"stopping", "joining"} => NothingLeft)` |
| `AwaitedResult` | `Spec /\ []NoneRolledBack => []AwaitedDone` |
| `DrainIsQuiet` | `Spec /\ []NoneRolledBack /\ [](verdict # "deadlock") => []DrainQuiet` |

`WaitOver` and `NothingLeft` are the parts of `AwaitedDone` and `DrainQuiet` that
hold of every program. The rest does not, and the violating runs show it. A task
that was refused a host operation and admits another one is refused the park; the
roll-back gives its slot back, but its sequence number is never executed, so later
operations are answered without a system call and the worker may miss a release
(`host_io_release`). And `Drain` may report a deadlock (`drain_deadlock`).
`NoneRolledBack` says that no task whose record is `Failed` has come as far as its
park. It and `verdict # "deadlock"` hold in every state of the run `external_io`,
whose second program has a refused operation.

`IInv` is the conjunction of eight parts.

* `Types`, `Queued` (the ready queue and the join waits hold the tasks of their
  states, once).
* `Placed`: for each lane, its worker's frame, the job, the mailbox, the wake list
  and the direct list name tasks of that lane, and each of these tasks has the
  state, the wake ticket and the position in its await that go with the list.
* `Tickets`: a ticket is held on one lane only, below `toIssue`, and who is inside
  a turn holds `next`. Hence at most one coroutine is inside a quantum, which is
  what lets the two halves of a park be steps of their own.
* `Slotted`: a slot that is not free belongs to the task that holds its token; its
  state fits that task's place and the I/O worker's; the FIFO ascends. The phase
  word of a slot is `Parked` before the slot is queued, so the worker never meets a
  task that is still parking.
* `Computed`: the phase word of a coordinator, its countdown and its wakers. The
  countdown is the number of lanes with an item of the pass, and one for the
  submitter (`Passes`); one waker, a lane or the callback thread, finds the word
  `Done` and a suspended task (`Wakers`). A pass that completes before its
  coordinator parks is the case that makes it long.
* `Counted`: `direct_jobs_in_flight` is the number of frames of direct jobs and of tasks
  that wait for a lane without the root; the reserved payload is that of the
  tokens; at most one admission is open.
* `Rooted`: a regular job is on the lane the root waits for; a root that saw no
  ready task and no job in flight stays alone, since only a task, an item or an
  operation could make a new one. `DrainLeavesNothing` follows from it with
  `Counted`.

`AwaitedResult` and `DrainIsQuiet` add `Served`: the FIFO holds the sequence
numbers from `nextExec` on without a gap, complete slots hold the results of system
calls, and the worker sees the release of the operation it served.

Each action has one lemma that it keeps `IInv`; actions of one kind share frame
lemmas (`QuantumFrame`, `SlotQueued` and others) that say which parts a change of a
lane, a slot or a phase word can touch.

### Induction over data

The library's induction theorems take an operator and cannot be used here.
`SequenceLemmas` proves `NatSetInduction` for a *set* of naturals from
`NatLessThanWellFounded` and `WFMin`, and `Iteration` from it for recursive
functions. `Keep`, `Destroyed`, `Chain` and the loop of `RebuildTaskIndex` are
recursive functions and are proved about in this way; their modules declare no recursive operator.

## Only model-checked

* Liveness (`BatchDrains`, `WaitEnds`, `AbandonReleases`, `RootReturns`,
  `WaitsEnd`, `DrainEnds`, `ReadyRuns`): fairness and `ENABLED` are out of the
  prover's reach.
* The invariants of `Reactor`. A turn of its loop takes due timers, applies
  changes of registrations and drains events in one step, each a fold over waits in
  an order that is chosen by sorting; what such a fold returns for every input is
  an induction over data for which the operators would have to be restated.
* `FailureReported`: it follows a scope's report through all later steps of its
  members.
* In `ExternalIo`, that a given program rolls back no admission and ends without a
  deadlock: the hypotheses of `AwaitedResult` and `DrainIsQuiet` depend on it.

## Not modelled

Inside the scheduler:

* weak memory orders, and allocation failures; with them a spawn that fails after
  it claimed a record;
* the failure of a wake during `close` of a channel (a replay mismatch), and
  tasks that wait on two channels;
* installed plans and task groups;
* in the reactor: ready sets, waits on raw host descriptors, the batch scope that
  puts off one application of changes, replayed readiness. The timer store is an
  ordered set: the heap and index that implement it are left out, and so are the
  source table and epochs of cancellation;
* in the reactor's poller: the pollers of other platforms than Linux, the events of
  a removed registration that the kernel had already queued, and closes inside a
  stage of a drain, as opposed to between two;
* in `ExternalIo`: the comparison of ids when a wake is accepted
  (`S/task/external/wake.cpp:22`), since no record is reused while a wake for it
  is in flight, and the release of a direct job's completion lease after the
  count of jobs went down (`S/lane/worker/publish.cpp:85-88`), since `Reset` joins
  the lanes before it looks at the pool;
* on the lanes: jobs nested in a waiting lane, and the spin before a sleep;
* `wait_for` and the waiter list of the completion pool; the frame arena and the
  callable pool, which are claimed and released with their record;
* replay and evidence: encodings and comparisons of recorded data. Their control
  is the commit order.

Outside it lie about nineteen of twenty lines of the repository's code, most of
them numeric: the kernel's expression language, lowering, folds and reference
implementations (`kernel/`, `math32/`, `math64/`), node compute over them
(`node/src/compute`, `node/include/rund/compute`), device code generation and
drivers (`node/src/accel`, `accel/`), and the tools that measure them (`tools/`).
These transform data and have next to no state that outlives a call or meets
another thread; what makes them correct is the value they compute, which a model
on small instances says little about and which the repository checks against
reference implementations. `cluster/` holds identity hashes and placement as
pure functions; there is no protocol between nodes. The map covers about 9,000
lines: two fifths of `S/`, and the parts of channels, awaits, compute
coordination and sockets that its modules call. What remains of `S/` is
mostly declarations, evidence records, replay and the omissions above.

## Plan

What a next step would add, most important first.

1. Prove more:
   * `Reactor`: `LogicalOrder`, from the order in which due timers are taken;
   * that `LaneCommit` implements a sequencer that commits tickets one by one.
2. Model more: the timer heap against the ordered set; two channels in
   `Channel`; allocation failures in `TaskStorage`; ready sets in `Reactor`;
   replay admission.
