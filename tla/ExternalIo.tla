----------------------------- MODULE ExternalIo -----------------------------
(***************************************************************************)
(* Tasks that wait for something outside the scheduler.                    *)
(*                                                                         *)
(* A coroutine parks on a four-valued phase word (task/external), and      *)
(* whoever completes the operation -- the host I/O worker, a device        *)
(* callback, or the last lane to finish a CPU pass -- exchanges the phase  *)
(* and links the record into its home lane's wake list.  A lane worker     *)
(* (lane/worker) runs what is pending on its lane in commit-ticket order.  *)
(* Host reads and writes go through a fixed pool of slots and one FIFO     *)
(* worker thread (host/io).  The root runs ready tasks, sleeps while       *)
(* direct jobs are in flight, returns from Drain and resets.               *)
(*                                                                         *)
(* Threads: the lane workers, the host I/O worker, one callback thread per *)
(* device operation and the root.  An action is the code between two       *)
(* accesses to what another thread may touch.  Coroutines run inside their *)
(* commit turn, so at most one of them is between "run" and "finish".      *)
(* Not here: lane-owned segments (LaneCommit), the reactor and timers      *)
(* (Reactor), channels (Channel), strict replay and recorded payloads.     *)
(***************************************************************************)
EXTENDS Integers, Sequences, FiniteSets, Subsequence

CONSTANTS
    TaskCount,       \* tasks a scope spawns, with ids 1..TaskCount
    LaneCount,       \* task_workers
    SlotCount,       \* host_io_capacity
    PayloadCapacity, \* host_payload_capacity_bytes, in operations
    Scripts,         \* Scripts[n]: the programs the n-th scope may run
    JoinTarget,      \* the task a "join" waits for
    MaxScopes        \* bound: scopes opened one after another

Tasks == 1..TaskCount
Lanes == 0..(LaneCount - 1)
Slots == 1..SlotCount

\* "big" is a host operation larger than the payload capacity.
Ops == {"io", "big", "cpu", "accel", "yield", "join"}

\* A compute coordinator only awaits its passes; nobody else awaits one.
ComputeOps == {"cpu", "accel"}

ASSUME ScriptAssumption ==
    /\ \A n \in 1..MaxScopes : \A program \in Scripts[n], t \in Tasks :
          program[t] \in Seq(ComputeOps) \cup Seq(Ops \ ComputeOps)
    /\ JoinTarget \in Tasks
ASSUME SizeAssumption ==
    /\ TaskCount \in Nat \ {0} /\ LaneCount \in Nat \ {0}
    /\ SlotCount \in Nat /\ PayloadCapacity \in Nat /\ MaxScopes \in Nat \ {0}

VARIABLES
    script,     \* script[t]: what the coroutine of t awaits, in order
    state,      \* TaskRecord::state
    wakeTicket, \* TaskRecord::wake_ticket
    step,       \* position of the coroutine in its script
    at,         \* where inside the current await it is
    token,      \* host I/O slot of the current await, 0 if none
    ready,      \* the ready FIFO
    epoch,      \* ready_epoch
    consumed,   \* consumed_ready_epoch
    joinWaits,  \* join_waits: who waits for JoinTarget, first come first
    toIssue,    \* next_commit_ticket_to_issue
    next,       \* next_commit_ticket
    lane,       \* the lanes, and where their workers are
    laneStop,   \* TaskLane::stop
    inFlight,   \* direct_jobs_in_flight
    phase,      \* completion_phase of a compute task
    pass,       \* WorkerSubmission::remaining of its CPU pass
    device,     \* its device operation: "idle", "busy" or "wake"
    slot,       \* the host I/O slots
    free,       \* free list, first is the head
    queue,      \* FIFO of admitted slots
    nextSub,    \* next_submission_sequence
    nextExec,   \* next_execution_sequence
    subs,       \* submissions_in_progress
    stop,       \* SchedulerHostIoState::stop
    io,         \* the host I/O worker
    reserved,   \* host_payload_reserved_bytes
    root,       \* where the root is
    collects,   \* the lane whose completion the root waits for
    verdict,    \* what the last Drain returned
    scopes      \* scopes opened so far

records == <<script, state, wakeTicket, step, at, token>>
readyVars == <<ready, epoch, consumed, joinWaits>>
tickets == <<toIssue, next>>
compute == <<phase, pass, device>>
pool == <<slot, free, queue, nextSub, nextExec, subs, reserved>>
rootVars == <<root, collects, verdict, scopes>>
vars == <<records, readyVars, tickets, lane, laneStop, inFlight, compute,
          pool, stop, io, rootVars>>

\* kPending, kParking, kParked and the completed value of a phase word.
Pending == 0
Parking == 1
Parked == 2
Done == 3

Terminal == {"Completed", "Failed"}

Home(t) == (t - 1) % LaneCount

NoMail == [st |-> 0, task |-> 0, ticket |-> 0]

IdleLane == [job |-> 0, jobTicket |-> 0, done |-> FALSE, ext |-> <<>>,
             direct |-> <<>>, work |-> <<>>, mail |-> NoMail,
             pc |-> "idle", task |-> 0, ticket |-> 0, kind |-> "None"]

FreeSlot == [st |-> "Free", seq |-> 0, task |-> 0, phase |-> Pending,
             outcome |-> "Pending", released |-> 0]

NoIo == [pc |-> "none", slot |-> 0, seq |-> 0, prior |-> Pending]

\* A scope whose tasks have been spawned, in id order.
Init ==
    /\ script \in Scripts[1]
    /\ state = [t \in Tasks |-> "Ready"]
    /\ ready = [t \in Tasks |-> t]
    /\ lane = [l \in Lanes |-> IdleLane]
    /\ wakeTicket = [t \in Tasks |-> 0]
    /\ step = [t \in Tasks |-> 1]
    /\ at = [t \in Tasks |-> "next"]
    /\ token = [t \in Tasks |-> 0]
    /\ epoch = 0 /\ consumed = 0 /\ joinWaits = <<>>
    /\ toIssue = 1 /\ next = 1
    /\ laneStop = FALSE /\ inFlight = 0
    /\ phase = [t \in Tasks |-> Pending]
    /\ pass = [t \in Tasks |-> 0]
    /\ device = [t \in Tasks |-> "idle"]
    /\ slot = [s \in Slots |-> FreeSlot]
    /\ free = [s \in Slots |-> s]
    /\ queue = <<>>
    /\ nextSub = 1 /\ nextExec = 1 /\ subs = 0 /\ stop = FALSE
    /\ io = NoIo /\ reserved = 0
    /\ root = "open" /\ collects = 0 /\ verdict = "none" /\ scopes = 1

-----------------------------------------------------------------------------
(* The lane worker: claim, wait for the turn, run, publish.                *)

First(list) == IF list = <<>> THEN 0 ELSE Head(list)

JobOf(kind, t, ticket) == [kind |-> kind, task |-> t, ticket |-> ticket]

\* What Claim chooses from: the regular job, the heads of the wake list and
\* of the direct list, and a published mailbox.
PendingJobs(n) ==
    LET e == First(n.ext)
        d == First(n.direct)
        m == IF n.mail.st = 1 THEN n.mail.task ELSE 0
    IN {j \in {JobOf("Regular", n.job, n.jobTicket),
               JobOf("External", e, IF e = 0 THEN 0 ELSE wakeTicket[e]),
               JobOf("Direct", d, IF d = 0 THEN 0 ELSE wakeTicket[d]),
               JobOf("Mailbox", m, n.mail.ticket)} : j.task # 0}

\* PreferEarlier over every source: the smallest ticket runs first.
Selects(j, n) == \A other \in PendingJobs(n) : j.ticket <= other.ticket

\* The Load... functions: the frame takes the job, its source loses it.
Loaded(n, j) ==
    [n EXCEPT !.pc = "turn", !.task = j.task, !.ticket = j.ticket,
              !.kind = j.kind,
              !.job = IF j.kind = "Regular" THEN 0 ELSE @,
              !.jobTicket = IF j.kind = "Regular" THEN 0 ELSE @,
              !.ext = IF j.kind = "External" THEN Tail(@) ELSE @,
              !.direct = IF j.kind = "Direct" THEN Tail(@) ELSE @,
              !.mail.st = IF j.kind = "Mailbox" THEN 2 ELSE @]

\* The worker is back in Claim with an empty frame.
Resting(n) == [n EXCEPT !.pc = "idle", !.task = 0, !.ticket = 0,
                        !.kind = "None"]

\* A lane worker takes a compute work item before any task.
ClaimWork(l) ==
    /\ lane[l].pc = "idle" /\ ~laneStop /\ lane[l].work # <<>>
    /\ lane' = [lane EXCEPT ![l].pc = "work", ![l].kind = "Work",
                            ![l].task = Head(lane[l].work),
                            ![l].work = Tail(@)]
    /\ UNCHANGED <<records, readyVars, tickets, laneStop, inFlight, compute,
                   pool, stop, io, rootVars>>

ClaimJob(l) ==
    /\ lane[l].pc = "idle" /\ ~laneStop /\ lane[l].work = <<>>
    /\ \E j \in PendingJobs(lane[l]) :
          /\ Selects(j, lane[l])
          /\ lane' = [lane EXCEPT ![l] = Loaded(@, j)]
          /\ wakeTicket' = IF j.kind = "Direct"
                           THEN [wakeTicket EXCEPT ![j.task] = 0]
                           ELSE wakeTicket
    /\ UNCHANGED <<script, state, step, at, token, readyVars,
                   tickets, laneStop, inFlight, compute, pool, stop, io,
                   rootVars>>

\* RunCoroutineQuantum: EnsureCurrentCommit, then a parked record whose wake
\* carries a ticket is running again.
BeginQuantum(l) ==
    LET t == lane[l].task IN
    /\ lane[l].pc = "turn" /\ next = lane[l].ticket
    /\ lane' = [lane EXCEPT ![l].pc = "run"]
    /\ IF state[t] = "ExternalBlocked" /\ wakeTicket[t] # 0
       THEN /\ state' = [state EXCEPT ![t] = "Running"]
            /\ wakeTicket' = [wakeTicket EXCEPT ![t] = 0]
       ELSE UNCHANGED <<state, wakeTicket>>
    /\ UNCHANGED <<script, step, at, token, readyVars, tickets,
                   laneStop, inFlight, compute, pool, stop, io, rootVars>>

\* ReleaseQuantumCommit: the turn goes to the next ticket.
EndQuantum(l) ==
    /\ lane[l].pc = "finish"
    /\ next' = IF next = lane[l].ticket THEN next + 1 ELSE next
    /\ lane' = [lane EXCEPT ![l].pc = "publish"]
    /\ UNCHANGED <<records, readyVars, toIssue, laneStop, inFlight, compute,
                   pool, stop, io, rootVars>>

\* PublishRegularJob: the root sees a regular job's completion; a direct job
\* is released in a step of its own.
PublishJob(l) ==
    /\ lane[l].pc = "publish"
    /\ lane' = [lane EXCEPT ![l] =
          IF @.kind = "Regular" THEN [Resting(@) EXCEPT !.done = TRUE]
                                ELSE [@ EXCEPT !.pc = "release"]]
    /\ UNCHANGED <<records, readyVars, tickets, laneStop, inFlight, compute,
                   pool, stop, io, rootVars>>

ReleaseDirectJob(l) ==
    /\ lane[l].pc = "release"
    /\ lane' = [lane EXCEPT ![l] = [Resting(@) EXCEPT
          !.mail = IF lane[l].kind = "Mailbox" THEN NoMail ELSE lane[l].mail]]
    /\ inFlight' = IF inFlight > 0 THEN inFlight - 1 ELSE 0
    /\ UNCHANGED <<records, readyVars, tickets, laneStop, compute, pool, stop,
                   io, rootVars>>

-----------------------------------------------------------------------------
(* Completing an operation: exchange the phase, wake the record.           *)

\* EnqueueExternalWake refuses a stopped lane, a record that is not parked
\* and one that already has its ticket.
WakeAccepted(t) ==
    ~laneStop /\ state[t] = "ExternalBlocked" /\ wakeTicket[t] = 0

\* EnqueueExternalWake on the lanes n, under the home lane's mutex.
EnqueueExternalWake(n, t) ==
    /\ lane' = [n EXCEPT ![Home(t)].ext = Append(@, t)]
    /\ wakeTicket' = [wakeTicket EXCEPT ![t] = toIssue]
    /\ toIssue' = toIssue + 1

\* Compute callers ignore a refused wake.
WakeExternal(n, t) ==
    IF WakeAccepted(t)
    THEN EnqueueExternalWake(n, t)
    ELSE lane' = n /\ UNCHANGED <<wakeTicket, toIssue>>

\* RunSlot: the lane calculates its partitions; running ends before the
\* item is released.
RunWork(l) ==
    /\ lane[l].pc = "work"
    /\ lane' = [lane EXCEPT ![l].pc = "released"]
    /\ UNCHANGED <<records, readyVars, tickets, laneStop, inFlight, compute,
                   pool, stop, io, rootVars>>

\* Slip: the pass is complete when one lane is still calculating.
LastWorkerEarly(t) == pass[t] <= 2

LastWorker(t) == pass[t] = 1

\* FinishWorker: the last lane completes the pass (CpuReady) and must wake
\* a coordinator that was parked.
FinishWorker(l) ==
    LET t == lane[l].task
        last == LastWorker(t)
    IN
    /\ lane[l].pc = "released"
    /\ pass' = [pass EXCEPT ![t] = @ - 1]
    /\ phase' = IF last THEN [phase EXCEPT ![t] = Done] ELSE phase
    /\ lane' = [lane EXCEPT ![l] =
          IF last /\ phase[t] = Parked THEN [@ EXCEPT !.pc = "wake"]
                                       ELSE Resting(@)]
    /\ UNCHANGED <<records, readyVars, tickets, laneStop, inFlight, device,
                   pool, stop, io, rootVars>>

LaneWakes(l) ==
    /\ lane[l].pc = "wake"
    /\ WakeExternal([lane EXCEPT ![l] = Resting(@)], lane[l].task)
    /\ UNCHANGED <<script, state, step, at, token, readyVars, next,
                   laneStop, inFlight, compute, pool, stop, io, rootVars>>

\* CompleteAsync or CompletePipeline on a device callback thread.
DeviceCompletes(t) ==
    /\ device[t] = "busy"
    /\ phase' = [phase EXCEPT ![t] = Done]
    /\ device' = [device EXCEPT
                     ![t] = IF phase[t] = Parked THEN "wake" ELSE "idle"]
    /\ UNCHANGED <<records, readyVars, tickets, lane, laneStop, inFlight, pass,
                   pool, stop, io, rootVars>>

DeviceWakes(t) ==
    /\ device[t] = "wake"
    /\ device' = [device EXCEPT ![t] = "idle"]
    /\ WakeExternal(lane, t)
    /\ UNCHANGED <<script, state, step, at, token, readyVars, next,
                   laneStop, inFlight, phase, pass, pool, stop, io, rootVars>>

-----------------------------------------------------------------------------
(* What a coroutine does inside its quantum on lane l.                     *)

At(l, place) == lane[l].pc = "run" /\ at[lane[l].task] = place

Op(t) == IF step[t] > Len(script[t]) THEN "end" ELSE script[t][step[t]]

\* The quantum ends; the coroutine continues later at `place'.
Suspends(l, place) ==
    /\ at' = [at EXCEPT ![lane[l].task] = place]
    /\ lane' = [lane EXCEPT ![l].pc = "finish"]

\* The await returned; the coroutine goes on with its script.
Returns(t) ==
    /\ step' = [step EXCEPT ![t] = @ + 1]
    /\ at' = [at EXCEPT ![t] = "next"]

\* Slip: the waiters become Ready without a new ready epoch.
WakeJoinWaitersQuiet(t) ==
    IF t = JoinTarget
    THEN ready' = ready \o joinWaits /\ joinWaits' = <<>> /\ UNCHANGED epoch
    ELSE UNCHANGED <<ready, joinWaits, epoch>>

\* Every task that joined t becomes Ready, in the order of its wait, and
\* the root's sleep on direct jobs sees a new epoch.
WakeJoinWaiters(t) ==
    IF t = JoinTarget
    THEN /\ ready' = ready \o joinWaits /\ joinWaits' = <<>>
         /\ epoch' = epoch + Len(joinWaits)
    ELSE UNCHANGED <<ready, joinWaits, epoch>>

\* The coroutine is done: publish the terminal state and wake the joiners.
Finishes(l) ==
    LET t == lane[l].task
        wakes(w) == t = JoinTarget /\ state[w] = "JoinBlocked"
    IN
    /\ At(l, "next") /\ Op(t) = "end"
    /\ Suspends(l, "end")
    /\ WakeJoinWaiters(t)
    /\ state' = [w \in Tasks |->
          CASE w = t -> IF state[t] = "Failed" THEN "Failed" ELSE "Completed"
            [] w # t /\ wakes(w) -> "Ready"
            [] OTHER -> state[w]]
    /\ UNCHANGED <<script, wakeTicket, step, token, consumed, tickets,
                   laneStop, inFlight, compute, pool, stop, io, rootVars>>

\* Yield and join suspend a running task only; a join of a finished task
\* returns at once.
Yields(l) ==
    LET t == lane[l].task IN
    /\ At(l, "next") /\ Op(t) = "yield"
    /\ step' = [step EXCEPT ![t] = @ + 1]
    /\ IF state[t] = "Running"
       THEN /\ state' = [state EXCEPT ![t] = "Ready"]
            /\ ready' = Append(ready, t)
            /\ lane' = [lane EXCEPT ![l].pc = "finish"]
       ELSE UNCHANGED <<state, ready, lane>>
    /\ UNCHANGED <<script, wakeTicket, at, token, epoch, consumed, joinWaits,
                   tickets, laneStop, inFlight, compute, pool, stop, io,
                   rootVars>>

Joins(l) ==
    LET t == lane[l].task
        live == state[t] = "Running" /\ state[JoinTarget] \notin Terminal
    IN
    /\ At(l, "next") /\ Op(t) = "join"
    /\ step' = [step EXCEPT ![t] = @ + 1]
    /\ IF live
       THEN /\ state' = [state EXCEPT ![t] = "JoinBlocked"]
            /\ joinWaits' = Append(joinWaits, t)
            /\ lane' = [lane EXCEPT ![l].pc = "finish"]
       ELSE UNCHANGED <<state, joinWaits, lane>>
    /\ UNCHANGED <<script, wakeTicket, at, token, ready, epoch, consumed,
                   tickets, laneStop, inFlight, compute, pool, stop, io, rootVars>>

\* submit_cpu and submit_accel: a CPU pass is one work item on every lane and
\* a unit of the submitter's own, a device operation completes on a thread of
\* its own.
Submits(l) ==
    LET t == lane[l].task IN
    /\ At(l, "next") /\ Op(t) \in {"cpu", "accel"}
    /\ IF Op(t) = "cpu"
       THEN /\ pass' = [pass EXCEPT ![t] = LaneCount + 1]
            /\ lane' = [n \in Lanes |->
                          [lane[n] EXCEPT !.work = Append(@, t)]]
            /\ at' = [at EXCEPT ![t] = "submitted"]
            /\ UNCHANGED device
       ELSE /\ device' = [device EXCEPT ![t] = "busy"]
            /\ at' = [at EXCEPT ![t] = "park"]
            /\ UNCHANGED <<pass, lane>>
    /\ UNCHANGED <<script, state, wakeTicket, step, token, readyVars,
                   tickets, laneStop, inFlight, phase, pool, stop, io,
                   rootVars>>

\* The end of Submit: when every lane is done already, the submitter itself
\* completes the pass.
SubmitReturns(l) ==
    LET t == lane[l].task IN
    /\ At(l, "submitted")
    /\ pass' = [pass EXCEPT ![t] = @ - 1]
    /\ phase' = IF LastWorker(t) THEN [phase EXCEPT ![t] = Done] ELSE phase
    /\ at' = [at EXCEPT ![t] = "park"]
    /\ UNCHANGED <<script, state, wakeTicket, step, token, readyVars,
                   tickets, lane, laneStop, inFlight, device, pool, stop, io,
                   rootVars>>

\* After the await the coordinator re-arms the phase, and only then advances
\* and submits the next pass.
Rearms(l) ==
    LET t == lane[l].task IN
    /\ At(l, "reset")
    /\ phase' = [phase EXCEPT ![t] = Pending]
    /\ Returns(t)
    /\ UNCHANGED <<script, state, wakeTicket, token, readyVars,
                   tickets, lane, laneStop, inFlight, pass, device, pool, stop,
                   io, rootVars>>

-----------------------------------------------------------------------------
(* ParkExternal on the phase word of a slot or of a compute task.          *)

PhaseOf(t) == IF token[t] = 0 THEN phase[t] ELSE slot[token[t]].phase

SetPhase(t, value) ==
    IF token[t] = 0
    THEN phase' = [phase EXCEPT ![t] = value] /\ UNCHANGED slot
    ELSE slot' = [slot EXCEPT ![token[t]].phase = value] /\ UNCHANGED phase

\* Slip: an admission that entered the FIFO is still counted.
AdmissionOpen == subs

\* submissions_in_progress when one admission ends.
AdmissionEnds == IF subs > 0 THEN subs - 1 ELSE 0

\* ResetLocked and Release: the slot is free again under the sequence it
\* had.
Released(x) == [FreeSlot EXCEPT !.released = x.seq]

ReleaseSlot(s) ==
    /\ slot' = [slot EXCEPT ![s] = Released(@)]
    /\ free' = <<s>> \o free
    /\ subs' = IF slot[s].st = "Admitting" THEN AdmissionEnds ELSE subs

\* Refused before the phase is touched: the record is not Running (an
\* earlier host operation failed it), or the operation is complete already.
ParkRefused(l) ==
    LET t == lane[l].task IN
    /\ At(l, "park")
    /\ state[t] # "Running" \/ PhaseOf(t) # Pending
    /\ IF token[t] = 0
       THEN /\ at' = [at EXCEPT ![t] = "reset"]
            /\ UNCHANGED <<step, token, slot, free, subs, reserved>>
       ELSE /\ Returns(t)
            /\ ReleaseSlot(token[t])
            /\ token' = [token EXCEPT ![t] = 0]
            /\ reserved' = reserved - 1
    /\ UNCHANGED <<script, state, wakeTicket, readyVars, tickets,
                   lane, laneStop, inFlight, compute, queue, nextSub, nextExec,
                   stop, io, rootVars>>

\* Pending becomes Parking and the record is blocked.
ParkBegins(l) ==
    LET t == lane[l].task IN
    /\ At(l, "park")
    /\ state[t] = "Running" /\ PhaseOf(t) = Pending
    /\ SetPhase(t, Parking)
    /\ state' = [state EXCEPT ![t] = "ExternalBlocked"]
    /\ wakeTicket' = [wakeTicket EXCEPT ![t] = 0]
    /\ at' = [at EXCEPT ![t] = "count"]
    /\ UNCHANGED <<script, step, token, readyVars, tickets, lane,
                   laneStop, inFlight, pass, device, free, queue, nextSub,
                   nextExec, subs, reserved, stop, io, rootVars>>

\* Slip: the parked task is not counted as a job in flight.
ParkCountsNothing(l) ==
    LET t == lane[l].task IN
    /\ At(l, "count")
    /\ at' = [at EXCEPT ![t] = "commit"]
    /\ UNCHANGED <<script, state, wakeTicket, step, token, readyVars,
                   tickets, lane, laneStop, inFlight, compute, pool, stop, io,
                   rootVars>>

\* The job is counted before the phase says Parked, so before any waker can
\* run it.
ParkCounts(l) ==
    LET t == lane[l].task IN
    /\ At(l, "count")
    /\ inFlight' = inFlight + 1
    /\ at' = [at EXCEPT ![t] = "commit"]
    /\ UNCHANGED <<script, state, wakeTicket, step, token, readyVars,
                   tickets, lane, laneStop, compute, pool, stop, io, rootVars>>

\* Slip: Parked is stored over a completion that came during parking.
ParkCommitsBlindly(l) ==
    LET t == lane[l].task IN
    /\ At(l, "commit")
    /\ SetPhase(t, Parked)
    /\ IF token[t] = 0
       THEN Suspends(l, "reset")
       ELSE at' = [at EXCEPT ![t] = "queue"] /\ UNCHANGED lane
    /\ UNCHANGED <<script, state, wakeTicket, step, token, readyVars,
                   tickets, laneStop, inFlight, pass, device, free, queue,
                   nextSub, nextExec, subs, reserved, stop, io, rootVars>>

\* Parking becomes Parked, or the completion that came in between is taken
\* at once: the count and the state are rolled back.
ParkCommits(l) ==
    LET t == lane[l].task IN
    /\ At(l, "commit")
    /\ IF PhaseOf(t) = Parking
       THEN /\ SetPhase(t, Parked)
            /\ IF token[t] = 0
               THEN Suspends(l, "reset")
               ELSE at' = [at EXCEPT ![t] = "queue"] /\ UNCHANGED lane
            /\ UNCHANGED <<state, inFlight>>
       ELSE /\ inFlight' = inFlight - 1
            /\ state' = [state EXCEPT ![t] = "Running"]
            /\ at' = [at EXCEPT ![t] = "reset"]
            /\ UNCHANGED <<lane, phase, slot>>
    /\ UNCHANGED <<script, wakeTicket, step, token, readyVars,
                   tickets, laneStop, pass, device, free, queue, nextSub,
                   nextExec, subs, reserved, stop, io, rootVars>>

-----------------------------------------------------------------------------
(* Host I/O: admission and completion on the task's side.                  *)

\* FitsHostPayloadCapacity; bytes of payloads already recorded are not kept.
Fits(t) == Op(t) = "io" /\ reserved + 1 <= PayloadCapacity

\* Claim: the worker thread starts with the first operation.
Started == IF io.pc = "none" THEN [io EXCEPT !.pc = "wait"] ELSE io

\* SuspendHostIo up to ParkExternal.  A refusal fails the task, whose
\* coroutine goes on with the error.
SuspendHostIo(l) ==
    LET t == lane[l].task
        fits == Fits(t)
        s == First(free)
    IN
    /\ At(l, "next") /\ Op(t) \in {"io", "big"}
    /\ io' = IF fits /\ ~stop THEN Started ELSE io
    /\ IF fits /\ ~stop /\ s # 0
       THEN /\ free' = Tail(free)
            /\ slot' = [slot EXCEPT ![s] = [@ EXCEPT
                           !.st = "Admitting", !.seq = nextSub, !.task = t,
                           !.outcome = "Pending"]]
            /\ nextSub' = nextSub + 1
            /\ subs' = subs + 1
            /\ reserved' = reserved + 1
            /\ token' = [token EXCEPT ![t] = s]
            /\ at' = [at EXCEPT ![t] = "park"]
            /\ UNCHANGED <<state, step>>
       ELSE /\ state' = [state EXCEPT ![t] = "Failed"]
            /\ Returns(t)
            /\ UNCHANGED <<free, slot, nextSub, subs, reserved, token>>
    /\ UNCHANGED <<script, wakeTicket, readyVars, tickets, lane, laneStop,
                   inFlight, compute, queue, nextExec, stop, rootVars>>

\* Queue: the slot enters the FIFO and the coroutine is suspended.
QueuesSlot(l) ==
    LET t == lane[l].task
        s == token[t]
    IN
    /\ At(l, "queue")
    /\ slot' = [slot EXCEPT ![s].st = "Queued"]
    /\ queue' = Append(queue, s)
    /\ subs' = AdmissionEnds
    /\ Suspends(l, "complete")
    /\ UNCHANGED <<script, state, wakeTicket, step, token, readyVars,
                   tickets, laneStop, inFlight, compute, free, nextSub,
                   nextExec, reserved, stop, io, rootVars>>

\* CompleteHostIo: a slot that is not Complete is left alone.
CompleteHostIo(l) ==
    LET t == lane[l].task
        s == token[t]
    IN
    /\ At(l, "complete")
    /\ Returns(t)
    /\ token' = [token EXCEPT ![t] = 0]
    /\ IF slot[s].st = "Complete"
       THEN ReleaseSlot(s) /\ reserved' = reserved - 1
       ELSE UNCHANGED <<slot, free, subs, reserved>>
    /\ UNCHANGED <<script, state, wakeTicket, readyVars, tickets,
                   lane, laneStop, inFlight, compute, queue, nextSub, nextExec,
                   stop, io, rootVars>>

-----------------------------------------------------------------------------
(* Host I/O: the worker thread.                                            *)

\* Run takes the head of the FIFO.  A sequence other than the next to
\* execute is answered without a system call.
TakeSlot ==
    LET s == Head(queue)
        inTurn == slot[s].seq = nextExec
    IN
    /\ io.pc = "wait" /\ queue # <<>>
    /\ queue' = Tail(queue)
    /\ slot' = [slot EXCEPT ![s].st = "Running",
                            ![s].outcome = IF inTurn THEN @ ELSE "Invalid"]
    /\ nextExec' = IF inTurn THEN nextExec + 1 ELSE nextExec
    /\ io' = [io EXCEPT !.pc = IF inTurn THEN "native" ELSE "publish",
                        !.slot = s, !.seq = slot[s].seq]
    /\ UNCHANGED <<records, readyVars, tickets, lane, laneStop, inFlight,
                   compute, free, nextSub, subs, reserved, stop, rootVars>>

\* NativeRead or NativeWrite returns, whatever its result.
NativeReturns ==
    /\ io.pc = "native"
    /\ slot' = [slot EXCEPT ![io.slot].outcome = "Native"]
    /\ io' = [io EXCEPT !.pc = "publish"]
    /\ UNCHANGED <<records, readyVars, tickets, lane, laneStop, inFlight,
                   compute, free, queue, nextSub, nextExec, subs, reserved,
                   stop, rootVars>>

\* The slot is Complete and the phase is exchanged for the completed value.
CompletesSlot ==
    /\ io.pc = "publish"
    /\ slot' = [slot EXCEPT ![io.slot].st = "Complete",
                            ![io.slot].phase = Done]
    /\ io' = [io EXCEPT !.pc = "wake", !.prior = slot[io.slot].phase]
    /\ UNCHANGED <<records, readyVars, tickets, lane, laneStop, inFlight,
                   compute, free, queue, nextSub, nextExec, subs, reserved,
                   stop, rootVars>>

\* A parked task is woken and the worker will wait for it to take the
\* result.  FailWake otherwise: the task fails and the slot is released.
WakesTask ==
    LET t == slot[io.slot].task IN
    /\ io.pc = "wake"
    /\ IF io.prior = Parked /\ WakeAccepted(t)
       THEN /\ EnqueueExternalWake(lane, t)
            /\ io' = [io EXCEPT !.pc = "await"]
            /\ UNCHANGED <<state, inFlight, slot, free, subs>>
       ELSE /\ state' = IF state[t] = "ExternalBlocked"
                        THEN [state EXCEPT ![t] = "Failed"] ELSE state
            /\ inFlight' = IF inFlight > 0 THEN inFlight - 1 ELSE 0
            /\ ReleaseSlot(io.slot)
            /\ io' = [NoIo EXCEPT !.pc = "wait"]
            /\ UNCHANGED <<lane, wakeTicket, toIssue>>
    /\ UNCHANGED <<script, step, at, token, readyVars, next,
                   laneStop, compute, queue, nextSub, nextExec, reserved,
                   stop, rootVars>>

\* Slip: the worker does not wait for the result to be taken.
TakenAlways == io.pc = "await"

\* released_sequence, not the state of the slot, says that the result of
\* this operation was taken.
Taken == io.pc = "await" /\ slot[io.slot].released = io.seq

AwaitsRelease ==
    /\ Taken
    /\ io' = [NoIo EXCEPT !.pc = "wait"]
    /\ UNCHANGED <<records, readyVars, tickets, lane, laneStop, inFlight,
                   compute, pool, stop, rootVars>>

WorkerExits ==
    /\ io.pc = "wait" /\ queue = <<>> /\ stop /\ subs = 0
    /\ io' = [io EXCEPT !.pc = "exited"]
    /\ UNCHANGED <<records, readyVars, tickets, lane, laneStop, inFlight,
                   compute, pool, stop, rootVars>>

-----------------------------------------------------------------------------
(* The root: direct dispatch, the drain loop, stop and reset.              *)

\* TaskLane::running, which ends before a direct job is released.
IsRunning(n) == n.pc \in {"turn", "run", "finish", "publish", "work"}

CanSubmitToLane(n) ==
    ~laneStop /\ n.job = 0 /\ ~n.done /\ ~IsRunning(n)

\* QueueDirect of the ready prefix of length k, one ticket each: the first
\* on an idle lane goes to the mailbox, others to the direct list.
Busy(n) == ~CanSubmitToLane(n) \/ n.mail.st # 0

Admitted(k, l) == Keep(SubSeq(ready, 1, k), {t \in Tasks : Home(t) = l})

TicketIn(k, t) ==
    toIssue + (CHOOSE i \in 1..k : ready[i] = t) - 1

QueueDirect(n, own, k) ==
    IF own = <<>> THEN n
    ELSE IF Busy(n) THEN [n EXCEPT !.direct = @ \o own]
    ELSE [n EXCEPT !.mail = [st |-> 1, task |-> Head(own),
                             ticket |-> TicketIn(k, Head(own))],
                   !.direct = @ \o Tail(own)]

\* DispatchExternal, when the root submits a compute request: the coordinator
\* and every task ready before it leave the ready queue.  A coordinator that
\* a task submitted stays there.
DispatchExternal ==
    /\ root = "open" /\ ~laneStop
    /\ \E k \in DOMAIN ready :
          LET admitted == {ready[i] : i \in 1..k} IN
          /\ \E i \in DOMAIN script[ready[k]] : script[ready[k]][i] \in ComputeOps
          /\ lane' = [l \in Lanes |->
                        QueueDirect(lane[l], Admitted(k, l), k)]
          /\ wakeTicket' = [t \in Tasks |->
                IF \E l \in Lanes : t \in admitted /\
                     \E i \in DOMAIN lane'[l].direct : lane'[l].direct[i] = t
                THEN TicketIn(k, t) ELSE wakeTicket[t]]
          /\ state' = [t \in Tasks |->
                          IF t \in admitted THEN "Running" ELSE state[t]]
          /\ toIssue' = toIssue + k
          /\ inFlight' = inFlight + k
          /\ ready' = SubSeq(ready, k + 1, Len(ready))
    /\ UNCHANGED <<script, step, at, token, epoch, consumed, joinWaits, next,
                   laneStop, compute, pool, stop, io, rootVars>>

BeginDrain ==
    /\ root = "open"
    /\ root' = "drain"
    /\ UNCHANGED <<records, readyVars, tickets, lane, laneStop, inFlight,
                   compute, pool, stop, io, collects, verdict, scopes>>

\* RunOnLane: a coroutine runs alone (its lane_segment_side_exit is set by
\* the spawn and by every suspension), so the head waits for its lane.
RunReady ==
    LET t == Head(ready) IN
    /\ root = "drain" /\ ready # <<>>
    /\ CanSubmitToLane(lane[Home(t)])
    /\ lane' = [lane EXCEPT ![Home(t)].job = t, ![Home(t)].jobTicket = toIssue]
    /\ state' = [state EXCEPT ![t] = "Running"]
    /\ toIssue' = toIssue + 1
    /\ ready' = Tail(ready)
    /\ root' = "collect" /\ collects' = Home(t)
    /\ UNCHANGED <<script, wakeTicket, step, at, token, epoch, consumed,
                   joinWaits, next, laneStop, inFlight, compute, pool, stop,
                   io, verdict, scopes>>

\* The root waits for the job it placed.
Collects ==
    /\ root = "collect" /\ lane[collects].done
    /\ lane' = [lane EXCEPT ![collects].done = FALSE]
    /\ root' = "drain"
    /\ UNCHANGED <<records, readyVars, tickets, laneStop, inFlight, compute,
                   pool, stop, io, collects, verdict, scopes>>

\* Drain saw no ready task and goes to WaitForDirectJobs; the two looks are
\* under different mutexes.
SeesNoReady ==
    /\ root = "drain" /\ ready = <<>>
    /\ root' = "check"
    /\ UNCHANGED <<records, readyVars, tickets, lane, laneStop, inFlight,
                   compute, pool, stop, io, collects, verdict, scopes>>

\* WaitForDirectJobs: a new epoch is consumed, jobs in flight are slept on,
\* and with neither the drain is over.
WaitForDirectJobs ==
    /\ root = "check"
    /\ root' = IF epoch # consumed THEN "drain"
               ELSE IF inFlight = 0 THEN "finish" ELSE "sleep"
    /\ consumed' = epoch
    /\ UNCHANGED <<records, ready, epoch, joinWaits, tickets, lane, laneStop,
                   inFlight, compute, pool, stop, io, collects, verdict, scopes>>

Wakes ==
    /\ root = "sleep" /\ (inFlight = 0 \/ epoch # consumed)
    /\ root' = "drain"
    /\ consumed' = epoch
    /\ UNCHANGED <<records, ready, epoch, joinWaits, tickets, lane, laneStop,
                   inFlight, compute, pool, stop, io, collects, verdict, scopes>>

\* Drain returns; Reset begins with StopHostIo.
DrainReturns ==
    /\ root = "finish"
    /\ verdict' = IF \A t \in Tasks : state[t] \in Terminal
                  THEN "ok" ELSE "deadlock"
    /\ root' = "stopping"
    /\ stop' = TRUE
    /\ UNCHANGED <<records, readyVars, tickets, lane, laneStop, inFlight,
                   compute, pool, io, collects, scopes>>

\* StopHostIo joins the worker and clears the FIFO; StopLanes stops the
\* lanes.
JoinsWorker ==
    /\ root = "stopping" /\ io.pc \in {"none", "exited"}
    /\ io' = NoIo /\ stop' = FALSE
    /\ queue' = <<>> /\ subs' = 0
    /\ laneStop' = TRUE
    /\ root' = "joining"
    /\ UNCHANGED <<records, readyVars, tickets, lane, inFlight, compute, slot,
                   free, nextSub, nextExec, reserved, collects, verdict,
                   scopes>>

\* StopLanes joins the workers and Reset clears the rest.  The slots, the
\* free list and the two sequences are kept.
Reset ==
    /\ root = "joining" /\ \A l \in Lanes : lane[l].pc = "idle"
    /\ scopes < MaxScopes
    /\ scopes' = scopes + 1
    /\ root' = "open"
    /\ script' \in Scripts[scopes']
    /\ state' = [t \in Tasks |-> "Ready"]
    /\ ready' = [t \in Tasks |-> t]
    /\ lane' = [l \in Lanes |-> IdleLane]
    /\ wakeTicket' = [t \in Tasks |-> 0]
    /\ step' = [t \in Tasks |-> 1]
    /\ at' = [t \in Tasks |-> "next"]
    /\ token' = [t \in Tasks |-> 0]
    /\ epoch' = 0 /\ consumed' = 0 /\ joinWaits' = <<>>
    /\ toIssue' = 1 /\ next' = 1
    /\ laneStop' = FALSE /\ inFlight' = 0
    /\ phase' = [t \in Tasks |-> Pending]
    /\ pass' = [t \in Tasks |-> 0]
    /\ device' = [t \in Tasks |-> "idle"]
    /\ reserved' = 0
    /\ collects' = 0 /\ verdict' = "none"
    /\ UNCHANGED <<slot, free, queue, nextSub, nextExec, subs, stop, io>>

-----------------------------------------------------------------------------

\* One quantum step of the coroutine on lane l.
Quantum(l) ==
    \/ Finishes(l) \/ Yields(l) \/ Joins(l) \/ Submits(l) \/ SubmitReturns(l)
    \/ Rearms(l)
    \/ ParkRefused(l) \/ ParkBegins(l) \/ ParkCounts(l) \/ ParkCommits(l)
    \/ SuspendHostIo(l) \/ QueuesSlot(l) \/ CompleteHostIo(l)

LaneStep(l) ==
    \/ ClaimWork(l) \/ ClaimJob(l) \/ BeginQuantum(l) \/ Quantum(l)
    \/ EndQuantum(l) \/ PublishJob(l) \/ ReleaseDirectJob(l)
    \/ RunWork(l) \/ FinishWorker(l) \/ LaneWakes(l)

DeviceStep(t) == DeviceCompletes(t) \/ DeviceWakes(t)

\* What the I/O worker does on its own; when a system call returns is up to
\* the file.
IoStep ==
    \/ TakeSlot \/ CompletesSlot \/ WakesTask \/ AwaitsRelease
    \/ WorkerExits

RootStep ==
    \/ DispatchExternal \/ BeginDrain \/ RunReady \/ Collects
    \/ SeesNoReady \/ WaitForDirectJobs \/ Wakes \/ DrainReturns
    \/ JoinsWorker \/ Reset

Next ==
    \/ \E l \in Lanes : LaneStep(l)
    \/ \E t \in Tasks : DeviceStep(t)
    \/ IoStep
    \/ NativeReturns
    \/ RootStep

Spec == Init /\ [][Next]_vars

FairSpec ==
    /\ Spec
    /\ \A l \in Lanes : WF_vars(LaneStep(l))
    /\ \A t \in Tasks : WF_vars(DeviceStep(t))
    /\ WF_vars(IoStep)
    /\ WF_vars(RootStep)

-----------------------------------------------------------------------------
(* Properties.                                                             *)

\* Every word has its type, the counters included: admissions in progress,
\* jobs in flight and reserved bytes never exceed what can be admitted, and
\* the execution sequence never passes the submission sequence.
TypeOK ==
    /\ script \in Scripts[scopes]
    /\ state \in [Tasks -> {"Ready", "Running", "JoinBlocked",
                            "ExternalBlocked"} \cup Terminal]
    /\ wakeTicket \in [Tasks -> 0..(toIssue - 1)]
    /\ at \in [Tasks -> {"next", "submitted", "park", "count", "commit", "queue",
                         "complete", "reset", "end"}]
    /\ token \in [Tasks -> 0..SlotCount]
    /\ \A i \in DOMAIN ready : ready[i] \in Tasks
    /\ \A i \in DOMAIN joinWaits : joinWaits[i] \in Tasks
    /\ epoch \in Nat /\ consumed \in 0..epoch
    /\ toIssue \in Nat /\ next \in 1..toIssue
    /\ inFlight \in 0..(2 * TaskCount)
    /\ phase \in [Tasks -> Pending..Done]
    /\ pass \in [Tasks -> 0..(LaneCount + 1)]
    /\ device \in [Tasks -> {"idle", "busy", "wake"}]
    /\ \A s \in Slots :
          slot[s].st \in {"Free", "Admitting", "Queued", "Running", "Complete"}
    /\ nextExec \in 1..nextSub /\ subs \in 0..SlotCount
    /\ reserved \in 0..PayloadCapacity
    /\ stop \in BOOLEAN /\ laneStop \in BOOLEAN
    /\ collects \in Lanes /\ scopes \in 1..MaxScopes

\* No slot, reserved byte, job, list or unfinished operation is left that
\* could touch a task.
NothingLeft ==
    /\ inFlight = 0 /\ reserved = 0 /\ Len(free) = SlotCount
    /\ queue = <<>>
    /\ \A t \in Tasks : device[t] = "idle" /\ pass[t] = 0
    /\ \A l \in Lanes : lane[l] = IdleLane

\* When Drain returns success it is over: every task is terminal and nothing
\* is left that could touch a task Reset is about to destroy (a late wake
\* would be a use after free), nor does the I/O worker wait for one.
DrainQuiet ==
    root \in {"stopping", "joining"} =>
        /\ verdict = "ok"
        /\ NothingLeft
        /\ io.pc \in {"none", "wait", "exited"} \/ Taken

\* Host operations reach the operating system one at a time and in the
\* order of their submission: while one is in a system call no other has
\* been started and not yet been taken, and those queued come later.
SubmissionOrder ==
    io.pc = "native" =>
        \A s \in Slots \ {io.slot} :
            \/ slot[s].st \in {"Free", "Admitting"}
            \/ slot[s].st = "Queued" /\ slot[s].seq > io.seq

\* What t awaited is complete when t continues, and the I/O worker finds the
\* task it is to wake parked.
WaitOver(t) ==
    /\ at[t] = "reset" /\ state[t] = "Running" =>
          pass[t] = 0 /\ device[t] # "busy"
    /\ at[t] = "complete" /\ state[t] = "Running" =>
          slot[token[t]].task = t /\ slot[token[t]].st = "Complete"
    /\ io.pc = "wake" /\ slot[io.slot].task = t =>
          io.prior = Parked /\ WakeAccepted(t)

\* A task continues after an await only when what it awaited is complete:
\* its pass or device operation has finished, its own slot holds the result
\* of a system call.  The I/O worker always finds the task parked.
AwaitedDone ==
    \A t \in Tasks :
        /\ WaitOver(t)
        /\ at[t] = "complete" /\ state[t] = "Running" =>
              slot[token[t]].outcome = "Native"

\* If system calls return, every drain ends: no completion is lost between
\* the two halves of a park, no wake waits behind a later ticket on its own
\* lane, and the I/O worker does not wait for a result that was taken.
DrainEnds == WF_vars(NativeReturns) => []<>(root = "joining")

\* A task that a join made ready runs, even if some host operation never
\* returns: the root, asleep on the jobs in flight, notices.
ReadyRuns == \A t \in Tasks : state[t] = "Ready" ~> state[t] # "Ready"

-----------------------------------------------------------------------------
(* What the documentation says and the code does not do.                   *)

\* host.md: a newly claimed slot cannot erase a release generation that the
\* worker has not yet observed.
ReleaseObserved == io.pc = "await" => slot[io.slot].released <= io.seq

\* progress.md: Drain reports a deadlock only with no task ready.
DeadlockMeansIdle == verdict = "deadlock" => ready = <<>>

=============================================================================
