----------------------------- MODULE LaneCommit -----------------------------
(***************************************************************************)
(* The commit-ticket protocol of the task scheduler:                       *)
(* node/src/runtime/task/scheduler/task/commit.cpp and the places that     *)
(* drive it (lane/segment, lane/batch.cpp, lane/worker/run.cpp and         *)
(* task/context/switch/leaf.cpp).                                          *)
(*                                                                         *)
(* Leaf bodies calculate on every lane at once; their scheduler-visible    *)
(* effects happen one at a time, in ticket order.  There are two ways to   *)
(* wait for a turn.  A plain ticket waits, under commit_mutex, for         *)
(* next_commit_ticket.  A ticket of a lane-owned segment belongs to a      *)
(* range [lane_commit_first, lane_commit_end): its turn is                 *)
(* lane_commit_frontier, a lock-free counter that any completing lane may  *)
(* advance over the tickets that are already complete.  Every atomic load, *)
(* store and compare-exchange of that counter is a step of its own here;   *)
(* memory is sequentially consistent.                                      *)
(***************************************************************************)
EXTENDS Integers

CONSTANTS
    Lanes,      \* task lanes (worker threads)
    Bodies,     \* what a leaf body may do: a subset of AllBodies
    MaxRange,   \* bound: logical tasks in one dispatched batch
    MaxTicket   \* bound: tickets ever issued (the code: 2^64 - 1)

(***************************************************************************)
(* A leaf body is told apart by how it meets the scheduler.  "pure" never  *)
(* calls it (returning or throwing).  "reject" calls a suspension          *)
(* primitive: the segment traps, the ticket is acquired, and               *)
(* SetLeafFailure clears the trap again.  "effect" calls spawn, a host     *)
(* event or a state query: the trap stays, and the lane leaves its segment *)
(* after this leaf.                                                        *)
(***************************************************************************)
AllBodies == {"pure", "reject", "effect"}

ASSUME BodiesAssumption == Bodies \subseteq AllBodies
ASSUME BoundsAssumption == MaxRange \in Nat /\ MaxTicket \in Nat

VARIABLES
    toIssue,      \* next_commit_ticket_to_issue
    next,         \* next_commit_ticket
    active,       \* lane_commit_active
    first,        \* lane_commit_first
    frontier,     \* lane_commit_frontier
    end,          \* lane_commit_end
    waiters,      \* lane_commit_waiters
    commitLanes,  \* segment_commit_lanes: canonical offset -> owning lane
    size,         \* segment_commit_lanes.size()
    completed,    \* TaskLane::segment_completed_ticket
    root,         \* what the root sequencer is doing
    rootTicket,   \* ticket of the root's ControlCommitScope, 0 if none
    pc,           \* where each lane is
    todo,         \* tickets of jobs the lane holds and has not started
    cur,          \* ticket of the lane's current job, 0 if none
    body,         \* what that job's body does
    seenFirst,    \* what each lane last read of first, ...
    seenEnd,      \* ... of end ...
    seenFrontier, \* ... and of frontier
    cand,         \* AdvanceLaneCommit's candidate for the new frontier
    last          \* history: ticket of the latest scheduler effect

words == <<active, first, frontier, end, waiters, commitLanes, size,
           completed>>
shared == <<toIssue, next, words>>
seen == <<seenFirst, seenEnd, seenFrontier, cand>>
local == <<pc, todo, cur, body, seen>>
vars == <<shared, root, rootTicket, local, last>>

\* Positions at which the current job's ticket is not complete yet.
BeforeStore == {"calc", "wait", "waitAdd", "waitLoad", "waitSleep", "asleep",
                "waitSub", "turn", "crit", "store"}

\* Positions inside AdvanceLaneCommit, after the completion was stored.
Advancing == {"advActive", "advFirst", "advEnd", "advFrontier", "advLoop",
              "advScan", "advCas", "advNotify", "advFinal", "advDeact",
              "advPublish", "advZeroFirst", "advZeroEnd"}

Places == BeforeStore \cup Advancing \cup {"idle", "pick", "done", "abort"}

Injective(a) == \A i, j \in DOMAIN a : a[i] = a[j] => i = j

Goto(l, p) == pc' = [pc EXCEPT ![l] = p]

\* LaneCommitContains: is this ticket one of the active lane range?
LaneCommitContains(t) == active /\ t >= first /\ t < end

Init ==
    /\ toIssue = 1 /\ next = 1
    /\ active = FALSE /\ first = 0 /\ frontier = 0 /\ end = 0 /\ waiters = 0
    /\ commitLanes = [i \in {} |-> 0] /\ size = 0
    /\ completed = [l \in Lanes |-> 0]
    /\ root = "idle" /\ rootTicket = 0
    /\ pc = [l \in Lanes |-> "idle"]
    /\ todo = [l \in Lanes |-> {}]
    /\ cur = [l \in Lanes |-> 0]
    /\ body = [l \in Lanes |-> "pure"]
    /\ seenFirst = [l \in Lanes |-> 0] /\ seenEnd = [l \in Lanes |-> 0]
    /\ seenFrontier = [l \in Lanes |-> 0] /\ cand = [l \in Lanes |-> 0]
    /\ last = 0

-----------------------------------------------------------------------------
(***************************************************************************)
(* The root sequencer.  It dispatches one batch of ready leaves, waits for *)
(* every participating lane, and only then does anything else; between     *)
(* batches it commits its own primitives through ControlCommitScope.       *)
(***************************************************************************)

\* Tickets lane l gets when canonical offset i gets ticket toIssue + i.
TicketsOf(a, l) == {toIssue + i : i \in {j \in DOMAIN a : a[j] = l}}

\* Publish the jobs: each participating lane leaves the idle state.
HandOut(n, a) ==
    /\ \A l \in Lanes : pc[l] = "idle"
    /\ toIssue + n <= MaxTicket + 1
    /\ toIssue' = toIssue + n
    /\ todo' = [l \in Lanes |-> TicketsOf(a, l)]
    /\ pc' = [l \in Lanes |-> IF TicketsOf(a, l) = {} THEN "idle" ELSE "pick"]
    /\ body' = [l \in Lanes |-> "pure"]
    /\ UNCHANGED <<cur, seen, rootTicket, last>>

\* RunLaneOwnedSegments: several leaves may share a lane, so the lanes get one
\* range of tickets.  Refused while an earlier range or ticket is unreleased.
RunLaneOwnedSegments(n, a) ==
    /\ root = "idle"
    /\ ~active /\ next = toIssue
    /\ HandOut(n, a)
    /\ completed' = [l \in Lanes |-> 0]
    /\ first' = toIssue /\ frontier' = toIssue /\ end' = toIssue + n
    /\ waiters' = 0 /\ active' = TRUE
    /\ commitLanes' = a /\ size' = n
    /\ root' = "segment"
    /\ UNCHANGED next

\* RunReadyBatch: one leaf per lane, consecutive plain tickets.
RunReadyBatch(n, a) ==
    /\ root = "idle" /\ Injective(a)
    /\ HandOut(n, a)
    /\ root' = "batch"
    /\ UNCHANGED <<next, active, first, frontier, end, waiters, commitLanes,
                   size, completed>>

\* Every participating lane published its completion; the root collects them.
DrainLanes ==
    /\ root \in {"segment", "batch"}
    /\ \A l \in Lanes : pc[l] \in {"idle", "done"}
    /\ root' = "idle"
    /\ pc' = [l \in Lanes |-> "idle"]
    /\ todo' = [l \in Lanes |-> {}]
    /\ cur' = [l \in Lanes |-> 0]
    /\ UNCHANGED <<shared, rootTicket, body, seen, last>>

\* ControlCommitScope: a ticket of the root's own, acquired, used, released.
ControlIssue ==
    /\ root = "idle" /\ toIssue <= MaxTicket
    /\ rootTicket' = toIssue /\ toIssue' = toIssue + 1
    /\ root' = "control"
    /\ UNCHANGED <<next, active, first, frontier, end, waiters, commitLanes,
                   size, completed, local, last>>

\* The root's ticket is never one of a lane range: it waits on commit_cv.
ControlAcquire ==
    /\ root = "control" /\ ~LaneCommitContains(rootTicket) /\ next = rootTicket
    /\ root' = "controlCrit" /\ last' = rootTicket
    /\ UNCHANGED <<shared, rootTicket, local>>

ControlRelease ==
    /\ root = "controlCrit"
    /\ next' = IF next = rootTicket THEN next + 1 ELSE next
    /\ root' = "idle" /\ rootTicket' = 0
    /\ UNCHANGED <<toIssue, active, first, frontier, end, waiters, commitLanes,
                   size, completed, local, last>>

-----------------------------------------------------------------------------
(* A lane worker running its jobs.                                         *)

Quiet == UNCHANGED <<root, rootTicket>>
SharedQuiet == UNCHANGED shared /\ Quiet

\* The locals of AdvanceLaneCommit are gone when it returns.
ForgetLocals(l) ==
    /\ seenFirst' = [seenFirst EXCEPT ![l] = 0]
    /\ seenEnd' = [seenEnd EXCEPT ![l] = 0]
    /\ seenFrontier' = [seenFrontier EXCEPT ![l] = 0]
    /\ cand' = [cand EXCEPT ![l] = 0]

\* RunSegmentSideExit: the next job in order; none after a trapped leaf.
PickJob(l) ==
    /\ pc[l] = "pick"
    /\ IF todo[l] = {} \/ body[l] = "effect"
         THEN Goto(l, "done") /\ UNCHANGED <<todo, cur>>
         ELSE \E t \in todo[l] :
                /\ \A u \in todo[l] : t <= u
                /\ cur' = [cur EXCEPT ![l] = t]
                /\ todo' = [todo EXCEPT ![l] = @ \ {t}]
                /\ Goto(l, "calc")
    /\ ForgetLocals(l)
    /\ SharedQuiet /\ UNCHANGED <<body, last>>

\* The body runs.  A pure leaf of a segment publishes its completion without
\* acquiring the ticket; every other leaf goes through EnsureCurrentCommit.
RunLeaf(l) ==
    /\ pc[l] = "calc"
    /\ \E b \in Bodies :
         /\ body' = [body EXCEPT ![l] =
                       IF root = "segment" THEN b ELSE "pure"]
         /\ Goto(l, IF root = "segment" /\ b = "pure" THEN "store"
                    ELSE IF LaneCommitContains(cur[l]) THEN "wait" ELSE "turn")
    /\ SharedQuiet /\ UNCHANGED <<todo, cur, seen, last>>

\* Slip: no wait for next_commit_ticket.
AcquirePlainAtOnce(l) ==
    /\ pc[l] = "turn"
    /\ Goto(l, "crit") /\ last' = cur[l]
    /\ SharedQuiet /\ UNCHANGED <<todo, cur, body, seen>>

\* EnsureCurrentCommit for a plain ticket: commit_cv until its turn.
AcquirePlain(l) ==
    /\ pc[l] = "turn" /\ next = cur[l]
    /\ Goto(l, "crit") /\ last' = cur[l]
    /\ SharedQuiet /\ UNCHANGED <<todo, cur, body, seen>>

\* Slip: the turn is taken one ticket early.
WaitFirstEarly(l) ==
    /\ pc[l] = "wait"
    /\ Goto(l, IF frontier + 1 >= cur[l] THEN "crit" ELSE "waitAdd")
    /\ last' = IF frontier + 1 >= cur[l] THEN cur[l] ELSE last
    /\ SharedQuiet /\ UNCHANGED <<todo, cur, body, seen>>

\* WaitLaneCommit: the first look at the frontier.
WaitFirst(l) ==
    /\ pc[l] = "wait"
    /\ Goto(l, IF frontier = cur[l] THEN "crit"
               ELSE IF frontier > cur[l] THEN "abort" ELSE "waitAdd")
    /\ last' = IF frontier = cur[l] THEN cur[l] ELSE last
    /\ SharedQuiet /\ UNCHANGED <<todo, cur, body, seen>>

WaitAnnounce(l) ==
    /\ pc[l] = "waitAdd"
    /\ waiters' = waiters + 1
    /\ Goto(l, "waitLoad")
    /\ Quiet
    /\ UNCHANGED <<toIssue, next, active, first, frontier, end, commitLanes,
                   size, completed, todo, cur, body, seen, last>>

WaitLoad(l) ==
    /\ pc[l] = "waitLoad"
    /\ Goto(l, IF frontier = cur[l] THEN "waitSub"
               ELSE IF frontier > cur[l] THEN "abort" ELSE "waitSleep")
    /\ seenFrontier' = [seenFrontier EXCEPT ![l] = frontier]
    /\ SharedQuiet
    /\ UNCHANGED <<todo, cur, body, seenFirst, seenEnd, cand, last>>

WaitWithdraw(l) ==
    /\ pc[l] = "waitSub"
    /\ waiters' = waiters - 1
    /\ Goto(l, "crit") /\ last' = cur[l]
    /\ Quiet
    /\ UNCHANGED <<toIssue, next, active, first, frontier, end, commitLanes,
                   size, completed, todo, cur, body, seen>>

\* Slip: sleep without comparing, so a wake-up in between is lost.
WaitSleepBlindly(l) ==
    /\ pc[l] = "waitSleep"
    /\ Goto(l, "asleep")
    /\ SharedQuiet /\ UNCHANGED <<todo, cur, body, seen, last>>

\* atomic::wait blocks only while the value is still the one that was read.
WaitSleep(l) ==
    /\ pc[l] = "waitSleep"
    /\ Goto(l, IF frontier = seenFrontier[l] THEN "asleep" ELSE "waitLoad")
    /\ SharedQuiet /\ UNCHANGED <<todo, cur, body, seen, last>>

\* A lane ticket goes on to CompleteLaneCommit; a plain one passes the turn on.
ReleaseQuantumCommit(l) ==
    /\ pc[l] = "crit"
    /\ IF LaneCommitContains(cur[l])
         THEN Goto(l, "store") /\ UNCHANGED next
         ELSE /\ next' = IF next = cur[l] THEN next + 1 ELSE next
              /\ Goto(l, "pick")
    /\ Quiet
    /\ UNCHANGED <<toIssue, active, first, frontier, end, waiters, commitLanes,
                   size, completed, todo, cur, body, seen, last>>

-----------------------------------------------------------------------------
(* CompleteLaneCommit and AdvanceLaneCommit, one atomic access per step.   *)

\* Slip: the lane publishes one ticket too many.
CompleteLaneCommitBeyond(l) ==
    /\ pc[l] = "store"
    /\ completed' = [completed EXCEPT ![l] = cur[l] + 1]
    /\ Goto(l, "advActive")
    /\ Quiet
    /\ UNCHANGED <<toIssue, next, active, first, frontier, end, waiters,
                   commitLanes, size, todo, cur, body, seen, last>>

CompleteLaneCommit(l) ==
    /\ pc[l] = "store"
    /\ IF LaneCommitContains(cur[l])
         THEN /\ completed' = [completed EXCEPT ![l] = cur[l]]
              /\ Goto(l, "advActive")
         ELSE Goto(l, "abort") /\ UNCHANGED completed
    /\ Quiet
    /\ UNCHANGED <<toIssue, next, active, first, frontier, end, waiters,
                   commitLanes, size, todo, cur, body, seen, last>>

AdvLoadActive(l) ==
    /\ pc[l] = "advActive"
    /\ Goto(l, IF active THEN "advFirst" ELSE "pick")
    /\ SharedQuiet /\ UNCHANGED <<todo, cur, body, seen, last>>

AdvLoadFirst(l) ==
    /\ pc[l] = "advFirst"
    /\ seenFirst' = [seenFirst EXCEPT ![l] = first]
    /\ Goto(l, "advEnd")
    /\ SharedQuiet
    /\ UNCHANGED <<todo, cur, body, seenEnd, seenFrontier, cand, last>>

\* Slip: an inclusive end, which wraps when the range is already torn down.
AdvLoadLastTicket(l) ==
    /\ pc[l] = "advEnd"
    /\ seenEnd' = [seenEnd EXCEPT ![l] = end - 1]
    /\ Goto(l, "advFrontier")
    /\ SharedQuiet
    /\ UNCHANGED <<todo, cur, body, seenFirst, seenFrontier, cand, last>>

AdvLoadEnd(l) ==
    /\ pc[l] = "advEnd"
    /\ seenEnd' = [seenEnd EXCEPT ![l] = end]
    /\ Goto(l, "advFrontier")
    /\ SharedQuiet
    /\ UNCHANGED <<todo, cur, body, seenFirst, seenFrontier, cand, last>>

AdvLoadFrontier(l) ==
    /\ pc[l] = "advFrontier"
    /\ seenFrontier' = [seenFrontier EXCEPT ![l] = frontier]
    /\ Goto(l, "advLoop")
    /\ SharedQuiet
    /\ UNCHANGED <<todo, cur, body, seenFirst, seenEnd, cand, last>>

\* while (frontier < end) candidate = frontier ...
AdvLoop(l) ==
    /\ pc[l] = "advLoop"
    /\ cand' = [cand EXCEPT ![l] = seenFrontier[l]]
    /\ Goto(l, IF seenFrontier[l] < seenEnd[l] THEN "advScan" ELSE "advFinal")
    /\ SharedQuiet
    /\ UNCHANGED <<todo, cur, body, seenFirst, seenEnd, seenFrontier, last>>

\* Slip: a ticket counts as complete as soon as its lane completed any.
AdvScanAnyCompletion(l) ==
    /\ pc[l] = "advScan"
    /\ IF \/ cand[l] >= seenEnd[l]
          \/ completed[commitLanes[cand[l] - seenFirst[l]]] = 0
         THEN Goto(l, "advCas") /\ UNCHANGED cand
         ELSE cand' = [cand EXCEPT ![l] = @ + 1] /\ UNCHANGED pc
    /\ SharedQuiet
    /\ UNCHANGED <<todo, cur, body, seenFirst, seenEnd, seenFrontier, last>>

\* One turn of the inner loop: is the candidate ticket complete?
AdvScan(l) ==
    /\ pc[l] = "advScan"
    /\ LET index == cand[l] - seenFirst[l]
       IN  IF cand[l] >= seenEnd[l]
             THEN Goto(l, "advCas") /\ UNCHANGED cand
             ELSE IF index >= size
             THEN Goto(l, "abort") /\ UNCHANGED cand
             ELSE IF completed[commitLanes[index]] < cand[l]
             THEN Goto(l, "advCas") /\ UNCHANGED cand
             ELSE /\ cand' = [cand EXCEPT ![l] = @ + 1]
                  /\ UNCHANGED pc
    /\ SharedQuiet
    /\ UNCHANGED <<todo, cur, body, seenFirst, seenEnd, seenFrontier, last>>

\* Slip: the frontier is stored, not compared and exchanged.
AdvCasBlindStore(l) ==
    /\ pc[l] = "advCas"
    /\ frontier' = cand[l]
    /\ seenFrontier' = [seenFrontier EXCEPT ![l] = cand[l]]
    /\ Goto(l, IF cand[l] = seenFrontier[l] THEN "advFinal" ELSE "advNotify")
    /\ Quiet
    /\ UNCHANGED <<toIssue, next, active, first, end, waiters, commitLanes,
                   size, completed, todo, cur, body, seenFirst, seenEnd, cand,
                   last>>

\* Slip: a single attempt; the lane never looks at the frontier again.
AdvCasOnce(l) ==
    /\ pc[l] = "advCas"
    /\ frontier' = IF frontier = seenFrontier[l] THEN cand[l] ELSE frontier
    /\ Goto(l, "advFinal")
    /\ Quiet
    /\ UNCHANGED <<toIssue, next, active, first, end, waiters, commitLanes,
                   size, completed, todo, cur, body, seen, last>>

\* compare_exchange_weak, succeeding or losing to another lane.
AdvCas(l) ==
    /\ pc[l] = "advCas"
    /\ IF cand[l] = seenFrontier[l]
         THEN Goto(l, "advFinal") /\ UNCHANGED <<frontier, seenFrontier>>
         ELSE IF frontier = seenFrontier[l]
         THEN /\ frontier' = cand[l]
              /\ seenFrontier' = [seenFrontier EXCEPT ![l] = cand[l]]
              /\ Goto(l, "advNotify")
         ELSE /\ seenFrontier' = [seenFrontier EXCEPT ![l] = frontier]
              /\ Goto(l, "advLoop") /\ UNCHANGED frontier
    /\ Quiet
    /\ UNCHANGED <<toIssue, next, active, first, end, waiters, commitLanes,
                   size, completed, todo, cur, body, seenFirst, seenEnd, cand,
                   last>>

\* compare_exchange_weak may also fail although the value matched.
AdvCasSpurious(l) ==
    /\ pc[l] = "advCas" /\ cand[l] # seenFrontier[l]
    /\ frontier = seenFrontier[l]
    /\ Goto(l, "advLoop")
    /\ SharedQuiet /\ UNCHANGED <<todo, cur, body, seen, last>>

\* notify_all, only if some waiter announced itself.
AdvNotify(l) ==
    /\ pc[l] = "advNotify"
    /\ pc' = [m \in Lanes |->
                IF m = l THEN "advLoop"
                ELSE IF waiters # 0 /\ pc[m] = "asleep" THEN "waitLoad"
                ELSE pc[m]]
    /\ SharedQuiet /\ UNCHANGED <<todo, cur, body, seen, last>>

AdvFinal(l) ==
    /\ pc[l] = "advFinal"
    /\ Goto(l, IF frontier = seenEnd[l] THEN "advDeact" ELSE "pick")
    /\ SharedQuiet /\ UNCHANGED <<todo, cur, body, seen, last>>

\* Slip: the range is closed by a plain store, so two lanes may close it.
AdvDeactivateStore(l) ==
    /\ pc[l] = "advDeact"
    /\ active' = FALSE
    /\ Goto(l, "advPublish")
    /\ Quiet
    /\ UNCHANGED <<toIssue, next, first, frontier, end, waiters, commitLanes,
                   size, completed, todo, cur, body, seen, last>>

\* Exactly one lane wins the compare_exchange that closes the range.
AdvDeactivate(l) ==
    /\ pc[l] = "advDeact"
    /\ active' = FALSE
    /\ Goto(l, IF active THEN "advPublish" ELSE "pick")
    /\ Quiet
    /\ UNCHANGED <<toIssue, next, first, frontier, end, waiters, commitLanes,
                   size, completed, todo, cur, body, seen, last>>

\* Under commit_mutex: the whole range is behind next_commit_ticket now.
AdvPublish(l) ==
    /\ pc[l] = "advPublish"
    /\ IF next = seenFirst[l]
         THEN next' = seenEnd[l] /\ Goto(l, "advZeroFirst")
         ELSE Goto(l, "abort") /\ UNCHANGED next
    /\ Quiet
    /\ UNCHANGED <<toIssue, active, first, frontier, end, waiters, commitLanes,
                   size, completed, todo, cur, body, seen, last>>

AdvZeroFirst(l) ==
    /\ pc[l] = "advZeroFirst"
    /\ first' = 0
    /\ Goto(l, "advZeroEnd")
    /\ Quiet
    /\ UNCHANGED <<toIssue, next, active, frontier, end, waiters, commitLanes,
                   size, completed, todo, cur, body, seen, last>>

AdvZeroEnd(l) ==
    /\ pc[l] = "advZeroEnd"
    /\ end' = 0
    /\ Goto(l, "pick")
    /\ Quiet
    /\ UNCHANGED <<toIssue, next, active, first, frontier, waiters,
                   commitLanes, size, completed, todo, cur, body, seen, last>>

-----------------------------------------------------------------------------
LaneStep(l) ==
    \/ PickJob(l) \/ RunLeaf(l) \/ AcquirePlain(l)
    \/ WaitFirst(l) \/ WaitAnnounce(l) \/ WaitLoad(l) \/ WaitSleep(l)
    \/ WaitWithdraw(l) \/ ReleaseQuantumCommit(l) \/ CompleteLaneCommit(l)
    \/ AdvLoadActive(l) \/ AdvLoadFirst(l) \/ AdvLoadEnd(l)
    \/ AdvLoadFrontier(l) \/ AdvLoop(l) \/ AdvScan(l) \/ AdvCas(l)
    \/ AdvNotify(l) \/ AdvFinal(l) \/ AdvDeactivate(l) \/ AdvPublish(l)
    \/ AdvZeroFirst(l) \/ AdvZeroEnd(l)

\* The steps the root takes to finish what it started.
RootFinish == DrainLanes \/ ControlAcquire \/ ControlRelease

RootStart ==
    \/ ControlIssue
    \/ \E n \in 1..MaxRange : \E a \in [0..(n - 1) -> Lanes] :
         RunLaneOwnedSegments(n, a) \/ RunReadyBatch(n, a)

\* Every ticket of the bound was issued and committed: nothing left to do.
Finished ==
    /\ root = "idle" /\ toIssue = MaxTicket + 1
    /\ UNCHANGED vars

Next ==
    \/ RootStart \/ RootFinish \/ Finished
    \/ \E l \in Lanes : LaneStep(l) \/ AdvCasSpurious(l)

Spec == Init /\ [][Next]_vars

\* Threads keep running; a compare_exchange_weak that is retried for ever
\* eventually does not fail spuriously.
Fairness ==
    /\ WF_vars(RootFinish)
    /\ \A l \in Lanes : WF_vars(LaneStep(l)) /\ SF_vars(AdvCas(l))

FairSpec == Spec /\ Fairness

-----------------------------------------------------------------------------
TypeWords ==
    /\ toIssue \in Nat \ {0} /\ next \in Nat
    /\ active \in BOOLEAN
    /\ first \in Nat /\ frontier \in Nat /\ end \in Nat
    /\ waiters \in Int
    /\ root \in {"idle", "segment", "batch", "control", "controlCrit"}
    /\ rootTicket \in Nat /\ last \in Nat

TypeRange ==
    /\ size \in Nat /\ commitLanes \in [0..(size - 1) -> Lanes]
    /\ completed \in [Lanes -> Nat]

TypeJobs ==
    /\ pc \in [Lanes -> Places]
    /\ todo \in [Lanes -> SUBSET Nat]
    /\ cur \in [Lanes -> Nat]
    /\ body \in [Lanes -> AllBodies]

TypeSeen ==
    /\ seenFirst \in [Lanes -> Nat] /\ seenEnd \in [Lanes -> Nat]
    /\ seenFrontier \in [Lanes -> Nat] /\ cand \in [Lanes -> Nat]

\* The type invariant: every lane is at a known place, and its jobs, current
\* ticket and locals are tickets.
TypeOK == TypeWords /\ TypeRange /\ TypeJobs /\ TypeSeen

\* Tickets lane l was given and has not completed.
Outstanding(l) ==
    todo[l] \cup (IF pc[l] \in BeforeStore THEN {cur[l]} ELSE {})

\* Whoever is inside a scheduler effect holds the least ticket that is not
\* complete: no lane still owes an earlier one (EnsureCurrentCommit).
CommitTurn ==
    /\ \A l \in Lanes : pc[l] = "crit" =>
         \A m \in Lanes : \A u \in Outstanding(m) : cur[l] <= u
    /\ root = "controlCrit" => \A m \in Lanes : Outstanding(m) = {}

\* Scheduler effects of two lanes never overlap: the sequencer is exclusive.
SequencerExclusive ==
    \A l, m \in Lanes : pc[l] = "crit" /\ pc[m] = "crit" => l = m

\* None of the std::abort() branches of the commit path is reachable: a
\* frontier beyond a waiter's ticket, a completion outside the range, an
\* offset outside segment_commit_lanes, a range closed twice.
NoAbort == \A l \in Lanes : pc[l] # "abort"

\* First ticket of the range the lanes are working on.
Base == toIssue - size

\* The frontier only covers tickets whose owning lane has completed them
\* (the formula of docs/contracts/scheduler/lane.md).
FrontierSound ==
    root = "segment" =>
      \A i \in 0..(size - 1) :
        Base + i < frontier => completed[commitLanes[i]] >= Base + i

\* Once no lane is inside AdvanceLaneCommit the frontier has caught up with
\* every contiguous completion: no two lanes each leave the advance to the
\* other.
FrontierCaughtUp ==
    (root = "segment" /\ \A l \in Lanes : pc[l] \notin Advancing) =>
      \/ frontier = toIssue
      \/ completed[commitLanes[frontier - Base]] < frontier

\* When the root is back from a batch every ticket it issued is behind
\* next_commit_ticket and the range is closed, so the next batch may start.
RangeReleased ==
    root = "idle" => ~active /\ first = 0 /\ end = 0 /\ next = toIssue

\* Effects are committed in increasing ticket order over the whole run, also
\* across lane ranges, plain batches and control scopes.
CommitOrder == [][last' # last => last' > last]_vars

\* Neither the turn of plain tickets nor the frontier of a live range ever
\* moves back.
TurnMonotone ==
    [][next' >= next /\ (active /\ active' => frontier' >= frontier)]_vars

\* A leaf never traps: see EveryBatchDrains.
NoTrap == \A l \in Lanes : body[l] # "effect"

\* As long as no leaf traps, a dispatched batch is eventually drained and the
\* root's own primitive gets its turn, and the range is released in between:
\* no lane sleeps for ever on the frontier or on commit_cv (the root would
\* wait for it in DrainLaneOwnedSegmentResults or RunReadyBatch for ever).
BatchDrains ==
    []NoTrap => []RangeReleased /\ (root # "idle" ~> root = "idle")

\* docs/contracts/scheduler/lane.md: the slow path of a leaf that traps cannot
\* strand a calculated task either.
EveryBatchDrains == root \in {"segment", "batch"} ~> root = "idle"

-----------------------------------------------------------------------------
(* The inductive invariant behind CommitTurn, NoAbort and CommitOrder.     *)

\* The shared words of a lane range.  They are torn down in several stores,
\* but only after the frontier has reached the end.
RangeWords ==
    root = "segment" =>
      /\ Base > 0 /\ size > 0
      /\ first \in {0, Base} /\ end \in {0, toIssue}
      /\ frontier \in Base..toIssue
      /\ active => first = Base /\ end = toIssue /\ next = Base
      /\ ~active => frontier = toIssue

\* Outside a range everything that was issued lies at or after next, and an
\* unreleased range ends before any ticket issued since.
PlainWords ==
    /\ next <= toIssue /\ end <= toIssue /\ last < toIssue
    /\ root \in {"idle", "control", "controlCrit"} =>
         \A l \in Lanes : pc[l] = "idle" /\ todo[l] = {}
    /\ root \in {"control", "controlCrit"} =>
         next <= rootTicket /\ end <= rootTicket /\ rootTicket < toIssue
    /\ root = "control" => last < rootTicket
    /\ root = "controlCrit" => next = rootTicket

\* A lane starts its tickets in order; a ticket belongs to one lane.
JobOrder ==
    \A l \in Lanes :
      /\ pc[l] \in BeforeStore => \A u \in todo[l] : cur[l] < u
      /\ \A u \in Outstanding(l) : next <= u /\ u < toIssue
      /\ \A m \in Lanes : l # m => Outstanding(l) \cap Outstanding(m) = {}

\* In a segment: an incomplete ticket is its lane's, and the lane's completion
\* word is still below it.
SegmentJobs ==
    root = "segment" =>
      \A l \in Lanes :
        /\ pc[l] # "turn"
        /\ \A u \in Outstanding(l) :
             u >= Base /\ commitLanes[u - Base] = l /\ completed[l] < u
        /\ pc[l] \in {"crit", "waitSub"} => frontier = cur[l]

\* In a plain batch: nobody touches the frontier, and the holder is at next.
BatchJobs ==
    root = "batch" =>
      \A l \in Lanes :
        /\ pc[l] \in {"idle", "pick", "calc", "turn", "crit", "done"}
        /\ \A u \in Outstanding(l) : end <= u
        /\ pc[l] = "crit" => next = cur[l]

\* Every ticket before position p of the current range is complete.
CompleteBefore(p) ==
    \A i \in 0..(size - 1) :
      Base + i < p => completed[commitLanes[i]] >= Base + i

\* What a lane read of the words of the range: the live value, or the zero
\* that is stored only after the range was closed.
FirstRead(l) == seenFirst[l] = Base \/ (seenFirst[l] = 0 /\ ~active)
EndRead(l) == seenEnd[l] = toIssue \/ (seenEnd[l] = 0 /\ ~active)
Running(l) == seenFirst[l] = Base /\ seenEnd[l] = toIssue

\* The positions of the lane that closes the range.
Closing == {"advPublish", "advZeroFirst", "advZeroEnd"}

\* What a lane inside AdvanceLaneCommit may rely on although it read the
\* words of the range one by one.
LaneLocals(l) ==
    /\ pc[l] = "advEnd" => FirstRead(l)
    /\ pc[l] \in {"advFrontier", "advLoop", "advFinal"} =>
         FirstRead(l) /\ EndRead(l)
    /\ pc[l] \in {"advLoop", "advScan", "advCas", "advNotify"} =>
         seenFrontier[l] \in Base..frontier
    /\ pc[l] = "advLoop" /\ seenFrontier[l] < toIssue => Running(l)
    /\ pc[l] \in {"advScan", "advCas", "advNotify"} => Running(l)
    /\ pc[l] \in {"advScan", "advCas"} =>
         /\ seenFrontier[l] < toIssue
         /\ cand[l] \in seenFrontier[l]..toIssue
         /\ CompleteBefore(cand[l])
    /\ pc[l] = "advDeact" =>
         FirstRead(l) /\ seenEnd[l] = toIssue /\ frontier = toIssue
    /\ pc[l] = "advPublish" => Running(l) /\ next = Base
    /\ pc[l] \in Closing => ~active

Locals == root = "segment" => \A l \in Lanes : LaneLocals(l)

\* One lane at most closes the range.
OneCloser ==
    root = "segment" =>
      \A l, m \in Lanes : pc[l] \in Closing /\ pc[m] \in Closing => l = m

\* Later tickets commit later.
LastBelow ==
    \A l \in Lanes : \A u \in Outstanding(l) :
      /\ last <= u
      /\ last = u => u = cur[l] /\ pc[l] \in {"crit", "store"}

IndInv ==
    /\ TypeOK /\ NoAbort /\ RangeWords /\ PlainWords /\ JobOrder /\ SegmentJobs
    /\ BatchJobs /\ FrontierSound /\ Locals /\ OneCloser /\ LastBelow
=============================================================================
