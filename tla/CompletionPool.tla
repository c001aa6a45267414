--------------------------- MODULE CompletionPool ---------------------------
(***************************************************************************)
(* The completion cells (scheduler/task/completion): the place where a      *)
(* coroutine leaves the outcome an observer waits for.  A cell has two      *)
(* owners, the producing task and the result handle, which let go of it in  *)
(* either order from different threads; the later one recycles it under a   *)
(* new generation.  Every operation below holds the cell's stripe mutex and *)
(* is one step.  A result is the id of the task that produced it.           *)
(***************************************************************************)
EXTENDS Integers, Sequences, FiniteSets, SequencesExt

CONSTANTS
    CellCapacity,   \* CompletionLimits::capacity
    MaxGeneration,  \* the largest generation; 2^32 - 1 in the code
    Holders         \* owners of result handles: awaiting parents, submitters

Cells == 1..CellCapacity
NoLease == [cell |-> 0, gen |-> 0]
Pending == 0
Failure == -1

VARIABLES
    cells,      \* Store::Cell: generation, phase, outcome, owners
    freeCells,  \* the free list from free_head
    refs,       \* Store::refs: the pool, each producer and each observer
    handle      \* result handles: the lease, and whether its owner sleeps

vars == <<cells, freeCells, refs, handle>>

Phases == {"Idle", "Admitted", "Ready", "Running", "Parked", "Committing",
           "Completed", "Failed"}

Terminal(phase) == phase \in {"Completed", "Failed"}

\* CompletionAllowed.
Allowed(from, to) ==
    \/ from = "Admitted" /\ to = "Ready"
    \/ from = "Ready" /\ to = "Running"
    \/ from = "Running" /\ to \in {"Parked", "Committing"}
    \/ from = "Parked" /\ to = "Ready"

FreshCell(gen) ==
    [gen |-> gen, phase |-> "Idle", outcome |-> Pending,
     observers |-> 0, producer |-> FALSE]

NoHandle == [lease |-> NoLease, asleep |-> FALSE]

Init ==
    /\ cells = [c \in Cells |-> FreshCell(1)]
    /\ freeCells = [c \in Cells |-> c]
    /\ refs = 1
    /\ handle = [h \in Holders |-> NoHandle]

\* The lease is of the cell's present use.
Current(cs, lease) ==
    /\ lease.cell # 0
    /\ cs[lease.cell].gen = lease.gen
    /\ cs[lease.cell].phase # "Idle"

-----------------------------------------------------------------------------
(* The producer's side.  A pool is its cells, free list and count of refs.  *)

Pool == [cells |-> cells, free |-> freeCells, refs |-> refs]

\* claim, observe_ref and the first transition of an observed spawn.
Claimed(p) ==
    LET c == Head(p.free)
    IN  [cells |-> [p.cells EXCEPT ![c].phase = "Ready",
                                   ![c].outcome = Pending,
                                   ![c].observers = 1,
                                   ![c].producer = TRUE],
         free |-> Tail(p.free),
         refs |-> p.refs + 2]

\* transition: refused unless the lease is current and the step allowed.
Transition(cs, lease, next) ==
    IF Current(cs, lease) /\ Allowed(cs[lease.cell].phase, next)
    THEN [cs EXCEPT ![lease.cell].phase = next]
    ELSE cs

\* prepare, and prepare_failure for a coroutine that ended with a reason code.
Prepare(cs, lease, outcome) ==
    IF /\ Current(cs, lease)
       /\ cs[lease.cell].phase = "Committing"
       /\ cs[lease.cell].outcome = Pending
    THEN [cs EXCEPT ![lease.cell].outcome = outcome]
    ELSE cs

\* publish succeeds on a cell that is committing a prepared outcome.
Publishable(cs, lease) ==
    /\ Current(cs, lease)
    /\ cs[lease.cell].phase = "Committing"
    /\ cs[lease.cell].outcome # Pending

Published(cs, lease) ==
    IF ~Publishable(cs, lease) THEN cs
    ELSE [cs EXCEPT ![lease.cell].phase =
            IF cs[lease.cell].outcome = Failure THEN "Failed" ELSE "Completed"]

\* terminate: the first terminal state stays.
Terminate(cs, lease) ==
    IF ~Current(cs, lease) \/ Terminal(cs[lease.cell].phase) THEN cs
    ELSE [cs EXCEPT ![lease.cell].phase = "Failed",
                    ![lease.cell].outcome = Failure]

\* recycle: a new generation on the free list, or none after the last one.
Recycle(p, c) ==
    LET gen == p.cells[c].gen
        last == gen = MaxGeneration
    IN  [cells |-> [p.cells EXCEPT
                      ![c] = FreshCell(IF last THEN gen ELSE gen + 1)],
         free |-> IF last THEN p.free ELSE <<c>> \o p.free,
         refs |-> p.refs]

\* Slip: the producer recycles the cell although it is observed.
ReleaseProducerAlways(p, lease) ==
    LET c == lease.cell
    IN  IF /\ c # 0 /\ p.cells[c].gen = lease.gen
           /\ Terminal(p.cells[c].phase) /\ p.cells[c].producer
        THEN [Recycle([p EXCEPT !.cells[c].producer = FALSE], c)
                EXCEPT !.refs = @ - 1]
        ELSE p

\* release.
ReleaseProducer(p, lease) ==
    LET c == lease.cell
        freed == [cells |-> [p.cells EXCEPT ![c].producer = FALSE],
                  free |-> p.free, refs |-> p.refs - 1]
    IN  IF /\ c # 0 /\ p.cells[c].gen = lease.gen
           /\ Terminal(p.cells[c].phase) /\ p.cells[c].producer
        THEN IF p.cells[c].observers = 0 THEN Recycle(freed, c) ELSE freed
        ELSE p

\* ReleaseCompletion: a record that goes away with a completion ends it.
Destroy(p, lease) ==
    ReleaseProducer([p EXCEPT !.cells = Terminate(@, lease)], lease)

-----------------------------------------------------------------------------
(* The observer's side.                                                    *)

\* release_observer.
ReleaseObserver(p, lease) ==
    LET c == lease.cell
        freed == [cells |-> [p.cells EXCEPT ![c].observers = @ - 1],
                  free |-> p.free, refs |-> p.refs - 1]
    IN  IF Current(p.cells, lease) /\ p.cells[c].observers # 0
        THEN IF /\ ~p.cells[c].producer
                /\ p.cells[c].observers = 1
                /\ Terminal(p.cells[c].phase)
             THEN Recycle(freed, c)
             ELSE freed
        ELSE p

\* wait goes to sleep on the stripe's condition; a stale or a terminal cell
\* lets it return at once.
Sleeps(h) ==
    /\ handle[h].lease # NoLease
    /\ ~handle[h].asleep
    /\ Current(cells, handle[h].lease)
    /\ ~Terminal(cells[handle[h].lease.cell].phase)
    /\ handle' = [handle EXCEPT ![h].asleep = TRUE]
    /\ UNCHANGED <<cells, freeCells, refs>>

\* notify_all: every sleeper on the cell tests its predicate again.
Notified(hs, cs, lease) ==
    [h \in Holders |->
        IF /\ hs[h].asleep
           /\ hs[h].lease.cell = lease.cell
           /\ \/ ~Current(cs, hs[h].lease)
              \/ Terminal(cs[lease.cell].phase)
        THEN [hs[h] EXCEPT !.asleep = FALSE]
        ELSE hs[h]]

\* The handle is destroyed: not while its owner waits on it.
DropHandle(h) ==
    LET p == ReleaseObserver(Pool, handle[h].lease)
    IN  /\ handle[h].lease # NoLease
        /\ ~handle[h].asleep
        /\ cells' = p.cells /\ freeCells' = p.free /\ refs' = p.refs
        /\ handle' = [handle EXCEPT ![h] = NoHandle]

-----------------------------------------------------------------------------

\* The cells, the free list and the store's count of references stay in range:
\* one reference for the pool and two for each cell in use.
TypeOK ==
    /\ cells \in [Cells -> [gen : 1..MaxGeneration, phase : Phases,
                            outcome : Nat \cup {Pending, Failure},
                            observers : 0..1,
                            producer : BOOLEAN]]
    /\ freeCells \in Seq(Cells)
    /\ refs \in 0..(1 + 2 * CellCapacity)
    /\ \A h \in Holders : handle[h].lease.cell \in 0..CellCapacity

\* A result handle keeps its cell: the generation it was given is the one in
\* the cell, so no read through it is stale or of a later task.
HandleCurrent ==
    \A h \in Holders :
        handle[h].lease # NoLease => Current(cells, handle[h].lease)

\* A cell is on the free list once and only when both its owners are gone, and
\* the store outlives its last owner.
FreeUnowned ==
    /\ IsInjective(freeCells)
    /\ \A c \in Range(freeCells) :
         cells[c].phase = "Idle" /\ ~cells[c].producer /\ cells[c].observers = 0
    /\ \A c \in Cells :
         cells[c].producer \/ cells[c].observers > 0 => refs > 0
=============================================================================
