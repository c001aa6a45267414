----------------------------- MODULE TaskIndex -----------------------------
(***************************************************************************)
(* The task index (scheduler/state/task/index.cpp): an open-addressing     *)
(* table from task id to record slot, with linear probing, tombstones, a    *)
(* wipe when it becomes empty and a rebuild when tombstones outnumber the   *)
(* entries.  IndexTask is called by a spawn whose record already carries    *)
(* the new id, ForgetTask by RetireTaskRecord before the id is erased.      *)
(***************************************************************************)
EXTENDS Integers, Sequences, FiniteSets, SequencesExt

CONSTANTS
    TaskCapacity,  \* task_capacity: record slots
    MaxId          \* bound: the largest task id issued

Ids == 1..MaxId
RecordSlots == 1..TaskCapacity
IndexCapacity == 2 * TaskCapacity + 1
Places == 0..(IndexCapacity - 1)
Empty == 0
Deleted == TaskCapacity + 1   \* kIndexDeleted
NoSlot == 0

VARIABLES
    recordId,   \* TaskRecord::id by slot, 0 when free
    freeSlots,  \* the record free list, last freed first
    table,      \* record_index_slots, record_index_size, record_index_deleted
    nextId      \* next_task_id

vars == <<recordId, freeSlots, table, nextId>>

-----------------------------------------------------------------------------

EmptyTable == [at |-> [p \in Places |-> Empty], size |-> 0, deleted |-> 0]

\* The n-th place probed for an id.
Probe(id, n) == (id + n) % IndexCapacity

\* IndexMatches: an occupied entry is compared through the record it names.
IndexMatches(rec, entry, id) == entry \in RecordSlots /\ rec[entry] = id

\* The probes at which a search for an id may stop.
Hits(at, rec, id) ==
    {n \in Places : IndexMatches(rec, at[Probe(id, n)], id)}
Empties(at, id) == {n \in Places : at[Probe(id, n)] = Empty}
First(ns) == CHOOSE n \in ns : \A m \in ns : n <= m

\* The search reaches the id's entry before an empty place.
Found(at, rec, id) ==
    /\ Hits(at, rec, id) # {}
    /\ \A e \in Empties(at, id) : First(Hits(at, rec, id)) < e

\* IndexFor.
IndexFor(tab, rec, id) ==
    IF Found(tab.at, rec, id)
    THEN tab.at[Probe(id, First(Hits(tab.at, rec, id)))]
    ELSE NoSlot

\* IndexTask: over the id's own entry, else in the first tombstone met before
\* an empty place, else in that empty place.
IndexTask(tab, rec, id, s) ==
    LET at == tab.at
        end == IF Empties(at, id) = {} THEN IndexCapacity
               ELSE First(Empties(at, id))
        graves == {n \in Places : n < end /\ at[Probe(id, n)] = Deleted}
    IN  IF Found(at, rec, id)
        THEN [at |-> [at EXCEPT ![Probe(id, First(Hits(at, rec, id)))] = s],
              size |-> tab.size, deleted |-> tab.deleted]
        ELSE IF graves # {}
        THEN [at |-> [at EXCEPT ![Probe(id, First(graves))] = s],
              size |-> tab.size + 1, deleted |-> tab.deleted - 1]
        ELSE IF end < IndexCapacity
        THEN [at |-> [at EXCEPT ![Probe(id, end)] = s],
              size |-> tab.size + 1, deleted |-> tab.deleted]
        ELSE tab

\* One round of the rebuild: a slot that is in use by another task is entered.
Reindex(tab, rec, retired, s) ==
    IF rec[s] = 0 \/ rec[s] = retired THEN tab
    ELSE IndexTask(tab, rec, rec[s], s)

\* RebuildTaskIndex: all records but the retired one, in slot order.
RebuildTaskIndex(rec, retired) ==
    LET after[s \in 0..TaskCapacity] ==
          IF s = 0 THEN EmptyTable ELSE Reindex(after[s - 1], rec, retired, s)
    IN  after[TaskCapacity]

\* Slip: the place is emptied instead of marked, cutting other probe paths.
ForgetTaskEmpties(tab, rec, id) ==
    IF ~Found(tab.at, rec, id) THEN tab
    ELSE [tab EXCEPT !.at[Probe(id, First(Hits(tab.at, rec, id)))] = Empty,
                     !.size = @ - 1]

\* ForgetTask.
ForgetTask(tab, rec, id) ==
    LET p == Probe(id, First(Hits(tab.at, rec, id)))
        marked == [at |-> [tab.at EXCEPT ![p] = Deleted],
                   size |-> tab.size - 1, deleted |-> tab.deleted + 1]
    IN  IF ~Found(tab.at, rec, id) THEN tab
        ELSE IF marked.size = 0 THEN EmptyTable
        ELSE IF /\ marked.deleted > marked.size
                /\ marked.deleted >= (IndexCapacity + 3) \div 4
        THEN RebuildTaskIndex(rec, id)
        ELSE marked

-----------------------------------------------------------------------------

Init ==
    /\ recordId = [s \in RecordSlots |-> 0]
    /\ freeSlots = [s \in RecordSlots |-> s]
    /\ table = EmptyTable
    /\ nextId = 1

\* ClaimSpawnTaskSlot and IndexTask for the next spawn: ids ascend, and
\* reserved ranges that are dropped leave gaps.
Spawn(id) ==
    /\ freeSlots # <<>>
    /\ id \in nextId..MaxId
    /\ LET s == Head(freeSlots)
           rec == [recordId EXCEPT ![s] = id]
       IN  /\ recordId' = rec
           /\ table' = IndexTask(table, rec, id, s)
    /\ nextId' = id + 1
    /\ freeSlots' = Tail(freeSlots)

\* RetireTaskRecord.
Retire(s) ==
    /\ recordId[s] # 0
    /\ table' = ForgetTask(table, recordId, recordId[s])
    /\ recordId' = [recordId EXCEPT ![s] = 0]
    /\ freeSlots' = <<s>> \o freeSlots
    /\ UNCHANGED nextId

\* Reset: the records and the index are dropped, and ids start over.
Clear ==
    /\ recordId' = [s \in RecordSlots |-> 0]
    /\ freeSlots' = [s \in RecordSlots |-> s]
    /\ table' = EmptyTable
    /\ nextId' = 1

-----------------------------------------------------------------------------

\* The type invariant: places hold a record slot or a mark, and the counters
\* keep within the records and the table.
TypeOK ==
    /\ recordId \in [RecordSlots -> 0..MaxId]
    /\ freeSlots \in Seq(RecordSlots)
    /\ table.at \in [Places -> 0..(TaskCapacity + 1)]
    /\ table.size \in 0..TaskCapacity
    /\ table.deleted \in 0..IndexCapacity
    /\ nextId \in 1..(MaxId + 1)

\* Find returns the record of every live task and none for any other id, in
\* particular not the record of a later task that reuses a retired one's slot.
LookupExact ==
    \A id \in Ids :
        LET holders == {s \in RecordSlots : recordId[s] = id}
        IN  IF holders = {} THEN IndexFor(table, recordId, id) = NoSlot
            ELSE holders = {IndexFor(table, recordId, id)}

\* Every search ends at an empty place before it has gone round the table: the
\* tombstones never fill what the entries leave free.
EmptyPlaceLeft == \E p \in Places : table.at[p] = Empty
=============================================================================
