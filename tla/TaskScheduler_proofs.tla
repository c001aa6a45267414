------------------------ MODULE TaskScheduler_proofs ------------------------
(***************************************************************************)
(* The inductive invariant of TaskScheduler, the proofs that the initial   *)
(* state and every step keep it, and the theorems about the progress loop. *)
(*                                                                         *)
(* What the properties lack to be inductive: a record exists exactly from  *)
(* spawn to retirement (RecordSpan), a coroutine is dispatched alone, so a *)
(* park that empties the batch drops nobody (CoroutineAlone), a joiner is  *)
(* blocked on its target or already holds the target's verdict             *)
(* (AwaitKept), verdicts outlive records (FailureKept) and what was        *)
(* reported was final (ReportSettled), ids lie below the counter and the   *)
(* reserved range (IdsIssued), open scopes are never closed ones           *)
(* (ScopeStack).                                                           *)
(***************************************************************************)
EXTENDS TaskScheduler, SequenceLemmas

\* The tasks in a state; the tasks that have ended; the waiters of join_waits;
\* a queue that holds each element of A once and nothing else.
InState(s) == {t \in Tasks : state[t] = s}
Over(t) == state[t] \in Terminal \cup {"Retired"}
Firsts(w) == [i \in DOMAIN w |-> w[i][1]]
Once(q, A) == IsInjective(q) /\ Range(q) = A

\* Ids are issued in ascending order; the root's reserved range is above the
\* issued ids and below next_task_id.
IdsIssued ==
    /\ nextTask >= 1
    /\ \A t \in Tasks : state[t] # "None" => t < nextTask
    /\ reservation.left # 0 =>
         /\ reservation.next >= 1
         /\ reservation.next + reservation.left <= nextTask
         /\ \A t \in Tasks : state[t] # "None" => t < reservation.next

\* A record exists from spawn to retirement.
RecordSpan ==
    \A t \in Tasks : HasRecord(t) <=> state[t] \notin {"None", "Retired"}

\* Every task is in the queue of its state, once.
QueuesPlaced ==
    /\ Once(ready, InState("Ready"))
    /\ Once(batch, InState("Running"))
    /\ Once(Firsts(joinWaits), InState("JoinBlocked"))
    /\ Once(timers, InState("Sleeping"))
    /\ Once(channelWaits, InState("ChannelBlocked"))

\* A coroutine is dispatched alone.
CoroutineAlone == Len(batch) > 1 => Range(batch) \cap coroutine = {}

\* Who awaits a task is blocked on it, or was woken with its verdict.
AwaitKept ==
    \A t \in Tasks : awaiting[t] # 0 =>
       /\ t \in coroutine
       /\ \/ state[t] = "JoinBlocked"
          \/ /\ state[t] \in {"Ready", "Running"}
             /\ Over(awaiting[t])
             /\ waitResult[t] = failure[awaiting[t]]

\* A verdict is given at the end of a body and outlives the record.
FailureKept ==
    \A t \in Tasks :
       /\ state[t] = "Failed" => failure[t] = t
       /\ state[t] \notin {"Failed", "Retired"} => failure[t] = Ok

\* A join that reports a verdict is about tasks that are over.
ReportSettled ==
    /\ report.code \in -2..MaxTask
    /\ report.op = "join" =>
         /\ report.on \in Seq(Tasks)
         /\ report.code >= 0 => \A i \in DOMAIN report.on : Over(report.on[i])

\* The open scopes are distinct, none is closed, and new ids are above them.
ScopeStack ==
    /\ Len(scopes) >= 1
    /\ IsInjective(scopes)
    /\ Range(scopes) \cap closed = {}
    /\ \A s \in Range(scopes) \cup closed : s < nextScope
    /\ rootOp = "scope" => Len(scopes) > 1

\* The parts of the inductive invariant: what the records, the queues, the
\* joins and the scopes contribute.
RecordInv == IdsIssued /\ RecordSpan /\ SlotsPartitioned
QueueInv == QueuesPlaced /\ CoroutineAlone /\ NoLostJoin
JoinInv == AwaitKept /\ FailureKept /\ ReportSettled /\ JoinReportsTarget
ScopeInv == ScopeStack /\ ScopeConfined

IndInv == TypeOK /\ RecordInv /\ QueueInv /\ JoinInv /\ ScopeInv

-----------------------------------------------------------------------------
(* The type invariant in parts, one for each group of variables.           *)

RecordTypes ==
    /\ slotOf \in [Tasks -> 0..TaskCapacity]
    /\ freeSlots \in Seq(1..TaskCapacity)
    /\ state \in [Tasks -> States]
    /\ coroutine \subseteq Tasks
    /\ scopeOf \in [Tasks -> Scopes]
    /\ failure \in [Tasks -> 0..MaxTask]

QueueTypes ==
    /\ ready \in Seq(Tasks) /\ batch \in Seq(Tasks)
    /\ joinWaits \in Seq(Tasks \X Tasks)
    /\ channelWaits \in Seq(Tasks) /\ timers \in Seq(Tasks)

WaitTypes ==
    /\ awaiting \in [Tasks -> 0..MaxTask]
    /\ waitResult \in [Tasks -> -1..MaxTask]

IdTypes ==
    /\ nextTask \in Nat
    /\ reservation \in [next : Nat, left : 0..RangeSize, scope : 0..MaxScope]

RootTypes ==
    /\ nextScope \in Nat
    /\ scopes \in Seq(Scopes) /\ closed \subseteq Scopes
    /\ rootOp \in {"idle", "join", "scope", "drain"}
    /\ targets \in Seq(Tasks)

UsedType == used \in [0..MaxTask -> Nat]

\* The parts cover the type invariant.
LEMMA TypeParts ==
    TypeOK => /\ RecordTypes /\ QueueTypes /\ WaitTypes /\ IdTypes
              /\ RootTypes /\ UsedType /\ report.code \in -2..MaxTask
BY DEF TypeOK, RecordTypes, QueueTypes, WaitTypes, IdTypes, RootTypes, UsedType

\* The parts together give the type invariant of the next state.
LEMMA TypePartsNext ==
    ASSUME RecordTypes', QueueTypes', WaitTypes', IdTypes', RootTypes',
           UsedType', ReportSettled'
    PROVE  TypeOK'
BY DEF TypeOK, RecordTypes, QueueTypes, WaitTypes, IdTypes, RootTypes, UsedType, ReportSettled

\* A group of variables that does not change keeps its part.
LEMMA TypeFrames ==
    ASSUME TypeOK
    PROVE  /\ UNCHANGED <<records, state>> => RecordTypes'
           /\ UNCHANGED <<ready, batch, joinWaits, channelWaits, timers>> => QueueTypes'
           /\ UNCHANGED <<awaiting, waitResult>> => WaitTypes'
           /\ UNCHANGED ids => IdTypes'
           /\ UNCHANGED root => RootTypes'
           /\ UNCHANGED used => UsedType'
BY TypeParts DEF RecordTypes, QueueTypes, WaitTypes, IdTypes, RootTypes, UsedType, records, ids, root

\* Counting a call of the root or of a task keeps the counters natural.
LEMMA CountTypes ==
    ASSUME TypeOK, NEW p \in 0..MaxTask, used' = [used EXCEPT ![p] = @ + 1]
    PROVE  UsedType'
BY TypeParts DEF UsedType

\* The root's own counter.
LEMMA RootCounts == TypeOK /\ CountRoot => UsedType'
<1>1. 0 \in 0..MaxTask
  BY SchedulerAssumption
<1> QED BY <1>1, CountTypes DEF CountRoot

-----------------------------------------------------------------------------
(* Facts about the state the actions start from.                           *)

\* The scope a spawn of the root or EndScope uses is an open one.
LEMMA CurrentScopeOpen ==
    ASSUME TypeOK, ScopeStack
    PROVE  /\ CurrentScope \in Scopes /\ CurrentScope \in Range(scopes)
           /\ CurrentScope \notin closed
<1>1. Len(scopes) \in Nat /\ Len(scopes) \in DOMAIN scopes
  BY DEF TypeOK, ScopeStack
<1>2. scopes[Len(scopes)] \in Range(scopes)
  BY <1>1 DEF Range
<1>3. scopes[Len(scopes)] \in Scopes
  BY <1>1 DEF TypeOK
<1> QED BY <1>2, <1>3 DEF CurrentScope, ScopeStack

\* The task whose quantum runs.
LEMMA CurrentRuns ==
    ASSUME TypeOK, RecordSpan, QueuesPlaced, batch # <<>>
    PROVE  /\ Current \in Tasks /\ state[Current] = "Running"
           /\ HasRecord(Current) /\ Current \in Range(batch)
<1>1. Current \in Range(batch) /\ Current \in Tasks
  <2>1. batch \in Seq(Tasks)
    BY DEF TypeOK
  <2> QED BY <2>1, TailOnce DEF Current
<1>2. state[Current] = "Running"
  BY <1>1 DEF QueuesPlaced, Once, InState
<1> QED BY <1>1, <1>2 DEF RecordSpan

\* A coroutine that runs is the whole batch.
LEMMA CoroutineRuns ==
    ASSUME TypeOK, RecordSpan, QueuesPlaced, CoroutineAlone,
           batch # <<>>, Current \in coroutine
    PROVE  InState("Running") = {Current}
<1>1. batch \in Seq(Tasks) /\ Len(batch) \in Nat /\ Len(batch) # 0
  BY DEF TypeOK
<1>2. Current \in Range(batch)
  BY CurrentRuns
<1>3. Len(batch) = 1
  <2>1. ~(Len(batch) > 1)
    BY <1>2 DEF CoroutineAlone
  <2> DEFINE n == Len(batch)
  <2>2. n \in Nat /\ n # 0 /\ ~(n > 1)
    BY <1>1, <2>1
  <2> HIDE DEF n
  <2>3. n = 1
    BY <2>2
  <2> QED BY <2>3 DEF n
<1>4. Range(batch) = {batch[1]} /\ Current = batch[1]
  <2>1. DOMAIN batch = {1}
    BY <1>1, <1>3
  <2> QED BY <1>1, <2>1 DEF Range, Current
<1> QED BY <1>4 DEF QueuesPlaced, Once

\* Moving one task to another state moves it between two of the sets.
LEMMA OneMoves ==
    ASSUME TypeOK, NEW c \in Tasks, NEW x \in States,
           state' = [state EXCEPT ![c] = x], NEW s
    PROVE  InState(s)' = IF s = x THEN InState(s) \cup {c}
                         ELSE InState(s) \ {c}
BY DEF TypeOK, InState

\* Moving a set of tasks.
LEMMA SetMoves ==
    ASSUME TypeOK, NEW C \in SUBSET Tasks, NEW x \in States,
           state' = Set(state, C, x), NEW s
    PROVE  InState(s)' = IF s = x THEN InState(s) \cup C
                         ELSE InState(s) \ C
BY DEF TypeOK, InState, Set

-----------------------------------------------------------------------------
(* Init.                                                                   *)

\* The initial state satisfies the inductive invariant.
LEMMA InitEstablishes == Init => IndInv
<1> SUFFICES ASSUME Init PROVE IndInv
  OBVIOUS
<1> USE SchedulerAssumption
<1>1. TypeOK
  <2>1. freeSlots \in Seq(1..TaskCapacity)
    BY DEF Init
  <2>2. scopes \in Seq(Scopes)
    BY DEF Init, Scopes, RootScope
  <2>3. RangeSize \in Nat
    BY DEF RangeSize
  <2> QED BY <2>1, <2>2, <2>3
          DEF Init, TypeOK, NoSlot, States, RootScope, Scopes, Ok, Tasks, NoReservation
<1>2. RecordInv
  <2>1. IdsIssued
    BY DEF Init, IdsIssued, NoReservation
  <2>2. RecordSpan
    BY DEF Init, RecordSpan, HasRecord
  <2>3. SlotsPartitioned
    BY DEF Init, SlotsPartitioned, IsInjective, Live, HasRecord, Range
  <2> QED BY <2>1, <2>2, <2>3 DEF RecordInv
<1>3. QueueInv
  <2>1. QueuesPlaced
    BY DEF Init, QueuesPlaced, Once, InState, Firsts, IsInjective, Range
  <2>2. CoroutineAlone /\ NoLostJoin
    BY DEF Init, CoroutineAlone, NoLostJoin
  <2> QED BY <2>1, <2>2 DEF QueueInv
<1>4. JoinInv
  BY DEF Init, JoinInv, AwaitKept, FailureKept, ReportSettled, JoinReportsTarget, Ok
<1>5. ScopeInv
  BY DEF Init, ScopeInv, ScopeStack, ScopeConfined, IsInjective, Range, RootScope
<1> QED BY <1>1, <1>2, <1>3, <1>4, <1>5 DEF IndInv

-----------------------------------------------------------------------------
(* Frames: what leaves a part of the invariant alone.                      *)

\* A report about tasks that were over stays true: they stay over, and their
\* verdicts outlive their records.
LEMMA ReportStands ==
    ASSUME ReportSettled, JoinReportsTarget, report' = report,
           \A t \in Tasks : Over(t) => Over(t)' /\ failure'[t] = failure[t]
    PROVE  ReportSettled' /\ JoinReportsTarget'
<1>1. ReportSettled'
  <2> SUFFICES ASSUME report.op = "join", report.code >= 0
               PROVE  \A i \in DOMAIN report.on : Over(report.on[i])'
    BY DEF ReportSettled
  <2>1. report.on \in Seq(Tasks)
    BY DEF ReportSettled
  <2> QED BY <2>1 DEF ReportSettled
<1>2. JoinReportsTarget'
  <2> SUFFICES ASSUME report.op = "join" PROVE JoinReportsTarget'
    BY DEF JoinReportsTarget
  <2>1. CASE report.code < 0
    BY <2>1 DEF JoinReportsTarget, Ok, ReportSettled
  <2>2. CASE report.code >= 0
    <3>1. report.on \in Seq(Tasks) /\ report.code \in Int
      BY DEF ReportSettled
    <3>2. \A i \in DOMAIN report.on :
             /\ Over(report.on[i]) /\ Over(report.on[i])'
             /\ failure'[report.on[i]] = failure[report.on[i]]
      BY <2>2, <3>1 DEF ReportSettled
    <3> QED BY <3>2 DEF JoinReportsTarget, Over, Ok
  <2>3. report.code \in Int
    BY DEF ReportSettled
  <2> QED BY <2>1, <2>2, <2>3
<1> QED BY <1>1, <1>2

\* Joiners keep what they wait for or were woken with, or block anew.
LEMMA AwaitChanges ==
    ASSUME TypeOK, AwaitKept, coroutine \subseteq coroutine',
           \A t \in Tasks : Over(t) => Over(t)' /\ failure'[t] = failure[t],
           \A t \in Tasks : awaiting'[t] # 0 =>
              \/ t \in coroutine' /\ state'[t] = "JoinBlocked"
              \/ /\ awaiting'[t] = awaiting[t]
                 /\ waitResult'[t] = waitResult[t]
                 /\ \/ state'[t] = state[t]
                    \/ {state[t], state'[t]} \subseteq {"Ready", "Running"}
    PROVE  AwaitKept'
<1> SUFFICES ASSUME NEW t \in Tasks, awaiting'[t] # 0,
                    awaiting'[t] = awaiting[t],
                    waitResult'[t] = waitResult[t],
                    \/ state'[t] = state[t]
                    \/ {state[t], state'[t]} \subseteq {"Ready", "Running"}
             PROVE  /\ t \in coroutine'
                    /\ \/ state'[t] = "JoinBlocked"
                       \/ /\ state'[t] \in {"Ready", "Running"}
                          /\ Over(awaiting[t])'
                          /\ waitResult'[t] = failure'[awaiting[t]]
  BY DEF AwaitKept, Over
<1>1. PICK u \in Tasks : awaiting[t] = u
  <2>1. awaiting \in [Tasks -> 0..MaxTask]
    BY DEF TypeOK
  <2>2. awaiting[t] \in 0..MaxTask
    BY <2>1
  <2>3. awaiting[t] \in Tasks
    BY <2>2 DEF Tasks
  <2> QED BY <2>3
<1>2. /\ t \in coroutine
      /\ \/ state[t] = "JoinBlocked"
         \/ /\ state[t] \in {"Ready", "Running"}
            /\ Over(u) /\ waitResult[t] = failure[u]
  BY <1>1 DEF AwaitKept
<1>3. Over(awaiting[t])' = Over(u)'
  BY <1>1 DEF Over
<1> QED BY <1>1, <1>2, <1>3

\* The same when nobody's awaited task changes.
LEMMA AwaitStands ==
    ASSUME TypeOK, AwaitKept, awaiting' = awaiting, coroutine \subseteq coroutine',
           \A t \in Tasks : Over(t) => Over(t)' /\ failure'[t] = failure[t],
           \A t \in Tasks : awaiting[t] # 0 =>
              /\ waitResult'[t] = waitResult[t]
              /\ \/ state'[t] = state[t]
                 \/ {state[t], state'[t]} \subseteq {"Ready", "Running"}
    PROVE  AwaitKept'
BY AwaitChanges

\* Targets stay unfinished.
LEMMA TargetsStand ==
    ASSUME TypeOK, NoLostJoin, joinWaits' = joinWaits,
           \A i \in DOMAIN joinWaits :
              awaiting'[joinWaits[i][1]] = awaiting[joinWaits[i][1]],
           \A t \in Tasks : HasRecord(t) /\ state[t] \notin Terminal
                              => HasRecord(t)' /\ state'[t] \notin Terminal
    PROVE  NoLostJoin'
<1> SUFFICES ASSUME NEW i \in DOMAIN joinWaits
             PROVE  LET t == joinWaits[i][2] IN
                    /\ slotOf'[t] # NoSlot /\ state'[t] \notin Terminal
                    /\ awaiting'[joinWaits[i][1]] = t
  BY DEF NoLostJoin, HasRecord
<1>1. PICK t \in Tasks : t = joinWaits[i][2]
  <2>1. joinWaits \in Seq(Tasks \X Tasks)
    BY DEF TypeOK
  <2>2. joinWaits[i] \in Tasks \X Tasks
    BY <2>1
  <2>3. joinWaits[i][2] \in Tasks
    BY <2>2
  <2> QED BY <2>3
<1>2. HasRecord(t) /\ state[t] \notin Terminal /\ awaiting[joinWaits[i][1]] = t
  BY <1>1 DEF NoLostJoin
<1>3. slotOf'[t] # NoSlot /\ state'[t] \notin Terminal
  BY <1>2 DEF HasRecord
<1> QED BY <1>1, <1>2, <1>3

\* A step that touches neither records, queues nor waits.
LEMMA QuietStep ==
    ASSUME IndInv, UNCHANGED <<records, state, ready, batch, waits, ids>>
    PROVE  /\ RecordInv' /\ QueueInv' /\ AwaitKept' /\ FailureKept'
           /\ \A t \in Tasks : Over(t) => Over(t)' /\ failure'[t] = failure[t]
<1> USE DEF records, waits, ids
<1>1. RecordInv'
  BY DEF IndInv, RecordInv, IdsIssued, RecordSpan, HasRecord, SlotsPartitioned, Live
<1>2. QueueInv'
  BY DEF IndInv, QueueInv, QueuesPlaced, Once, InState, CoroutineAlone, NoLostJoin, HasRecord
<1>3. AwaitKept' /\ FailureKept'
  BY DEF IndInv, JoinInv, AwaitKept, FailureKept, Over
<1> QED BY <1>1, <1>2, <1>3 DEF Over

\* Stuttering keeps the inductive invariant.
LEMMA Stutters == IndInv /\ UNCHANGED vars => IndInv'
<1> SUFFICES ASSUME IndInv, UNCHANGED vars PROVE IndInv'
  OBVIOUS
<1> USE DEF vars, root
<1>1. RecordInv' /\ QueueInv' /\ AwaitKept' /\ FailureKept' /\ ReportSettled' /\ JoinReportsTarget'
  BY QuietStep, ReportStands DEF IndInv, JoinInv
<1>2. ScopeInv'
  BY DEF IndInv, ScopeInv, ScopeStack, ScopeConfined, Live, HasRecord, records
<1>3. TypeOK'
  BY <1>1, TypeFrames, TypePartsNext DEF IndInv, waits
<1> QED BY <1>1, <1>2, <1>3 DEF IndInv, JoinInv

-----------------------------------------------------------------------------
(* The root's calls and returns that leave the tasks alone.                *)

\* Join records its handles and leaves the tasks alone.
LEMMA JoinKeeps == IndInv /\ Join => IndInv'
<1> SUFFICES ASSUME IndInv, Join PROVE IndInv'
  OBVIOUS
<1> USE DEF Join
<1>1. RecordInv' /\ QueueInv' /\ AwaitKept' /\ FailureKept' /\ ReportSettled' /\ JoinReportsTarget'
  BY QuietStep, ReportStands DEF IndInv, JoinInv
<1>2. ScopeInv'
  BY DEF IndInv, ScopeInv, ScopeStack, ScopeConfined, Live, HasRecord, records
<1>3. TypeOK'
  <2>1. targets' \in Seq(Tasks)
    <3>1. PICK hs \in {<<t>> : t \in Live} \cup (Live \X Live) : targets' = hs
      OBVIOUS
    <3>2. CASE hs \in {<<t>> : t \in Live}
      <4>1. PICK t \in Live : hs = <<t>>
        BY <3>2
      <4>2. t \in Tasks
        BY DEF Live
      <4> QED BY <3>1, <4>1, <4>2
    <3>3. CASE hs \in Live \X Live
      <4>1. PICK t \in Live, u \in Live : hs = <<t, u>>
        BY <3>3
      <4>2. t \in Tasks /\ u \in Tasks
        BY DEF Live
      <4> QED BY <3>1, <4>1, <4>2
    <3> QED BY <3>2, <3>3
  <2>2. RootTypes'
    BY <2>1, TypeParts DEF IndInv, RootTypes
  <2> QED BY <1>1, <2>2, TypeFrames, TypePartsNext, RootCounts DEF IndInv, waits
<1> QED BY <1>1, <1>2, <1>3 DEF IndInv, JoinInv

\* BeginScope opens a scope whose id is above all earlier ones.
LEMMA BeginScopeKeeps == IndInv /\ BeginScope => IndInv'
<1> SUFFICES ASSUME IndInv, BeginScope PROVE IndInv'
  OBVIOUS
<1>0. /\ scopes \in Seq(Scopes) /\ nextScope \in Scopes
      /\ nextScope \notin Range(scopes) /\ nextScope \notin closed
      /\ Scopes \subseteq Int /\ closed \subseteq Scopes
  <2>1. scopes \in Seq(Scopes) /\ closed \subseteq Scopes
    BY DEF IndInv, TypeOK
  <2>2. nextScope \in Scopes
    BY DEF BeginScope, IndInv, TypeOK
  <2>3. Scopes \subseteq Int
    BY DEF Scopes
  <2>4. \A s \in Range(scopes) \cup closed : s < nextScope
    BY DEF IndInv, ScopeInv, ScopeStack
  <2>5. ~(nextScope < nextScope)
    BY <2>2, <2>3
  <2> QED BY <2>1, <2>2, <2>3, <2>4, <2>5
<1> USE DEF BeginScope
<1>1. RecordInv' /\ QueueInv' /\ AwaitKept' /\ FailureKept' /\ ReportSettled' /\ JoinReportsTarget'
  BY QuietStep, ReportStands DEF IndInv, JoinInv
<1>2. ScopeInv'
  <2>1. /\ scopes' \in Seq(Scopes) /\ Range(scopes') = Range(scopes) \cup {nextScope}
        /\ IsInjective(scopes')
    BY <1>0, AppendOnce DEF IndInv, ScopeInv, ScopeStack
  <2>2. Len(scopes') = Len(scopes) + 1 /\ Len(scopes) \in Nat
    BY <1>0
  <2>3. rootOp' = "idle"
    BY DEF RootMayCall
  <2>4. \A s \in Range(scopes') \cup closed' : s < nextScope'
    <3>1. Range(scopes) \subseteq Int
      BY <1>0, RangeOfSeq
    <3>2. \A s \in Range(scopes) \cup closed : s \in Int /\ s < nextScope
      BY <1>0, <3>1 DEF IndInv, ScopeInv, ScopeStack
    <3>3. nextScope \in Int
      BY <1>0
    <3>4. \A s \in Range(scopes) \cup closed \cup {nextScope} : s < nextScope + 1
      BY <3>2, <3>3
    <3> QED BY <2>1, <3>4
  <2>5. ScopeStack'
    BY <1>0, <2>1, <2>2, <2>3, <2>4 DEF IndInv, ScopeInv, ScopeStack
  <2>6. ScopeConfined'
    BY DEF IndInv, ScopeInv, ScopeConfined, Live, HasRecord, records
  <2> QED BY <2>5, <2>6 DEF ScopeInv
<1>3. TypeOK'
  <2>1. RootTypes'
    BY <1>0, TypeParts DEF IndInv, RootTypes
  <2> QED BY <1>1, <2>1, TypeFrames, TypePartsNext, RootCounts DEF IndInv, waits
<1> QED BY <1>1, <1>2, <1>3 DEF IndInv, JoinInv

\* EndScope and Drain only enter the progress loop.
LEMMA EndScopeKeeps == IndInv /\ (EndScope \/ Drain) => IndInv'
<1> SUFFICES ASSUME IndInv, EndScope \/ Drain PROVE IndInv'
  OBVIOUS
<1> USE DEF EndScope, Drain
<1>1. RecordInv' /\ QueueInv' /\ AwaitKept' /\ FailureKept' /\ ReportSettled' /\ JoinReportsTarget'
  BY QuietStep, ReportStands DEF IndInv, JoinInv
<1>2. ScopeInv'
  BY DEF IndInv, ScopeInv, ScopeStack, ScopeConfined, Live, HasRecord, records
<1>3. TypeOK'
  <2>1. RootTypes'
    BY TypeParts DEF IndInv, RootTypes
  <2> QED BY <1>1, <2>1, TypeFrames, TypePartsNext, RootCounts DEF IndInv, waits
<1> QED BY <1>1, <1>2, <1>3 DEF IndInv, JoinInv

\* The codes a search for failures can give.
LEMMA FirstFailureInRange ==
    ASSUME TypeOK, NEW ts \in SUBSET Tasks
    PROVE  FirstFailureOf(ts) \in 0..MaxTask
<1> DEFINE failed == {t \in ts : HasRecord(t) /\ state[t] = "Failed"}
           least == CHOOSE t \in failed :
                       \A u \in failed : slotOf[t] <= slotOf[u]
<1>1. CASE failed = {}
  BY <1>1, SchedulerAssumption DEF FirstFailureOf, Ok
<1>2. CASE failed # {}
  <2>1. slotOf \in [Tasks -> Nat] /\ failure \in [Tasks -> 0..MaxTask]
        /\ failed \subseteq Tasks
    BY DEF TypeOK
  <2> HIDE DEF failed
  <2> DEFINE A == {slotOf[t] : t \in failed}
  <2>2. A \in SUBSET Nat /\ A # {}
    BY <1>2, <2>1
  <2>3. \E m \in A : \A n \in A : m <= n
    <3> HIDE DEF A
    <3> QED BY <2>2, NatMinimum
  <2>4. \E t \in failed : \A u \in failed : slotOf[t] <= slotOf[u]
    BY <2>3
  <2>5. least \in failed
    BY <2>4
  <2> HIDE DEF least
  <2>6. failure[least] \in 0..MaxTask
    BY <2>1, <2>5
  <2> QED BY <1>2, <2>6 DEF FirstFailureOf, failed, least
<1> QED BY <1>1, <1>2

\* The returns of join, scope and drain that retire nothing: a scope that
\* is found terminal closes with no unfinished member.
LEMMA ReturnsKeep ==
    IndInv /\ (JoinDeadlock \/ ScopeDeadlock \/ ScopeDone \/ DrainDone)
      => IndInv'
<1> SUFFICES ASSUME IndInv,
                    JoinDeadlock \/ ScopeDeadlock \/ ScopeDone \/ DrainDone
             PROVE  IndInv'
  OBVIOUS
<1> USE DEF JoinDeadlock, ScopeDeadlock, ScopeDone, DrainDone
<1>0. /\ UNCHANGED <<records, state, ready, batch, waits, ids, nextScope, used>>
      /\ rootOp' = "idle" /\ targets' = <<>>
  BY DEF Return
<1>1. RecordInv' /\ QueueInv' /\ AwaitKept' /\ FailureKept'
  BY <1>0, QuietStep
<1>2. ReportSettled' /\ JoinReportsTarget'
  <2>1. \/ JoinDeadlock /\ report'.op = "join" /\ report'.on = targets
           /\ report'.code = TaskDeadlock
        \/ report'.op # "join" /\ report'.code \in -2..MaxTask
    <3>1. ASSUME NEW ts \in SUBSET Tasks
          PROVE  FirstFailureOf(ts) \in -2..MaxTask
      BY FirstFailureInRange, SchedulerAssumption DEF IndInv
    <3>2. TaskDeadlock \in -2..MaxTask
      BY SchedulerAssumption DEF TaskDeadlock
    <3>3. CASE JoinDeadlock
      BY <3>3 DEF Return
    <3>4. CASE ScopeDeadlock
      BY <3>4, <3>2 DEF Return
    <3>5. CASE ScopeDone
      BY <3>5, <3>1 DEF Return, FirstFailureCode, ScopeFailureCode
    <3>6. CASE DrainDone
      BY <3>6, <3>1, <3>2 DEF Return, FirstFailureCode
    <3> QED BY <3>3, <3>4, <3>5, <3>6
  <2>2. TaskDeadlock \in -2..MaxTask /\ TaskDeadlock < 0 /\ TaskDeadlock # Ok
    BY SchedulerAssumption DEF TaskDeadlock, Ok
  <2>3. targets \in Seq(Tasks)
    BY TypeParts DEF IndInv, RootTypes
  <2>4. CASE report'.op = "join"
    <3>1. /\ report'.on = targets /\ report'.code \in -2..MaxTask
          /\ ~(report'.code >= 0) /\ report'.code # Ok /\ ~(report'.code > 0)
      BY <2>1, <2>2, <2>4
    <3> QED BY <2>3, <2>4, <3>1 DEF ReportSettled, JoinReportsTarget
  <2>5. CASE report'.op # "join"
    BY <2>1, <2>5 DEF ReportSettled, JoinReportsTarget, JoinDeadlock
  <2> QED BY <2>4, <2>5
<1>3. ScopeInv' /\ RootTypes'
  <2>1. CASE JoinDeadlock \/ DrainDone
    <3>1. UNCHANGED <<scopes, closed>>
      BY <2>1
    <3> QED BY <1>0, <3>1, TypeParts
            DEF IndInv, ScopeInv, ScopeStack, ScopeConfined, Live, HasRecord, records, RootTypes
  <2>2. CASE ScopeDone \/ ScopeDeadlock
    <3> DEFINE n == Len(scopes)
    <3>1. /\ scopes \in Seq(Scopes) /\ n \in Nat /\ n > 1
          /\ scopes' = SubSeq(scopes, 1, n - 1)
      <4>1. scopes \in Seq(Scopes)
        BY DEF IndInv, TypeOK
      <4>2. n \in Nat /\ n > 1
        <5>1. rootOp = "scope"
          BY <2>2
        <5> QED BY <4>1, <5>1 DEF IndInv, ScopeInv, ScopeStack
      <4>3. scopes' = Front(scopes)
        BY <2>2
      <4> QED BY <4>1, <4>2, <4>3 DEF Front
    <3>2. n - 1 \in 0..n
      BY <3>1
    <3>3. /\ scopes' \in Seq(Scopes) /\ Len(scopes') = n - 1
          /\ Range(scopes') \subseteq Range(scopes) /\ IsInjective(scopes')
      BY <3>1, <3>2, CutOnce DEF IndInv, ScopeInv, ScopeStack
    <3>4. CurrentScope \in Range(scopes) /\ CurrentScope \in Scopes
      BY CurrentScopeOpen DEF IndInv, ScopeInv
    <3>5. CurrentScope \notin Range(scopes')
      <4>1. Range(scopes') = {scopes[i] : i \in 1..(n - 1)}
        BY <3>1, PieceOnce
      <4>2. \A i \in 1..(n - 1) : scopes[i] # scopes[n]
        BY <3>1 DEF IndInv, ScopeInv, ScopeStack, IsInjective
      <4> QED BY <4>1, <4>2 DEF CurrentScope
    <3>6. closed' = closed \/ (ScopeDone /\ closed' = closed \cup {CurrentScope})
      BY <2>2
    <3>7. n - 1 >= 1
      BY <3>1
    <3>8. ScopeStack'
      <4> HIDE DEF n
      <4> QED BY <1>0, <3>3, <3>4, <3>5, <3>6, <3>7 DEF IndInv, ScopeInv, ScopeStack
    <3>9. ScopeConfined'
      <4>1. ScopeDone => ScopeTerminal(CurrentScope)
        BY DEF Reached
      <4> QED BY <1>0, <3>6, <4>1
              DEF IndInv, ScopeInv, ScopeConfined, ScopeTerminal, Live, HasRecord, records
    <3>10. RootTypes'
      BY <1>0, <3>3, <3>4, <3>6, TypeParts DEF IndInv, RootTypes
    <3> QED BY <3>8, <3>9, <3>10 DEF ScopeInv
  <2> QED BY <2>1, <2>2
<1>4. TypeOK'
  BY <1>0, <1>2, <1>3, TypeFrames, TypePartsNext DEF IndInv, waits
<1> QED BY <1>1, <1>2, <1>3, <1>4 DEF IndInv, JoinInv

-----------------------------------------------------------------------------
(* Spawn.                                                                  *)

\* IssueSpawnTaskId gives an id above all ids issued before, whoever spawns,
\* and leaves the counter and the root's range above it.
LEMMA IdIsFresh ==
    ASSUME IndInv, NEW parent, NEW s \in Scopes, NEW t \in Tasks,
           t = IssueSpawnTaskId(parent, s).id,
           nextTask' = IssueSpawnTaskId(parent, s).next,
           reservation' = IssueSpawnTaskId(parent, s).range
    PROVE  /\ state[t] = "None"
           /\ \A u \in Tasks : state[u] # "None" => u < t
           /\ (\A u \in Tasks : state'[u] # "None" => state[u] # "None" \/ u = t)
                => IdsIssued'
           /\ IdTypes'
<1> DEFINE r == reservation
           i == IssueSpawnTaskId(parent, s)
           match == parent = 0 /\ r.left # 0 /\ r.scope = s
<1>1. /\ r.next \in Nat /\ r.left \in 0..RangeSize /\ r.scope \in 0..MaxScope
      /\ nextTask \in Nat /\ RangeSize \in Nat /\ RangeSize >= 1
      /\ s \in 0..MaxScope /\ Tasks \subseteq Nat
  <2>1. RangeSize \in Nat /\ RangeSize >= 1
    BY SchedulerAssumption DEF RangeSize
  <2>2. s \in 0..MaxScope /\ Tasks \subseteq Nat
    BY SchedulerAssumption DEF Scopes, Tasks
  <2> QED BY <2>1, <2>2 DEF IndInv, TypeOK
<1>2. /\ nextTask >= 1 /\ \A u \in Tasks : state[u] # "None" => u < nextTask
      /\ r.left # 0 =>
           /\ r.next >= 1 /\ r.next + r.left <= nextTask
           /\ \A u \in Tasks : state[u] # "None" => u < r.next
  BY DEF IndInv, RecordInv, IdsIssued
<1>3. /\ \A u \in Tasks : state[u] # "None" => u < t
      /\ t >= 1 /\ t < nextTask' /\ nextTask' \in Nat
      /\ \/ reservation' = NoReservation
         \/ \E left \in 1..RangeSize :
              /\ reservation' = [next |-> t + 1, left |-> left, scope |-> s]
              /\ t + 1 + left <= nextTask'
  <2>1. CASE parent # 0
    <3>1. t = nextTask /\ nextTask' = nextTask + 1 /\ reservation' = NoReservation
      BY <2>1 DEF IssueSpawnTaskId
    <3> QED BY <3>1, <1>1, <1>2
  <2>2. CASE parent = 0 /\ match
    <3>1. /\ t = r.next /\ nextTask' = nextTask
          /\ reservation' = IF r.left - 1 = 0 THEN NoReservation
                            ELSE [next |-> t + 1, left |-> r.left - 1, scope |-> s]
      BY <2>2 DEF IssueSpawnTaskId
    <3>2. r.left \in Nat /\ r.left >= 1 /\ r.left <= RangeSize
      BY <1>1, <2>2
    <3>3. r.left - 1 # 0 => r.left - 1 \in 1..RangeSize /\ t + 1 + (r.left - 1) <= nextTask'
      BY <3>1, <3>2, <1>1, <1>2
    <3>4. t < nextTask'
      BY <3>1, <3>2, <1>1, <1>2
    <3> QED BY <3>1, <3>3, <3>4, <2>2, <1>1, <1>2
  <2>3. CASE parent = 0 /\ ~match
    <3>1. /\ t = nextTask /\ nextTask' = nextTask + RangeSize
          /\ reservation' = IF RangeSize - 1 = 0 THEN NoReservation
                            ELSE [next |-> t + 1, left |-> RangeSize - 1, scope |-> s]
      BY <2>3 DEF IssueSpawnTaskId
    <3>3. RangeSize - 1 # 0 => RangeSize - 1 \in 1..RangeSize /\ t + 1 + (RangeSize - 1) <= nextTask'
      BY <3>1, <1>1, <1>2
    <3> QED BY <3>1, <3>3, <1>1, <1>2
  <2> QED BY <2>1, <2>2, <2>3
<1>4. state[t] = "None"
  BY <1>3, <1>1
<1>5. IdTypes'
  <2>1. CASE reservation' = NoReservation
    <3>1. 0 \in 0..RangeSize /\ 0 \in 0..MaxScope
      BY <1>1, SchedulerAssumption
    <3>2. nextTask' \in Nat
      BY <1>3
    <3> QED BY <2>1, <3>1, <3>2 DEF IdTypes, NoReservation, RangeSize
  <2>2. CASE reservation' # NoReservation
    <3>1. PICK left \in 1..RangeSize :
             reservation' = [next |-> t + 1, left |-> left, scope |-> s]
      BY <2>2, <1>3
    <3>2. t + 1 \in Nat /\ left \in 0..RangeSize
      BY <1>1
    <3> QED BY <3>1, <3>2, <1>1, <1>3 DEF IdTypes, RangeSize
  <2> QED BY <2>1, <2>2
<1>6. ASSUME \A u \in Tasks : state'[u] # "None" => state[u] # "None" \/ u = t
      PROVE  IdsIssued'
  <2>1. \A u \in Tasks : state'[u] # "None" => u <= t
    BY <1>6, <1>3, <1>1
  <2>2. nextTask' >= 1 /\ \A u \in Tasks : state'[u] # "None" => u < nextTask'
    <3>1. t >= 1 /\ t < nextTask' /\ nextTask' \in Nat /\ t \in Nat
      BY <1>3, <1>1
    <3> QED BY <2>1, <3>1, <1>1
  <2>3. CASE reservation' = NoReservation
    BY <2>2, <2>3 DEF IdsIssued, NoReservation
  <2>4. CASE reservation' # NoReservation
    <3>1. PICK left \in 1..RangeSize :
             /\ reservation' = [next |-> t + 1, left |-> left, scope |-> s]
             /\ t + 1 + left <= nextTask'
      BY <2>4, <1>3
    <3>2. /\ t + 1 >= 1 /\ \A u \in Tasks : state'[u] # "None" => u < t + 1
      BY <2>1, <1>1
    <3> QED BY <2>2, <3>1, <3>2 DEF IdsIssued
  <2> QED BY <2>3, <2>4
<1> QED BY <1>3, <1>4, <1>5, <1>6

\* MakeRecord takes the slot at the front of the free list.
LEMMA RecordIsMade ==
    ASSUME IndInv, NEW parent, NEW s \in Scopes, NEW c \in BOOLEAN,
           NEW t \in Tasks, MakeRecord(parent, s, c, t)
    PROVE  /\ state[t] = "None"
           /\ slotOf' = [slotOf EXCEPT ![t] = Head(freeSlots)]
           /\ Head(freeSlots) \in 1..TaskCapacity
           /\ SlotsPartitioned'
           /\ coroutine' \in {coroutine, coroutine \cup {t}}
           /\ state' \in [Tasks -> States] => RecordTypes'
<1> USE DEF MakeRecord
<1>1. state[t] = "None"
  BY IdIsFresh
<1>2. freeSlots \in Seq(1..TaskCapacity) /\ freeSlots # <<>>
      /\ IsInjective(freeSlots)
      /\ slotOf \in [Tasks -> 0..TaskCapacity]
  BY DEF IndInv, TypeOK, RecordInv, SlotsPartitioned
<1> DEFINE h == Head(freeSlots)
<1>3. /\ h \in 1..TaskCapacity /\ Tail(freeSlots) \in Seq(1..TaskCapacity)
      /\ Range(freeSlots) = Range(Tail(freeSlots)) \cup {h}
      /\ IsInjective(Tail(freeSlots)) /\ h \notin Range(Tail(freeSlots))
      /\ h \in Range(freeSlots)
  BY <1>2, TailOnce
<1> HIDE DEF h
<1>4. slotOf' = [slotOf EXCEPT ![t] = h] /\ freeSlots' = Tail(freeSlots)
  BY DEF h
<1>5. t \notin Live
  BY <1>1 DEF IndInv, RecordInv, RecordSpan, Live
<1>6. Live' = Live \cup {t} /\ \A u \in Live : slotOf'[u] = slotOf[u]
  BY <1>2, <1>3, <1>4, <1>5 DEF Live, HasRecord, NoSlot
<1>7. slotOf'[t] = h
  BY <1>2, <1>4
<1>8. \A u \in Live : slotOf[u] # h
  BY <1>3 DEF IndInv, RecordInv, SlotsPartitioned
<1>9. SlotsPartitioned'
  <2>1. IsInjective(freeSlots')
    BY <1>3, <1>4
  <2>2. \A u, v \in Live' : slotOf'[u] = slotOf'[v] => u = v
    BY <1>6, <1>7, <1>8 DEF IndInv, RecordInv, SlotsPartitioned
  <2>3. {slotOf'[u] : u \in Live'} = {slotOf[u] : u \in Live} \cup {h}
    BY <1>6, <1>7
  <2>4. Range(freeSlots') = (1..TaskCapacity) \ {slotOf'[u] : u \in Live'}
    BY <2>3, <1>3, <1>4 DEF IndInv, RecordInv, SlotsPartitioned
  <2> QED BY <2>1, <2>2, <2>4 DEF SlotsPartitioned
<1>10. coroutine' \in {coroutine, coroutine \cup {t}}
  OBVIOUS
<1>11. ASSUME state' \in [Tasks -> States] PROVE RecordTypes'
  <2>1. slotOf' \in [Tasks -> 0..TaskCapacity]
    BY <1>2, <1>3, <1>4, SchedulerAssumption
  <2>2. scopeOf' \in [Tasks -> Scopes]
    BY DEF IndInv, TypeOK
  <2> QED BY <1>3, <1>4, <1>10, <1>11, <2>1, <2>2 DEF IndInv, TypeOK, RecordTypes
<1> QED BY <1>1, <1>3, <1>9, <1>10, <1>11 DEF h

\* A spawn in a scope that is not closed.
LEMMA SpawnKeeps ==
    ASSUME IndInv, NEW parent \in 0..MaxTask, NEW s \in Scopes,
           s \notin closed, Spawn(parent, s)
    PROVE  IndInv'
<1>1. PICK t \in Tasks, c \in BOOLEAN :
         /\ MakeRecord(parent, s, c, t)
         /\ state' = [state EXCEPT ![t] = "Ready"]
         /\ ready' = Append(ready, t)
  BY DEF Spawn
<1>2. /\ used' = [used EXCEPT ![parent] = @ + 1]
      /\ UNCHANGED <<batch, waits, root, report>>
  BY DEF Spawn
<1>3. /\ state[t] = "None" /\ slotOf' = [slotOf EXCEPT ![t] = Head(freeSlots)]
      /\ Head(freeSlots) \in 1..TaskCapacity
      /\ coroutine' \in {coroutine, coroutine \cup {t}}
      /\ failure' = failure /\ scopeOf' = [scopeOf EXCEPT ![t] = s]
  BY <1>1, RecordIsMade DEF MakeRecord
<1>4. /\ state \in [Tasks -> States] /\ state' \in [Tasks -> States]
      /\ slotOf \in [Tasks -> 0..TaskCapacity] /\ scopeOf \in [Tasks -> Scopes]
  BY <1>1 DEF IndInv, TypeOK, States
<1>5. RecordInv'
  <2>1. IdsIssued'
    BY <1>1, <1>4, IdIsFresh DEF MakeRecord
  <2>2. RecordSpan'
    BY <1>1, <1>3, <1>4 DEF IndInv, RecordInv, RecordSpan, HasRecord, NoSlot
  <2>3. SlotsPartitioned'
    BY <1>1, RecordIsMade
  <2> QED BY <2>1, <2>2, <2>3 DEF RecordInv
<1>6. QueueInv'
  <2>1. \A x : InState(x)' = IF x = "Ready" THEN InState(x) \cup {t}
                             ELSE InState(x) \ {t}
    BY <1>1, OneMoves DEF IndInv, States
  <2>2. \A x : x # "None" => t \notin InState(x)
    BY <1>3 DEF InState
  <2>3. \A x : x \notin {"None", "Ready"} => InState(x)' = InState(x)
    BY <2>1, <2>2
  <2>4. Once(ready, InState("Ready"))'
    <3>1. InState("Ready")' = InState("Ready") \cup {t} /\ t \notin InState("Ready")
      BY <2>1, <2>2
    <3>2. ready \in Seq(Tasks) /\ Once(ready, InState("Ready"))
      BY DEF IndInv, TypeOK, QueueInv, QueuesPlaced
    <3>3. /\ Range(ready') = Range(ready) \cup {t}
          /\ IsInjective(ready) /\ t \notin Range(ready) => IsInjective(ready')
      BY <3>2, <1>1, AppendOnce
    <3> QED BY <3>1, <3>2, <3>3 DEF Once
  <2>5. QueuesPlaced'
    BY <1>2, <2>3, <2>4 DEF IndInv, QueueInv, QueuesPlaced, Once, waits
  <2>6. CoroutineAlone'
    <3>1. t \notin Range(batch)
      BY <2>2 DEF IndInv, QueueInv, QueuesPlaced, Once
    <3> QED BY <3>1, <1>2, <1>3 DEF IndInv, QueueInv, CoroutineAlone
  <2>7. NoLostJoin'
    <3>1. joinWaits' = joinWaits /\ awaiting' = awaiting
      BY <1>2 DEF waits
    <3>2. \A u \in Tasks : HasRecord(u) /\ state[u] \notin Terminal
                              => HasRecord(u)' /\ state'[u] \notin Terminal
      BY <1>1, <1>3, <1>4 DEF HasRecord, Terminal, NoSlot
    <3> QED BY <3>1, <3>2, TargetsStand DEF IndInv, QueueInv
  <2> QED BY <2>5, <2>6, <2>7 DEF QueueInv
<1>7. JoinInv'
  <2>1. \A u \in Tasks : Over(u) => Over(u)' /\ failure'[u] = failure[u]
    BY <1>1, <1>3, <1>4 DEF Over, Terminal
  <2>2. AwaitKept'
    <3>1. awaiting' = awaiting /\ waitResult' = waitResult
      BY <1>2 DEF waits
    <3>2. \A u \in Tasks : awaiting[u] # 0 => state'[u] = state[u]
      BY <1>1, <1>3, <1>4 DEF IndInv, JoinInv, AwaitKept
    <3> QED BY <3>1, <3>2, <2>1, <1>3, AwaitStands DEF IndInv, JoinInv
  <2>3. FailureKept'
    BY <1>1, <1>3, <1>4 DEF IndInv, JoinInv, FailureKept
  <2>4. ReportSettled' /\ JoinReportsTarget'
    BY <1>2, <2>1, ReportStands DEF IndInv, JoinInv
  <2> QED BY <2>2, <2>3, <2>4 DEF JoinInv
<1>8. ScopeInv'
  <2>1. ScopeStack'
    BY <1>2 DEF IndInv, ScopeInv, ScopeStack, root
  <2>2. ScopeConfined'
    <3> SUFFICES ASSUME NEW u \in Tasks, HasRecord(u)', scopeOf'[u] \in closed
                 PROVE  state'[u] \in Terminal
      BY <1>2 DEF ScopeConfined, Live, root
    <3>1. u # t
      BY <1>3, <1>4
    <3> QED BY <3>1, <1>1, <1>3, <1>4 DEF IndInv, ScopeInv, ScopeConfined, Live, HasRecord
  <2> QED BY <2>1, <2>2 DEF ScopeInv
<1>9. TypeOK'
  <2>1. RecordTypes'
    BY <1>1, <1>4, RecordIsMade
  <2>2. IdTypes'
    BY <1>1, IdIsFresh DEF MakeRecord
  <2>3. QueueTypes'
    BY <1>1, <1>2, TypeParts DEF IndInv, QueueTypes, waits
  <2>4. WaitTypes' /\ RootTypes' /\ UsedType'
    BY <1>2, TypeFrames, CountTypes DEF IndInv, waits
  <2> QED BY <2>1, <2>2, <2>3, <2>4, <1>7, TypePartsNext DEF JoinInv
<1> QED BY <1>5, <1>6, <1>7, <1>8, <1>9 DEF IndInv

\* A spawn of the root, and of a task into its own scope, keeps the invariant.
LEMMA SpawnsKeep == IndInv /\ (RootSpawn \/ TaskSpawn) => IndInv'
<1> SUFFICES ASSUME IndInv, RootSpawn \/ TaskSpawn PROVE IndInv'
  OBVIOUS
<1>1. CASE RootSpawn
  <2>1. 0 \in 0..MaxTask
    BY SchedulerAssumption
  <2>2. CurrentScope \in Scopes /\ CurrentScope \notin closed
    BY CurrentScopeOpen DEF IndInv, ScopeInv
  <2>3. Spawn(0, CurrentScope)
    BY <1>1 DEF RootSpawn
  <2> QED BY <2>1, <2>2, <2>3, SpawnKeeps
<1>2. CASE TaskSpawn
  <2>1. Spawn(Current, scopeOf[Current]) /\ batch # <<>>
    BY <1>2 DEF TaskSpawn, MayCall, InBody
  <2>2. Current \in Tasks /\ state[Current] = "Running" /\ HasRecord(Current)
    BY <2>1, CurrentRuns DEF IndInv, RecordInv, QueueInv
  <2>3. Current \in 0..MaxTask
    BY <2>2 DEF Tasks
  <2>4. scopeOf[Current] \in Scopes
    BY <2>2 DEF IndInv, TypeOK
  <2>5. scopeOf[Current] \notin closed
    BY <2>2 DEF IndInv, ScopeInv, ScopeConfined, Live, Terminal
  <2> QED BY <2>1, <2>3, <2>4, <2>5, SpawnKeeps
<1> QED BY <1>1, <1>2

-----------------------------------------------------------------------------
(* Steps that move unfinished tasks between the queues.                    *)

Active == {"Ready", "Running", "JoinBlocked", "Sleeping", "ChannelBlocked"}

\* They leave records, verdicts and closed scopes alone.
LEMMA ActiveMoves ==
    ASSUME IndInv, UNCHANGED <<records, ids, closed>>,
           state' \in [Tasks -> States],
           \A t \in Tasks : \/ state'[t] = state[t]
                            \/ state[t] \in Active /\ state'[t] \in Active
    PROVE  /\ RecordInv' /\ FailureKept' /\ ScopeConfined' /\ RecordTypes'
           /\ \A t \in Tasks : Over(t) => Over(t)' /\ failure'[t] = failure[t]
           /\ \A t \in Tasks : HasRecord(t) /\ state[t] \notin Terminal
                                 => HasRecord(t)' /\ state'[t] \notin Terminal
<1> USE DEF records, ids
<1>1. \A t \in Tasks : /\ state'[t] = "None" <=> state[t] = "None"
                       /\ state'[t] = "Retired" <=> state[t] = "Retired"
                       /\ state'[t] = "Failed" <=> state[t] = "Failed"
                       /\ state'[t] = "Completed" <=> state[t] = "Completed"
  BY DEF Active
<1>2. RecordInv'
  <2>1. IdsIssued'
    BY <1>1 DEF IndInv, RecordInv, IdsIssued
  <2>2. RecordSpan'
    BY <1>1 DEF IndInv, RecordInv, RecordSpan, HasRecord
  <2>3. SlotsPartitioned'
    BY DEF IndInv, RecordInv, SlotsPartitioned, Live, HasRecord
  <2> QED BY <2>1, <2>2, <2>3 DEF RecordInv
<1>3. FailureKept'
  BY <1>1 DEF IndInv, JoinInv, FailureKept
<1>4. ScopeConfined'
  BY <1>1 DEF IndInv, ScopeInv, ScopeConfined, Live, HasRecord, Terminal
<1>5. RecordTypes'
  BY TypeParts DEF IndInv, RecordTypes
<1>6. \A t \in Tasks : Over(t) => Over(t)' /\ failure'[t] = failure[t]
  BY <1>1 DEF Over, Terminal
<1>7. \A t \in Tasks : HasRecord(t) /\ state[t] \notin Terminal
                                 => HasRecord(t)' /\ state'[t] \notin Terminal
  BY <1>1 DEF HasRecord, Terminal
<1> QED BY <1>2, <1>3, <1>4, <1>5, <1>6, <1>7

\* The rest of the invariant for such a step, once its queues are placed.
LEMMA ActiveKeeps ==
    ASSUME IndInv, UNCHANGED <<records, ids, root, report>>,
           state' \in [Tasks -> States],
           \A t \in Tasks : \/ state'[t] = state[t]
                            \/ state[t] \in Active /\ state'[t] \in Active,
           QueuesPlaced', CoroutineAlone', NoLostJoin', AwaitKept',
           QueueTypes', WaitTypes', UsedType'
    PROVE  IndInv'
<1>1. closed' = closed
  BY DEF root
<1>2. /\ RecordInv' /\ FailureKept' /\ ScopeConfined' /\ RecordTypes'
      /\ \A t \in Tasks : Over(t) => Over(t)' /\ failure'[t] = failure[t]
  BY <1>1, ActiveMoves
<1>3. ReportSettled' /\ JoinReportsTarget'
  BY <1>2, ReportStands DEF IndInv, JoinInv
<1>4. ScopeStack'
  BY DEF IndInv, ScopeInv, ScopeStack, root
<1>5. TypeOK'
  BY <1>2, <1>3, TypeFrames, TypePartsNext DEF IndInv
<1> QED BY <1>2, <1>3, <1>4, <1>5 DEF IndInv, QueueInv, JoinInv, ScopeInv

\* The end of a coroutine's quantum that parks it or makes it ready again.
LEMMA QuantumEnds ==
    ASSUME IndInv, MayAwait, NEW x \in Active \ {"Running"},
           state' = [state EXCEPT ![Current] = x], batch' = <<>>, CountTask
    PROVE  /\ Current \in Tasks /\ Current \in coroutine /\ awaiting[Current] = 0
           /\ state[Current] = "Running" /\ HasRecord(Current)
           /\ state' \in [Tasks -> States]
           /\ \A t \in Tasks : t # Current => state'[t] = state[t]
           /\ \A t \in Tasks : \/ state'[t] = state[t]
                               \/ state[t] \in Active /\ state'[t] \in Active
           /\ Once(batch, InState("Running"))' /\ CoroutineAlone'
           /\ InState(x)' = InState(x) \cup {Current} /\ Current \notin InState(x)
           /\ \A s : s \notin {x, "Running"} => InState(s)' = InState(s)
           /\ UsedType'
<1>1. batch # <<>> /\ Current \in coroutine /\ awaiting[Current] = 0
  BY DEF MayAwait, MayCall, InBody
<1>2. Current \in Tasks /\ state[Current] = "Running" /\ HasRecord(Current)
  BY <1>1, CurrentRuns DEF IndInv, RecordInv, QueueInv
<1>3. InState("Running") = {Current}
  BY <1>1, CoroutineRuns DEF IndInv, RecordInv, QueueInv
<1>4. state \in [Tasks -> States] /\ x \in States
  BY DEF IndInv, TypeOK, Active, States
<1>5. \A s : InState(s)' = IF s = x THEN InState(s) \cup {Current}
                           ELSE InState(s) \ {Current}
  BY <1>2, <1>4, OneMoves DEF IndInv
<1>6. \A s : s # "Running" => Current \notin InState(s)
  BY <1>2 DEF InState
<1>7. x # "Running"
  OBVIOUS
<1>8. InState("Running")' = {}
  BY <1>3, <1>5, <1>7
<1>9. Once(batch, InState("Running"))'
  BY <1>8 DEF Once, Range, IsInjective
<1>10. CoroutineAlone'
  BY DEF CoroutineAlone
<1>11. UsedType'
  <2>1. Current \in 0..MaxTask
    BY <1>2 DEF Tasks
  <2> QED BY <2>1, CountTypes DEF IndInv, CountTask
<1>12. \A t \in Tasks : t # Current => state'[t] = state[t]
  BY <1>4
<1>13. state'[Current] = x /\ state' \in [Tasks -> States]
  BY <1>2, <1>4
<1>14. \A t \in Tasks : \/ state'[t] = state[t]
                        \/ state[t] \in Active /\ state'[t] \in Active
  BY <1>2, <1>12, <1>13 DEF Active
<1>15. \A s : s \notin {x, "Running"} => InState(s)' = InState(s)
  BY <1>5, <1>6
<1> QED BY <1>1, <1>2, <1>5, <1>6, <1>7, <1>9, <1>10, <1>11, <1>12, <1>13, <1>14, <1>15

\* Yield moves the running coroutine to the end of the ready queue.
LEMMA YieldKeeps == IndInv /\ Yield => IndInv'
<1> SUFFICES ASSUME IndInv, Yield PROVE IndInv'
  OBVIOUS
<1> USE DEF Yield
<1> DEFINE c == Current
<1>1. "Ready" \in Active \ {"Running"}
  BY DEF Active
<1>2. /\ c \in Tasks /\ c \in coroutine /\ awaiting[c] = 0
      /\ state' \in [Tasks -> States]
      /\ \A t \in Tasks : t # c => state'[t] = state[t]
      /\ \A t \in Tasks : \/ state'[t] = state[t]
                          \/ state[t] \in Active /\ state'[t] \in Active
      /\ Once(batch, InState("Running"))' /\ CoroutineAlone'
      /\ InState("Ready")' = InState("Ready") \cup {c} /\ c \notin InState("Ready")
      /\ \A s : s \notin {"Ready", "Running"} => InState(s)' = InState(s)
      /\ UsedType'
  BY <1>1, QuantumEnds
<1> HIDE DEF c
<1>3. ready' = Append(ready, c) /\ ready \in Seq(Tasks) /\ Once(ready, InState("Ready"))
  BY DEF IndInv, TypeOK, QueueInv, QueuesPlaced, c
<1>4. /\ ready' \in Seq(Tasks) /\ Range(ready') = Range(ready) \cup {c}
      /\ IsInjective(ready) /\ c \notin Range(ready) => IsInjective(ready')
  BY <1>2, <1>3, AppendOnce
<1>5. Once(ready, InState("Ready"))'
  BY <1>2, <1>3, <1>4 DEF Once
<1>6. QueuesPlaced'
  BY <1>2, <1>5 DEF IndInv, QueueInv, QueuesPlaced, Once, waits
<1>7. closed' = closed
  BY DEF root
<1>8. NoLostJoin' /\ AwaitKept'
  <2>1. /\ \A t \in Tasks : Over(t) => Over(t)' /\ failure'[t] = failure[t]
        /\ \A t \in Tasks : HasRecord(t) /\ state[t] \notin Terminal
                              => HasRecord(t)' /\ state'[t] \notin Terminal
    BY <1>2, <1>7, ActiveMoves
  <2>2. UNCHANGED <<joinWaits, awaiting, waitResult, coroutine>>
    BY DEF waits, records
  <2> QED BY <1>2, <2>1, <2>2, TargetsStand, AwaitStands DEF IndInv, QueueInv, JoinInv
<1>9. QueueTypes' /\ WaitTypes'
  BY <1>4, TypeParts DEF IndInv, QueueTypes, WaitTypes, waits
<1> QED BY <1>2, <1>6, <1>8, <1>9, ActiveKeeps

\* Sleep moves it to its place among the timers.
LEMMA SleepKeeps == IndInv /\ Sleep => IndInv'
<1> SUFFICES ASSUME IndInv, Sleep PROVE IndInv'
  OBVIOUS
<1> USE DEF Sleep
<1> DEFINE c == Current
<1>1. "Sleeping" \in Active \ {"Running"}
  BY DEF Active
<1>2. /\ c \in Tasks /\ c \in coroutine /\ awaiting[c] = 0
      /\ state' \in [Tasks -> States]
      /\ \A t \in Tasks : t # c => state'[t] = state[t]
      /\ \A t \in Tasks : \/ state'[t] = state[t]
                          \/ state[t] \in Active /\ state'[t] \in Active
      /\ Once(batch, InState("Running"))' /\ CoroutineAlone'
      /\ InState("Sleeping")' = InState("Sleeping") \cup {c}
      /\ c \notin InState("Sleeping")
      /\ \A s : s \notin {"Sleeping", "Running"} => InState(s)' = InState(s)
      /\ UsedType'
  BY <1>1, QuantumEnds
<1>3. PICK i \in 1..(Len(timers) + 1) : timers' = InsertAt(timers, i, c)
  OBVIOUS
<1> HIDE DEF c
<1>4. timers \in Seq(Tasks) /\ Once(timers, InState("Sleeping"))
  BY DEF IndInv, TypeOK, QueueInv, QueuesPlaced
<1>5. /\ timers' \in Seq(Tasks) /\ Range(timers') = Range(timers) \cup {c}
      /\ IsInjective(timers) /\ c \notin Range(timers) => IsInjective(timers')
  BY <1>2, <1>3, <1>4, InsertAtOnce
<1>6. Once(timers, InState("Sleeping"))'
  BY <1>2, <1>4, <1>5 DEF Once
<1>7. QueuesPlaced'
  BY <1>2, <1>6 DEF IndInv, QueueInv, QueuesPlaced, Once
<1>8. closed' = closed
  BY DEF root
<1>9. NoLostJoin' /\ AwaitKept'
  <2>1. /\ \A t \in Tasks : Over(t) => Over(t)' /\ failure'[t] = failure[t]
        /\ \A t \in Tasks : HasRecord(t) /\ state[t] \notin Terminal
                              => HasRecord(t)' /\ state'[t] \notin Terminal
    BY <1>2, <1>8, ActiveMoves
  <2>2. UNCHANGED <<joinWaits, awaiting, waitResult, coroutine>>
    BY DEF records
  <2> QED BY <1>2, <2>1, <2>2, TargetsStand, AwaitStands DEF IndInv, QueueInv, JoinInv
<1>10. QueueTypes' /\ WaitTypes'
  BY <1>5, TypeParts DEF IndInv, QueueTypes, WaitTypes
<1> QED BY <1>2, <1>7, <1>9, <1>10, ActiveKeeps

\* ParkChannel moves it to the channel waits.
LEMMA ParkChannelKeeps == IndInv /\ ParkChannel => IndInv'
<1> SUFFICES ASSUME IndInv, ParkChannel PROVE IndInv'
  OBVIOUS
<1> USE DEF ParkChannel
<1> DEFINE c == Current
<1>1. "ChannelBlocked" \in Active \ {"Running"}
  BY DEF Active
<1>2. /\ c \in Tasks /\ c \in coroutine /\ awaiting[c] = 0
      /\ state' \in [Tasks -> States]
      /\ \A t \in Tasks : t # c => state'[t] = state[t]
      /\ \A t \in Tasks : \/ state'[t] = state[t]
                          \/ state[t] \in Active /\ state'[t] \in Active
      /\ Once(batch, InState("Running"))' /\ CoroutineAlone'
      /\ InState("ChannelBlocked")' = InState("ChannelBlocked") \cup {c}
      /\ c \notin InState("ChannelBlocked")
      /\ \A s : s \notin {"ChannelBlocked", "Running"} => InState(s)' = InState(s)
      /\ UsedType'
  BY <1>1, QuantumEnds
<1>3. channelWaits' = Append(channelWaits, c) /\ waitResult' = [waitResult EXCEPT ![c] = Ok]
  OBVIOUS
<1> HIDE DEF c
<1>4. channelWaits \in Seq(Tasks) /\ Once(channelWaits, InState("ChannelBlocked"))
      /\ waitResult \in [Tasks -> -1..MaxTask]
  BY DEF IndInv, TypeOK, QueueInv, QueuesPlaced
<1>5. /\ channelWaits' \in Seq(Tasks) /\ Range(channelWaits') = Range(channelWaits) \cup {c}
      /\ IsInjective(channelWaits) /\ c \notin Range(channelWaits) => IsInjective(channelWaits')
  BY <1>2, <1>3, <1>4, AppendOnce
<1>6. Once(channelWaits, InState("ChannelBlocked"))'
  BY <1>2, <1>4, <1>5 DEF Once
<1>7. QueuesPlaced'
  BY <1>2, <1>6 DEF IndInv, QueueInv, QueuesPlaced, Once
<1>8. closed' = closed
  BY DEF root
<1>9. NoLostJoin' /\ AwaitKept'
  <2>1. /\ \A t \in Tasks : Over(t) => Over(t)' /\ failure'[t] = failure[t]
        /\ \A t \in Tasks : HasRecord(t) /\ state[t] \notin Terminal
                              => HasRecord(t)' /\ state'[t] \notin Terminal
    BY <1>2, <1>8, ActiveMoves
  <2>2. UNCHANGED <<joinWaits, awaiting, coroutine>>
    BY DEF records
  <2>3. \A t \in Tasks : awaiting[t] # 0 =>
              waitResult'[t] = waitResult[t] /\ state'[t] = state[t]
    BY <1>2, <1>3, <1>4
  <2> QED BY <2>1, <2>2, <2>3, TargetsStand, AwaitStands DEF IndInv, QueueInv, JoinInv
<1>10. QueueTypes' /\ WaitTypes'
  <2>1. Ok \in -1..MaxTask
    BY SchedulerAssumption DEF Ok
  <2>2. waitResult' \in [Tasks -> -1..MaxTask]
    BY <1>3, <1>4, <2>1
  <2> QED BY <1>5, <2>2, TypeParts DEF IndInv, QueueTypes, WaitTypes
<1> QED BY <1>2, <1>7, <1>9, <1>10, ActiveKeeps

\* The waiters of join_waits.
LEMMA FirstsAppend ==
    ASSUME NEW w \in Seq(Tasks \X Tasks), NEW a \in Tasks, NEW b \in Tasks
    PROVE  /\ Firsts(w) \in Seq(Tasks)
           /\ Firsts(Append(w, <<a, b>>)) = Append(Firsts(w), a)
<1> DEFINE p == <<a, b>>
           v == Append(w, p)
           n == Len(w)
<1>1. n \in Nat /\ DOMAIN w = 1..n /\ \A i \in 1..n : w[i] \in Tasks \X Tasks
  OBVIOUS
<1>2. p \in Tasks \X Tasks /\ p[1] = a
  OBVIOUS
<1>3. \A i \in 1..n : w[i][1] \in Tasks
  BY <1>1
<1>4. Firsts(w) = [i \in 1..n |-> w[i][1]]
  BY <1>1 DEF Firsts
<1>5. Firsts(w) \in Seq(Tasks) /\ Len(Firsts(w)) = n
  <2> DEFINE f == [i \in 1..n |-> w[i][1]]
  <2> HIDE DEF n
  <2>1. f \in [1..n -> Tasks]
    BY <1>3
  <2> HIDE DEF f
  <2>2. f \in Seq(Tasks) /\ Len(f) = n
    BY <2>1, <1>1
  <2> QED BY <2>2, <1>4 DEF f
<1>6. /\ DOMAIN v = 1..(n + 1) /\ v[n + 1] = p
      /\ \A i \in 1..n : v[i] = w[i]
  BY <1>1, <1>2
<1> HIDE DEF v, p
<1>7. Firsts(v) = [i \in 1..(n + 1) |-> v[i][1]]
  BY <1>6 DEF Firsts
<1> DEFINE f == Firsts(w)
           g == Append(f, a)
<1>8. /\ DOMAIN g = 1..(n + 1) /\ g[n + 1] = a
      /\ \A i \in 1..n : g[i] = f[i]
      /\ g = [i \in 1..(n + 1) |-> g[i]]
  <2>1. f \in Seq(Tasks) /\ Len(f) = n /\ n \in Nat
    BY <1>1, <1>5
  <2> HIDE DEF f, n
  <2>2. /\ g \in Seq(Tasks) /\ Len(g) = n + 1 /\ g[n + 1] = a
        /\ \A i \in 1..n : g[i] = f[i]
    BY <2>1, AppendProperties
  <2> HIDE DEF g
  <2>3. g \in [1..(n + 1) -> Tasks]
    BY <2>2, LenProperties
  <2> QED BY <2>2, <2>3
<1>9. \A i \in 1..n : f[i] = w[i][1]
  BY <1>4
<1> HIDE DEF f, g, n
<1>10. ASSUME NEW i \in 1..(n + 1) PROVE g[i] = v[i][1]
  <2>1. CASE i = n + 1
    BY <2>1, <1>2, <1>6, <1>8
  <2>2. CASE i \in 1..n
    BY <2>2, <1>6, <1>8, <1>9
  <2> QED BY <2>1, <2>2, <1>1
<1>11. Firsts(v) = g
  BY <1>7, <1>8, <1>10
<1> QED BY <1>5, <1>11 DEF f, g, v, p

\* A coroutine blocks on a task that is not finished.
LEMMA JoinBlocks ==
    ASSUME IndInv, NEW c \in Tasks, NEW t \in Tasks, state[c] = "Running",
           joinWaits' = Append(joinWaits, <<c, t>>),
           awaiting' = [awaiting EXCEPT ![c] = t],
           InState("JoinBlocked")' = InState("JoinBlocked") \cup {c},
           HasRecord(t)', state'[t] \notin Terminal,
           \A u \in Tasks : HasRecord(u) /\ state[u] \notin Terminal
                              => HasRecord(u)' /\ state'[u] \notin Terminal
    PROVE  /\ Once(Firsts(joinWaits), InState("JoinBlocked"))'
           /\ NoLostJoin' /\ joinWaits' \in Seq(Tasks \X Tasks)
<1>1. /\ joinWaits \in Seq(Tasks \X Tasks) /\ awaiting \in [Tasks -> 0..MaxTask]
      /\ Once(Firsts(joinWaits), InState("JoinBlocked"))
  BY DEF IndInv, TypeOK, QueueInv, QueuesPlaced
<1>2. Firsts(joinWaits) \in Seq(Tasks) /\ Firsts(joinWaits') = Append(Firsts(joinWaits), c)
  BY <1>1, FirstsAppend
<1>3. c \notin InState("JoinBlocked")
  BY DEF InState
<1>4. Once(Firsts(joinWaits), InState("JoinBlocked"))'
  <2> DEFINE f == Firsts(joinWaits)
  <2> HIDE DEF f
  <2>1. f \in Seq(Tasks) /\ IsInjective(f) /\ c \notin Range(f)
        /\ Range(f) = InState("JoinBlocked")
    BY <1>1, <1>2, <1>3 DEF Once, f
  <2>2. IsInjective(Append(f, c)) /\ Range(Append(f, c)) = Range(f) \cup {c}
    BY <2>1, AppendOnce
  <2>3. Firsts(joinWaits)' = Append(f, c)
    BY <1>2 DEF f, Firsts
  <2> QED BY <2>1, <2>2, <2>3 DEF Once
<1> DEFINE n == Len(joinWaits)
<1>5. /\ n \in Nat /\ DOMAIN joinWaits = 1..n /\ DOMAIN joinWaits' = 1..(n + 1)
      /\ joinWaits'[n + 1] = <<c, t>>
      /\ \A i \in 1..n : joinWaits'[i] = joinWaits[i] /\ joinWaits[i] \in Tasks \X Tasks
      /\ joinWaits' \in Seq(Tasks \X Tasks)
  BY <1>1
<1> HIDE DEF n
<1>6. NoLostJoin'
  <2> SUFFICES ASSUME NEW i \in 1..(n + 1)
               PROVE  LET u == joinWaits'[i][2] IN
                      /\ slotOf'[u] # NoSlot /\ state'[u] \notin Terminal
                      /\ awaiting'[joinWaits'[i][1]] = u
    BY <1>5 DEF NoLostJoin, HasRecord
  <2>1. CASE i = n + 1
    BY <2>1, <1>1, <1>5 DEF HasRecord
  <2>2. CASE i \in 1..n
    <3>1. PICK w \in Tasks, u \in Tasks : joinWaits[i] = <<w, u>>
      BY <2>2, <1>5
    <3>2. HasRecord(u) /\ state[u] \notin Terminal /\ awaiting[w] = u
      <4>1. i \in DOMAIN joinWaits /\ joinWaits[i][1] = w /\ joinWaits[i][2] = u
        BY <2>2, <3>1, <1>5
      <4> QED BY <4>1 DEF IndInv, QueueInv, NoLostJoin
    <3>3. w \in Range(Firsts(joinWaits))
      BY <2>2, <3>1, <1>5 DEF Range, Firsts
    <3>4. w # c
      BY <3>3, <1>1, <1>3 DEF Once
    <3>5. joinWaits'[i][1] = w /\ joinWaits'[i][2] = u
      BY <2>2, <3>1, <1>5
    <3>6. awaiting'[w] = u /\ slotOf'[u] # NoSlot /\ state'[u] \notin Terminal
      BY <3>2, <3>4, <1>1 DEF HasRecord
    <3> QED BY <3>5, <3>6
  <2> QED BY <2>1, <2>2, <1>5
<1> QED BY <1>4, <1>5, <1>6

\* BeginJoinAwait on an unfinished task parks the caller in join_waits.
LEMMA JoinParksKeeps == IndInv /\ JoinParks => IndInv'
<1> SUFFICES ASSUME IndInv, JoinParks PROVE IndInv'
  OBVIOUS
<1> USE DEF JoinParks
<1> DEFINE c == Current
<1>1. "JoinBlocked" \in Active \ {"Running"}
  BY DEF Active
<1>2. /\ c \in Tasks /\ c \in coroutine /\ awaiting[c] = 0 /\ state[c] = "Running"
      /\ state' \in [Tasks -> States]
      /\ \A t \in Tasks : t # c => state'[t] = state[t]
      /\ \A t \in Tasks : \/ state'[t] = state[t]
                          \/ state[t] \in Active /\ state'[t] \in Active
      /\ Once(batch, InState("Running"))' /\ CoroutineAlone'
      /\ InState("JoinBlocked")' = InState("JoinBlocked") \cup {c}
      /\ \A s : s \notin {"JoinBlocked", "Running"} => InState(s)' = InState(s)
      /\ UsedType'
  BY <1>1, QuantumEnds
<1>3. PICK t \in Live \ {c} : state[t] \notin Terminal /\ ParkJoin(t)
  OBVIOUS
<1>4. /\ joinWaits' = Append(joinWaits, <<c, t>>)
      /\ awaiting' = [awaiting EXCEPT ![c] = t]
      /\ waitResult' = [waitResult EXCEPT ![c] = Ok]
      /\ state' = [state EXCEPT ![c] = "JoinBlocked"]
  BY <1>3 DEF ParkJoin
<1> HIDE DEF c
<1>5. t \in Tasks /\ HasRecord(t)
  BY DEF Live
<1>6. closed' = closed
  BY DEF root
<1>7. /\ \A u \in Tasks : Over(u) => Over(u)' /\ failure'[u] = failure[u]
      /\ \A u \in Tasks : HasRecord(u) /\ state[u] \notin Terminal
                            => HasRecord(u)' /\ state'[u] \notin Terminal
  BY <1>2, <1>6, ActiveMoves
<1>8. HasRecord(t)' /\ state'[t] \notin Terminal
  BY <1>3, <1>5, <1>7
<1>9. /\ Once(Firsts(joinWaits), InState("JoinBlocked"))'
      /\ NoLostJoin' /\ joinWaits' \in Seq(Tasks \X Tasks)
  BY <1>2, <1>4, <1>5, <1>7, <1>8, JoinBlocks
<1>10. QueuesPlaced'
  BY <1>2, <1>9 DEF IndInv, QueueInv, QueuesPlaced, Once
<1>11. awaiting \in [Tasks -> 0..MaxTask] /\ waitResult \in [Tasks -> -1..MaxTask]
       /\ state \in [Tasks -> States]
  BY DEF IndInv, TypeOK
<1>12. AwaitKept'
  <2>1. \A u \in Tasks : u # c => awaiting'[u] = awaiting[u] /\ waitResult'[u] = waitResult[u]
    BY <1>4, <1>11
  <2>2. state'[c] = "JoinBlocked" /\ coroutine' = coroutine
    BY <1>2, <1>4, <1>11 DEF records
  <2> QED BY <1>2, <1>7, <2>1, <2>2, AwaitChanges DEF IndInv, JoinInv
<1>13. QueueTypes' /\ WaitTypes'
  <2>1. Ok \in -1..MaxTask /\ t \in 0..MaxTask
    BY <1>5, SchedulerAssumption DEF Ok, Tasks
  <2>2. waitResult' \in [Tasks -> -1..MaxTask] /\ awaiting' \in [Tasks -> 0..MaxTask]
    BY <1>4, <1>11, <2>1
  <2> QED BY <1>9, <2>2, TypeParts DEF IndInv, QueueTypes, WaitTypes
<1> QED BY <1>2, <1>9, <1>10, <1>12, <1>13, ActiveKeeps

-----------------------------------------------------------------------------
(* A nested task: the spawn of the child and the join of the parent.       *)

\* SpawnAwaited makes the child and parks the parent on it in one step.
LEMMA AwaitNestedKeeps == IndInv /\ AwaitNested => IndInv'
<1> SUFFICES ASSUME IndInv, AwaitNested PROVE IndInv'
  OBVIOUS
<1> DEFINE c == Current
<1>1. batch # <<>> /\ c \in coroutine /\ awaiting[c] = 0 /\ batch' = <<>>
      /\ CountTask /\ UNCHANGED <<channelWaits, timers, root, report>>
  BY DEF AwaitNested, MayAwait, MayCall, InBody
<1>2. c \in Tasks /\ state[c] = "Running" /\ HasRecord(c)
  BY <1>1, CurrentRuns DEF IndInv, RecordInv, QueueInv
<1>3. InState("Running") = {c}
  BY <1>1, CoroutineRuns DEF IndInv, RecordInv, QueueInv
<1>4. scopeOf[c] \in Scopes /\ scopeOf[c] \notin closed
  BY <1>2 DEF IndInv, TypeOK, ScopeInv, ScopeConfined, Live, Terminal
<1>5. PICK t \in Tasks :
         /\ MakeRecord(c, scopeOf[c], TRUE, t)
         /\ state' = [state EXCEPT ![t] = "Ready", ![c] = "JoinBlocked"]
         /\ ready' = Append(ready, t)
         /\ ParkJoin(t)
  BY DEF AwaitNested
<1>6. /\ joinWaits' = Append(joinWaits, <<c, t>>)
      /\ awaiting' = [awaiting EXCEPT ![c] = t]
      /\ waitResult' = [waitResult EXCEPT ![c] = Ok]
  BY <1>5 DEF ParkJoin
<1> DEFINE s == scopeOf[c]
<1>7. /\ state[t] = "None" /\ slotOf' = [slotOf EXCEPT ![t] = Head(freeSlots)]
      /\ Head(freeSlots) \in 1..TaskCapacity
      /\ coroutine' \in {coroutine, coroutine \cup {t}}
      /\ failure' = failure /\ scopeOf' = [scopeOf EXCEPT ![t] = s]
      /\ SlotsPartitioned'
  <2>1. failure' = failure /\ scopeOf' = [scopeOf EXCEPT ![t] = s]
    BY <1>5 DEF MakeRecord
  <2>2. s \in Scopes /\ MakeRecord(c, s, TRUE, t) /\ TRUE \in BOOLEAN
    BY <1>4, <1>5
  <2> HIDE DEF c, s
  <2>3. /\ state[t] = "None" /\ slotOf' = [slotOf EXCEPT ![t] = Head(freeSlots)]
        /\ Head(freeSlots) \in 1..TaskCapacity
        /\ coroutine' \in {coroutine, coroutine \cup {t}}
        /\ SlotsPartitioned'
    BY <2>2, RecordIsMade
  <2> QED BY <2>1, <2>3
<1> HIDE DEF c, s
<1>8. /\ state \in [Tasks -> States] /\ state' \in [Tasks -> States]
      /\ slotOf \in [Tasks -> 0..TaskCapacity] /\ scopeOf \in [Tasks -> Scopes]
      /\ awaiting \in [Tasks -> 0..MaxTask] /\ waitResult \in [Tasks -> -1..MaxTask]
      /\ ready \in Seq(Tasks) /\ batch \in Seq(Tasks)
  BY <1>5 DEF IndInv, TypeOK, States
<1>9. /\ t # c /\ state'[t] = "Ready" /\ state'[c] = "JoinBlocked"
      /\ \A u \in Tasks : u \notin {t, c} => state'[u] = state[u]
  BY <1>2, <1>5, <1>7, <1>8
<1>10. RecordInv'
  <2>1. IdsIssued'
    <3>1. \A u \in Tasks : state'[u] # "None" => state[u] # "None" \/ u = t
      BY <1>2, <1>9
    <3> QED BY <1>4, <1>5, <3>1, IdIsFresh DEF MakeRecord
  <2>2. RecordSpan'
    BY <1>2, <1>7, <1>8, <1>9 DEF IndInv, RecordInv, RecordSpan, HasRecord, NoSlot
  <2> QED BY <1>7, <2>1, <2>2 DEF RecordInv
<1>11. /\ \A u \in Tasks : Over(u) => Over(u)' /\ failure'[u] = failure[u]
       /\ \A u \in Tasks : HasRecord(u) /\ state[u] \notin Terminal
                            => HasRecord(u)' /\ state'[u] \notin Terminal
  <2>1. \A u \in Tasks : Over(u) => Over(u)' /\ failure'[u] = failure[u]
    BY <1>2, <1>7, <1>9 DEF Over, Terminal
  <2>2. \A u \in Tasks : state[u] \notin Terminal => state'[u] \notin Terminal
    BY <1>9 DEF Terminal
  <2>3. \A u \in Tasks : HasRecord(u) => HasRecord(u)'
    BY <1>7, <1>8 DEF HasRecord, NoSlot
  <2> QED BY <2>1, <2>2, <2>3
<1>12. QueueInv' /\ QueueTypes'
  <2>1. /\ InState("Ready")' = InState("Ready") \cup {t}
        /\ InState("JoinBlocked")' = InState("JoinBlocked") \cup {c}
        /\ InState("Running")' = InState("Running") \ {c}
        /\ InState("Sleeping")' = InState("Sleeping")
        /\ InState("ChannelBlocked")' = InState("ChannelBlocked")
        /\ t \notin InState("Ready")
    BY <1>2, <1>7, <1>9 DEF InState
  <2>2. HasRecord(t)' /\ state'[t] \notin Terminal
    BY <1>7, <1>8, <1>9 DEF HasRecord, NoSlot, Terminal
  <2>3. /\ Once(Firsts(joinWaits), InState("JoinBlocked"))'
        /\ NoLostJoin' /\ joinWaits' \in Seq(Tasks \X Tasks)
    BY <1>2, <1>6, <1>11, <2>1, <2>2, JoinBlocks
  <2>4. Once(ready, InState("Ready"))
    BY DEF IndInv, QueueInv, QueuesPlaced
  <2>5. /\ ready' \in Seq(Tasks) /\ Range(ready') = Range(ready) \cup {t}
        /\ IsInjective(ready) /\ t \notin Range(ready) => IsInjective(ready')
    BY <1>5, <1>8, AppendOnce
  <2>6. Once(ready, InState("Ready"))'
    BY <2>1, <2>4, <2>5 DEF Once
  <2>7. Once(batch, InState("Running"))'
    BY <1>1, <1>3, <2>1 DEF Once, Range, IsInjective
  <2>8. QueuesPlaced'
    BY <1>1, <2>1, <2>3, <2>6, <2>7 DEF IndInv, QueueInv, QueuesPlaced, Once
  <2>9. CoroutineAlone'
    BY <1>1 DEF CoroutineAlone
  <2>10. QueueTypes'
    BY <1>1, <2>3, <2>5, TypeParts DEF IndInv, QueueTypes
  <2> QED BY <2>3, <2>8, <2>9, <2>10 DEF QueueInv
<1>13. JoinInv'
  <2>1. AwaitKept'
    <3>1. \A u \in Tasks : u # c => awaiting'[u] = awaiting[u] /\ waitResult'[u] = waitResult[u]
      BY <1>6, <1>8
    <3>2. awaiting[t] = 0
      BY <1>7 DEF IndInv, JoinInv, AwaitKept
    <3>3. c \in coroutine' /\ coroutine \subseteq coroutine'
      BY <1>1, <1>7
    <3> QED BY <1>9, <1>11, <3>1, <3>2, <3>3, AwaitChanges DEF IndInv, JoinInv
  <2>2. FailureKept'
    BY <1>2, <1>7, <1>9 DEF IndInv, JoinInv, FailureKept
  <2>3. ReportSettled' /\ JoinReportsTarget'
    BY <1>1, <1>11, ReportStands DEF IndInv, JoinInv
  <2> QED BY <2>1, <2>2, <2>3 DEF JoinInv
<1>14. ScopeInv'
  <2>1. ScopeStack'
    BY <1>1 DEF IndInv, ScopeInv, ScopeStack, root
  <2>2. ScopeConfined'
    <3> SUFFICES ASSUME NEW u \in Tasks, HasRecord(u)', scopeOf'[u] \in closed
                 PROVE  state'[u] \in Terminal
      BY <1>1 DEF ScopeConfined, Live, root
    <3>1. u # t /\ u # c
      BY <1>4, <1>7, <1>8, <1>9 DEF s
    <3> QED BY <3>1, <1>7, <1>8, <1>9 DEF IndInv, ScopeInv, ScopeConfined, Live, HasRecord
  <2> QED BY <2>1, <2>2 DEF ScopeInv
<1>15. TypeOK'
  <2>1. RecordTypes'
    BY <1>4, <1>5, <1>8, RecordIsMade
  <2>2. IdTypes'
    BY <1>4, <1>5, IdIsFresh DEF MakeRecord
  <2>3. WaitTypes'
    <3>1. Ok \in -1..MaxTask /\ t \in 0..MaxTask
      BY SchedulerAssumption DEF Ok, Tasks
    <3> QED BY <1>6, <1>8, <3>1 DEF WaitTypes
  <2>4. RootTypes'
    BY <1>1, TypeFrames DEF IndInv
  <2>5. UsedType'
    <3>1. Current \in 0..MaxTask
      BY <1>2 DEF Tasks, c
    <3> QED BY <1>1, <3>1, CountTypes DEF IndInv, CountTask
  <2> QED BY <1>12, <1>13, <2>1, <2>2, <2>3, <2>4, <2>5, TypePartsNext DEF JoinInv
<1> QED BY <1>10, <1>12, <1>13, <1>14, <1>15 DEF IndInv

-----------------------------------------------------------------------------
(* Wakes of channel waits.                                                 *)

\* WakeChannel moves one channel wait to the ready queue.
LEMMA WakeChannelKeeps == IndInv /\ WakeChannel => IndInv'
<1> SUFFICES ASSUME IndInv, WakeChannel PROVE IndInv'
  OBVIOUS
<1>0. PICK i \in DOMAIN channelWaits :
         /\ state' = [state EXCEPT ![channelWaits[i]] = "Ready"]
         /\ ready' = Append(ready, channelWaits[i])
         /\ channelWaits' = RemoveAt(channelWaits, i)
  BY DEF WakeChannel
<1> DEFINE t == channelWaits[i]
<1>1. /\ channelWaits \in Seq(Tasks) /\ i \in 1..Len(channelWaits)
      /\ Once(channelWaits, InState("ChannelBlocked"))
      /\ ready \in Seq(Tasks) /\ Once(ready, InState("Ready"))
      /\ state \in [Tasks -> States]
  <2>1. /\ channelWaits \in Seq(Tasks) /\ ready \in Seq(Tasks)
        /\ state \in [Tasks -> States]
    BY DEF IndInv, TypeOK
  <2>2. i \in 1..Len(channelWaits)
    BY <1>0, <2>1
  <2> QED BY <2>1, <2>2 DEF IndInv, QueueInv, QueuesPlaced
<1> USE DEF WakeChannel
<1>2. t \in Range(channelWaits) /\ t \in Tasks
  BY <1>1 DEF Range
<1>3. state[t] = "ChannelBlocked"
  BY <1>1, <1>2 DEF Once, InState
<1>4. /\ channelWaits' \in Seq(Tasks) /\ IsInjective(channelWaits')
      /\ Range(channelWaits') = Range(channelWaits) \ {t}
  BY <1>0, <1>1, RemoveAtOnce DEF Once
<1>5. state' = [state EXCEPT ![t] = "Ready"] /\ ready' = Append(ready, t)
  BY <1>0
<1> HIDE DEF t
<1>6. /\ InState("Ready")' = InState("Ready") \cup {t} /\ t \notin InState("Ready")
      /\ InState("ChannelBlocked")' = InState("ChannelBlocked") \ {t}
      /\ InState("Running")' = InState("Running")
      /\ InState("JoinBlocked")' = InState("JoinBlocked")
      /\ InState("Sleeping")' = InState("Sleeping")
  BY <1>1, <1>2, <1>3, <1>5 DEF InState
<1>7. /\ ready' \in Seq(Tasks) /\ Range(ready') = Range(ready) \cup {t}
      /\ IsInjective(ready) /\ t \notin Range(ready) => IsInjective(ready')
  BY <1>1, <1>2, <1>5, AppendOnce
<1>8. QueuesPlaced' /\ CoroutineAlone'
  <2>1. Once(ready, InState("Ready"))' /\ Once(channelWaits, InState("ChannelBlocked"))'
    BY <1>1, <1>4, <1>6, <1>7 DEF Once
  <2> QED BY <1>6, <2>1 DEF IndInv, QueueInv, QueuesPlaced, Once, CoroutineAlone, records
<1>9. /\ state' \in [Tasks -> States]
      /\ \A u \in Tasks : u # t => state'[u] = state[u]
      /\ \A u \in Tasks : \/ state'[u] = state[u]
                          \/ state[u] \in Active /\ state'[u] \in Active
  BY <1>1, <1>2, <1>3, <1>5 DEF Active, States
<1>10. NoLostJoin' /\ AwaitKept'
  <2>0. closed' = closed
    BY DEF root
  <2>1. /\ \A u \in Tasks : Over(u) => Over(u)' /\ failure'[u] = failure[u]
        /\ \A u \in Tasks : HasRecord(u) /\ state[u] \notin Terminal
                              => HasRecord(u)' /\ state'[u] \notin Terminal
    BY <1>9, <2>0, ActiveMoves
  <2>2. UNCHANGED <<joinWaits, awaiting, waitResult, coroutine>>
    BY DEF records
  <2>3. awaiting[t] = 0
    BY <1>2, <1>3 DEF IndInv, JoinInv, AwaitKept
  <2> QED BY <1>9, <2>1, <2>2, <2>3, TargetsStand, AwaitStands DEF IndInv, QueueInv, JoinInv
<1>11. QueueTypes' /\ WaitTypes'
  BY <1>4, <1>7, TypeParts DEF IndInv, QueueTypes, WaitTypes
<1>12. UsedType'
  <2>1. batch # <<>>
    BY DEF MayCall, InBody
  <2>2. Current \in 0..MaxTask
    BY <2>1, CurrentRuns DEF IndInv, RecordInv, QueueInv, Tasks
  <2> QED BY <2>2, CountTypes DEF IndInv, CountTask
<1> QED BY <1>8, <1>9, <1>10, <1>11, <1>12, ActiveKeeps

\* WakeDeadlockedTasks moves the channel waits of the scope to the ready
\* queue and no other task.
LEMMA DeadlockWakeKeeps == IndInv /\ RootWakesDeadlocked => IndInv'
<1> SUFFICES ASSUME IndInv, RootWakesDeadlocked PROVE IndInv'
  OBVIOUS
<1> DEFINE s == StepScope
           v == Victims(s)
           V == Range(v)
<1>0. WakeDeadlockedTasks(s)
  BY DEF RootWakesDeadlocked
<1>1. /\ channelWaits \in Seq(Tasks)
      /\ Once(channelWaits, InState("ChannelBlocked"))
      /\ ready \in Seq(Tasks) /\ Once(ready, InState("Ready"))
      /\ state \in [Tasks -> States] /\ waitResult \in [Tasks -> -1..MaxTask]
  BY DEF IndInv, TypeOK, QueueInv, QueuesPlaced
<1>2. v \in Seq(Tasks) /\ V \subseteq Range(channelWaits) /\ IsInjective(v)
  <2> DEFINE W == {t \in Tasks : s = AnyScope \/ scopeOf[t] = s}
  <2>1. v = Keep(channelWaits, W)
    BY DEF Victims
  <2> HIDE DEF W, s, v
  <2>2. /\ Keep(channelWaits, W) \in Seq(Tasks)
        /\ Range(Keep(channelWaits, W)) = Range(channelWaits) \cap W
        /\ IsInjective(channelWaits) => IsInjective(Keep(channelWaits, W))
    BY <1>1, KeepExact
  <2> QED BY <1>1, <2>1, <2>2 DEF Once
<1>3. /\ state' = Set(state, V, "Ready") /\ waitResult' = Set(waitResult, V, TaskDeadlock)
      /\ ready' = ready \o v /\ channelWaits' = Keep(channelWaits, Tasks \ V)
      /\ UNCHANGED <<records, batch, joinWaits, awaiting, timers, ids, root, used, report>>
  BY <1>0 DEF WakeDeadlockedTasks
<1> HIDE DEF s, v
<1>4. V \subseteq Tasks /\ \A t \in V : state[t] = "ChannelBlocked"
  BY <1>1, <1>2 DEF Once, InState
<1>5. /\ channelWaits' \in Seq(Tasks) /\ IsInjective(channelWaits')
      /\ Range(channelWaits') = Range(channelWaits) \ V
  <2> DEFINE W == Tasks \ V
  <2> HIDE DEF W
  <2>2. /\ Keep(channelWaits, W) \in Seq(Tasks)
        /\ Range(Keep(channelWaits, W)) = Range(channelWaits) \cap W
        /\ IsInjective(channelWaits) => IsInjective(Keep(channelWaits, W))
    BY <1>1, KeepExact
  <2>3. Range(channelWaits) \subseteq Tasks
    BY <1>1, RangeOfSeq
  <2> QED BY <1>1, <1>3, <2>2, <2>3 DEF Once, W
<1>6. /\ ready' \in Seq(Tasks) /\ Range(ready') = Range(ready) \cup V
      /\ IsInjective(ready) /\ IsInjective(v) /\ Range(ready) \cap V = {}
           => IsInjective(ready')
  BY <1>1, <1>2, <1>3, ConcatOnce
<1> HIDE DEF V
<1>7. /\ InState("Ready")' = InState("Ready") \cup V /\ InState("Ready") \cap V = {}
      /\ InState("ChannelBlocked")' = InState("ChannelBlocked") \ V
      /\ InState("Running")' = InState("Running")
      /\ InState("JoinBlocked")' = InState("JoinBlocked")
      /\ InState("Sleeping")' = InState("Sleeping")
  <2>1. "Ready" \in States
    BY DEF States
  <2>2. \A x : InState(x)' = IF x = "Ready" THEN InState(x) \cup V ELSE InState(x) \ V
    BY <1>3, <1>4, <2>1, SetMoves DEF IndInv
  <2>3. \A x : x # "ChannelBlocked" => InState(x) \cap V = {}
    BY <1>4 DEF InState
  <2> QED BY <2>2, <2>3
<1>8. QueuesPlaced' /\ CoroutineAlone'
  <2>1. Once(ready, InState("Ready"))' /\ Once(channelWaits, InState("ChannelBlocked"))'
    BY <1>1, <1>2, <1>5, <1>6, <1>7 DEF Once
  <2> QED BY <1>3, <1>7, <2>1 DEF IndInv, QueueInv, QueuesPlaced, Once, CoroutineAlone, records
<1>9. /\ state' \in [Tasks -> States]
      /\ \A u \in Tasks : u \notin V => state'[u] = state[u] /\ waitResult'[u] = waitResult[u]
      /\ \A u \in Tasks : \/ state'[u] = state[u]
                          \/ state[u] \in Active /\ state'[u] \in Active
  BY <1>1, <1>3, <1>4 DEF Active, States, Set
<1>10. NoLostJoin' /\ AwaitKept'
  <2>0. closed' = closed
    BY <1>3 DEF root
  <2>1. /\ \A u \in Tasks : Over(u) => Over(u)' /\ failure'[u] = failure[u]
        /\ \A u \in Tasks : HasRecord(u) /\ state[u] \notin Terminal
                              => HasRecord(u)' /\ state'[u] \notin Terminal
    BY <1>3, <1>9, <2>0, ActiveMoves
  <2>2. UNCHANGED <<joinWaits, awaiting, coroutine>>
    BY <1>3 DEF records
  <2>3. \A u \in V : awaiting[u] = 0
    BY <1>4 DEF IndInv, JoinInv, AwaitKept
  <2> QED BY <1>9, <2>1, <2>2, <2>3, TargetsStand, AwaitStands DEF IndInv, QueueInv, JoinInv
<1>11. QueueTypes' /\ WaitTypes'
  <2>1. TaskDeadlock \in -1..MaxTask
    BY SchedulerAssumption DEF TaskDeadlock
  <2>2. waitResult' \in [Tasks -> -1..MaxTask]
    BY <1>1, <1>3, <2>1 DEF Set
  <2> QED BY <1>3, <1>5, <1>6, <2>2, TypeParts DEF IndInv, QueueTypes, WaitTypes
<1>12. UsedType'
  BY <1>3, TypeFrames DEF IndInv
<1> QED BY <1>3, <1>8, <1>9, <1>10, <1>11, <1>12, ActiveKeeps

-----------------------------------------------------------------------------
(* Dispatch.                                                               *)

\* WakeDueTimers moves the due sleepers to the end of the ready queue.
LEMMA DueTimersWake ==
    ASSUME IndInv, NEW k \in 0..Len(timers)
    PROVE  LET q == WakeDueTimers(k)
               st == StateAfterTimers(k)
               rest == SubSeq(timers, k + 1, Len(timers))
           IN  /\ q \in Seq(Tasks) /\ st \in [Tasks -> States] /\ rest \in Seq(Tasks)
               /\ Once(q, {t \in Tasks : st[t] = "Ready"})
               /\ Once(rest, {t \in Tasks : st[t] = "Sleeping"})
               /\ \A t \in Tasks : \/ st[t] = state[t]
                                   \/ state[t] = "Sleeping" /\ st[t] = "Ready"
<1> DEFINE due == SubSeq(timers, 1, k)
           rest == SubSeq(timers, k + 1, Len(timers))
           W == Range(due)
           S == {t \in Tasks : state[t] = "Sleeping"}
           q == WakeDueTimers(k)
           st == StateAfterTimers(k)
<1>1. /\ timers \in Seq(Tasks) /\ Once(timers, InState("Sleeping"))
      /\ ready \in Seq(Tasks) /\ Once(ready, InState("Ready"))
      /\ state \in [Tasks -> States]
  BY DEF IndInv, TypeOK, QueueInv, QueuesPlaced
<1>2. /\ due \in Seq(Tasks) /\ rest \in Seq(Tasks)
      /\ Range(due) \cup Range(rest) = Range(timers)
      /\ IsInjective(timers) => /\ IsInjective(due) /\ IsInjective(rest)
                                /\ Range(due) \cap Range(rest) = {}
  BY <1>1, CutOnce
<1>3. S = InState("Sleeping") /\ q = ready \o Keep(due, S)
  BY DEF InState, WakeDueTimers
<1>4. st = Set(state, {t \in W : state[t] = "Sleeping"}, "Ready")
  BY DEF StateAfterTimers
<1> HIDE DEF due, rest, S, q, st
<1>5. /\ Keep(due, S) \in Seq(Tasks) /\ Range(Keep(due, S)) = W \cap S
      /\ IsInjective(due) => IsInjective(Keep(due, S))
  BY <1>2, KeepExact
<1> HIDE DEF W
<1>6. W \subseteq S /\ S \subseteq Tasks /\ Range(rest) = S \ W /\ IsInjective(rest)
      /\ IsInjective(due)
  BY <1>1, <1>2, <1>3 DEF Once, W, InState
<1>7. \A t \in W : t \in Tasks /\ state[t] = "Sleeping"
  BY <1>6, <1>3 DEF InState
<1>8. {t \in W : state[t] = "Sleeping"} = W
  BY <1>7
<1>9. st = Set(state, W, "Ready")
  BY <1>4, <1>8
<1>10. /\ st \in [Tasks -> States]
       /\ \A t \in Tasks : st[t] = IF t \in W THEN "Ready" ELSE state[t]
  BY <1>1, <1>9 DEF Set, States
<1>11. /\ {t \in Tasks : st[t] = "Ready"} = InState("Ready") \cup W
       /\ {t \in Tasks : st[t] = "Sleeping"} = S \ W
       /\ InState("Ready") \cap W = {}
  BY <1>3, <1>6, <1>7, <1>10 DEF InState
<1>12. /\ ready \o Keep(due, S) \in Seq(Tasks)
       /\ Range(ready \o Keep(due, S)) = Range(ready) \cup Range(Keep(due, S))
       /\ IsInjective(ready) /\ IsInjective(Keep(due, S))
            /\ Range(ready) \cap Range(Keep(due, S)) = {}
            => IsInjective(ready \o Keep(due, S))
  BY <1>1, <1>5, ConcatOnce
<1>13. Range(Keep(due, S)) = W
  BY <1>5, <1>6
<1>14. q \in Seq(Tasks) /\ Once(q, {t \in Tasks : st[t] = "Ready"})
  BY <1>1, <1>3, <1>5, <1>6, <1>11, <1>12, <1>13 DEF Once
<1>15. Once(rest, {t \in Tasks : st[t] = "Sleeping"})
  BY <1>6, <1>11 DEF Once
<1>16. \A t \in Tasks : \/ st[t] = state[t]
                        \/ state[t] = "Sleeping" /\ st[t] = "Ready"
  BY <1>7, <1>10
<1> QED BY <1>2, <1>10, <1>14, <1>15, <1>16 DEF q, st, rest

\* The batch and the rest of the ready queue share out the queue; more than
\* one task is taken only up to the first coroutine.
LEMMA BatchIsCut ==
    ASSUME NEW q \in Seq(Tasks), IsInjective(q), NEW st, NEW s,
           \A t \in Range(q) : HasRecord(t) /\ st[t] = "Ready",
           NEW i \in Runnable(q, st, s), \A j \in Runnable(q, st, s) : i <= j,
           NEW n \in BatchLengths(q, st, s, i)
    PROVE  LET taken == SubSeq(q, i, i + n - 1)
               left == (IF s = AnyScope THEN <<>> ELSE SubSeq(q, 1, i - 1))
                       \o SubSeq(q, i + n, Len(q))
           IN  /\ taken \in Seq(Tasks) /\ IsInjective(taken)
               /\ left \in Seq(Tasks) /\ IsInjective(left)
               /\ Range(taken) \cup Range(left) = Range(q)
               /\ Range(taken) \cap Range(left) = {}
               /\ Len(taken) > 1 => Range(taken) \cap coroutine = {}
<1>1. Len(q) \in Nat /\ DOMAIN q = 1..Len(q) /\ i \in 1..Len(q) /\ n \in Nat /\ n >= 1
  BY SchedulerAssumption DEF Runnable, BatchLengths
<1>2. CASE s = AnyScope
  <2>1. Runnable(q, st, s) = DOMAIN q
    BY <1>2 DEF Runnable, Range
  <2>2. i = 1
    <3>1. 1 \in 1..Len(q)
      BY <1>1
    <3> QED BY <1>1, <2>1, <3>1
  <2>3. n \in 0..Len(q)
    BY <1>1, <2>2 DEF BatchLengths
  <2>4. /\ SubSeq(q, 1, n) \in Seq(Tasks) /\ SubSeq(q, n + 1, Len(q)) \in Seq(Tasks)
        /\ Len(SubSeq(q, 1, n)) = n
        /\ Range(SubSeq(q, 1, n)) \cup Range(SubSeq(q, n + 1, Len(q))) = Range(q)
        /\ IsInjective(SubSeq(q, 1, n)) /\ IsInjective(SubSeq(q, n + 1, Len(q)))
        /\ Range(SubSeq(q, 1, n)) \cap Range(SubSeq(q, n + 1, Len(q))) = {}
    BY <2>3, CutOnce
  <2>5. i + n - 1 = n /\ i + n = n + 1
    BY <1>1, <2>2
  <2>6. <<>> \o SubSeq(q, n + 1, Len(q)) = SubSeq(q, n + 1, Len(q))
    BY <2>4
  <2>7. n > 1 => Range(SubSeq(q, 1, n)) \cap coroutine = {}
    <3> SUFFICES ASSUME n > 1 PROVE Range(SubSeq(q, 1, n)) \cap coroutine = {}
      OBVIOUS
    <3>1. n # 1
      BY <1>1
    <3>2. \A j \in i..(i + n - 1) : q[j] \notin coroutine
      BY <3>1 DEF BatchLengths
    <3>3. \A j \in 1..n : q[j] \notin coroutine
      BY <2>2, <2>5, <3>2
    <3>4. 1 \in Int /\ n \in Int /\ 1 >= 1 /\ n <= Len(q)
      BY <1>1, <2>3
    <3>5. PICK a \in Int : a = 1
      OBVIOUS
    <3>6. /\ SubSeq(q, a, n) \in Seq(Tasks)
          /\ Len(SubSeq(q, a, n)) = IF a <= n THEN n - a + 1 ELSE 0
          /\ Range(SubSeq(q, a, n)) = {q[j] : j \in a..n}
          /\ IsInjective(q) => IsInjective(SubSeq(q, a, n))
      BY <3>4, <3>5, PieceOnce
    <3> QED BY <3>3, <3>5, <3>6
  <2> QED BY <1>2, <2>2, <2>4, <2>5, <2>6, <2>7
<1>3. CASE s # AnyScope
  <2>1. n = 1
    BY <1>3 DEF BatchLengths
  <2>2. i + n - 1 = i /\ i + n = i + 1
    BY <1>1, <2>1
  <2>3. /\ RemoveAt(q, i) \in Seq(Tasks) /\ IsInjective(RemoveAt(q, i))
        /\ Range(RemoveAt(q, i)) = Range(q) \ {q[i]}
    BY <1>1, RemoveAtOnce
  <2>4. RemoveAt(q, i) = SubSeq(q, 1, i - 1) \o SubSeq(q, i + 1, Len(q))
    BY DEF RemoveAt
  <2>5. /\ SubSeq(q, i, i) \in Seq(Tasks) /\ Range(SubSeq(q, i, i)) = {q[i]}
        /\ Len(SubSeq(q, i, i)) = 1
        /\ IsInjective(SubSeq(q, i, i))
    <3>1. i \in Int /\ i >= 1 /\ i <= Len(q)
      BY <1>1
    <3>2. /\ SubSeq(q, i, i) \in Seq(Tasks)
          /\ Len(SubSeq(q, i, i)) = IF i <= i THEN i - i + 1 ELSE 0
          /\ Range(SubSeq(q, i, i)) = {q[j] : j \in i..i}
          /\ IsInjective(SubSeq(q, i, i))
      BY <3>1, PieceOnce
    <3>3. i..i = {i} /\ (IF i <= i THEN i - i + 1 ELSE 0) = 1
      BY <3>1
    <3> QED BY <3>2, <3>3
  <2>6. q[i] \in Range(q)
    BY <1>1 DEF Range
  <2>7. (IF s = AnyScope THEN <<>> ELSE SubSeq(q, 1, i - 1)) \o SubSeq(q, i + n, Len(q))
          = RemoveAt(q, i)
    BY <1>3, <2>2, <2>4
  <2>8. SubSeq(q, i, i + n - 1) = SubSeq(q, i, i)
    BY <2>2
  <2>9. ~(Len(SubSeq(q, i, i)) > 1)
    BY <2>5
  <2> QED BY <2>3, <2>5, <2>6, <2>7, <2>8, <2>9
<1> QED BY <1>2, <1>3

\* A step that issues no task id.
NoneIssued == \A t \in Tasks : state[t] = "None" => state'[t] = "None"

\* A step of the root moves due sleepers and the batch it dispatches.
LEMMA StepMoves ==
    ASSUME IndInv, UNCHANGED <<records, joinWaits, awaiting, waitResult, channelWaits,
                               ids, root, used, report>>,
           state' \in [Tasks -> States], ready' \in Seq(Tasks), batch' \in Seq(Tasks),
           timers' \in Seq(Tasks),
           \A t \in Tasks : \/ state'[t] = state[t]
                            \/ /\ state[t] \in {"Ready", "Sleeping"}
                               /\ state'[t] \in {"Ready", "Running"},
           Once(ready, InState("Ready"))', Once(batch, InState("Running"))',
           Once(timers, InState("Sleeping"))', CoroutineAlone'
    PROVE  IndInv'
<1>1. /\ InState("JoinBlocked")' = InState("JoinBlocked")
      /\ InState("ChannelBlocked")' = InState("ChannelBlocked")
  BY DEF InState
<1>2. QueuesPlaced'
  BY <1>1 DEF IndInv, QueueInv, QueuesPlaced, Once
<1>3. \A t \in Tasks : \/ state'[t] = state[t]
                       \/ state[t] \in Active /\ state'[t] \in Active
  BY DEF Active
<1>4. closed' = closed
  BY DEF root
<1>5. NoLostJoin' /\ AwaitKept'
  <2>1. /\ \A u \in Tasks : Over(u) => Over(u)' /\ failure'[u] = failure[u]
        /\ \A u \in Tasks : HasRecord(u) /\ state[u] \notin Terminal
                              => HasRecord(u)' /\ state'[u] \notin Terminal
    BY <1>3, <1>4, ActiveMoves
  <2>2. UNCHANGED <<joinWaits, awaiting, waitResult, coroutine>>
    BY DEF records
  <2>3. \A t \in Tasks : awaiting[t] # 0 =>
             state[t] \in {"JoinBlocked", "Ready", "Running"}
    BY DEF IndInv, JoinInv, AwaitKept
  <2>4. \A t \in Tasks : awaiting[t] # 0 =>
             \/ state'[t] = state[t]
             \/ {state[t], state'[t]} \subseteq {"Ready", "Running"}
    BY <2>3
  <2> QED BY <2>1, <2>2, <2>4, TargetsStand, AwaitStands DEF IndInv, QueueInv, JoinInv
<1>6. QueueTypes' /\ WaitTypes' /\ UsedType'
  BY TypeParts DEF IndInv, QueueTypes, WaitTypes, UsedType
<1> QED BY <1>2, <1>3, <1>5, <1>6, ActiveKeeps

\* Step keeps the invariant and issues no task id.
LEMMA RootStepKeeps == IndInv /\ RootStep => IndInv' /\ NoneIssued
<1> SUFFICES ASSUME IndInv, RootStep PROVE IndInv' /\ NoneIssued
  OBVIOUS
<1> DEFINE s == StepScope
<1>1. Step(s)
  BY DEF RootStep
<1> HIDE DEF s
<1>2. PICK k \in 0..Len(timers) :
         LET q == WakeDueTimers(k)
             st == StateAfterTimers(k)
             able == Runnable(q, st, s)
         IN  /\ timers' = SubSeq(timers, k + 1, Len(timers))
             /\ \/ \E i \in able : \E n \in BatchLengths(q, st, s, i) :
                     LET taken == SubSeq(q, i, i + n - 1) IN
                     /\ \A j \in able : i <= j
                     /\ batch' = taken
                     /\ state' = Set(st, Range(taken), "Running")
                     /\ ready' = (IF s = AnyScope THEN <<>>
                                  ELSE SubSeq(q, 1, i - 1))
                                 \o SubSeq(q, i + n, Len(q))
                \/ /\ able = {} /\ k > 0
                   /\ ready' = q /\ state' = st /\ UNCHANGED batch
  BY <1>1 DEF Step
<1>3. /\ batch = <<>>
      /\ UNCHANGED <<records, joinWaits, awaiting, waitResult, channelWaits, ids,
                     root, used, report>>
  BY <1>1 DEF Step
<1> DEFINE q == WakeDueTimers(k)
           st == StateAfterTimers(k)
<1>4. /\ q \in Seq(Tasks) /\ st \in [Tasks -> States] /\ timers' \in Seq(Tasks)
      /\ Once(q, {t \in Tasks : st[t] = "Ready"})
      /\ Once(timers', {t \in Tasks : st[t] = "Sleeping"})
      /\ \A t \in Tasks : \/ st[t] = state[t]
                          \/ state[t] = "Sleeping" /\ st[t] = "Ready"
  BY <1>2, DueTimersWake
<1>5. \/ \E i \in Runnable(q, st, s) : \E n \in BatchLengths(q, st, s, i) :
             /\ \A j \in Runnable(q, st, s) : i <= j
             /\ batch' = SubSeq(q, i, i + n - 1)
             /\ state' = Set(st, Range(batch'), "Running")
             /\ ready' = (IF s = AnyScope THEN <<>> ELSE SubSeq(q, 1, i - 1))
                         \o SubSeq(q, i + n, Len(q))
      \/ ready' = q /\ state' = st /\ UNCHANGED batch
  BY <1>2
<1> HIDE DEF q, st
<1>6. \A t \in Tasks : st[t] # "Running"
  <2>1. InState("Running") = {}
    BY <1>3 DEF IndInv, QueueInv, QueuesPlaced, Once, Range
  <2>2. \A t \in Tasks : state[t] # "Running"
    BY <2>1 DEF InState
  <2> QED BY <1>4, <2>2
<1>7. CASE ready' = q /\ state' = st /\ UNCHANGED batch
  <2>1. /\ InState("Ready")' = {t \in Tasks : st[t] = "Ready"}
        /\ InState("Sleeping")' = {t \in Tasks : st[t] = "Sleeping"}
        /\ InState("Running")' = {}
    BY <1>6, <1>7 DEF InState
  <2>2. Once(ready, InState("Ready"))' /\ Once(timers, InState("Sleeping"))'
    BY <1>4, <1>7, <2>1 DEF Once
  <2>3. Once(batch, InState("Running"))' /\ batch' \in Seq(Tasks) /\ CoroutineAlone'
    BY <1>3, <1>7, <2>1 DEF Once, Range, IsInjective, CoroutineAlone
  <2>4. \A t \in Tasks : \/ state'[t] = state[t]
                         \/ /\ state[t] \in {"Ready", "Sleeping"}
                            /\ state'[t] \in {"Ready", "Running"}
    BY <1>4, <1>7
  <2>5. state' \in [Tasks -> States] /\ ready' \in Seq(Tasks)
    BY <1>4, <1>7
  <2> QED BY <1>3, <1>4, <2>2, <2>3, <2>4, <2>5, StepMoves DEF NoneIssued
<1>8. ASSUME NEW i \in Runnable(q, st, s), NEW n \in BatchLengths(q, st, s, i),
             \A j \in Runnable(q, st, s) : i <= j,
             batch' = SubSeq(q, i, i + n - 1),
             state' = Set(st, Range(batch'), "Running"),
             ready' = (IF s = AnyScope THEN <<>> ELSE SubSeq(q, 1, i - 1))
                         \o SubSeq(q, i + n, Len(q))
      PROVE  IndInv' /\ NoneIssued
  <2>1. \A t \in Range(q) : t \in Tasks /\ HasRecord(t) /\ st[t] = "Ready"
    <3>1. \A t \in Range(q) : t \in Tasks /\ st[t] = "Ready"
      BY <1>4 DEF Once
    <3>2. \A t \in Range(q) : state[t] \in {"Ready", "Sleeping"}
      BY <1>4, <3>1
    <3> QED BY <3>1, <3>2 DEF IndInv, RecordInv, RecordSpan
  <2>2. /\ batch' \in Seq(Tasks) /\ IsInjective(batch')
        /\ ready' \in Seq(Tasks) /\ IsInjective(ready')
        /\ Range(batch') \cup Range(ready') = Range(q)
        /\ Range(batch') \cap Range(ready') = {}
        /\ Len(batch') > 1 => Range(batch') \cap coroutine = {}
    <3> DEFINE taken == SubSeq(q, i, i + n - 1)
               left == (IF s = AnyScope THEN <<>> ELSE SubSeq(q, 1, i - 1))
                       \o SubSeq(q, i + n, Len(q))
    <3>1. q \in Seq(Tasks) /\ IsInjective(q)
      BY <1>4 DEF Once
    <3>2. \A j \in Runnable(q, st, s) : i <= j
      BY <1>8
    <3>3. \A t \in Range(q) : HasRecord(t) /\ st[t] = "Ready"
      BY <2>1
    <3>4. /\ taken \in Seq(Tasks) /\ IsInjective(taken)
          /\ left \in Seq(Tasks) /\ IsInjective(left)
          /\ Range(taken) \cup Range(left) = Range(q)
          /\ Range(taken) \cap Range(left) = {}
          /\ Len(taken) > 1 => Range(taken) \cap coroutine = {}
      BY <3>1, <3>2, <3>3, BatchIsCut
    <3>5. batch' = taken /\ ready' = left
      BY <1>8
    <3> HIDE DEF taken, left
    <3> QED BY <3>4, <3>5
  <2> DEFINE B == Range(batch')
  <2>3. B \subseteq Tasks /\ \A t \in B : st[t] = "Ready"
    BY <2>1, <2>2
  <2>4. /\ state' \in [Tasks -> States]
        /\ \A t \in Tasks : state'[t] = IF t \in B THEN "Running" ELSE st[t]
    BY <1>4, <1>8 DEF Set, States
  <2> HIDE DEF B
  <2>5. /\ InState("Ready")' = {t \in Tasks : st[t] = "Ready"} \ B
        /\ InState("Sleeping")' = {t \in Tasks : st[t] = "Sleeping"}
        /\ InState("Running")' = B
    BY <1>6, <2>3, <2>4 DEF InState
  <2>6. Once(ready, InState("Ready"))' /\ Once(timers, InState("Sleeping"))'
        /\ Once(batch, InState("Running"))'
    BY <1>4, <2>2, <2>5 DEF Once, B
  <2>7. CoroutineAlone'
    BY <1>3, <2>2 DEF CoroutineAlone, records
  <2>8. \A t \in Tasks : \/ state'[t] = state[t]
                         \/ /\ state[t] \in {"Ready", "Sleeping"}
                            /\ state'[t] \in {"Ready", "Running"}
    BY <1>4, <2>3, <2>4
  <2> QED BY <1>3, <1>4, <2>2, <2>4, <2>6, <2>7, <2>8, StepMoves DEF NoneIssued
<1> QED BY <1>5, <1>7, <1>8

-----------------------------------------------------------------------------
(* Retirement.                                                             *)

\* RetireTaskRecord for each handle: the slots of the records that go return
\* to the free list, each once, also when a handle occurs twice.
LEMMA RetireFrees ==
    ASSUME TypeOK, SlotsPartitioned, NEW hs \in Seq(Tasks), Retire(hs)
    PROVE  \E gone \in SUBSET Tasks :
             /\ \A t \in gone : HasRecord(t) /\ t \in Range(hs)
             /\ slotOf' = Set(slotOf, gone, NoSlot)
             /\ scopeOf' = Set(scopeOf, gone, RootScope)
             /\ state' = Set(state, gone, "Retired")
             /\ freeSlots' \in Seq(1..TaskCapacity)
             /\ SlotsPartitioned'
<1> DEFINE first == {i \in DOMAIN hs : /\ HasRecord(hs[i])
                                       /\ \A j \in 1..(i - 1) : hs[j] # hs[i]}
           id == [i \in DOMAIN hs |-> i]
           order == Keep(id, first)
           gone == {hs[i] : i \in first}
           slots == [i \in DOMAIN order |-> slotOf[hs[order[i]]]]
<1>1. /\ freeSlots' = Reverse(slots) \o freeSlots
      /\ slotOf' = Set(slotOf, gone, NoSlot)
      /\ scopeOf' = Set(scopeOf, gone, RootScope)
      /\ state' = Set(state, gone, "Retired")
  BY DEF Retire
<1>2. Len(hs) \in Nat /\ DOMAIN hs = 1..Len(hs) /\ \A i \in DOMAIN hs : hs[i] \in Tasks
  OBVIOUS
<1>3. first \subseteq DOMAIN hs /\ \A i \in first : HasRecord(hs[i])
  OBVIOUS
<1>4. \A i, j \in first : hs[i] = hs[j] => i = j
  <2> SUFFICES ASSUME NEW i \in first, NEW j \in first, hs[i] = hs[j], i # j PROVE FALSE
    OBVIOUS
  <2>1. i \in 1..Len(hs) /\ j \in 1..Len(hs)
    BY <1>2
  <2>2. \/ i \in 1..(j - 1)
        \/ j \in 1..(i - 1)
    BY <1>2, <2>1
  <2> QED BY <2>2
<1> HIDE DEF first
<1>5. gone \subseteq Tasks /\ \A t \in gone : HasRecord(t) /\ t \in Range(hs)
  BY <1>2, <1>3 DEF Range
<1>6. order \in Seq(DOMAIN hs) /\ Range(order) = first /\ IsInjective(order)
  <2>1. id \in [1..Len(hs) -> DOMAIN hs]
    BY <1>2
  <2>2. id \in Seq(DOMAIN hs)
    BY <1>2, <2>1
  <2>3. Range(id) = DOMAIN hs /\ IsInjective(id)
    BY DEF Range, IsInjective
  <2> HIDE DEF id
  <2>4. /\ Keep(id, first) \in Seq(DOMAIN hs)
        /\ Range(Keep(id, first)) = Range(id) \cap first
        /\ IsInjective(id) => IsInjective(Keep(id, first))
    BY <2>2, KeepExact
  <2> QED BY <1>3, <2>3, <2>4
<1> HIDE DEF order
<1> DEFINE f == [i \in first |-> slotOf[hs[i]]]
           T == 1..TaskCapacity
           m == Image(order, f)
<1>7. slotOf \in [Tasks -> 0..TaskCapacity] /\ freeSlots \in Seq(T)
  BY DEF TypeOK
<1>8. \A i \in first : f[i] \in T /\ f[i] = slotOf[hs[i]]
  <2> SUFFICES ASSUME NEW i \in first PROVE slotOf[hs[i]] \in 1..TaskCapacity
    OBVIOUS
  <2>1. slotOf[hs[i]] \in 0..TaskCapacity /\ slotOf[hs[i]] # 0
    BY <1>2, <1>3, <1>7 DEF HasRecord, NoSlot
  <2> QED BY <2>1, SchedulerAssumption
<1>9. \A i, j \in first : f[i] = f[j] => i = j
  <2> SUFFICES ASSUME NEW i \in first, NEW j \in first, slotOf[hs[i]] = slotOf[hs[j]]
               PROVE  i = j
    BY <1>8
  <2>1. hs[i] \in Live /\ hs[j] \in Live
    BY <1>2, <1>3 DEF Live
  <2>2. hs[i] = hs[j]
    BY <2>1 DEF SlotsPartitioned
  <2> QED BY <1>4, <2>2
<1>10. slots = m
  <2>1. \A i \in DOMAIN order : order[i] \in first
    BY <1>6 DEF Range
  <2> QED BY <2>1 DEF Image
<1>11. {f[i] : i \in first} = {slotOf[t] : t \in gone}
  BY <1>8
<1> HIDE DEF f, T, gone, slots
<1>12. m \in Seq(T) /\ Range(m) = {f[i] : i \in first} /\ IsInjective(m)
  <2>1. \A x \in Range(order) : f[x] \in T
    BY <1>6, <1>8
  <2>2. \A x, y \in Range(order) : f[x] = f[y] => x = y
    BY <1>6, <1>9
  <2>3. /\ m \in Seq(T)
        /\ \A y : y \in Range(m) <=> \E x \in Range(order) : y = f[x]
        /\ IsInjective(order) /\ (\A x, y \in Range(order) : f[x] = f[y] => x = y)
                    => IsInjective(m)
    BY <1>6, <2>1, ImageOnce
  <2> QED BY <1>6, <2>2, <2>3
<1> HIDE DEF m
<1>13. Reverse(m) \in Seq(T) /\ Range(Reverse(m)) = Range(m) /\ IsInjective(Reverse(m))
  BY <1>12, ReverseOnce
<1>14. Range(freeSlots) \cap {slotOf[t] : t \in gone} = {}
  <2>1. gone \subseteq Live
    BY <1>5 DEF Live
  <2> QED BY <2>1 DEF SlotsPartitioned
<1>15. /\ freeSlots' \in Seq(T) /\ IsInjective(freeSlots')
       /\ Range(freeSlots') = {slotOf[t] : t \in gone} \cup Range(freeSlots)
  <2> DEFINE r == Reverse(m)
  <2>1. r \in Seq(T) /\ Range(r) = {slotOf[t] : t \in gone} /\ IsInjective(r)
    BY <1>11, <1>12, <1>13
  <2>2. freeSlots' = r \o freeSlots
    BY <1>1, <1>10
  <2> HIDE DEF r
  <2>3. /\ r \o freeSlots \in Seq(T)
        /\ Range(r \o freeSlots) = Range(r) \cup Range(freeSlots)
        /\ IsInjective(r) /\ IsInjective(freeSlots) /\ Range(r) \cap Range(freeSlots) = {}
             => IsInjective(r \o freeSlots)
    BY <1>7, <2>1, ConcatOnce
  <2>4. IsInjective(freeSlots)
    BY DEF SlotsPartitioned
  <2> QED BY <1>14, <2>1, <2>2, <2>3, <2>4
<1>16. SlotsPartitioned'
  <2>1. \A t \in Tasks : slotOf'[t] = IF t \in gone THEN NoSlot ELSE slotOf[t]
    BY <1>1, <1>7 DEF Set
  <2>2. Live' = Live \ gone /\ \A t \in Live' : slotOf'[t] = slotOf[t]
    BY <2>1 DEF Live, HasRecord
  <2>3. \A t, u \in Live' : slotOf'[t] = slotOf'[u] => t = u
    BY <2>2 DEF SlotsPartitioned
  <2>4. Range(freeSlots') = T \ {slotOf'[t] : t \in Live'}
    <3>1. Range(freeSlots) = T \ {slotOf[t] : t \in Live}
      BY DEF SlotsPartitioned, T
    <3>2. gone \subseteq Live
      BY <1>5 DEF Live
    <3>3. \A t \in gone : slotOf[t] \in T
      BY <1>8, <1>11
    <3>4. \A t \in gone, u \in Live \ gone : slotOf[t] # slotOf[u]
      BY <3>2 DEF SlotsPartitioned
    <3>5. {slotOf'[t] : t \in Live'} = {slotOf[t] : t \in Live \ gone}
      BY <2>2
    <3> QED BY <1>15, <3>1, <3>2, <3>3, <3>4, <3>5
  <2> QED BY <1>15, <2>3, <2>4 DEF SlotsPartitioned, T
<1>17. gone \in SUBSET Tasks
  BY <1>5
<1> QED BY <1>1, <1>5, <1>15, <1>16, <1>17 DEF T

\* Retiring terminal tasks disturbs no queue, no verdict and no scope.
LEMMA RetireKeeps ==
    ASSUME IndInv, NEW hs \in Seq(Tasks), TerminalAt(hs), Retire(hs),
           UNCHANGED <<coroutine, failure, ready, batch, joinWaits, channelWaits, timers,
                       ids, closed>>
    PROVE  /\ RecordInv' /\ RecordTypes' /\ FailureKept' /\ ScopeConfined'
           /\ QueuesPlaced' /\ CoroutineAlone'
           /\ \A t \in Tasks : Over(t) => Over(t)' /\ failure'[t] = failure[t]
           /\ \A t \in Tasks : HasRecord(t) /\ state[t] \notin Terminal
                                 => HasRecord(t)' /\ state'[t] \notin Terminal
           /\ \A t \in Tasks : state[t] \notin Terminal => state'[t] = state[t]
<1>1. /\ slotOf \in [Tasks -> 0..TaskCapacity] /\ state \in [Tasks -> States]
      /\ scopeOf \in [Tasks -> Scopes] /\ failure \in [Tasks -> 0..MaxTask]
      /\ coroutine \subseteq Tasks
  BY DEF IndInv, TypeOK
<1>2. PICK gone \in SUBSET Tasks :
         /\ \A t \in gone : HasRecord(t) /\ t \in Range(hs)
         /\ slotOf' = Set(slotOf, gone, NoSlot)
         /\ scopeOf' = Set(scopeOf, gone, RootScope)
         /\ state' = Set(state, gone, "Retired")
         /\ freeSlots' \in Seq(1..TaskCapacity)
         /\ SlotsPartitioned'
  BY RetireFrees DEF IndInv, RecordInv
<1>3. \A t \in gone : state[t] \in Terminal
  BY <1>2 DEF TerminalAt, Range
<1>4. \A t \in Tasks :
         /\ slotOf'[t] = IF t \in gone THEN NoSlot ELSE slotOf[t]
         /\ scopeOf'[t] = IF t \in gone THEN RootScope ELSE scopeOf[t]
         /\ state'[t] = IF t \in gone THEN "Retired" ELSE state[t]
  BY <1>1, <1>2 DEF Set
<1>5. /\ slotOf' \in [Tasks -> 0..TaskCapacity] /\ state' \in [Tasks -> States]
      /\ scopeOf' \in [Tasks -> Scopes]
  <2>1. NoSlot \in 0..TaskCapacity /\ RootScope \in Scopes /\ "Retired" \in States
    BY SchedulerAssumption DEF NoSlot, RootScope, Scopes, States
  <2> QED BY <1>1, <1>2, <2>1 DEF Set
<1>6. RecordTypes'
  BY <1>1, <1>2, <1>5 DEF RecordTypes
<1>7. \A t \in Tasks : /\ state'[t] = "None" <=> state[t] = "None"
                       /\ state'[t] = "Failed" => state[t] = "Failed"
                       /\ state'[t] # "Retired" => state'[t] = state[t]
  BY <1>3, <1>4 DEF Terminal
<1>8. RecordInv'
  <2>1. IdsIssued'
    BY <1>7 DEF IndInv, RecordInv, IdsIssued, ids
  <2>2. RecordSpan'
    BY <1>3, <1>4 DEF IndInv, RecordInv, RecordSpan, HasRecord, Terminal
  <2> QED BY <1>2, <2>1, <2>2 DEF RecordInv
<1>9. FailureKept'
  BY <1>7 DEF IndInv, JoinInv, FailureKept
<1>10. ScopeConfined'
  BY <1>4 DEF IndInv, ScopeInv, ScopeConfined, Live, HasRecord
<1>11. \A x : x \notin Terminal \cup {"Retired"} => InState(x)' = InState(x)
  BY <1>3, <1>4 DEF InState
<1>12. QueuesPlaced'
  <2>1. /\ InState("Ready")' = InState("Ready") /\ InState("Running")' = InState("Running")
        /\ InState("JoinBlocked")' = InState("JoinBlocked")
        /\ InState("Sleeping")' = InState("Sleeping")
        /\ InState("ChannelBlocked")' = InState("ChannelBlocked")
    BY <1>11 DEF Terminal
  <2> QED BY <2>1 DEF IndInv, QueueInv, QueuesPlaced, Once
<1>13. CoroutineAlone'
  BY DEF IndInv, QueueInv, CoroutineAlone
<1>14. \A t \in Tasks : Over(t) => Over(t)' /\ failure'[t] = failure[t]
  BY <1>4 DEF Over
<1>15. \A t \in Tasks : HasRecord(t) /\ state[t] \notin Terminal
                                 => HasRecord(t)' /\ state'[t] \notin Terminal
  BY <1>3, <1>4 DEF HasRecord
<1>16. \A t \in Tasks : state[t] \notin Terminal => state'[t] = state[t]
  BY <1>3, <1>4
<1> QED BY <1>6, <1>8, <1>9, <1>10, <1>12, <1>13, <1>14, <1>15, <1>16

\* FailureCodeAt names the first failed one of terminal tasks.
LEMMA FailureCodeExact ==
    ASSUME TypeOK, FailureKept, NEW hs \in Seq(Tasks), TerminalAt(hs)
    PROVE  LET failed == {i \in DOMAIN hs : failure[hs[i]] # Ok}
               code == FailureCodeAt(hs)
           IN  /\ code \in 0..MaxTask
               /\ code = Ok => failed = {}
               /\ code > 0 => \E i \in failed : /\ code = failure[hs[i]]
                                               /\ \A j \in failed : i <= j
<1> DEFINE failed == {i \in DOMAIN hs : state[hs[i]] = "Failed"}
           lost == {i \in DOMAIN hs : failure[hs[i]] # Ok}
           code == FailureCodeAt(hs)
           least == CHOOSE i \in failed : \A j \in failed : i <= j
<1>1. /\ failure \in [Tasks -> 0..MaxTask] /\ DOMAIN hs = 1..Len(hs) /\ Len(hs) \in Nat
      /\ \A i \in DOMAIN hs : hs[i] \in Tasks
  BY DEF TypeOK
<1>2. \A i \in DOMAIN hs : state[hs[i]] = "Failed" <=> failure[hs[i]] # Ok
  <2> SUFFICES ASSUME NEW i \in DOMAIN hs
               PROVE  state[hs[i]] = "Failed" <=> failure[hs[i]] # Ok
    OBVIOUS
  <2>1. hs[i] \in Tasks /\ state[hs[i]] \in Terminal /\ hs[i] # 0
    BY <1>1 DEF TerminalAt, Tasks
  <2> QED BY <2>1 DEF FailureKept, Terminal, Ok
<1>3. failed = lost
  BY <1>2
<1>4. CASE failed = {}
  <2>1. code = Ok
    BY <1>4 DEF FailureCodeAt
  <2>2. Ok \in 0..MaxTask /\ ~(Ok > 0)
    BY SchedulerAssumption DEF Ok
  <2> QED BY <1>3, <1>4, <2>1, <2>2
<1>5. CASE failed # {}
  <2>1. failed \in SUBSET Nat
    BY <1>1
  <2>2. code = failure[hs[least]]
    BY <1>5 DEF FailureCodeAt
  <2> HIDE DEF failed
  <2>3. \E i \in failed : \A j \in failed : i <= j
    BY <1>5, <2>1, NatMinimum
  <2>4. least \in failed /\ \A j \in failed : least <= j
    BY <2>3
  <2> HIDE DEF least, code
  <2>5. least \in lost /\ \A j \in lost : least <= j
    BY <1>3, <2>4
  <2>6. failure[hs[least]] # Ok /\ failure[hs[least]] \in 0..MaxTask
    BY <1>1, <2>5
  <2>7. code \in 0..MaxTask /\ code # Ok
    BY <2>2, <2>6
  <2> QED BY <2>2, <2>5, <2>7 DEF code
<1> QED BY <1>4, <1>5

-----------------------------------------------------------------------------
(* Joins that return.                                                      *)

\* The end of the root's join reports the first failure in handle order and
\* retires the targets.
LEMMA JoinDoneKeeps == IndInv /\ JoinDone => IndInv'
<1> SUFFICES ASSUME IndInv, JoinDone PROVE IndInv'
  OBVIOUS
<1> DEFINE hs == targets
<1>1. /\ hs \in Seq(Tasks) /\ TerminalAt(hs) /\ Retire(hs)
      /\ UNCHANGED <<coroutine, failure, ready, batch, waits, ids, scopes, nextScope, closed, used>>
      /\ report' = [by |-> 0, op |-> "join", on |-> hs, code |-> FailureCodeAt(hs)]
      /\ rootOp' = "idle" /\ targets' = <<>>
  BY DEF IndInv, TypeOK, JoinDone, Reached, Return
<1> HIDE DEF hs
<1>2. /\ RecordInv' /\ RecordTypes' /\ FailureKept' /\ ScopeConfined'
      /\ QueuesPlaced' /\ CoroutineAlone'
      /\ \A t \in Tasks : Over(t) => Over(t)' /\ failure'[t] = failure[t]
      /\ \A t \in Tasks : HasRecord(t) /\ state[t] \notin Terminal
                                 => HasRecord(t)' /\ state'[t] \notin Terminal
      /\ \A t \in Tasks : state[t] \notin Terminal => state'[t] = state[t]
  <2>1. UNCHANGED <<coroutine, failure, ready, batch, joinWaits, channelWaits, timers,
                    ids, closed>>
    BY <1>1 DEF waits
  <2> QED BY <1>1, <2>1, RetireKeeps
<1>3. NoLostJoin' /\ AwaitKept'
  <2>1. UNCHANGED <<joinWaits, awaiting, waitResult, coroutine>>
    BY <1>1 DEF waits
  <2>2. \A t \in Tasks : awaiting[t] # 0 => state'[t] = state[t]
    BY <1>2 DEF IndInv, JoinInv, AwaitKept, Terminal
  <2> QED BY <1>2, <2>1, <2>2, TargetsStand, AwaitStands DEF IndInv, QueueInv, JoinInv
<1>4. ReportSettled' /\ JoinReportsTarget'
  <2> DEFINE failed == {i \in DOMAIN hs : failure[hs[i]] # Ok}
             code == FailureCodeAt(hs)
  <2>1. /\ code \in 0..MaxTask
        /\ code = Ok => failed = {}
        /\ code > 0 => \E i \in failed : /\ code = failure[hs[i]]
                                        /\ \A j \in failed : i <= j
    BY <1>1, FailureCodeExact DEF IndInv, JoinInv
  <2>2. \A i \in DOMAIN hs : hs[i] \in Tasks /\ Over(hs[i])
    BY <1>1 DEF TerminalAt, Over
  <2>3. \A i \in DOMAIN hs : state'[hs[i]] \in Terminal \cup {"Retired"}
    BY <1>2, <2>2 DEF Over
  <2>4. /\ report'.op = "join" /\ report'.on = hs /\ report'.code = code
        /\ failure' = failure
    BY <1>1
  <2> HIDE DEF code
  <2>5. ReportSettled'
    <3>1. code \in -2..MaxTask
      BY <2>1
    <3> QED BY <1>1, <2>3, <2>4, <3>1 DEF ReportSettled, Over
  <2>6. JoinReportsTarget'
    BY <2>1, <2>3, <2>4 DEF JoinReportsTarget
  <2> QED BY <2>5, <2>6
<1>5. ScopeStack'
  BY <1>1 DEF IndInv, ScopeInv, ScopeStack
<1>6. TypeOK'
  <2>1. RootTypes'
    BY <1>1, TypeParts DEF IndInv, RootTypes
  <2> QED BY <1>1, <1>2, <1>4, <2>1, TypeFrames, TypePartsNext DEF IndInv, waits
<1> QED BY <1>2, <1>3, <1>4, <1>5, <1>6 DEF IndInv, QueueInv, JoinInv, ScopeInv

\* The tasks after a join of task t that retires it if it is terminal.
LEMMA RetireOne ==
    ASSUME IndInv, NEW t \in Tasks,
           IF state[t] \in Terminal THEN Retire(<<t>>)
           ELSE UNCHANGED <<freeSlots, slotOf, scopeOf, state>>,
           UNCHANGED <<coroutine, failure, ready, batch, joinWaits, channelWaits, timers,
                       ids, closed>>
    PROVE  /\ RecordInv' /\ RecordTypes' /\ FailureKept' /\ ScopeConfined'
           /\ QueuesPlaced' /\ CoroutineAlone'
           /\ \A u \in Tasks : Over(u) => Over(u)' /\ failure'[u] = failure[u]
           /\ \A u \in Tasks : HasRecord(u) /\ state[u] \notin Terminal
                                 => HasRecord(u)' /\ state'[u] \notin Terminal
           /\ \A u \in Tasks : state[u] \notin Terminal => state'[u] = state[u]
<1>1. CASE state[t] \in Terminal
  <2>1. <<t>> \in Seq(Tasks) /\ TerminalAt(<<t>>) /\ Retire(<<t>>)
    BY <1>1 DEF TerminalAt
  <2> QED BY <2>1, RetireKeeps
<1>2. CASE state[t] \notin Terminal
  <2>1. UNCHANGED <<freeSlots, slotOf, scopeOf, state>>
    BY <1>2
  <2>2. RecordInv'
    BY <2>1 DEF IndInv, RecordInv, IdsIssued, RecordSpan, HasRecord, SlotsPartitioned, Live, ids
  <2>3. RecordTypes'
    BY <2>1, TypeParts DEF IndInv, RecordTypes
  <2>4. FailureKept'
    BY <2>1 DEF IndInv, JoinInv, FailureKept
  <2>5. ScopeConfined'
    BY <2>1 DEF IndInv, ScopeInv, ScopeConfined, Live, HasRecord
  <2>6. QueuesPlaced' /\ CoroutineAlone'
    BY <2>1 DEF IndInv, QueueInv, QueuesPlaced, Once, InState, CoroutineAlone
  <2> QED BY <2>1, <2>2, <2>3, <2>4, <2>5, <2>6 DEF Over, HasRecord
<1> QED BY <1>1, <1>2

\* A co_await that does not suspend: stale handle, own handle or a terminal
\* target.
LEMMA JoinAtOnceKeeps == IndInv /\ JoinAtOnce => IndInv'
<1> SUFFICES ASSUME IndInv, JoinAtOnce PROVE IndInv'
  OBVIOUS
<1>1. PICK t \in Tasks :
          /\ \/ t = Current \/ ~HasRecord(t) \/ state[t] \in Terminal
          /\ report' = [by |-> Current, op |-> "join", on |-> <<t>>,
                        code |-> IF ~HasRecord(t) THEN HandleUnknown
                                 ELSE IF t = Current THEN TaskDeadlock
                                 ELSE FailureCodeAt(<<t>>)]
          /\ IF state[t] \in Terminal THEN Retire(<<t>>)
             ELSE UNCHANGED <<freeSlots, slotOf, scopeOf, state>>
  BY DEF JoinAtOnce
<1>2. /\ CountTask /\ batch # <<>>
      /\ UNCHANGED <<coroutine, failure, ready, batch, waits, ids, root>>
  BY DEF JoinAtOnce, MayAwait, MayCall, InBody
<1>3. /\ RecordInv' /\ RecordTypes' /\ FailureKept' /\ ScopeConfined'
      /\ QueuesPlaced' /\ CoroutineAlone'
      /\ \A u \in Tasks : Over(u) => Over(u)' /\ failure'[u] = failure[u]
      /\ \A u \in Tasks : HasRecord(u) /\ state[u] \notin Terminal
                                 => HasRecord(u)' /\ state'[u] \notin Terminal
      /\ \A u \in Tasks : state[u] \notin Terminal => state'[u] = state[u]
  <2>1. UNCHANGED <<coroutine, failure, ready, batch, joinWaits, channelWaits, timers,
                    ids, closed>>
    BY <1>2 DEF waits, root
  <2> QED BY <1>1, <2>1, RetireOne
<1>4. NoLostJoin' /\ AwaitKept'
  <2>1. UNCHANGED <<joinWaits, awaiting, waitResult, coroutine>>
    BY <1>2 DEF waits
  <2>2. \A u \in Tasks : awaiting[u] # 0 => state'[u] = state[u]
    BY <1>3 DEF IndInv, JoinInv, AwaitKept, Terminal
  <2> QED BY <1>3, <2>1, <2>2, TargetsStand, AwaitStands DEF IndInv, QueueInv, JoinInv
<1>5. ReportSettled' /\ JoinReportsTarget'
  <2> DEFINE hs == <<t>>
  <2>1. hs \in Seq(Tasks)
    OBVIOUS
  <2>2. CASE ~HasRecord(t) \/ t = Current
    <3>1. /\ report'.op = "join" /\ report'.on = hs
          /\ report'.code \in -2..MaxTask /\ report'.code < 0
      BY <1>1, <2>2, SchedulerAssumption DEF HandleUnknown, TaskDeadlock
    <3> QED BY <2>1, <3>1 DEF ReportSettled, JoinReportsTarget, Ok
  <2>3. CASE HasRecord(t) /\ t # Current
    <3> DEFINE failed == {i \in DOMAIN hs : failure[hs[i]] # Ok}
               code == FailureCodeAt(hs)
    <3>0. TerminalAt(hs)
      BY <1>1, <2>3 DEF TerminalAt
    <3>1. /\ code \in 0..MaxTask
          /\ code = Ok => failed = {}
          /\ code > 0 => \E i \in failed : /\ code = failure[hs[i]]
                                          /\ \A j \in failed : i <= j
      BY <2>1, <3>0, FailureCodeExact DEF IndInv, JoinInv
    <3>2. \A i \in DOMAIN hs : hs[i] \in Tasks /\ Over(hs[i])
      BY <3>0 DEF TerminalAt, Over
    <3>3. \A i \in DOMAIN hs : state'[hs[i]] \in Terminal \cup {"Retired"}
      BY <1>3, <3>2 DEF Over
    <3>4. /\ report'.op = "join" /\ report'.on = hs /\ report'.code = code
          /\ failure' = failure
      BY <1>1, <1>2, <2>3
    <3> HIDE DEF code, hs
    <3>5. ReportSettled'
      <4>1. code \in -2..MaxTask
        BY <3>1
      <4> QED BY <2>1, <3>3, <3>4, <4>1 DEF ReportSettled, Over
    <3>6. JoinReportsTarget'
      BY <3>1, <3>3, <3>4 DEF JoinReportsTarget
    <3> QED BY <3>5, <3>6
  <2> QED BY <2>2, <2>3
<1>6. ScopeStack'
  BY <1>2 DEF IndInv, ScopeInv, ScopeStack, root
<1>7. TypeOK'
  <2>1. UsedType'
    <3>1. Current \in 0..MaxTask
      BY <1>2, CurrentRuns DEF IndInv, RecordInv, QueueInv, Tasks
    <3> QED BY <1>2, <3>1, CountTypes DEF IndInv, CountTask
  <2> QED BY <1>2, <1>3, <1>5, <2>1, TypeFrames, TypePartsNext DEF IndInv, waits
<1> QED BY <1>3, <1>4, <1>5, <1>6, <1>7 DEF IndInv, QueueInv, JoinInv, ScopeInv

\* A running task is in nobody's join_waits.
LEMMA RunnerDoesNotWait ==
    ASSUME IndInv, NEW c \in Tasks, state[c] = "Running"
    PROVE  \A i \in DOMAIN joinWaits : joinWaits[i][1] # c
<1>1. Range(Firsts(joinWaits)) = InState("JoinBlocked")
  BY DEF IndInv, QueueInv, QueuesPlaced, Once
<1>2. \A i \in DOMAIN joinWaits : joinWaits[i][1] \in Range(Firsts(joinWaits))
  BY DEF Firsts, Range
<1> QED BY <1>1, <1>2 DEF InState

\* A joiner that resumes reports the verdict the wake delivered, which is the
\* target's, also when another joiner has retired the target since.
LEMMA JoinResumesKeeps == IndInv /\ JoinResumes => IndInv'
<1> SUFFICES ASSUME IndInv, JoinResumes PROVE IndInv'
  OBVIOUS
<1> DEFINE c == Current
           t == awaiting[c]
<1>1. /\ batch # <<>> /\ c \in coroutine /\ t # 0
      /\ report' = [by |-> c, op |-> "join", on |-> <<t>>, code |-> waitResult[c]]
      /\ IF state[t] \in Terminal THEN Retire(<<t>>)
         ELSE UNCHANGED <<freeSlots, slotOf, scopeOf, state>>
      /\ awaiting' = [awaiting EXCEPT ![c] = 0]
      /\ waitResult' = [waitResult EXCEPT ![c] = Ok]
      /\ UNCHANGED <<coroutine, failure, ready, batch, joinWaits, channelWaits,
                     timers, ids, root, used>>
  BY DEF JoinResumes
<1>2. c \in Tasks /\ state[c] = "Running"
  BY <1>1, CurrentRuns DEF IndInv, RecordInv, QueueInv
<1> HIDE DEF c
<1>3. /\ awaiting \in [Tasks -> 0..MaxTask] /\ waitResult \in [Tasks -> -1..MaxTask]
      /\ failure \in [Tasks -> 0..MaxTask]
  BY DEF IndInv, TypeOK
<1>4. t \in Tasks
  <2>1. t \in 0..MaxTask
    BY <1>2, <1>3
  <2> QED BY <1>1, <2>1 DEF Tasks
<1>5. Over(t) /\ waitResult[c] = failure[t]
  BY <1>1, <1>2 DEF IndInv, JoinInv, AwaitKept
<1> HIDE DEF t
<1>6. /\ RecordInv' /\ RecordTypes' /\ FailureKept' /\ ScopeConfined'
      /\ QueuesPlaced' /\ CoroutineAlone'
      /\ \A u \in Tasks : Over(u) => Over(u)' /\ failure'[u] = failure[u]
      /\ \A u \in Tasks : HasRecord(u) /\ state[u] \notin Terminal
                                 => HasRecord(u)' /\ state'[u] \notin Terminal
      /\ \A u \in Tasks : state[u] \notin Terminal => state'[u] = state[u]
  <2>1. UNCHANGED <<coroutine, failure, ready, batch, joinWaits, channelWaits, timers,
                    ids, closed>>
    BY <1>1 DEF root
  <2> QED BY <1>1, <1>4, <2>1, RetireOne
<1>7. \A u \in Tasks : u # c => awaiting'[u] = awaiting[u] /\ waitResult'[u] = waitResult[u]
  BY <1>1, <1>3
<1>8. NoLostJoin'
  <2>1. joinWaits \in Seq(Tasks \X Tasks)
    BY DEF IndInv, TypeOK
  <2>2. \A i \in DOMAIN joinWaits : joinWaits[i][1] \in Tasks /\ joinWaits[i][1] # c
    BY <1>2, <2>1, RunnerDoesNotWait
  <2>3. \A i \in DOMAIN joinWaits :
              awaiting'[joinWaits[i][1]] = awaiting[joinWaits[i][1]]
    BY <1>7, <2>2
  <2> QED BY <1>1, <1>6, <2>3, TargetsStand DEF IndInv, QueueInv
<1>9. AwaitKept'
  <2>1. awaiting'[c] = 0
    BY <1>1, <1>2, <1>3
  <2>2. \A u \in Tasks : awaiting[u] # 0 => state'[u] = state[u]
    BY <1>6 DEF IndInv, JoinInv, AwaitKept, Terminal
  <2>3. \A u \in Tasks : awaiting'[u] # 0 =>
           /\ awaiting'[u] = awaiting[u] /\ waitResult'[u] = waitResult[u]
           /\ state'[u] = state[u]
    BY <1>7, <2>1, <2>2
  <2> QED BY <1>1, <1>6, <2>3, AwaitChanges DEF IndInv, JoinInv
<1>10. ReportSettled' /\ JoinReportsTarget'
  <2> DEFINE hs == <<t>>
  <2>1. hs \in Seq(Tasks) /\ DOMAIN hs = {1} /\ hs[1] = t
    BY <1>4
  <2>2. /\ report'.op = "join" /\ report'.on = hs /\ report'.code = failure[t]
        /\ failure' = failure /\ failure[t] \in 0..MaxTask
    BY <1>1, <1>3, <1>4, <1>5
  <2>3. state'[t] \in Terminal \cup {"Retired"}
    BY <1>4, <1>5, <1>6 DEF Over
  <2> HIDE DEF hs
  <2>4. \A i \in DOMAIN hs : state'[hs[i]] \in Terminal \cup {"Retired"}
    BY <2>1, <2>3
  <2>5. failure[t] \in -2..MaxTask
    BY <2>2
  <2>6. ReportSettled'
    BY <2>1, <2>2, <2>4, <2>5 DEF ReportSettled, Over
  <2>7. JoinReportsTarget'
    <3> DEFINE failed == {i \in DOMAIN hs : failure[hs[i]] # Ok}
    <3>1. failure[t] = Ok => failed = {}
      BY <2>1
    <3>2. failure[t] > 0 => 1 \in failed /\ \A j \in failed : 1 <= j
      BY <2>1 DEF Ok
    <3> QED BY <2>1, <2>2, <2>4, <3>1, <3>2 DEF JoinReportsTarget
  <2> QED BY <2>6, <2>7
<1>11. ScopeStack'
  BY <1>1 DEF IndInv, ScopeInv, ScopeStack, root
<1>12. TypeOK'
  <2>1. WaitTypes'
    <3>1. Ok \in -1..MaxTask /\ 0 \in 0..MaxTask
      BY SchedulerAssumption DEF Ok
    <3> QED BY <1>1, <1>3, <3>1 DEF WaitTypes
  <2> QED BY <1>1, <1>6, <1>10, <2>1, TypeFrames, TypePartsNext DEF IndInv
<1> QED BY <1>6, <1>8, <1>9, <1>10, <1>11, <1>12 DEF IndInv, QueueInv, JoinInv, ScopeInv

-----------------------------------------------------------------------------
(* The end of a task.                                                      *)

\* The waiters of a part of join_waits.
LEMMA FirstsKept ==
    ASSUME NEW w \in Seq(Tasks \X Tasks), IsInjective(Firsts(w)), NEW T
    PROVE  /\ Keep(w, T) \in Seq(Tasks \X Tasks)
           /\ Range(Keep(w, T)) = Range(w) \cap T
           /\ Firsts(Keep(w, T)) \in Seq(Tasks)
           /\ IsInjective(Firsts(Keep(w, T)))
           /\ Range(Firsts(Keep(w, T))) = {x[1] : x \in Range(w) \cap T}
<1> DEFINE P == Tasks \X Tasks
           f == [x \in P |-> x[1]]
           k == Keep(w, T)
           m == Image(k, f)
<1>1. \A i, j \in DOMAIN w : w[i][1] = w[j][1] => i = j
  BY DEF IsInjective, Firsts
<1>2. IsInjective(w)
  BY <1>1 DEF IsInjective
<1>3. w \in Seq(P) /\ \A x \in P : f[x] = x[1] /\ f[x] \in Tasks
  OBVIOUS
<1> HIDE DEF P, f
<1>4. Range(w) \subseteq P
  BY <1>3, RangeOfSeq
<1>5. /\ Keep(w, T) \in Seq(P) /\ Range(Keep(w, T)) = Range(w) \cap T
      /\ IsInjective(w) => IsInjective(Keep(w, T))
  BY <1>3, KeepExact
<1> HIDE DEF k
<1>6. k \in Seq(P) /\ Range(k) = Range(w) \cap T /\ IsInjective(k)
  BY <1>2, <1>5 DEF k
<1>7. \A x, y \in Range(k) : f[x] = f[y] => x = y
  <2> SUFFICES ASSUME NEW x \in Range(w), NEW y \in Range(w), x[1] = y[1] PROVE x = y
    BY <1>3, <1>4, <1>6
  <2>1. PICK i \in DOMAIN w, j \in DOMAIN w : x = w[i] /\ y = w[j]
    BY DEF Range
  <2> QED BY <1>1, <2>1
<1>8. \A x \in Range(k) : f[x] \in Tasks
  BY <1>3, <1>4, <1>6
<1>9. /\ m \in Seq(Tasks)
      /\ \A y : y \in Range(m) <=> \E x \in Range(k) : y = f[x]
      /\ IsInjective(k) /\ (\A x, y \in Range(k) : f[x] = f[y] => x = y)
           => IsInjective(m)
  <2>1. k \in Seq(P)
    BY <1>6
  <2> QED BY <1>8, <2>1, ImageOnce
<1>10. Firsts(k) = m
  <2>1. \A i \in DOMAIN k : k[i] \in P
    BY <1>6
  <2> QED BY <1>3, <2>1 DEF Firsts, Image
<1> HIDE DEF m
<1>11. Range(m) = {x[1] : x \in Range(w) \cap T}
  <2>1. \A x \in Range(k) : f[x] = x[1]
    BY <1>3, <1>4, <1>6
  <2>2. \A y : y \in Range(m) <=> \E x \in Range(k) : y = x[1]
    BY <1>9, <2>1
  <2> QED BY <1>6, <2>2
<1> QED BY <1>6, <1>7, <1>9, <1>10, <1>11 DEF k, P

\* The task that ends: its joiners leave join_waits, exactly they do, and the
\* others keep their places.
LEMMA JoinersLeave ==
    ASSUME IndInv, NEW t \in Tasks
    PROVE  LET rest == Keep(joinWaits, {w \in Tasks \X Tasks : w[2] # t})
               J == {u \in Tasks : state[u] = "JoinBlocked" /\ awaiting[u] = t}
           IN  /\ Joiners(t) \in Seq(Tasks) /\ IsInjective(Joiners(t))
               /\ Range(Joiners(t)) = J
               /\ rest \in Seq(Tasks \X Tasks)
               /\ Once(Firsts(rest), InState("JoinBlocked") \ J)
               /\ \A i \in DOMAIN rest : \E j \in DOMAIN joinWaits :
                     rest[i] = joinWaits[j] /\ joinWaits[j][2] # t
<1> DEFINE P == Tasks \X Tasks
           W == {w \in P : /\ w[2] = t
                           /\ state[w[1]] = "JoinBlocked"
                           /\ awaiting[w[1]] = t}
           Z == {w \in P : w[2] # t}
           rest == Keep(joinWaits, Z)
           J == {u \in Tasks : state[u] = "JoinBlocked" /\ awaiting[u] = t}
           R == Range(joinWaits)
<1>1. /\ joinWaits \in Seq(P) /\ IsInjective(Firsts(joinWaits))
      /\ Range(Firsts(joinWaits)) = InState("JoinBlocked")
  BY DEF IndInv, TypeOK, QueueInv, QueuesPlaced, Once
<1>2. R \subseteq P
  BY <1>1, RangeOfSeq
<1>3. \A w \in R : state[w[1]] = "JoinBlocked" /\ awaiting[w[1]] = w[2]
  <2> SUFFICES ASSUME NEW i \in DOMAIN joinWaits
               PROVE  /\ state[joinWaits[i][1]] = "JoinBlocked"
                      /\ awaiting[joinWaits[i][1]] = joinWaits[i][2]
    BY DEF Range
  <2>1. joinWaits[i][1] \in Range(Firsts(joinWaits))
    BY DEF Firsts, Range
  <2> QED BY <1>1, <2>1 DEF InState, IndInv, QueueInv, NoLostJoin
<1>4. \A u \in InState("JoinBlocked") : \E w \in R : w[1] = u
  BY <1>1 DEF Firsts, Range
<1>5. /\ Keep(joinWaits, W) \in Seq(P)
      /\ Firsts(Keep(joinWaits, W)) \in Seq(Tasks)
      /\ IsInjective(Firsts(Keep(joinWaits, W)))
      /\ Range(Firsts(Keep(joinWaits, W))) = {x[1] : x \in R \cap W}
  <2> HIDE DEF W
  <2> QED BY <1>1, FirstsKept
<1>6. /\ Keep(joinWaits, Z) \in Seq(P)
      /\ Range(Keep(joinWaits, Z)) = R \cap Z
      /\ Firsts(Keep(joinWaits, Z)) \in Seq(Tasks)
      /\ IsInjective(Firsts(Keep(joinWaits, Z)))
      /\ Range(Firsts(Keep(joinWaits, Z))) = {x[1] : x \in R \cap Z}
  <2> HIDE DEF Z
  <2> QED BY <1>1, FirstsKept
<1>7. Joiners(t) = Firsts(Keep(joinWaits, W))
  BY DEF Joiners, Firsts
<1>8. {x[1] : x \in R \cap W} = J
  <2>1. ASSUME NEW u \in J PROVE \E x \in R \cap W : u = x[1]
    <3>1. PICK w \in R : w[1] = u
      BY <1>4 DEF InState
    <3>2. w[2] = t /\ w \in P
      BY <1>2, <1>3, <3>1
    <3>3. w \in W
      BY <3>1, <3>2
    <3> QED BY <3>1, <3>3
  <2>2. ASSUME NEW x \in R \cap W PROVE x[1] \in J
    OBVIOUS
  <2> HIDE DEF J, W
  <2> QED BY <2>1, <2>2
<1>9. {x[1] : x \in R \cap Z} = InState("JoinBlocked") \ J
  <2>1. ASSUME NEW u \in InState("JoinBlocked") \ J PROVE \E x \in R \cap Z : u = x[1]
    <3>1. PICK w \in R : w[1] = u
      BY <1>4
    <3>2. w[2] # t /\ w \in P
      BY <1>2, <1>3, <3>1 DEF InState
    <3> QED BY <3>1, <3>2
  <2>2. ASSUME NEW x \in R \cap Z PROVE x[1] \in InState("JoinBlocked") \ J
    <3>1. x[1] \in Tasks /\ x[2] # t /\ x \in R
      OBVIOUS
    <3> QED BY <1>3, <3>1 DEF InState
  <2> HIDE DEF J, Z
  <2> QED BY <2>1, <2>2
<1>10. \A i \in DOMAIN rest : \E j \in DOMAIN joinWaits :
                     rest[i] = joinWaits[j] /\ joinWaits[j][2] # t
  <2> SUFFICES ASSUME NEW i \in DOMAIN rest
               PROVE  \E j \in DOMAIN joinWaits :
                         rest[i] = joinWaits[j] /\ joinWaits[j][2] # t
    OBVIOUS
  <2>1. rest[i] \in Range(rest)
    BY DEF Range
  <2>2. rest[i] \in R /\ rest[i][2] # t
    BY <1>6, <2>1
  <2> QED BY <2>2 DEF Range
<1> HIDE DEF R, J, W, Z
<1> QED BY <1>5, <1>6, <1>7, <1>8, <1>9, <1>10 DEF Once, J, Z

\* The end of a body: the verdict, and WakeJoinWaiters hands it to every
\* joiner of the task and to nobody else.
LEMMA FinishKeeps == IndInv /\ Finish => IndInv'
<1> SUFFICES ASSUME IndInv, Finish PROVE IndInv'
  OBVIOUS
<1> DEFINE t == Current
           J == {u \in Tasks : state[u] = "JoinBlocked" /\ awaiting[u] = t}
<1>1. PICK verdict \in Terminal :
         LET code == IF verdict = "Failed" THEN t ELSE Ok
             woken == Joiners(t)
         IN  /\ state' = [Set(state, Range(woken), "Ready") EXCEPT ![t] = verdict]
             /\ failure' = [failure EXCEPT ![t] = code]
             /\ waitResult' = Set(waitResult, Range(woken), code)
             /\ ready' = ready \o woken
             /\ joinWaits' = Keep(joinWaits, {w \in Tasks \X Tasks : w[2] # t})
  BY DEF Finish
<1> DEFINE code == IF verdict = "Failed" THEN t ELSE Ok
<1>2. /\ batch # <<>> /\ batch' = Tail(batch) /\ (t \in coroutine => awaiting[t] = 0)
      /\ UNCHANGED <<slotOf, freeSlots, coroutine, scopeOf, awaiting, channelWaits, timers,
                     ids, root, used, report>>
  BY DEF Finish, InBody
<1>3. t \in Tasks /\ state[t] = "Running" /\ HasRecord(t) /\ awaiting[t] = 0
  BY <1>2, CurrentRuns DEF IndInv, RecordInv, QueueInv, JoinInv, AwaitKept
<1>4. t = Head(batch)
  BY DEF Current
<1> HIDE DEF t
<1>5. /\ state \in [Tasks -> States] /\ failure \in [Tasks -> 0..MaxTask]
      /\ waitResult \in [Tasks -> -1..MaxTask] /\ awaiting \in [Tasks -> 0..MaxTask]
      /\ ready \in Seq(Tasks) /\ batch \in Seq(Tasks)
      /\ slotOf \in [Tasks -> 0..TaskCapacity]
  BY DEF IndInv, TypeOK
<1>6. /\ Joiners(t) \in Seq(Tasks) /\ IsInjective(Joiners(t)) /\ Range(Joiners(t)) = J
      /\ joinWaits' \in Seq(Tasks \X Tasks)
      /\ Once(Firsts(joinWaits'), InState("JoinBlocked") \ J)
      /\ \A i \in DOMAIN joinWaits' : \E j \in DOMAIN joinWaits :
             joinWaits'[i] = joinWaits[j] /\ joinWaits[j][2] # t
  <2> DEFINE rest == Keep(joinWaits, {w \in Tasks \X Tasks : w[2] # t})
  <2>1. /\ Joiners(t) \in Seq(Tasks) /\ IsInjective(Joiners(t)) /\ Range(Joiners(t)) = J
        /\ rest \in Seq(Tasks \X Tasks)
        /\ Once(Firsts(rest), InState("JoinBlocked") \ J)
        /\ \A i \in DOMAIN rest : \E j \in DOMAIN joinWaits :
               rest[i] = joinWaits[j] /\ joinWaits[j][2] # t
    BY <1>3, JoinersLeave
  <2>2. joinWaits' = rest
    BY <1>1
  <2> HIDE DEF rest, J
  <2> QED BY <2>1, <2>2
<1>7. J \subseteq Tasks /\ t \notin J /\ \A u \in J : state[u] = "JoinBlocked" /\ awaiting[u] = t
  BY <1>3
<1>8. code \in 0..MaxTask /\ (verdict = "Failed" => code = t) /\ (verdict # "Failed" => code = Ok)
  BY <1>3, SchedulerAssumption DEF Ok, Tasks
<1>9. /\ state' = [Set(state, J, "Ready") EXCEPT ![t] = verdict]
      /\ failure' = [failure EXCEPT ![t] = code]
      /\ waitResult' = Set(waitResult, J, code)
      /\ ready' = ready \o Joiners(t)
  BY <1>1, <1>6
<1> HIDE DEF J, code
<1>10. /\ state' \in [Tasks -> States] /\ failure' \in [Tasks -> 0..MaxTask]
       /\ waitResult' \in [Tasks -> -1..MaxTask]
  <2>1. {"Ready", verdict} \subseteq States /\ code \in -1..MaxTask
    BY <1>8 DEF States, Terminal
  <2>2. Set(state, J, "Ready") \in [Tasks -> States]
    BY <1>5, <2>1 DEF Set
  <2> QED BY <1>5, <1>8, <1>9, <2>1, <2>2 DEF Set
<1>11. \A u \in Tasks :
          /\ state'[u] = IF u = t THEN verdict ELSE IF u \in J THEN "Ready" ELSE state[u]
          /\ failure'[u] = IF u = t THEN code ELSE failure[u]
          /\ waitResult'[u] = IF u \in J THEN code ELSE waitResult[u]
  BY <1>5, <1>9 DEF Set
<1>12. verdict \in {"Completed", "Failed"}
  BY DEF Terminal
<1>13. RecordInv'
  <2>1. \A u \in Tasks : /\ state'[u] = "None" <=> state[u] = "None"
                         /\ state'[u] = "Retired" <=> state[u] = "Retired"
    BY <1>3, <1>7, <1>11, <1>12
  <2>2. IdsIssued'
    BY <1>2, <2>1 DEF IndInv, RecordInv, IdsIssued, ids
  <2>3. RecordSpan'
    BY <1>2, <2>1 DEF IndInv, RecordInv, RecordSpan, HasRecord
  <2>4. SlotsPartitioned'
    BY <1>2 DEF IndInv, RecordInv, SlotsPartitioned, Live, HasRecord
  <2> QED BY <2>2, <2>3, <2>4 DEF RecordInv
<1>14. \A u \in Tasks : Over(u) => Over(u)' /\ failure'[u] = failure[u] /\ u # t
  <2>1. \A u \in Tasks : Over(u) => u # t /\ u \notin J
    BY <1>3, <1>7 DEF Over, Terminal
  <2> QED BY <1>11, <2>1 DEF Over
<1>15. QueuesPlaced' /\ ready' \in Seq(Tasks) /\ batch' \in Seq(Tasks)
  <2>1. /\ InState("Ready")' = InState("Ready") \cup J
        /\ InState("Running")' = InState("Running") \ {t}
        /\ InState("JoinBlocked")' = InState("JoinBlocked") \ J
        /\ InState("Sleeping")' = InState("Sleeping")
        /\ InState("ChannelBlocked")' = InState("ChannelBlocked")
        /\ InState("Ready") \cap J = {}
    BY <1>3, <1>7, <1>11, <1>12 DEF InState
  <2>2. /\ Once(ready, InState("Ready")) /\ Once(batch, InState("Running"))
        /\ Once(timers, InState("Sleeping"))
        /\ Once(channelWaits, InState("ChannelBlocked"))
    BY DEF IndInv, QueueInv, QueuesPlaced
  <2>3. /\ ready' \in Seq(Tasks) /\ Range(ready') = Range(ready) \cup J
        /\ IsInjective(ready) /\ Range(ready) \cap J = {} => IsInjective(ready')
    <3> DEFINE k == Joiners(t)
    <3>1. k \in Seq(Tasks) /\ IsInjective(k) /\ Range(k) = J /\ ready' = ready \o k
      BY <1>6, <1>9
    <3> HIDE DEF k
    <3>2. /\ ready \o k \in Seq(Tasks)
          /\ Range(ready \o k) = Range(ready) \cup Range(k)
          /\ IsInjective(ready) /\ IsInjective(k) /\ Range(ready) \cap Range(k) = {}
               => IsInjective(ready \o k)
      BY <1>5, <3>1, ConcatOnce
    <3> QED BY <3>1, <3>2
  <2>4. /\ batch' \in Seq(Tasks) /\ Range(batch) = Range(batch') \cup {t}
        /\ IsInjective(batch) => IsInjective(batch') /\ t \notin Range(batch')
    BY <1>2, <1>4, <1>5, TailOnce
  <2>5. Once(ready, InState("Ready"))' /\ Once(batch, InState("Running"))'
    <3>1. Once(ready, InState("Ready"))'
      BY <2>1, <2>2, <2>3 DEF Once
    <3>2. IsInjective(batch') /\ Range(batch') = InState("Running") \ {t}
      BY <2>2, <2>4 DEF Once
    <3> QED BY <2>1, <3>1, <3>2 DEF Once
  <2>6. Once(Firsts(joinWaits), InState("JoinBlocked"))'
    <3>1. Firsts(joinWaits)' = Firsts(joinWaits')
      BY DEF Firsts
    <3> QED BY <1>6, <2>1, <3>1 DEF Once
  <2>7. /\ Once(timers, InState("Sleeping"))'
        /\ Once(channelWaits, InState("ChannelBlocked"))'
    BY <1>2, <2>1, <2>2 DEF Once
  <2> QED BY <2>3, <2>4, <2>5, <2>6, <2>7 DEF QueuesPlaced
<1>16. CoroutineAlone'
  <2>1. /\ Range(batch) = Range(batch') \cup {t}
    BY <1>2, <1>4, <1>5, TailOnce
  <2>2. Len(batch') > 1 => Len(batch) > 1
    <3>1. Len(batch') = Len(batch) - 1 /\ Len(batch) \in Nat
      BY <1>2, <1>5
    <3> QED BY <3>1
  <2> QED BY <1>2, <2>1, <2>2 DEF IndInv, QueueInv, CoroutineAlone
<1>17. NoLostJoin'
  <2> SUFFICES ASSUME NEW i \in DOMAIN joinWaits'
               PROVE  LET u == joinWaits'[i][2] IN
                      /\ slotOf'[u] # NoSlot /\ state'[u] \notin Terminal
                      /\ awaiting'[joinWaits'[i][1]] = u
    BY DEF NoLostJoin, HasRecord
  <2>1. PICK j \in DOMAIN joinWaits : joinWaits'[i] = joinWaits[j] /\ joinWaits[j][2] # t
    BY <1>6
  <2>2. PICK u \in Tasks : u = joinWaits[j][2]
    <3>1. joinWaits \in Seq(Tasks \X Tasks)
      BY DEF IndInv, TypeOK
    <3>2. joinWaits[j] \in Tasks \X Tasks
      BY <3>1
    <3> QED BY <3>2
  <2>3. slotOf[u] # NoSlot /\ state[u] \notin Terminal /\ awaiting[joinWaits[j][1]] = u
    BY <2>2 DEF IndInv, QueueInv, NoLostJoin, HasRecord
  <2>4. state'[u] \notin Terminal
    BY <1>11, <2>1, <2>2, <2>3 DEF Terminal
  <2> QED BY <1>2, <2>1, <2>2, <2>3, <2>4
<1>18. AwaitKept'
  <2> SUFFICES ASSUME NEW u \in Tasks, awaiting[u] # 0
               PROVE  /\ u \in coroutine
                      /\ \/ state'[u] = "JoinBlocked"
                         \/ /\ state'[u] \in {"Ready", "Running"}
                            /\ Over(awaiting[u])'
                            /\ waitResult'[u] = failure'[awaiting[u]]
    BY <1>2 DEF AwaitKept, Over
  <2>1. PICK v \in Tasks : v = awaiting[u]
    <3>1. awaiting[u] \in 0..MaxTask
      BY <1>5
    <3>2. awaiting[u] \in Tasks
      BY <3>1 DEF Tasks
    <3> QED BY <3>2
  <2>2. Over(awaiting[u])' = Over(v)'
    BY <1>2, <2>1 DEF Over
  <2>3. /\ u \in coroutine
        /\ \/ state[u] = "JoinBlocked"
           \/ /\ state[u] \in {"Ready", "Running"}
              /\ Over(v) /\ waitResult[u] = failure[v]
    BY <2>1 DEF IndInv, JoinInv, AwaitKept
  <2>4. u # t
    BY <1>3
  <2>5. CASE u \in J
    <3>1. v = t /\ state'[u] = "Ready" /\ waitResult'[u] = code /\ failure'[t] = code
      BY <1>3, <1>7, <1>11, <2>1, <2>4, <2>5
    <3>2. Over(v)'
      BY <1>3, <1>11, <3>1 DEF Over
    <3> QED BY <2>1, <2>2, <2>3, <3>1, <3>2
  <2>6. CASE u \notin J
    <3>1. state'[u] = state[u] /\ waitResult'[u] = waitResult[u]
      BY <1>11, <2>4, <2>6
    <3>2. Over(v) => Over(v)' /\ failure'[v] = failure[v]
      BY <1>14
    <3> QED BY <2>1, <2>2, <2>3, <3>1, <3>2
  <2> QED BY <2>5, <2>6
<1>19. FailureKept'
  <2> SUFFICES ASSUME NEW u \in Tasks
               PROVE  /\ state'[u] = "Failed" => failure'[u] = u
                      /\ state'[u] \notin {"Failed", "Retired"} => failure'[u] = Ok
    BY DEF FailureKept
  <2>1. CASE u = t
    BY <1>8, <1>11, <2>1
  <2>2. CASE u # t
    <3>1. failure'[u] = failure[u]
      BY <1>11, <2>2
    <3>2. CASE u \in J
      BY <1>7, <1>11, <2>2, <3>1, <3>2 DEF IndInv, JoinInv, FailureKept
    <3>3. CASE u \notin J
      BY <1>11, <2>2, <3>1, <3>3 DEF IndInv, JoinInv, FailureKept
    <3> QED BY <3>2, <3>3
  <2> QED BY <2>1, <2>2
<1>20. ReportSettled' /\ JoinReportsTarget'
  BY <1>2, <1>14, ReportStands DEF IndInv, JoinInv
<1>21. ScopeInv'
  <2>1. ScopeStack'
    BY <1>2 DEF IndInv, ScopeInv, ScopeStack, root
  <2>2. ScopeConfined'
    <3> SUFFICES ASSUME NEW u \in Tasks, HasRecord(u), scopeOf[u] \in closed
                 PROVE  state'[u] \in Terminal
      BY <1>2 DEF ScopeConfined, Live, HasRecord, root
    <3>1. state[u] \in Terminal
      BY DEF IndInv, ScopeInv, ScopeConfined, Live
    <3> QED BY <3>1, <1>7, <1>11 DEF Terminal
  <2> QED BY <2>1, <2>2 DEF ScopeInv
<1>22. TypeOK'
  <2>1. RecordTypes'
    BY <1>2, <1>10, TypeParts DEF IndInv, RecordTypes
  <2>2. QueueTypes'
    BY <1>2, <1>6, <1>15, TypeParts DEF IndInv, QueueTypes
  <2>3. WaitTypes'
    BY <1>2, <1>5, <1>10 DEF WaitTypes
  <2> QED BY <1>2, <1>20, <2>1, <2>2, <2>3, TypeFrames, TypePartsNext DEF IndInv
<1> QED BY <1>13, <1>15, <1>16, <1>17, <1>18, <1>19, <1>20, <1>21, <1>22
        DEF IndInv, QueueInv, JoinInv

-----------------------------------------------------------------------------
(* The theorems.                                                           *)

\* Every step keeps the inductive invariant.
LEMMA NextKeeps == IndInv /\ [Next]_vars => IndInv'
<1> SUFFICES ASSUME IndInv, [Next]_vars PROVE IndInv'
  OBVIOUS
<1>1. CASE RootCall
  BY <1>1, SpawnsKeep, JoinKeeps, BeginScopeKeeps, EndScopeKeeps DEF RootCall
<1>2. CASE RootLoop
  BY <1>2, RootStepKeeps, DeadlockWakeKeeps, JoinDoneKeeps, ReturnsKeep DEF RootLoop
<1>3. CASE Body
  BY <1>3, SpawnsKeep, AwaitNestedKeeps, JoinAtOnceKeeps, JoinParksKeeps, JoinResumesKeeps,
     YieldKeeps, SleepKeeps, ParkChannelKeeps, WakeChannelKeeps, FinishKeeps DEF Body
<1>4. CASE UNCHANGED vars
  BY <1>4, Stutters
<1> QED BY <1>1, <1>2, <1>3, <1>4 DEF Next

\* The invariant the theorems below follow from holds in every reachable
\* state of the scheduler, for every number of tasks, scopes and slots.
THEOREM Inductive == Spec => []IndInv
BY InitEstablishes, NextKeeps, PTL DEF Spec

\* The scheduler's state keeps its types.
THEOREM TypeCorrect == Spec => []TypeOK
<1>1. IndInv => TypeOK
  BY DEF IndInv
<1> QED BY <1>1, Inductive, PTL

\* Being placed by state, for states in which a record exists.
LEMMA PlacedByState ==
    ASSUME IndInv, NEW q, NEW s, s \notin {"None", "Retired"}, Once(q, InState(s))
    PROVE  Placed(q, s)
<1>1. InState(s) = {t \in Tasks : HasRecord(t) /\ state[t] = s}
  BY DEF InState, IndInv, RecordInv, RecordSpan
<1> QED BY <1>1 DEF Placed, Once

\* Every task is in the queue of its state, exactly once, joiners wait for
\* unfinished tasks only, and every record slot is free or taken by one task:
\* no wake of a join, a timer, a channel or a deadlock loses or doubles a task.
THEOREM TasksPlaced == Spec => []EveryTaskPlaced
<1>1. IndInv => EveryTaskPlaced
  <2> SUFFICES ASSUME IndInv PROVE EveryTaskPlaced
    OBVIOUS
  <2>1. /\ Once(ready, InState("Ready")) /\ Once(batch, InState("Running"))
        /\ Once(Firsts(joinWaits), InState("JoinBlocked"))
        /\ Once(timers, InState("Sleeping"))
        /\ Once(channelWaits, InState("ChannelBlocked"))
    BY DEF IndInv, QueueInv, QueuesPlaced
  <2>2. /\ Placed(ready, "Ready") /\ Placed(batch, "Running")
        /\ Placed(Firsts(joinWaits), "JoinBlocked")
        /\ Placed(timers, "Sleeping") /\ Placed(channelWaits, "ChannelBlocked")
    BY <2>1, PlacedByState
  <2> QED BY <2>2 DEF EveryTaskPlaced, Firsts, IndInv, RecordInv, QueueInv
<1> QED BY <1>1, Inductive, PTL

\* What join reports is the verdict of its targets: Ok only when all have
\* completed, otherwise the first failure in handle order.
THEOREM JoinsReport == Spec => []JoinReportsTarget
<1>1. IndInv => JoinReportsTarget
  BY DEF IndInv, JoinInv
<1> QED BY <1>1, Inductive, PTL

\* After EndScope has found a scope terminal, no unfinished task is ever a
\* member of it.
THEOREM ScopesConfine == Spec => []ScopeConfined
<1>1. IndInv => ScopeConfined
  BY DEF IndInv, ScopeInv
<1> QED BY <1>1, Inductive, PTL

\* The actions other than a spawn issue no id: they move tasks that exist.
LEMMA OthersIssueNone ==
    ASSUME IndInv, [Next]_vars, ~RootSpawn, ~TaskSpawn, ~AwaitNested
    PROVE  NoneIssued
<1>0. state \in [Tasks -> States] /\ channelWaits \in Seq(Tasks) /\ targets \in Seq(Tasks)
  BY DEF IndInv, TypeOK
<1>1. CASE Join \/ BeginScope \/ EndScope \/ Drain \/ JoinDeadlock \/ ScopeDone
           \/ ScopeDeadlock \/ DrainDone \/ UNCHANGED vars
  <2>1. state' = state
    BY <1>1 DEF Join, BeginScope, EndScope, Drain, JoinDeadlock, ScopeDone, ScopeDeadlock,
                DrainDone, vars
  <2> QED BY <2>1 DEF NoneIssued
<1>2. CASE RootStep
  BY <1>2, RootStepKeeps
<1>3. CASE RootWakesDeadlocked
  <2> DEFINE V == Range(Victims(StepScope))
             W == {t \in Tasks : StepScope = AnyScope \/ scopeOf[t] = StepScope}
  <2>1. state' = Set(state, V, "Ready") /\ Victims(StepScope) = Keep(channelWaits, W)
    BY <1>3 DEF RootWakesDeadlocked, WakeDeadlockedTasks, Victims
  <2> HIDE DEF W
  <2>2. Range(Keep(channelWaits, W)) = Range(channelWaits) \cap W
    BY <1>0, KeepExact
  <2>3. \A t \in V : state[t] = "ChannelBlocked"
    BY <2>1, <2>2 DEF IndInv, QueueInv, QueuesPlaced, Once, InState
  <2> QED BY <1>0, <2>1, <2>3 DEF NoneIssued, Set
<1>4. CASE JoinDone
  <2>1. /\ TerminalAt(targets) /\ Retire(targets)
        /\ UNCHANGED <<coroutine, failure, ready, batch, joinWaits, channelWaits, timers,
                       ids, closed>>
    BY <1>4 DEF JoinDone, Reached, waits
  <2>2. \A t \in Tasks : state[t] \notin Terminal => state'[t] = state[t]
    BY <1>0, <2>1, RetireKeeps
  <2> QED BY <2>2 DEF NoneIssued, Terminal
<1>5. CASE JoinAtOnce \/ JoinResumes
  <2>1. PICK t \in Tasks : IF state[t] \in Terminal THEN Retire(<<t>>)
                           ELSE UNCHANGED <<freeSlots, slotOf, scopeOf, state>>
    <3>1. CASE JoinAtOnce
      BY <3>1 DEF JoinAtOnce
    <3>2. CASE JoinResumes
      <4>1. batch # <<>> /\ awaiting[Current] # 0
        BY <3>2 DEF JoinResumes
      <4>2. Current \in Tasks /\ awaiting \in [Tasks -> 0..MaxTask]
        BY <4>1, CurrentRuns DEF IndInv, RecordInv, QueueInv, TypeOK
      <4>3. awaiting[Current] \in 0..MaxTask
        BY <4>2
      <4>4. awaiting[Current] \in Tasks
        BY <4>1, <4>3 DEF Tasks
      <4> QED BY <3>2, <4>4 DEF JoinResumes
    <3> QED BY <1>5, <3>1, <3>2
  <2>2. UNCHANGED <<coroutine, failure, ready, batch, joinWaits, channelWaits, timers,
                    ids, closed>>
    BY <1>5 DEF JoinAtOnce, JoinResumes, waits, root
  <2>3. \A u \in Tasks : state[u] \notin Terminal => state'[u] = state[u]
    BY <2>1, <2>2, RetireOne
  <2> QED BY <2>3 DEF NoneIssued, Terminal
<1>6. CASE JoinParks \/ Yield \/ Sleep \/ ParkChannel
  <2>1. /\ batch # <<>>
        /\ \E x : state' = [state EXCEPT ![Current] = x]
    BY <1>6 DEF JoinParks, Yield, Sleep, ParkChannel, MayAwait, MayCall, InBody
  <2>2. Current \in Tasks /\ state[Current] = "Running"
    BY <2>1, CurrentRuns DEF IndInv, RecordInv, QueueInv
  <2> QED BY <1>0, <2>1, <2>2 DEF NoneIssued
<1>7. CASE WakeChannel
  <2>1. PICK i \in DOMAIN channelWaits :
           state' = [state EXCEPT ![channelWaits[i]] = "Ready"]
    BY <1>7 DEF WakeChannel
  <2>2. channelWaits[i] \in Range(channelWaits)
    BY DEF Range
  <2>3. state[channelWaits[i]] = "ChannelBlocked"
    BY <2>2 DEF IndInv, QueueInv, QueuesPlaced, Once, InState
  <2> QED BY <1>0, <2>1, <2>3 DEF NoneIssued
<1>8. CASE Finish
  <2>1. PICK verdict \in Terminal :
           state' = [Set(state, Range(Joiners(Current)), "Ready") EXCEPT ![Current] = verdict]
    BY <1>8 DEF Finish
  <2>2. Current \in Tasks /\ state[Current] = "Running"
    BY <1>8, CurrentRuns DEF Finish, InBody, IndInv, RecordInv, QueueInv
  <2>3. Range(Joiners(Current)) =
          {u \in Tasks : state[u] = "JoinBlocked" /\ awaiting[u] = Current}
    BY <2>2, JoinersLeave
  <2>4. \A u \in Range(Joiners(Current)) : state[u] = "JoinBlocked"
    BY <2>3
  <2> QED BY <1>0, <2>1, <2>2, <2>4 DEF NoneIssued, Set
<1> QED BY <1>1, <1>2, <1>3, <1>4, <1>5, <1>6, <1>7, <1>8
        DEF Next, RootCall, RootLoop, Body

\* A spawn takes one id, above all that were issued.
LEMMA SpawnsAscend ==
    ASSUME IndInv, RootSpawn \/ TaskSpawn \/ AwaitNested
    PROVE  \A t \in Tasks : state[t] = "None" /\ state'[t] # "None" =>
              \A u \in Tasks : state[u] # "None" => u < t
<1>1. \E parent \in 0..MaxTask : \E s \in Scopes : \E t \in Tasks : \E c \in BOOLEAN :
         /\ MakeRecord(parent, s, c, t)
         /\ \A u \in Tasks : state[u] = "None" /\ state'[u] # "None" => u = t
  <2>0. state \in [Tasks -> States] /\ scopeOf \in [Tasks -> Scopes]
    BY DEF IndInv, TypeOK
  <2>1. CASE RootSpawn
    <3>1. CurrentScope \in Scopes
      BY CurrentScopeOpen DEF IndInv, ScopeInv
    <3>2. 0 \in 0..MaxTask
      BY SchedulerAssumption
    <3>3. PICK t \in Tasks, c \in BOOLEAN : /\ MakeRecord(0, CurrentScope, c, t)
                                           /\ state' = [state EXCEPT ![t] = "Ready"]
      BY <2>1 DEF RootSpawn, Spawn
    <3>4. \A u \in Tasks : state[u] = "None" /\ state'[u] # "None" => u = t
      BY <2>0, <3>3
    <3> QED BY <3>1, <3>2, <3>3, <3>4
  <2>2. ASSUME batch # <<>>
        PROVE  /\ Current \in Tasks /\ Current \in 0..MaxTask
               /\ state[Current] = "Running" /\ scopeOf[Current] \in Scopes
    BY <2>0, <2>2, CurrentRuns DEF IndInv, RecordInv, QueueInv, Tasks
  <2>3. CASE TaskSpawn
    <3>1. batch # <<>>
      BY <2>3 DEF TaskSpawn, MayCall, InBody
    <3>2. PICK t \in Tasks, c \in BOOLEAN :
             /\ MakeRecord(Current, scopeOf[Current], c, t)
             /\ state' = [state EXCEPT ![t] = "Ready"]
      BY <2>3 DEF TaskSpawn, Spawn
    <3>3. \A u \in Tasks : state[u] = "None" /\ state'[u] # "None" => u = t
      BY <2>0, <3>2
    <3> QED BY <2>2, <3>1, <3>2, <3>3
  <2>4. CASE AwaitNested
    <3>1. batch # <<>>
      BY <2>4 DEF AwaitNested, MayAwait, MayCall, InBody
    <3>2. PICK t \in Tasks :
             /\ MakeRecord(Current, scopeOf[Current], TRUE, t)
             /\ state' = [state EXCEPT ![t] = "Ready", ![Current] = "JoinBlocked"]
      BY <2>4 DEF AwaitNested
    <3>3. \A u \in Tasks : state[u] = "None" /\ state'[u] # "None" => u = t
      BY <2>0, <2>2, <3>1, <3>2
    <3> QED BY <2>2, <3>1, <3>2, <3>3
  <2> QED BY <2>1, <2>3, <2>4
<1>2. PICK parent \in 0..MaxTask, s \in Scopes, t \in Tasks, c \in BOOLEAN :
         /\ MakeRecord(parent, s, c, t)
         /\ \A u \in Tasks : state[u] = "None" /\ state'[u] # "None" => u = t
  BY <1>1
<1>3. \A u \in Tasks : state[u] # "None" => u < t
  BY <1>2, IdIsFresh DEF MakeRecord
<1> QED BY <1>2, <1>3

\* Task ids ascend in spawn order, whoever spawns, across the root's reserved
\* ranges.
THEOREM IdsOrdered == Spec => IdsAscend
<1>1. IndInv /\ [Next]_vars =>
        [\A t \in Tasks : state[t] = "None" /\ state'[t] # "None" =>
           \A u \in Tasks : state[u] # "None" => u < t]_vars
  BY OthersIssueNone, SpawnsAscend DEF NoneIssued
<1> QED BY <1>1, Inductive, PTL DEF IdsAscend, Spec
=============================================================================
