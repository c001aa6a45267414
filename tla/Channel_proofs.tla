--------------------------- MODULE Channel_proofs ---------------------------
(***************************************************************************)
(* The channel's invariants, proved for every number of tasks, record       *)
(* slots, buffer size and wait capacity: the order of the values, the       *)
(* waiter queues, the count of wakes in flight and the release of the       *)
(* scheduler record.  The invariant has three layers: the task records, what *)
(* the control block keeps up even after a wait was resumed by the deadlock *)
(* wake, and what it keeps up until then.                                   *)
(***************************************************************************)
EXTENDS Channel, SequenceLemmas, FiniteSetTheorems, TLAPS

-----------------------------------------------------------------------------
(* The task records.                                                       *)

States == {"None", "Ready", "Running", "ChannelBlocked", "Completed",
           "Retired"}

TaskType ==
    /\ slotOf \in [Tasks -> Slots \cup {NoSlot}] /\ freeSlots \in Seq(Slots)
    /\ state \in [Tasks -> States]
    /\ waitId \in [Tasks -> Nat] /\ nextWait \in Nat
    /\ waitResult \in [Tasks -> {"Ok", "TaskDeadlock"}]
    /\ onChannel \in [Tasks -> BOOLEAN]
    /\ op \in [Tasks -> {"none", "send", "recv"}]
    /\ ready \in Seq(Tasks) /\ cur \in {0} \cup Tasks
    /\ nextTask \in Nat \ {0}

\* A record slot belongs to one live task, or it is on the free list, or it
\* was never used; those used are the first ones.
LiveSlots == {slotOf[t] : t \in Live}

SlotsDealt ==
    /\ \A t, u \in Live : slotOf[t] = slotOf[u] => t = u
    /\ IsInjective(freeSlots) /\ LiveSlots \cap Range(freeSlots) = {}
    /\ \E n \in 0..TaskCapacity : LiveSlots \cup Range(freeSlots) = 1..n

\* What the state of a record says about its slot, its await and its turn.
TaskLife ==
    \A t \in Tasks :
        /\ state[t] = "None" <=> t >= nextTask
        /\ slotOf[t] = NoSlot <=> state[t] \in {"None", "Retired"}
        /\ op[t] # "none" => state[t] \in {"Ready", "Running", "ChannelBlocked"}
        /\ state[t] = "ChannelBlocked" => op[t] # "none" /\ onChannel[t]
        /\ state[t] = "Running" <=> cur = t

Runnable == {t \in Tasks : state[t] = "Ready"}

ReadyOnce == IsInjective(ready) /\ Range(ready) = Runnable

Parked == {t \in Tasks : state[t] = "ChannelBlocked"}

WaitsCounted == liveWaits = Cardinality(Parked) /\ liveWaits <= waitCapacity

TaskInv == TaskType /\ SlotsDealt /\ TaskLife /\ ReadyOnce /\ WaitsCounted

-----------------------------------------------------------------------------
(* The control block, in every state.                                      *)

\* From the head of q the links lead through the tasks of w, which have
\* records and are marked, to z, which is nobody or a task without a record.
Chain(q, w, z) ==
    /\ w \in Seq(Tasks) /\ IsInjective(w)
    /\ z \in 0..(nextTask - 1) /\ TaskSlot(z) = NoSlot
    /\ \A i \in 1..Len(w) : slotOf[w[i]] \in q.on
    /\ q.head = IF w = <<>> THEN z ELSE w[1]
    /\ \A i \in 1..Len(w) :
          q.next[slotOf[w[i]]] = IF i = Len(w) THEN z ELSE w[i + 1]

Linked(q) == \E w \in Seq(Tasks), z \in 0..MaxTask : Chain(q, w, z)

Tallied(q) == q.count = Cardinality(q.on)

\* A waiter queue, whatever became of the tasks that entered it.
Sound(q) == q \in Queues /\ Linked(q) /\ Tallied(q)

Outcomes == {"none", "Ok", "ChannelClosed", "ChannelWaitCapacityExceeded",
             "TaskContextMissing"}

ChannelType ==
    /\ capacity \in Nat /\ waitCapacity \in Nat
    /\ <<capacity, waitCapacity>> \in Limits
    /\ nextValue \in Nat \ {0}
    /\ buffer \in Seq(1..(nextValue - 1)) /\ Len(buffer) <= capacity
    /\ sendValue \in [Slots -> Nat] /\ rendezvous \in [Slots -> Nat]
    /\ completed \in [Slots -> BOOLEAN] /\ counted \in [Slots -> Nat]
    /\ outcome \in [Tasks -> Outcomes]
    /\ closed \in BOOLEAN /\ released \in BOOLEAN /\ stale \in BOOLEAN

\* A marked sender has left a value.
ValuesLeft == \A s \in sendq.on : sendValue[s] \in 1..(nextValue - 1)

\* One pair for each wake given and not yet resumed.
Wakeups == {p \in Slots \X Nat : p[2] < counted[p[1]]}

WakesCounted == IsFiniteSet(Wakeups) /\ inFlight = Cardinality(Wakeups)

\* A receiver parks only if there is nothing to receive, and then nothing
\* comes before it is served.
ReceiversFirst == recvq.count # 0 => buffer = <<>> /\ sendq.count = 0

ReleasedClosed == released => closed /\ buffer = <<>>

BlockInv ==
    /\ ChannelType /\ Sound(sendq) /\ Sound(recvq)
    /\ ValuesLeft /\ WakesCounted /\ ReceiversFirst /\ ReleasedClosed

-----------------------------------------------------------------------------
(* The control block, until a wait is resumed by the deadlock wake alone.  *)

\* The queue q is the list w.
Line(q, w) ==
    /\ Chain(q, w, 0)
    /\ q.tail = IF w = <<>> THEN 0 ELSE w[Len(w)]
    /\ \A s \in q.on : \E i \in 1..Len(w) : s = slotOf[w[i]]
    /\ q.count = Len(w)

\* A task that waits in a queue for its counterpart.
Waits(t, kind) ==
    /\ op[t] = kind
    /\ \/ state[t] = "ChannelBlocked"
       \/ state[t] \in {"Ready", "Running"} /\ onChannel[t]
          /\ waitResult[t] = "TaskDeadlock"

\* A task that was taken from its queue and not yet resumed.
Served(t, kind) ==
    op[t] = kind /\ state[t] # "ChannelBlocked" /\ waitResult[t] = "Ok"

\* Where the tasks stand, and what their slots hold.
Standing(ws, wr) ==
    /\ \A t \in Range(ws) : Waits(t, "send")
    /\ \A t \in Range(wr) : Waits(t, "recv")
    /\ \A t \in Tasks : op[t] = "send" /\ t \notin Range(ws) =>
          /\ Served(t, "send")
          /\ completed[slotOf[t]] \/ (closed /\ counted[slotOf[t]] # 0)
    /\ \A t \in Tasks : op[t] = "recv" /\ t \notin Range(wr) =>
          /\ Served(t, "recv")
          /\ rendezvous[slotOf[t]] # NoValue
             \/ (closed /\ counted[slotOf[t]] # 0)
    /\ closed => ws = <<>> /\ wr = <<>>

\* What a slot holds is for a task that was served.
SlotsHold(ws, wr) ==
    /\ \A s \in Slots : completed[s] =>
          \E t \in Tasks : slotOf[t] = s /\ op[t] = "send" /\ t \notin Range(ws)
    /\ \A s \in Slots : rendezvous[s] # NoValue =>
          \E t \in Tasks : slotOf[t] = s /\ op[t] = "recv" /\ t \notin Range(wr)
    /\ \A s \in Slots : counted[s] # 0 =>
          /\ counted[s] = 1
          /\ \E t \in Tasks : /\ slotOf[t] = s /\ op[t] # "none"
                              /\ t \notin Range(ws) /\ t \notin Range(wr)

\* The values the parked senders left, in their order.
Values(ws) == [n \in 1..Len(ws) |-> sendValue[slotOf[ws[n]]]]

LeftSlots == {s \in Slots : rendezvous[s] # NoValue}
LeftValues == {rendezvous[s] : s \in LeftSlots}

\* Where the values are.
Flow(ws) ==
    /\ matched \in Seq(1..(nextValue - 1))
    /\ admitted = matched \o buffer \o Values(ws)
    /\ IsInjective(admitted)
    /\ ws # <<>> => Len(buffer) = capacity
    /\ received \subseteq Nat
    /\ Range(matched) = received \cup LeftValues
    /\ received \cap LeftValues = {}
    /\ \A s, u \in LeftSlots : rendezvous[s] = rendezvous[u] => s = u

Exact ==
    \E ws \in Seq(Tasks), wr \in Seq(Tasks) :
        /\ Line(sendq, ws) /\ Line(recvq, wr)
        /\ Standing(ws, wr) /\ SlotsHold(ws, wr) /\ Flow(ws)

Told == \A t \in Tasks : outcome[t] # "TaskContextMissing"

Unawaited == \A t \in Tasks : op[t] = "none"

ChannelInv ==
    /\ TaskInv /\ BlockInv
    /\ ~stale => Exact /\ Told /\ (released => Unawaited)

-----------------------------------------------------------------------------
(* Sets and sequences.                                                     *)

\* The two names for the elements of a sequence.
LEMMA ToSetIsRange == \A s : ToSet(s) = Range(s)
BY DEF ToSet, Range

\* The tasks and the record slots are finitely many.
LEMMA Finite ==
    /\ IsFiniteSet(Tasks) /\ IsFiniteSet(Slots)
    /\ \A S \in SUBSET Tasks : IsFiniteSet(S) /\ Cardinality(S) \in Nat
    /\ \A S \in SUBSET Slots : IsFiniteSet(S) /\ Cardinality(S) \in 0..TaskCapacity
<1>1. PICK a \in Int, b \in Int, c \in Int :
          a = 1 /\ b = MaxTask /\ c = TaskCapacity
  BY ChannelAssumption
<1>2. IsFiniteSet(a..b)
  BY FS_Interval
<1>3. IsFiniteSet(a..c) /\ Cardinality(a..c) = IF a > c THEN 0 ELSE c - a + 1
  BY FS_Interval
<1>4. IsFiniteSet(Tasks)
  BY <1>1, <1>2 DEF Tasks
<1>5. IsFiniteSet(Slots) /\ Cardinality(Slots) = TaskCapacity
  BY <1>1, <1>3, ChannelAssumption DEF Slots
<1>6. \A S \in SUBSET Tasks : IsFiniteSet(S) /\ Cardinality(S) \in Nat
  BY <1>4, FS_Subset, FS_CardinalityType
<1>7. ASSUME NEW S \in SUBSET Slots
      PROVE  IsFiniteSet(S) /\ Cardinality(S) \in 0..TaskCapacity
  <2>1. IsFiniteSet(S) /\ Cardinality(S) <= Cardinality(Slots)
    BY <1>5, FS_Subset
  <2>2. Cardinality(S) \in Nat
    BY <2>1, FS_CardinalityType
  <2> QED BY <2>1, <2>2, <1>5, ChannelAssumption
<1> QED BY <1>4, <1>5, <1>6, <1>7

\* A sequence without repeats is as long as its elements are many.
LEMMA OnceLength ==
    ASSUME NEW S, NEW s \in Seq(S), IsInjective(s)
    PROVE  IsFiniteSet(Range(s)) /\ Cardinality(Range(s)) = Len(s)
<1> DEFINE n == Len(s)
<1>1. n \in Nat /\ DOMAIN s = 1..n
  OBVIOUS
<1>2. s \in [1..n -> Range(s)]
  BY <1>1 DEF Range
<1>3. s \in Bijection(1..n, Range(s))
  BY <1>1, <1>2 DEF Bijection, Injection, Surjection, IsInjective, Range
<1>4. ExistsBijection(1..n, Range(s))
  BY <1>3 DEF ExistsBijection
<1> HIDE DEF n
<1>5. Cardinality(Range(s)) = n
  BY <1>1, <1>4, FS_CountingElements
<1>6. IsFiniteSet(Range(s))
  BY <1>1, <1>4, FS_NatBijection
<1> QED BY <1>5, <1>6 DEF n

\* Concatenation, named so that one instance at a time is used.
Regroups(a, b, c) == (a \o b) \o c = a \o (b \o c)

LEMMA Regroup ==
    ASSUME NEW V, NEW a \in Seq(V), NEW b \in Seq(V), NEW c \in Seq(V)
    PROVE  Regroups(a, b, c)
BY ConcatAssociative DEF Regroups

\* The sort by wait_id: every task of the set once.
LEMMA ByWaitOnce ==
    ASSUME waitId \in [Tasks -> Nat], NEW ts \in SUBSET Tasks
    PROVE  /\ ByWait(ts) \in Seq(Tasks) /\ IsInjective(ByWait(ts))
           /\ Range(ByWait(ts)) = ts
<1> DEFINE n == Cardinality(ts)
           rank == [t \in ts |-> Cardinality(UpTo(ts, t))]
<1>0. IsFiniteSet(ts) /\ n \in Nat
  BY Finite
<1>1. ASSUME NEW t \in ts PROVE rank[t] \in 1..n
  <2>1. t \in UpTo(ts, t) /\ UpTo(ts, t) \in SUBSET ts
    BY DEF UpTo, Tasks
  <2>2. IsFiniteSet(UpTo(ts, t)) /\ Cardinality(UpTo(ts, t)) <= n
    BY <2>1, <1>0, FS_Subset
  <2>3. Cardinality(UpTo(ts, t)) \in Nat
    BY <2>2, FS_CardinalityType
  <2>4. Cardinality(UpTo(ts, t)) # 0
    BY <2>1, <2>2, FS_EmptySet
  <2> QED BY <2>2, <2>3, <2>4, <1>0
<1>2. ASSUME NEW t \in ts, NEW u \in ts, t # u PROVE rank[t] # rank[u]
  <2>1. t \in Int /\ u \in Int /\ waitId[t] \in Nat /\ waitId[u] \in Nat
    BY DEF Tasks
  <2>2. \/ UpTo(ts, t) \subseteq UpTo(ts, u) /\ u \notin UpTo(ts, t)
        \/ UpTo(ts, u) \subseteq UpTo(ts, t) /\ t \notin UpTo(ts, u)
    <3>1. \A x \in ts : x \in Int /\ waitId[x] \in Nat
      BY DEF Tasks
    <3>2. CASE waitId[t] < waitId[u] \/ (waitId[t] = waitId[u] /\ t < u)
      <4>1. u \notin UpTo(ts, t)
        BY <2>1, <3>2 DEF UpTo
      <4>2. ASSUME NEW x \in UpTo(ts, t) PROVE x \in UpTo(ts, u)
        BY <2>1, <3>1, <3>2 DEF UpTo
      <4> QED BY <4>1, <4>2
    <3>3. CASE waitId[u] < waitId[t] \/ (waitId[u] = waitId[t] /\ u < t)
      <4>1. t \notin UpTo(ts, u)
        BY <2>1, <3>3 DEF UpTo
      <4>2. ASSUME NEW x \in UpTo(ts, u) PROVE x \in UpTo(ts, t)
        BY <2>1, <3>1, <3>3 DEF UpTo
      <4> QED BY <4>1, <4>2
    <3> QED BY <3>2, <3>3, <2>1, <1>2
  <2>3. t \in UpTo(ts, t) /\ u \in UpTo(ts, u)
    BY <2>1 DEF UpTo
  <2>4. UpTo(ts, t) \in SUBSET ts /\ UpTo(ts, u) \in SUBSET ts
    BY DEF UpTo
  <2>5. IsFiniteSet(UpTo(ts, t)) /\ IsFiniteSet(UpTo(ts, u))
    BY <2>4, <1>0, FS_Subset
  <2>6. CASE UpTo(ts, t) \subseteq UpTo(ts, u) /\ u \notin UpTo(ts, t)
    <3>1. Cardinality(UpTo(ts, u)) = Cardinality(UpTo(ts, t))
            => UpTo(ts, u) = UpTo(ts, t)
      BY <2>5, <2>6, FS_Subset
    <3> QED BY <3>1, <2>3, <2>6
  <2>7. CASE UpTo(ts, u) \subseteq UpTo(ts, t) /\ t \notin UpTo(ts, u)
    <3>1. Cardinality(UpTo(ts, t)) = Cardinality(UpTo(ts, u))
            => UpTo(ts, t) = UpTo(ts, u)
      BY <2>5, <2>7, FS_Subset
    <3> QED BY <3>1, <2>3, <2>7
  <2> QED BY <2>2, <2>6, <2>7
<1>3. IsFiniteSet(1..n) /\ Cardinality(1..n) = n
  <2>1. PICK a \in Int : a = 1
    OBVIOUS
  <2>2. IsFiniteSet(a..n) /\ Cardinality(a..n) = IF a > n THEN 0 ELSE n - a + 1
    BY <1>0, FS_Interval
  <2> QED BY <2>1, <2>2, <1>0
<1>4. rank \in Injection(ts, 1..n)
  <2>1. rank \in [ts -> 1..n]
    BY <1>1
  <2> QED BY <2>1, <1>2 DEF Injection, IsInjective
<1> HIDE DEF rank
<1>5. rank \in Surjection(ts, 1..n)
  BY <1>3, <1>4, FS_Injection
<1>6. \A i \in 1..n : \E t \in ts : rank[t] = i
  BY <1>5 DEF Surjection
<1>7. \A i \in 1..n : ByWait(ts)[i] \in ts /\ rank[ByWait(ts)[i]] = i
  <2>1. ASSUME NEW i \in 1..n
        PROVE  \E t \in ts : Cardinality(UpTo(ts, t)) = i
    BY <1>6 DEF rank
  <2> QED BY <2>1 DEF ByWait, rank
<1>8. ByWait(ts) \in [1..n -> Tasks]
  BY <1>7 DEF ByWait
<1>9. ByWait(ts) \in Seq(Tasks) /\ DOMAIN ByWait(ts) = 1..n
  BY <1>8, <1>0
<1>10. IsInjective(ByWait(ts))
  <2> SUFFICES ASSUME NEW i \in 1..n, NEW j \in 1..n,
                      ByWait(ts)[i] = ByWait(ts)[j]
               PROVE  i = j
    BY <1>9 DEF IsInjective
  <2> QED BY <1>7
<1>11. ASSUME NEW t \in ts PROVE t \in Range(ByWait(ts))
  <2>1. rank[t] \in 1..n
    BY <1>1 DEF rank
  <2>2. rank[ByWait(ts)[rank[t]]] = rank[t] /\ ByWait(ts)[rank[t]] \in ts
    BY <2>1, <1>7
  <2>3. ByWait(ts)[rank[t]] = t
    BY <2>2, <1>2 DEF rank
  <2> QED BY <2>1, <2>3, <1>9 DEF Range
<1>12. Range(ByWait(ts)) \subseteq ts
  BY <1>7, <1>9 DEF Range
<1> QED BY <1>9, <1>10, <1>11, <1>12

-----------------------------------------------------------------------------
(* The task records: every step keeps their invariant.                     *)

\* At first there is no task.
LEMMA InitTasks == ASSUME Init PROVE TaskInv
<1>1. TaskType
  BY DEF Init, TaskType, States, Tasks, NoSlot
<1>2. Live = {} /\ LiveSlots = {} /\ Range(freeSlots) = {} /\ Runnable = {}
      /\ Parked = {} /\ Range(ready) = {}
  BY DEF Init, Live, LiveSlots, Range, Runnable, Parked
<1>3. SlotsDealt
  <2>1. 0 \in 0..TaskCapacity /\ 1..0 = {}
    BY ChannelAssumption
  <2>2. IsInjective(freeSlots)
    BY DEF Init, IsInjective
  <2>3. LiveSlots \cup Range(freeSlots) = 1..0
    BY <1>2, <2>1
  <2> QED BY <1>2, <2>1, <2>2, <2>3 DEF SlotsDealt
<1>4. TaskLife
  BY DEF Init, TaskLife, Tasks, NoSlot
<1>5. ReadyOnce
  BY <1>2 DEF ReadyOnce, Init, IsInjective
<1>6. WaitsCounted
  <2>1. waitCapacity \in Nat /\ liveWaits = 0
    BY ChannelAssumption DEF Init
  <2> QED BY <2>1, <1>2, FS_EmptySet DEF WaitsCounted
<1> QED BY <1>1, <1>3, <1>4, <1>5, <1>6 DEF TaskInv

\* Steps that leave the records alone.
LEMMA KeepTasks ==
    ASSUME TaskInv, UNCHANGED <<tasks, waitCapacity>>
    PROVE  TaskInv'
<1>1. TaskType'
  BY DEF TaskInv, TaskType, tasks
<1>2. SlotsDealt'
  BY DEF TaskInv, SlotsDealt, LiveSlots, Live, tasks
<1>3. TaskLife'
  BY DEF TaskInv, TaskLife, tasks
<1>4. ReadyOnce'
  BY DEF TaskInv, ReadyOnce, Runnable, tasks
<1>5. WaitsCounted'
  BY DEF TaskInv, WaitsCounted, Parked, tasks
<1> QED BY <1>1, <1>2, <1>3, <1>4, <1>5 DEF TaskInv

\* Slots depend on who has which one.
LEMMA KeepSlots ==
    ASSUME SlotsDealt, UNCHANGED <<slotOf, freeSlots>>
    PROVE  SlotsDealt'
BY DEF SlotsDealt, LiveSlots, Live

\* The number of parked tasks when the tasks of a set are unparked.
LEMMA ParkedLess ==
    ASSUME NEW S \in SUBSET Tasks, NEW T \in SUBSET S
    PROVE  /\ Cardinality(S \ T) = Cardinality(S) - Cardinality(T)
           /\ Cardinality(S) \in Nat /\ Cardinality(T) \in Nat
           /\ Cardinality(T) <= Cardinality(S)
<1>1. IsFiniteSet(S) /\ Cardinality(S) \in Nat /\ Cardinality(T) \in Nat
  BY Finite
<1>2. Cardinality(S \ T) = Cardinality(S) - Cardinality(S \cap T)
  BY <1>1, FS_Difference
<1>3. S \cap T = T
  OBVIOUS
<1>4. Cardinality(T) <= Cardinality(S)
  BY <1>1, FS_Subset
<1> QED BY <1>1, <1>2, <1>3, <1>4

\* A new task gets a slot nobody has.
LEMMA ClaimFree ==
    ASSUME TaskInv, Cardinality(Live) < TaskCapacity,
           freeSlots' = IF freeSlots # <<>> THEN Tail(freeSlots) ELSE <<>>,
           NEW s, s = ClaimSpawnTaskSlot
    PROVE  /\ s \in Slots /\ s \notin LiveSlots
           /\ freeSlots' \in Seq(Slots) /\ IsInjective(freeSlots')
           /\ (LiveSlots \cup {s}) \cap Range(freeSlots') = {}
           /\ \E n \in 0..TaskCapacity :
                 LiveSlots \cup {s} \cup Range(freeSlots') = 1..n
<1>0. TaskType /\ SlotsDealt
  BY DEF TaskInv
<1>1. PICK n \in 0..TaskCapacity : LiveSlots \cup Range(freeSlots) = 1..n
  BY <1>0 DEF SlotsDealt
<1>2. freeSlots \in Seq(Slots) /\ IsInjective(freeSlots)
      /\ LiveSlots \cap Range(freeSlots) = {}
  BY <1>0 DEF SlotsDealt, TaskType
<1>3. CASE freeSlots # <<>>
  <2>1. /\ Head(freeSlots) \in Slots /\ Tail(freeSlots) \in Seq(Slots)
        /\ Head(freeSlots) \in Range(freeSlots)
        /\ Range(freeSlots) = Range(Tail(freeSlots)) \cup {Head(freeSlots)}
        /\ IsInjective(Tail(freeSlots))
        /\ Head(freeSlots) \notin Range(Tail(freeSlots))
    BY <1>2, <1>3, TailOnce
  <2>2. s = Head(freeSlots) /\ freeSlots' = Tail(freeSlots)
    BY <1>3 DEF ClaimSpawnTaskSlot
  <2>3. LiveSlots \cup {s} \cup Range(freeSlots') = 1..n
    BY <2>1, <2>2, <1>1
  <2> QED BY <2>1, <2>2, <2>3, <1>2
<1>4. CASE freeSlots = <<>>
  <2>1. Range(freeSlots) = {}
    BY <1>4 DEF Range
  <2>2. LiveSlots = 1..n
    BY <1>1, <2>1
  <2>3. Cardinality(Live) = n
    <3> DEFINE f == [t \in Live |-> slotOf[t]]
    <3>1. f \in [Live -> LiveSlots] /\ \A s1 \in LiveSlots : \E t \in Live : f[t] = s1
      BY DEF LiveSlots
    <3>2. f \in Bijection(Live, LiveSlots)
      BY <3>1, <1>0 DEF Bijection, Injection, Surjection, IsInjective, SlotsDealt
    <3>3. ExistsBijection(Live, LiveSlots)
      BY <3>2 DEF ExistsBijection
    <3>4. IsFiniteSet(Live)
      BY Finite DEF Live
    <3>5. Cardinality(LiveSlots) = Cardinality(Live)
      BY <3>3, <3>4, FS_Bijection
    <3>6. PICK a \in Int, b \in Int : a = 1 /\ b = n
      OBVIOUS
    <3>7. Cardinality(a..b) = IF a > b THEN 0 ELSE b - a + 1
      BY FS_Interval
    <3>8. Cardinality(1..n) = n
      BY <3>6, <3>7
    <3> QED BY <3>5, <3>8, <2>2
  <2>4. s = n + 1 /\ freeSlots' = <<>>
    BY <1>4, <2>3 DEF ClaimSpawnTaskSlot
  <2>5. n + 1 \in 0..TaskCapacity /\ n + 1 \in Slots /\ n + 1 \notin 1..n
        /\ 1..(n + 1) = 1..n \cup {n + 1}
    BY <2>3, ChannelAssumption DEF Slots
  <2>6. Range(freeSlots') = {} /\ freeSlots' \in Seq(Slots)
        /\ IsInjective(freeSlots')
    <3>1. <<>> \in Seq(Slots) /\ DOMAIN <<>> = {}
      OBVIOUS
    <3> QED BY <2>4, <3>1 DEF Range, IsInjective
  <2>7. LiveSlots \cup {s} \cup Range(freeSlots') = 1..(n + 1)
    BY <2>2, <2>4, <2>5, <2>6
  <2> QED BY <2>2, <2>4, <2>5, <2>6, <2>7
<1> QED BY <1>3, <1>4

\* What is known of the records, by conjunct.
LEMMA TaskFacts ==
    ASSUME TaskInv
    PROVE  /\ TaskType /\ SlotsDealt /\ TaskLife /\ ReadyOnce /\ WaitsCounted
           /\ ready \in Seq(Tasks) /\ Len(ready) \in Nat
BY DEF TaskInv, TaskType

LEMMA SpawnTasks == ASSUME TaskInv, Spawn PROVE TaskInv'
<1> DEFINE n == nextTask
<1>0. TaskType /\ SlotsDealt /\ TaskLife /\ ReadyOnce /\ WaitsCounted
  BY TaskFacts
<1>1. n \in Tasks /\ n \in Nat
  BY <1>0, ChannelAssumption DEF Spawn, TaskType, Tasks
<1>2. PICK s : s = ClaimSpawnTaskSlot
  OBVIOUS
<1>3. /\ s \in Slots /\ s \notin LiveSlots
      /\ freeSlots' \in Seq(Slots) /\ IsInjective(freeSlots')
      /\ (LiveSlots \cup {s}) \cap Range(freeSlots') = {}
      /\ \E k \in 0..TaskCapacity :
            LiveSlots \cup {s} \cup Range(freeSlots') = 1..k
  BY <1>2, ClaimFree DEF Spawn
<1>4. slotOf' = [slotOf EXCEPT ![n] = s] /\ s # NoSlot
  BY <1>2, <1>3 DEF Spawn, Slots, NoSlot
<1>5. n \notin Live /\ state[n] = "None"
  BY <1>0, <1>1 DEF Live, TaskLife
<1>6. Live' = Live \cup {n} /\ \A t \in Live : slotOf'[t] = slotOf[t]
  BY <1>0, <1>1, <1>4, <1>5 DEF Live, TaskType
<1>7. slotOf'[n] = s
  BY <1>0, <1>1, <1>4 DEF TaskType
<1>8. LiveSlots' = LiveSlots \cup {s}
  BY <1>5, <1>6, <1>7 DEF LiveSlots
<1>9. TaskType'
  <2>1. ready' \in Seq(Tasks) /\ nextTask' \in Nat \ {0}
    BY <1>0, <1>1 DEF Spawn, TaskType
  <2>2. slotOf' \in [Tasks -> Slots \cup {NoSlot}] /\ state' \in [Tasks -> States]
    BY <1>0, <1>1, <1>3, <1>4 DEF Spawn, TaskType, States
  <2> QED BY <2>1, <2>2, <1>3, <1>0 DEF Spawn, TaskType
<1>10. SlotsDealt'
  <2>1. \A t, u \in Live' : slotOf'[t] = slotOf'[u] => t = u
    BY <1>0, <1>3, <1>6, <1>7 DEF SlotsDealt, LiveSlots
  <2> QED BY <2>1, <1>3, <1>8 DEF SlotsDealt
<1>11. TaskLife'
  <2> SUFFICES ASSUME NEW t \in Tasks
               PROVE  /\ state'[t] = "None" <=> t >= nextTask'
                      /\ slotOf'[t] = NoSlot <=> state'[t] \in {"None", "Retired"}
                      /\ op'[t] # "none" =>
                           state'[t] \in {"Ready", "Running", "ChannelBlocked"}
                      /\ state'[t] = "ChannelBlocked" =>
                           op'[t] # "none" /\ onChannel'[t]
                      /\ state'[t] = "Running" <=> cur' = t
    BY DEF TaskLife
  <2>1. nextTask' = n + 1 /\ op' = op /\ onChannel' = onChannel /\ cur' = cur
        /\ state' = [state EXCEPT ![n] = "Ready"] /\ t \in Int
    BY DEF Spawn, Tasks
  <2>2. CASE t = n
    BY <2>1, <2>2, <1>0, <1>1, <1>4, <1>5, <1>7 DEF TaskLife, TaskType
  <2>3. CASE t # n
    <3>1. state'[t] = state[t] /\ slotOf'[t] = slotOf[t]
      BY <2>1, <2>3, <1>0, <1>4 DEF TaskType
    <3>2. t >= n + 1 <=> t >= n
      BY <2>1, <2>3, <1>1
    <3> QED BY <2>1, <3>1, <3>2, <1>0 DEF TaskLife
  <2> QED BY <2>2, <2>3
<1>12. ReadyOnce'
  <2>1. n \notin Range(ready)
    BY <1>0, <1>5 DEF ReadyOnce, Runnable
  <2>2. Range(ready') = Range(ready) \cup {n} /\ IsInjective(ready')
    BY <1>0, <1>1, <2>1, AppendOnce DEF Spawn, TaskType, ReadyOnce
  <2>3. Runnable' = Runnable \cup {n}
    BY <1>0, <1>1 DEF Runnable, Spawn, TaskType
  <2> QED BY <1>0, <2>2, <2>3 DEF ReadyOnce
<1>13. WaitsCounted'
  <2>1. Parked' = Parked
    BY <1>0, <1>1, <1>5 DEF Parked, Spawn, TaskType
  <2> QED BY <2>1, <1>0 DEF WaitsCounted, Spawn, owner
<1> QED BY <1>9, <1>10, <1>11, <1>12, <1>13 DEF TaskInv

LEMMA DispatchTasks == ASSUME TaskInv, Dispatch PROVE TaskInv'
<1> DEFINE h == Head(ready)
<1>0. TaskType /\ SlotsDealt /\ TaskLife /\ ReadyOnce /\ WaitsCounted
  BY TaskFacts
<1>1. /\ h \in Tasks /\ Tail(ready) \in Seq(Tasks) /\ h \in Range(ready)
      /\ Range(ready) = Range(Tail(ready)) \cup {h}
      /\ IsInjective(Tail(ready)) /\ h \notin Range(Tail(ready))
  BY <1>0, TailOnce DEF Dispatch, TaskType, ReadyOnce
<1>2. state[h] = "Ready"
  BY <1>0, <1>1 DEF ReadyOnce, Runnable
<1>3. /\ cur = 0 /\ cur' = h /\ ready' = Tail(ready)
      /\ state' = [state EXCEPT ![h] = "Running"]
      /\ UNCHANGED <<slotOf, freeSlots, waitId, waitResult, onChannel, op,
                     nextTask, nextWait, liveWaits, waitCapacity>>
  BY DEF Dispatch, owner
<1> HIDE DEF h
<1>4. TaskType'
  BY <1>0, <1>1, <1>3 DEF TaskType, States
<1>5. SlotsDealt'
  BY <1>0, <1>3, KeepSlots
<1>6. TaskLife'
  <2>1. 0 \notin Tasks
    BY DEF Tasks
  <2> QED BY <1>0, <1>1, <1>2, <1>3, <2>1 DEF TaskLife, TaskType
<1>7. ReadyOnce'
  <2>1. Runnable' = Runnable \ {h}
    BY <1>0, <1>1, <1>3 DEF Runnable, TaskType
  <2> QED BY <1>0, <1>1, <1>3, <2>1 DEF ReadyOnce
<1>8. WaitsCounted'
  <2>1. Parked' = Parked
    BY <1>0, <1>1, <1>2, <1>3 DEF Parked, TaskType
  <2> QED BY <2>1, <1>0, <1>3 DEF WaitsCounted
<1> QED BY <1>4, <1>5, <1>6, <1>7, <1>8 DEF TaskInv

LEMMA YieldTasks == ASSUME TaskInv, NEW t \in Tasks, Yield(t) PROVE TaskInv'
<1>0. TaskType /\ SlotsDealt /\ TaskLife /\ ReadyOnce /\ WaitsCounted
  BY TaskFacts
<1>1. /\ cur = t /\ state[t] = "Running" /\ op[t] = "none" /\ cur' = 0
      /\ ready' = Append(ready, t) /\ state' = [state EXCEPT ![t] = "Ready"]
      /\ UNCHANGED <<slotOf, freeSlots, waitId, waitResult, onChannel, op,
                     nextTask, nextWait, liveWaits, waitCapacity>>
  BY DEF Yield, Free, owner
<1>2. TaskType'
  BY <1>0, <1>1 DEF TaskType, States
<1>3. SlotsDealt'
  BY <1>0, <1>1, KeepSlots
<1>4. TaskLife'
  <2>1. 0 \notin Tasks
    BY DEF Tasks
  <2> QED BY <1>0, <1>1, <2>1 DEF TaskLife, TaskType
<1>5. ReadyOnce'
  <2>1. t \notin Range(ready)
    BY <1>0, <1>1 DEF ReadyOnce, Runnable
  <2>2. Range(ready') = Range(ready) \cup {t} /\ IsInjective(ready')
    BY <1>0, <1>1, <2>1, AppendOnce DEF TaskType, ReadyOnce
  <2>3. Runnable' = Runnable \cup {t}
    BY <1>0, <1>1 DEF Runnable, TaskType
  <2> QED BY <1>0, <2>2, <2>3 DEF ReadyOnce
<1>6. WaitsCounted'
  <2>1. Parked' = Parked
    BY <1>0, <1>1 DEF Parked, TaskType
  <2> QED BY <2>1, <1>0, <1>1 DEF WaitsCounted
<1> QED BY <1>2, <1>3, <1>4, <1>5, <1>6 DEF TaskInv

LEMMA FinishTasks == ASSUME TaskInv, NEW t \in Tasks, Finish(t) PROVE TaskInv'
<1>0. TaskType /\ SlotsDealt /\ TaskLife /\ ReadyOnce /\ WaitsCounted
  BY TaskFacts
<1>1. /\ cur = t /\ state[t] = "Running" /\ op[t] = "none" /\ cur' = 0
      /\ state' = [state EXCEPT ![t] = "Completed"]
      /\ waitId' = [waitId EXCEPT ![t] = 0]
      /\ waitResult' = [waitResult EXCEPT ![t] = "Ok"]
      /\ onChannel' = [onChannel EXCEPT ![t] = FALSE]
      /\ UNCHANGED <<slotOf, freeSlots, op, ready, nextTask, nextWait,
                     liveWaits, waitCapacity>>
  BY DEF Finish, Free, owner
<1>2. TaskType'
  BY <1>0, <1>1 DEF TaskType, States
<1>3. SlotsDealt'
  BY <1>0, <1>1, KeepSlots
<1>4. TaskLife'
  <2>1. 0 \notin Tasks
    BY DEF Tasks
  <2> QED BY <1>0, <1>1, <2>1 DEF TaskLife, TaskType
<1>5. Runnable' = Runnable /\ Parked' = Parked
  BY <1>0, <1>1 DEF Runnable, Parked, TaskType
<1>6. ReadyOnce' /\ WaitsCounted'
  BY <1>0, <1>1, <1>5 DEF ReadyOnce, WaitsCounted
<1> QED BY <1>2, <1>3, <1>4, <1>6 DEF TaskInv

LEMMA RetireTasks == ASSUME TaskInv, NEW t \in Tasks, Retire(t) PROVE TaskInv'
<1>0. TaskType /\ SlotsDealt /\ TaskLife /\ ReadyOnce /\ WaitsCounted
  BY TaskFacts
<1>1. /\ state[t] = "Completed"
      /\ state' = [state EXCEPT ![t] = "Retired"]
      /\ slotOf' = [slotOf EXCEPT ![t] = NoSlot]
      /\ freeSlots' = <<slotOf[t]>> \o freeSlots
      /\ UNCHANGED <<waitId, waitResult, onChannel, op, ready, cur, nextTask,
                     nextWait, liveWaits, waitCapacity>>
  BY DEF Retire, owner
<1>2. PICK s \in Slots : s = slotOf[t]
  BY <1>0, <1>1 DEF TaskLife, TaskType
<1>3. t \in Live /\ s # NoSlot
  BY <1>2 DEF Live, Slots, NoSlot
<1>4. Live' = Live \ {t} /\ \A u \in Live' : slotOf'[u] = slotOf[u]
  BY <1>0, <1>1 DEF Live, TaskType
<1>5. s \in LiveSlots /\ s \notin LiveSlots' /\ LiveSlots = LiveSlots' \cup {s}
  BY <1>0, <1>2, <1>3, <1>4 DEF LiveSlots, SlotsDealt
<1>6. /\ freeSlots' \in Seq(Slots) /\ IsInjective(freeSlots')
      /\ Range(freeSlots') = {s} \cup Range(freeSlots)
  <2>1. <<s>> \in Seq(Slots) /\ Range(<<s>>) = {s} /\ IsInjective(<<s>>)
    BY <1>2 DEF Range, IsInjective
  <2>2. s \notin Range(freeSlots)
    BY <1>0, <1>5 DEF SlotsDealt
  <2>3. freeSlots \in Seq(Slots) /\ IsInjective(freeSlots)
        /\ freeSlots' = <<s>> \o freeSlots
    BY <1>0, <1>1, <1>2 DEF TaskType, SlotsDealt
  <2>4. PICK x \in Seq(Slots) : x = <<s>>
    BY <2>1
  <2>5. /\ x \o freeSlots \in Seq(Slots)
        /\ Range(x \o freeSlots) = Range(x) \cup Range(freeSlots)
        /\ IsInjective(x) /\ IsInjective(freeSlots)
             /\ Range(x) \cap Range(freeSlots) = {} => IsInjective(x \o freeSlots)
    BY <2>3, ConcatOnce
  <2> QED BY <2>1, <2>2, <2>3, <2>4, <2>5
<1>7. TaskType'
  BY <1>0, <1>1, <1>6 DEF TaskType, States
<1>8. SlotsDealt'
  <2>1. \A u, v \in Live' : slotOf'[u] = slotOf'[v] => u = v
    BY <1>0, <1>4 DEF SlotsDealt
  <2>2. LiveSlots' \cup Range(freeSlots') = LiveSlots \cup Range(freeSlots)
        /\ LiveSlots' \cap Range(freeSlots') = {}
    BY <1>0, <1>5, <1>6 DEF SlotsDealt
  <2> QED BY <2>1, <2>2, <1>0, <1>6 DEF SlotsDealt
<1>9. TaskLife'
  BY <1>0, <1>1 DEF TaskLife, TaskType
<1>10. Runnable' = Runnable /\ Parked' = Parked
  BY <1>0, <1>1 DEF Runnable, Parked, TaskType
<1>11. ReadyOnce' /\ WaitsCounted'
  BY <1>0, <1>1, <1>10 DEF ReadyOnce, WaitsCounted
<1> QED BY <1>7, <1>8, <1>9, <1>11 DEF TaskInv

LEMMA DeadlockTasks ==
    ASSUME TaskInv, WakeDeadlockedTasks, waitCapacity \in Nat
    PROVE  TaskInv'
<1>0. TaskType /\ SlotsDealt /\ TaskLife /\ ReadyOnce /\ WaitsCounted
  BY TaskFacts
<1>1. /\ cur = 0 /\ ready = <<>>
      /\ waitResult' = SetOf(waitResult, Parked, "TaskDeadlock")
      /\ state' = SetOf(state, Parked, "Ready")
      /\ liveWaits' = liveWaits - Cardinality(Parked)
      /\ ready' = ByWait(Parked)
      /\ UNCHANGED <<slotOf, freeSlots, waitId, onChannel, op, cur, nextTask,
                     nextWait, waitCapacity>>
  BY DEF WakeDeadlockedTasks, Parked, owner
<1>2. Parked \in SUBSET Tasks
  BY DEF Parked
<1>3. /\ ready' \in Seq(Tasks) /\ IsInjective(ready') /\ Range(ready') = Parked
  BY <1>0, <1>1, <1>2, ByWaitOnce DEF TaskType
<1>4. TaskType'
  BY <1>0, <1>1, <1>3 DEF TaskType, States, SetOf
<1>5. SlotsDealt'
  BY <1>0, <1>1, KeepSlots
<1>6. TaskLife'
  BY <1>0, <1>1 DEF TaskLife, TaskType, SetOf, Parked
<1>7. ReadyOnce'
  <2>1. Runnable = {}
    BY <1>0, <1>1 DEF ReadyOnce, Range
  <2>2. Runnable' = Parked
    BY <1>0, <1>1, <1>2, <2>1 DEF Runnable, SetOf
  <2> QED BY <1>3, <2>2 DEF ReadyOnce
<1>8. WaitsCounted'
  <2>1. Parked' = {}
    BY <1>0, <1>1 DEF Parked, SetOf
  <2>2. Cardinality(Parked) \in Nat /\ liveWaits = Cardinality(Parked)
    BY <1>0, <1>2, Finite DEF WaitsCounted
  <2>3. liveWaits' = 0
    BY <1>1, <2>2
  <2>4. liveWaits' <= waitCapacity'
    BY <1>0, <1>1, <2>2, <2>3 DEF WaitsCounted
  <2> QED BY <2>1, <2>3, <2>4, FS_EmptySet DEF WaitsCounted
<1> QED BY <1>4, <1>5, <1>6, <1>7, <1>8 DEF TaskInv

LEMMA ParkTasks ==
    ASSUME TaskInv, NEW t \in Tasks, NEW kind \in {"send", "recv"}, Free(t),
           liveWaits < waitCapacity, waitCapacity \in Nat, Park(t, kind),
           UNCHANGED waitCapacity
    PROVE  TaskInv'
<1>0. TaskType /\ SlotsDealt /\ TaskLife /\ ReadyOnce /\ WaitsCounted
  BY TaskFacts
<1>1. /\ cur = t /\ state[t] = "Running" /\ op[t] = "none" /\ cur' = 0
      /\ state' = [state EXCEPT ![t] = "ChannelBlocked"]
      /\ waitId' = [waitId EXCEPT ![t] = nextWait] /\ nextWait' = nextWait + 1
      /\ waitResult' = [waitResult EXCEPT ![t] = "Ok"]
      /\ onChannel' = [onChannel EXCEPT ![t] = TRUE]
      /\ op' = [op EXCEPT ![t] = kind]
      /\ liveWaits' = liveWaits + 1
      /\ UNCHANGED <<slotOf, freeSlots, ready, nextTask, waitCapacity>>
  BY DEF Park, Free
<1>2. TaskType'
  BY <1>0, <1>1 DEF TaskType, States
<1>3. SlotsDealt'
  BY <1>0, <1>1, KeepSlots
<1>4. TaskLife'
  <2>1. 0 \notin Tasks
    BY DEF Tasks
  <2> QED BY <1>0, <1>1, <2>1 DEF TaskLife, TaskType
<1>5. ReadyOnce'
  <2>1. Runnable' = Runnable
    BY <1>0, <1>1 DEF Runnable, TaskType
  <2> QED BY <2>1, <1>0, <1>1 DEF ReadyOnce
<1>6. WaitsCounted'
  <2>1. Parked' = Parked \cup {t} /\ t \notin Parked /\ Parked \in SUBSET Tasks
    BY <1>0, <1>1 DEF Parked, TaskType
  <2>2. IsFiniteSet(Parked) /\ Cardinality(Parked) \in Nat
    BY <2>1, Finite
  <2>3. Cardinality(Parked \cup {t}) = Cardinality(Parked) + 1
    BY <2>1, <2>2, FS_AddElement
  <2> QED BY <2>1, <2>2, <2>3, <1>0, <1>1 DEF WaitsCounted
<1> QED BY <1>2, <1>3, <1>4, <1>5, <1>6 DEF TaskInv

\* The tasks WakeChannel makes ready, and those whose result it replaces.
WokenOf(S) == {t \in S : state[t] = "ChannelBlocked"}
PendingOf(S) == {t \in S : /\ state[t] = "Ready" /\ onChannel[t]
                           /\ waitResult[t] = "TaskDeadlock"}

\* WakeChannel with the sets named.
LEMMA WakeEffects ==
    ASSUME NEW ts, WakeChannel(ts)
    PROVE  /\ state' = SetOf(state, WokenOf(Range(ts)), "Ready")
           /\ waitResult' = SetOf(waitResult, WokenOf(Range(ts))
                                              \cup PendingOf(Range(ts)), "Ok")
           /\ ready' = ready \o Keep(ts, WokenOf(Range(ts)))
           /\ liveWaits' = liveWaits - Cardinality(WokenOf(Range(ts)))
BY ToSetIsRange DEF WakeChannel, WokenOf, PendingOf

\* Waking tasks, each named once.
LEMMA WakeTasks ==
    ASSUME TaskInv, NEW ts \in Seq(Tasks), IsInjective(ts), WakeChannel(ts),
           waitCapacity \in Nat,
           UNCHANGED <<slotOf, freeSlots, waitId, onChannel, op, cur, nextTask,
                       nextWait, waitCapacity>>
    PROVE  TaskInv'
<1> DEFINE B == WokenOf(Range(ts))
           k == Keep(ts, B)
<1>0. TaskType /\ SlotsDealt /\ TaskLife /\ ReadyOnce /\ WaitsCounted
  BY TaskFacts
<1>1. /\ state' = SetOf(state, B, "Ready")
      /\ waitResult' = SetOf(waitResult, B \cup PendingOf(Range(ts)), "Ok")
      /\ ready' = ready \o k
      /\ liveWaits' = liveWaits - Cardinality(B)
  BY WakeEffects
<1>2. Range(ts) \subseteq Tasks
  BY DEF Range
<1>3. B \in SUBSET Parked /\ B \in SUBSET Tasks /\ B \subseteq Range(ts)
      /\ Parked \in SUBSET Tasks
  BY <1>2 DEF WokenOf, Parked
<1>4. k \in Seq(Tasks) /\ Range(k) = Range(ts) \cap B /\ IsInjective(k)
  BY KeepExact
<1> HIDE DEF k, B
<1>5. /\ ready' \in Seq(Tasks) /\ Range(ready') = Range(ready) \cup B
      /\ IsInjective(ready')
  <2>1. ready \in Seq(Tasks) /\ IsInjective(ready) /\ Range(ready) = Runnable
    BY <1>0 DEF TaskType, ReadyOnce
  <2>2. Range(k) = B /\ Range(ready) \cap Range(k) = {}
    BY <2>1, <1>3, <1>4 DEF Runnable, Parked
  <2>3. /\ ready \o k \in Seq(Tasks)
        /\ Range(ready \o k) = Range(ready) \cup Range(k)
        /\ IsInjective(ready) /\ IsInjective(k) /\ Range(ready) \cap Range(k) = {}
             => IsInjective(ready \o k)
    BY <2>1, <1>4, ConcatOnce
  <2> QED BY <2>1, <2>2, <2>3, <1>1, <1>4
<1>6. TaskType'
  BY <1>0, <1>1, <1>5 DEF TaskType, States, SetOf
<1>7. SlotsDealt'
  BY <1>0, KeepSlots
<1>8. TaskLife'
  BY <1>0, <1>1, <1>3 DEF TaskLife, TaskType, SetOf, Parked
<1>9. ReadyOnce'
  <2>1. Runnable' = Runnable \cup B
    BY <1>0, <1>1, <1>3 DEF Runnable, SetOf, Parked
  <2> QED BY <1>0, <1>5, <2>1 DEF ReadyOnce
<1>10. WaitsCounted'
  <2>1. Parked' = Parked \ B
    BY <1>0, <1>1, <1>3 DEF Parked, SetOf
  <2>2. /\ Cardinality(Parked \ B) = Cardinality(Parked) - Cardinality(B)
        /\ Cardinality(Parked) \in Nat /\ Cardinality(B) \in Nat
        /\ Cardinality(B) <= Cardinality(Parked)
    BY <1>3, ParkedLess
  <2>3. /\ liveWaits = Cardinality(Parked) /\ liveWaits <= waitCapacity
        /\ waitCapacity' = waitCapacity
    BY <1>0 DEF WaitsCounted
  <2>4. liveWaits' = Cardinality(Parked')
    BY <2>1, <2>2, <2>3, <1>1
  <2>5. liveWaits' <= waitCapacity'
    BY <2>2, <2>3, <1>1
  <2> QED BY <2>4, <2>5 DEF WaitsCounted
<1> QED BY <1>6, <1>7, <1>8, <1>9, <1>10 DEF TaskInv

\* A task leaves its await.
LEMMA ResumeTasks ==
    ASSUME TaskInv, NEW t \in Tasks, cur = t,
           op' = [op EXCEPT ![t] = "none"],
           UNCHANGED <<slotOf, freeSlots, state, waitId, waitResult, onChannel,
                       ready, cur, nextTask, nextWait, liveWaits, waitCapacity>>
    PROVE  TaskInv'
<1>0. TaskType /\ SlotsDealt /\ TaskLife /\ ReadyOnce /\ WaitsCounted
  BY TaskFacts
<1>1. TaskType'
  BY <1>0 DEF TaskType
<1>2. SlotsDealt'
  BY <1>0, KeepSlots
<1>3. TaskLife'
  BY <1>0 DEF TaskLife, TaskType
<1>4. ReadyOnce' /\ WaitsCounted'
  BY <1>0 DEF ReadyOnce, WaitsCounted, Runnable, Parked
<1> QED BY <1>1, <1>2, <1>3, <1>4 DEF TaskInv

-----------------------------------------------------------------------------
(* The waiter queues.                                                      *)

\* What a chain says, link by link.
LEMMA ChainFacts ==
    ASSUME TaskInv, NEW q \in Queues, NEW w, NEW z, Chain(q, w, z)
    PROVE  /\ w \in Seq(Tasks) /\ Len(w) \in 0..TaskCapacity /\ IsInjective(w)
           /\ Len(w) <= Cardinality(q.on)
           /\ DOMAIN w = 1..Len(w) /\ Range(w) = {w[i] : i \in 1..Len(w)}
           /\ \A i \in 1..Len(w) :
                 /\ w[i] \in Tasks /\ w[i] \in Live
                 /\ TaskSlot(w[i]) = slotOf[w[i]]
                 /\ slotOf[w[i]] \in Slots /\ slotOf[w[i]] # NoSlot
           /\ \A i, j \in 1..Len(w) : slotOf[w[i]] = slotOf[w[j]] => i = j
           /\ \A t \in Live : \A i \in 1..Len(w) :
                 slotOf[t] = slotOf[w[i]] => t = w[i]
<1> DEFINE L == Len(w)
<1>0. TaskType /\ SlotsDealt
  BY TaskFacts
<1>1. w \in Seq(Tasks) /\ IsInjective(w) /\ L \in Nat /\ DOMAIN w = 1..L
      /\ Range(w) = {w[i] : i \in 1..L}
  BY DEF Chain, Range
<1>2. q.on \in SUBSET Slots
  BY DEF Queues
<1>3. ASSUME NEW i \in 1..L
      PROVE  /\ w[i] \in Tasks /\ w[i] \in Live
             /\ TaskSlot(w[i]) = slotOf[w[i]]
             /\ slotOf[w[i]] \in Slots /\ slotOf[w[i]] # NoSlot
  <2>0. w[i] \in Tasks
    BY <1>1
  <2>1. w[i] \in Tasks /\ slotOf[w[i]] \in q.on
    BY <2>0 DEF Chain
  <2>2. slotOf[w[i]] \in Slots /\ slotOf[w[i]] # NoSlot
    BY <2>1, <1>2 DEF Slots, NoSlot
  <2> QED BY <2>1, <2>2 DEF TaskSlot, Live
<1>4. ASSUME NEW t \in Live, NEW i \in 1..L, slotOf[t] = slotOf[w[i]]
      PROVE  t = w[i]
  BY <1>0, <1>3, <1>4 DEF SlotsDealt
<1>5. \A i, j \in 1..L : slotOf[w[i]] = slotOf[w[j]] => i = j
  BY <1>1, <1>3, <1>4 DEF IsInjective
<1>6. L <= Cardinality(q.on) /\ L \in 0..TaskCapacity
  <2> DEFINE f == [i \in 1..L |-> slotOf[w[i]]]
  <2>1. f \in [1..L -> q.on]
    BY DEF Chain
  <2>2. f \in Seq(q.on) /\ DOMAIN f = 1..L /\ Len(f) = L
    BY <2>1, <1>1
  <2>3. IsInjective(f)
    BY <2>2, <1>5 DEF IsInjective
  <2> HIDE DEF f
  <2>4. IsFiniteSet(Range(f)) /\ Cardinality(Range(f)) = L
    BY <2>2, <2>3, OnceLength
  <2>5. Range(f) \in SUBSET q.on
    BY <2>2, <2>1 DEF Range
  <2>6. IsFiniteSet(q.on) /\ Cardinality(q.on) \in 0..TaskCapacity
    BY <1>2, Finite
  <2>7. Cardinality(Range(f)) <= Cardinality(q.on)
    BY <2>5, <2>6, FS_Subset
  <2> QED BY <2>4, <2>6, <2>7, <1>1, ChannelAssumption
<1> QED BY <1>1, <1>3, <1>4, <1>5, <1>6

\* The walk meets the tasks of the chain, then its end.
LEMMA WalkMeets ==
    ASSUME TaskInv, NEW q \in Queues, NEW w, NEW z, Chain(q, w, z)
    PROVE  /\ \A i \in 1..Len(w) : Walk(q)[i - 1] = w[i]
           /\ \A n \in 0..(TaskCapacity - 1) :
                 n >= Len(w) => Walk(q)[n] \in {0, z}
<1> DEFINE L == Len(w)
           N == TaskCapacity
           D(K) == [n \in 0..N |->
                      IF n = 0 THEN q.head
                      ELSE IF TaskSlot(K[n - 1]) = NoSlot THEN 0
                      ELSE q.next[TaskSlot(K[n - 1])]]
           f == [n \in 0..N |-> IF n < L THEN w[n + 1]
                                ELSE IF n = L THEN z ELSE 0]
<1>0. N \in Nat /\ L \in 0..N
      /\ (\A i \in 1..L : /\ TaskSlot(w[i]) = slotOf[w[i]]
                          /\ slotOf[w[i]] # NoSlot)
  BY ChainFacts, ChannelAssumption
<1>1. /\ TaskSlot(z) = NoSlot /\ TaskSlot(0) = NoSlot
      /\ q.head = IF L = 0 THEN z ELSE w[1]
      /\ \A i \in 1..L :
            q.next[slotOf[w[i]]] = IF i = L THEN z ELSE w[i + 1]
  BY DEF Chain, TaskSlot, Tasks
<1> HIDE DEF L, N
<1>2. \A n \in 0..N : D(f)[n] = f[n]
  <2> SUFFICES ASSUME NEW n \in 0..N PROVE D(f)[n] = f[n]
    OBVIOUS
  <2>1. CASE n = 0
    BY <2>1, <1>0, <1>1
  <2>2. CASE n # 0 /\ n - 1 < L
    <3>1. n - 1 \in 0..N /\ f[n - 1] = w[n] /\ n \in 1..L
      BY <2>2, <1>0
    <3>2. D(f)[n] = q.next[slotOf[w[n]]]
      BY <3>1, <2>2, <1>0
    <3> QED BY <3>1, <3>2, <1>0, <1>1
  <2>3. CASE n # 0 /\ ~(n - 1 < L)
    <3>1. n - 1 \in 0..N /\ f[n - 1] \in {z, 0} /\ f[n] = 0
      BY <2>3, <1>0
    <3> QED BY <3>1, <2>3, <1>1
  <2> QED BY <2>1, <2>2, <2>3
<1>3. f = D(f)
  BY <1>2
<1>4. Walk(q) = D(Walk(q))
  <2>1. Walk(q) = CHOOSE K : K = D(K)
    BY DEF Walk, N
  <2> HIDE DEF D
  <2> QED BY <1>3, <2>1
<1> DEFINE K == Walk(q)
           P == {n \in Nat : n \in 0..N => K[n] = f[n]}
<1>5. 0 \in P
  <2>1. K[0] = q.head
    BY <1>4, <1>0
  <2>2. f[0] = q.head
    BY <1>0, <1>1
  <2> QED BY <2>1, <2>2
<1>6. ASSUME NEW n \in Nat, n \in P PROVE n + 1 \in P
  <2> SUFFICES ASSUME n + 1 \in 0..N PROVE K[n + 1] = f[n + 1]
    OBVIOUS
  <2>1. n \in 0..N /\ K[n] = f[n] /\ (n + 1) - 1 = n /\ n + 1 # 0
    BY <1>6, <1>0
  <2>2. K[n + 1] = IF TaskSlot(K[n]) = NoSlot THEN 0 ELSE q.next[TaskSlot(K[n])]
    <3> HIDE DEF K
    <3>1. K = D(K)
      BY <1>4 DEF K
    <3> QED BY <3>1, <2>1
  <2>3. D(f)[n + 1] = IF TaskSlot(f[n]) = NoSlot THEN 0
                      ELSE q.next[TaskSlot(f[n])]
    <3> HIDE DEF f
    <3> QED BY <2>1
  <2> HIDE DEF K, f, D
  <2> QED BY <2>1, <2>2, <2>3, <1>2
<1>7. Nat \subseteq P
  <2> HIDE DEF P
  <2> QED BY <1>5, <1>6, NatSetInduction
<1>8. \A n \in 0..N : Walk(q)[n] = f[n]
  <2> HIDE DEF f
  <2> QED BY <1>7, <1>0
<1>9. ASSUME NEW i \in 1..L PROVE Walk(q)[i - 1] = w[i]
  <2>1. i - 1 \in 0..N /\ f[i - 1] = w[i]
    BY <1>0
  <2> QED BY <2>1, <1>8
<1>10. ASSUME NEW n \in 0..(N - 1), n >= L PROVE Walk(q)[n] \in {0, z}
  <2>1. n \in 0..N /\ f[n] \in {0, z}
    BY <1>0, <1>10
  <2> QED BY <2>1, <1>8
<1> QED BY <1>9, <1>10 DEF L, N

\* Those a walk reaches are the tasks of the chain.
LEMMA ReachChain ==
    ASSUME TaskInv, NEW q \in Queues, NEW w, NEW z, Chain(q, w, z)
    PROVE  Reachable(q) = Range(w) /\ Cardinality(Reachable(q)) = Len(w)
<1>1. /\ w \in Seq(Tasks) /\ Len(w) \in 0..TaskCapacity /\ IsInjective(w)
      /\ Range(w) = {w[i] : i \in 1..Len(w)}
      /\ \A i \in 1..Len(w) : /\ w[i] \in Tasks
                              /\ TaskSlot(w[i]) = slotOf[w[i]]
                              /\ slotOf[w[i]] # NoSlot
  BY ChainFacts
<1>2. /\ \A i \in 1..Len(w) : Walk(q)[i - 1] = w[i]
      /\ \A n \in 0..(TaskCapacity - 1) :
            n >= Len(w) => Walk(q)[n] \in {0, z}
  BY WalkMeets
<1>3. ASSUME NEW t \in Reachable(q) PROVE t \in Range(w)
  <2>1. t \in Tasks /\ TaskSlot(t) # NoSlot
    BY DEF Reachable
  <2>2. PICK n \in 0..(TaskCapacity - 1) : Walk(q)[n] = t
    BY DEF Reachable
  <2>3. t # z /\ t # 0
    BY <2>1 DEF Chain, Tasks
  <2>4. n < Len(w)
    BY <1>1, <1>2, <2>2, <2>3, ChannelAssumption
  <2>5. n + 1 \in 1..Len(w) /\ (n + 1) - 1 = n
    BY <1>1, <2>4
  <2>6. t = w[n + 1]
    BY <1>2, <2>2, <2>5
  <2> QED BY <1>1, <2>5, <2>6
<1>4. ASSUME NEW i \in 1..Len(w) PROVE w[i] \in Reachable(q)
  <2>1. i - 1 \in 0..(TaskCapacity - 1) /\ Walk(q)[i - 1] = w[i]
    BY <1>1, <1>2, ChannelAssumption
  <2> QED BY <2>1, <1>1 DEF Reachable
<1>5. Reachable(q) = Range(w)
  BY <1>1, <1>3, <1>4
<1>6. Cardinality(Range(w)) = Len(w)
  BY <1>1, OnceLength
<1> QED BY <1>5, <1>6

\* A marked set grows or shrinks by one.
LEMMA TallyOne ==
    ASSUME NEW q \in Queues, Tallied(q), NEW s \in Slots
    PROVE  /\ s \notin q.on => q.count + 1 = Cardinality(q.on \cup {s})
           /\ s \in q.on => q.count - 1 = Cardinality(q.on \ {s})
           /\ s \in q.on => q.count - 1 \in Nat
           /\ q.count \in Nat
<1>1. q.on \in SUBSET Slots
  BY DEF Queues
<1>2. IsFiniteSet(q.on) /\ Cardinality(q.on) \in 0..TaskCapacity
  BY <1>1, Finite
<1>3. Cardinality(q.on \cup {s}) =
          IF s \in q.on THEN Cardinality(q.on) ELSE Cardinality(q.on) + 1
  BY <1>2, FS_AddElement
<1>4. IsFiniteSet(q.on \ {s}) /\ Cardinality(q.on \ {s}) =
          IF s \in q.on THEN Cardinality(q.on) - 1 ELSE Cardinality(q.on)
  BY <1>2, FS_RemoveElement
<1>5. Cardinality(q.on \ {s}) \in Nat
  BY <1>4, FS_CardinalityType
<1>6. Cardinality(q.on) \in Nat /\ q.count = Cardinality(q.on)
  BY <1>2, ChannelAssumption DEF Tallied
<1> QED BY <1>3, <1>4, <1>5, <1>6

\* A live task has a slot, and the slot names it.
LEMMA LiveSlot ==
    ASSUME TaskInv, NEW t \in Live
    PROVE  /\ t \in Tasks /\ TaskSlot(t) = slotOf[t] /\ slotOf[t] \in Slots
           /\ slotOf[t] # NoSlot
           /\ \A u \in Live : slotOf[u] = slotOf[t] => u = t
<1>1. TaskType /\ SlotsDealt
  BY TaskFacts
<1> QED BY <1>1 DEF Live, TaskType, TaskSlot, SlotsDealt

\* Pushing keeps a queue sound and marks the task's slot.
LEMMA PushSound ==
    ASSUME TaskInv, NEW q, Sound(q), NEW t \in Live, NEW r,
           r = PushWaiter(q, t)
    PROVE  Sound(r) /\ r.on = q.on \cup {slotOf[t]}
<1>0. q \in Queues /\ Tallied(q)
  BY DEF Sound
<1>1. PICK w \in Seq(Tasks), z \in 0..MaxTask : Chain(q, w, z)
  BY DEF Sound, Linked
<1>2. PICK s : s = slotOf[t]
  OBVIOUS
<1>3. /\ t \in Tasks /\ TaskSlot(t) = s /\ s \in Slots /\ s # NoSlot
      /\ \A u \in Live : slotOf[u] = s => u = t
  BY <1>2, LiveSlot
<1>4. CASE s \in q.on
  <2>1. r = q
    BY <1>3, <1>4 DEF PushWaiter
  <2> QED BY <2>1, <1>2, <1>4
<1>5. CASE s \notin q.on
  <2> DEFINE L == Len(w)
  <2>0. /\ w \in Seq(Tasks) /\ L \in 0..TaskCapacity /\ IsInjective(w)
        /\ DOMAIN w = 1..L
        /\ \A i \in 1..L :
              /\ w[i] \in Tasks /\ w[i] \in Live
              /\ slotOf[w[i]] \in Slots /\ slotOf[w[i]] # NoSlot
        /\ \A i, j \in 1..L : slotOf[w[i]] = slotOf[w[j]] => i = j
        /\ \A u \in Live : \A i \in 1..L : slotOf[u] = slotOf[w[i]] => u = w[i]
    BY <1>0, <1>1, ChainFacts
  <2>1. q.head \in {0} \cup Tasks /\ q.tail \in {0} \cup Tasks
        /\ q.next \in [Slots -> {0} \cup Tasks] /\ q.on \in SUBSET Slots
        /\ q.count \in Nat
    BY <1>0 DEF Queues
  <2>2. PICK p : p = TaskSlot(q.tail)
    OBVIOUS
  <2>3. /\ r.head = IF q.tail = 0 THEN t ELSE q.head
        /\ r.tail = t /\ r.on = q.on \cup {s} /\ r.count = q.count + 1
        /\ r.next = IF p = NoSlot THEN [q.next EXCEPT ![s] = 0]
                    ELSE [[q.next EXCEPT ![s] = 0] EXCEPT ![p] = t]
        /\ r = [head |-> r.head, tail |-> r.tail, next |-> r.next, on |-> r.on,
                count |-> r.count]
    BY <1>3, <1>5, <2>2 DEF PushWaiter
  <2>4. r.next \in [Slots -> {0} \cup Tasks]
    BY <1>3, <2>1, <2>3
  <2>5. r \in Queues /\ Tallied(r)
    <3>1. q.count + 1 = Cardinality(q.on \cup {s})
      BY <1>0, <1>3, <1>5, TallyOne
    <3>2. r.head \in {0} \cup Tasks /\ r.tail \in {0} \cup Tasks
          /\ r.on \in SUBSET Slots /\ r.count \in Nat
      BY <1>3, <2>1, <2>3
    <3> QED BY <2>3, <2>4, <3>1, <3>2 DEF Queues, Tallied
  <2>6. /\ z \in 0..(nextTask - 1) /\ TaskSlot(z) = NoSlot
        /\ (\A i \in 1..L : slotOf[w[i]] \in q.on)
        /\ q.head = IF w = <<>> THEN z ELSE w[1]
        /\ (\A i \in 1..L : q.next[slotOf[w[i]]] = IF i = L THEN z ELSE w[i + 1])
    BY <1>1 DEF Chain
  <2>7. 0 \in 0..MaxTask /\ 0 \in 0..(nextTask - 1) /\ TaskSlot(0) = NoSlot
    <3>1. nextTask \in Nat \ {0}
      BY TaskFacts DEF TaskType
    <3> QED BY <3>1, ChannelAssumption DEF TaskSlot, Tasks
  <2>8. \A i \in 1..L : slotOf[w[i]] # s
    BY <1>5, <2>6
  <2>9. CASE q.tail = 0
    <3> DEFINE v == <<t>>
    <3>1. p = NoSlot
      BY <2>2, <2>7, <2>9
    <3>2. r.head = t /\ r.next[s] = 0
      BY <1>3, <2>1, <2>3, <2>9, <3>1
    <3>3. v \in Seq(Tasks) /\ IsInjective(v) /\ Len(v) = 1 /\ v[1] = t
          /\ v # <<>>
      BY <1>3 DEF IsInjective
    <3> HIDE DEF v
    <3>4. \A i \in 1..Len(v) : i = 1 /\ v[i] = t
      BY <3>3
    <3>5. slotOf[t] \in r.on
      BY <1>2, <2>3
    <3>6. Chain(r, v, 0)
      BY <1>2, <2>7, <3>2, <3>3, <3>4, <3>5 DEF Chain
    <3> QED BY <2>3, <2>5, <2>7, <3>3, <3>6, <1>2 DEF Sound, Linked
  <2>10. CASE q.tail # 0 /\ \A i \in 1..L : p # slotOf[w[i]]
    <3>1. r.head = q.head /\ \A i \in 1..L : r.next[slotOf[w[i]]] = q.next[slotOf[w[i]]]
      BY <1>3, <2>0, <2>1, <2>3, <2>8, <2>10
    <3>2. \A i \in 1..L : slotOf[w[i]] \in r.on
      BY <2>3, <2>6
    <3>3. Chain(r, w, z)
      BY <2>0, <2>6, <3>1, <3>2 DEF Chain
    <3> QED BY <2>3, <2>5, <3>3, <1>1, <1>2 DEF Sound, Linked
  <2>11. CASE \E k \in 1..L : p = slotOf[w[k]]
    <3>1. PICK k \in 1..L : p = slotOf[w[k]]
      BY <2>11
    <3> DEFINE v == [i \in 1..(k + 1) |-> IF i <= k THEN w[i] ELSE t]
    <3>2. k \in Nat /\ k >= 1 /\ k <= L /\ L \in Nat
      BY <2>0
    <3>3. /\ v \in Seq(Tasks) /\ Len(v) = k + 1 /\ DOMAIN v = 1..(k + 1)
          /\ v # <<>> /\ v[1] = w[1] /\ v[k + 1] = t
          /\ \A i \in 1..k : v[i] = w[i] /\ i \in 1..L
      <4>1. v \in [1..(k + 1) -> Tasks]
        BY <3>2, <2>0, <1>3
      <4>2. k + 1 \in Nat
        BY <3>2
      <4>3. v \in Seq(Tasks) /\ Len(v) = k + 1 /\ DOMAIN v = 1..(k + 1)
        BY <4>1, <4>2
      <4>4. v # <<>> /\ v[1] = w[1] /\ v[k + 1] = t
            /\ \A i \in 1..k : v[i] = w[i] /\ i \in 1..L
        BY <3>2, <4>3
      <4> QED BY <4>3, <4>4
    <3> HIDE DEF v
    <3>4. \A i \in 1..(k + 1) : i = k + 1 \/ i \in 1..k
      BY <3>2
    <3>5. \A i \in 1..L : w[i] # t
      BY <1>2, <2>8
    <3>6. IsInjective(v)
      BY <2>0, <3>2, <3>3, <3>4, <3>5 DEF IsInjective
    <3>7. p # NoSlot /\ p \in Slots /\ p # s
      BY <3>1, <2>0, <2>8
    <3>8. q.tail # 0
      BY <2>2, <2>7, <3>7
    <3>9. r.head = v[1]
      BY <2>3, <2>6, <3>2, <3>3, <3>8
    <3>10. r.next[p] = t /\ r.next[s] = 0
           /\ \A x \in Slots : x # p /\ x # s => r.next[x] = q.next[x]
      BY <2>1, <2>3, <3>7, <1>3
    <3>11. \A i \in 1..(k + 1) : slotOf[v[i]] \in r.on
      BY <1>2, <2>3, <2>6, <3>3, <3>4
    <3>12. ASSUME NEW i \in 1..(k + 1)
           PROVE  r.next[slotOf[v[i]]] = IF i = k + 1 THEN 0 ELSE v[i + 1]
      <4>1. CASE i = k + 1
        BY <4>1, <3>3, <3>10, <1>2
      <4>2. CASE i = k
        BY <4>2, <3>1, <3>2, <3>3, <3>10
      <4>3. CASE i \in 1..k /\ i # k
        <5>1. i \in 1..L /\ i # L /\ i + 1 \in 1..k
          BY <4>3, <3>2
        <5>2. slotOf[w[i]] # p /\ slotOf[w[i]] # s /\ slotOf[w[i]] \in Slots
          BY <5>1, <4>3, <3>1, <2>0, <2>8
        <5>3. r.next[slotOf[w[i]]] = w[i + 1]
          BY <5>1, <5>2, <3>10, <2>6
        <5>4. v[i] = w[i] /\ v[i + 1] = w[i + 1] /\ i # k + 1
          BY <5>1, <4>3, <3>2, <3>3
        <5> QED BY <5>3, <5>4
      <4> QED BY <3>4, <4>1, <4>2, <4>3
    <3>13. Chain(r, v, 0)
      BY <2>7, <3>3, <3>6, <3>9, <3>11, <3>12 DEF Chain
    <3> QED BY <2>3, <2>5, <2>7, <3>3, <3>13, <1>2 DEF Sound, Linked
  <2> QED BY <2>9, <2>10, <2>11
<1> QED BY <1>4, <1>5

\* Pushing onto a line adds the task at its end.
LEMMA PushLine ==
    ASSUME TaskInv, NEW q \in Queues, NEW w, Line(q, w), NEW t \in Live,
           t \notin Range(w), NEW r, r = PushWaiter(q, t)
    PROVE  Line(r, Append(w, t))
<1> DEFINE L == Len(w)
           v == Append(w, t)
<1>1. PICK s : s = slotOf[t]
  OBVIOUS
<1>2. /\ t \in Tasks /\ TaskSlot(t) = s /\ s \in Slots /\ s # NoSlot
  BY <1>1, LiveSlot
<1>3. Chain(q, w, 0)
  BY DEF Line
<1>4. /\ w \in Seq(Tasks) /\ L \in 0..TaskCapacity /\ IsInjective(w)
      /\ DOMAIN w = 1..L /\ Range(w) = {w[i] : i \in 1..L}
      /\ \A i \in 1..L :
            /\ w[i] \in Tasks /\ w[i] \in Live /\ TaskSlot(w[i]) = slotOf[w[i]]
            /\ slotOf[w[i]] \in Slots /\ slotOf[w[i]] # NoSlot
      /\ \A i, j \in 1..L : slotOf[w[i]] = slotOf[w[j]] => i = j
      /\ \A u \in Live : \A i \in 1..L : slotOf[u] = slotOf[w[i]] => u = w[i]
  BY <1>3, ChainFacts
<1>5. \A i \in 1..L : slotOf[w[i]] # s
  BY <1>1, <1>4
<1>6. s \notin q.on /\ q.count = L /\ q.tail = IF w = <<>> THEN 0 ELSE w[L]
  BY <1>5 DEF Line
<1>7. PICK p : p = TaskSlot(q.tail)
  OBVIOUS
<1>8. /\ r.head = IF q.tail = 0 THEN t ELSE q.head
      /\ r.tail = t /\ r.on = q.on \cup {s} /\ r.count = q.count + 1
      /\ r.next = IF p = NoSlot THEN [q.next EXCEPT ![s] = 0]
                  ELSE [[q.next EXCEPT ![s] = 0] EXCEPT ![p] = t]
  BY <1>2, <1>6, <1>7 DEF PushWaiter
<1>9. q.next \in [Slots -> {0} \cup Tasks]
  BY DEF Queues
<1>10. /\ 0 \in 0..(nextTask - 1) /\ TaskSlot(0) = NoSlot
       /\ (\A i \in 1..L : slotOf[w[i]] \in q.on)
       /\ q.head = IF w = <<>> THEN 0 ELSE w[1]
       /\ (\A i \in 1..L : q.next[slotOf[w[i]]] = IF i = L THEN 0 ELSE w[i + 1])
  BY <1>3 DEF Chain
<1>11. /\ v \in Seq(Tasks) /\ Len(v) = L + 1 /\ v[L + 1] = t /\ v # <<>>
       /\ \A i \in 1..L : v[i] = w[i]
  BY <1>2, <1>4
<1>12. IsInjective(v)
  BY <1>2, <1>4, AppendOnce
<1> HIDE DEF v
<1>13. \A i \in 1..(L + 1) : i = L + 1 \/ i \in 1..L
  BY <1>4
<1>14. \A i \in 1..(L + 1) : slotOf[v[i]] \in r.on
  BY <1>1, <1>8, <1>10, <1>11, <1>13
<1>15. \A x \in r.on : \E i \in 1..(L + 1) : x = slotOf[v[i]]
  <2>1. \A x \in q.on : \E i \in 1..L : x = slotOf[w[i]]
    BY DEF Line
  <2>2. L + 1 \in 1..(L + 1) /\ \A i \in 1..L : i \in 1..(L + 1)
    BY <1>4
  <2> QED BY <2>1, <2>2, <1>1, <1>8, <1>11
<1>16. /\ r.head = v[1]
       /\ \A i \in 1..(L + 1) :
             r.next[slotOf[v[i]]] = IF i = L + 1 THEN 0 ELSE v[i + 1]
  <2>1. CASE w = <<>>
    <3>1. L = 0 /\ q.tail = 0 /\ p = NoSlot
      BY <2>1, <1>6, <1>7, <1>10
    <3>2. r.head = t /\ r.next[s] = 0 /\ v[1] = t
      BY <3>1, <1>2, <1>8, <1>9, <1>11
    <3> QED BY <3>1, <3>2, <1>1, <1>11
  <2>2. CASE w # <<>>
    <3>1. L \in 1..L /\ q.tail = w[L] /\ p = slotOf[w[L]] /\ 1 \in 1..L
      BY <2>2, <1>4, <1>6, <1>7
    <3>2. p \in Slots /\ p # NoSlot /\ p # s /\ q.tail # 0
      <4>1. p \in Slots /\ p # NoSlot /\ w[L] \in Tasks
        BY <3>1, <1>4
      <4>2. p # s
        BY <3>1, <1>5
      <4> QED BY <4>1, <4>2, <3>1 DEF Tasks
    <3>3. r.next[p] = t /\ r.next[s] = 0
          /\ \A x \in Slots : x # p /\ x # s => r.next[x] = q.next[x]
      BY <1>2, <1>8, <1>9, <3>2
    <3>4. r.head = v[1]
      BY <2>2, <3>1, <3>2, <1>8, <1>10, <1>11
    <3>5. ASSUME NEW i \in 1..(L + 1)
          PROVE  r.next[slotOf[v[i]]] = IF i = L + 1 THEN 0 ELSE v[i + 1]
      <4>1. CASE i = L + 1
        BY <4>1, <3>3, <1>1, <1>11
      <4>2. CASE i = L
        BY <4>2, <3>1, <3>3, <1>4, <1>11
      <4>3. CASE i \in 1..L /\ i # L
        <5>0. L \in Nat
          BY <1>4
        <5>1. i + 1 \in 1..L /\ i # L + 1
          BY <4>3, <5>0
        <5>2. slotOf[w[i]] # p /\ slotOf[w[i]] # s /\ slotOf[w[i]] \in Slots
          BY <4>3, <3>1, <1>4, <1>5
        <5>3. r.next[slotOf[w[i]]] = w[i + 1]
          BY <4>3, <5>2, <3>3, <1>10
        <5> QED BY <5>1, <5>3, <4>3, <1>11
      <4> QED BY <1>13, <4>1, <4>2, <4>3
    <3> QED BY <3>4, <3>5
  <2> QED BY <2>1, <2>2
<1>17. Chain(r, v, 0)
  BY <1>10, <1>11, <1>12, <1>14, <1>16 DEF Chain
<1>18. r.tail = v[Len(v)] /\ r.count = Len(v)
  BY <1>6, <1>8, <1>11
<1>19. Line(r, v)
  BY <1>11, <1>15, <1>17, <1>18 DEF Line
<1> QED BY <1>19 DEF v

\* What popping does to a chain and its marks.
LEMMA PopChain ==
    ASSUME TaskInv, NEW q \in Queues, NEW w, NEW z, Chain(q, w, z), CanPop(q),
           NEW r, r = PopWaiter(q)
    PROVE  /\ w # <<>> /\ q.head = w[1] /\ q.head \in Live
           /\ slotOf[q.head] \in q.on
           /\ Chain(r, Tail(w), z) /\ r.on = q.on \ {slotOf[q.head]}
           /\ r.count = q.count - 1
           /\ r.tail = IF r.head = 0 THEN 0 ELSE q.tail
           /\ r.head \in {0} \cup Tasks /\ r.next \in [Slots -> {0} \cup Tasks]
           /\ r = [head |-> r.head, tail |-> r.tail, next |-> r.next,
                   on |-> r.on, count |-> r.count]
<1> DEFINE L == Len(w)
           v == Tail(w)
<1>1. /\ w \in Seq(Tasks) /\ L \in 0..TaskCapacity /\ IsInjective(w)
      /\ DOMAIN w = 1..L
      /\ \A i \in 1..L :
            /\ w[i] \in Tasks /\ w[i] \in Live /\ TaskSlot(w[i]) = slotOf[w[i]]
            /\ slotOf[w[i]] \in Slots /\ slotOf[w[i]] # NoSlot
      /\ \A i, j \in 1..L : slotOf[w[i]] = slotOf[w[j]] => i = j
  BY ChainFacts
<1>2. /\ z \in 0..(nextTask - 1) /\ TaskSlot(z) = NoSlot
      /\ (\A i \in 1..L : slotOf[w[i]] \in q.on)
      /\ q.head = IF w = <<>> THEN z ELSE w[1]
      /\ (\A i \in 1..L : q.next[slotOf[w[i]]] = IF i = L THEN z ELSE w[i + 1])
  BY DEF Chain
<1>3. w # <<>> /\ q.head = w[1]
  BY <1>2 DEF CanPop
<1>4. 1 \in 1..L /\ L \in Nat /\ L >= 1
  BY <1>1, <1>3
<1>5. PICK s : s = slotOf[w[1]]
  OBVIOUS
<1>6. s \in Slots /\ s \in q.on /\ w[1] \in Live /\ TaskSlot(q.head) = s
  BY <1>1, <1>2, <1>3, <1>4, <1>5
<1>7. q.next \in [Slots -> {0} \cup Tasks]
  BY DEF Queues
<1>8. /\ r.head = q.next[s] /\ r.tail = IF q.next[s] = 0 THEN 0 ELSE q.tail
      /\ r.next = [q.next EXCEPT ![s] = 0] /\ r.on = q.on \ {s}
      /\ r.count = q.count - 1
      /\ r = [head |-> r.head, tail |-> r.tail, next |-> r.next,
              on |-> r.on, count |-> r.count]
  BY <1>6 DEF PopWaiter
<1>9. /\ v \in Seq(Tasks) /\ Len(v) = L - 1
      /\ \A i \in 1..(L - 1) : v[i] = w[i + 1] /\ i + 1 \in 1..L
  BY <1>1, <1>3, <1>4
<1>10. IsInjective(v)
  BY <1>1, <1>3, TailOnce
<1>11. v = <<>> <=> L = 1
  BY <1>4, <1>9
<1> HIDE DEF v
<1>12. r.head = IF v = <<>> THEN z ELSE v[1]
  <2>1. CASE L = 1
    BY <2>1, <1>2, <1>4, <1>5, <1>8, <1>11
  <2>2. CASE L # 1
    <3>1. 1 \in 1..(L - 1)
      BY <2>2, <1>4
    <3>2. v[1] = w[1 + 1]
      BY <3>1, <1>9
    <3> QED BY <2>2, <3>2, <1>2, <1>4, <1>5, <1>8, <1>11
  <2> QED BY <2>1, <2>2
<1>13. ASSUME NEW i \in 1..(L - 1)
       PROVE  /\ slotOf[v[i]] \in r.on
              /\ r.next[slotOf[v[i]]] = IF i = L - 1 THEN z ELSE v[i + 1]
  <2>1. v[i] = w[i + 1] /\ i + 1 \in 1..L /\ i + 1 # 1
    BY <1>9, <1>4
  <2>2. slotOf[w[i + 1]] # s /\ slotOf[w[i + 1]] \in Slots
        /\ slotOf[w[i + 1]] \in q.on
    BY <2>1, <1>1, <1>2, <1>4, <1>5
  <2>3. r.next[slotOf[w[i + 1]]] = IF i + 1 = L THEN z ELSE w[(i + 1) + 1]
    BY <2>1, <2>2, <1>2, <1>7, <1>8
  <2>4. i + 1 = L <=> i = L - 1
    BY <1>4
  <2>5. i # L - 1 => v[i + 1] = w[(i + 1) + 1]
    <3>1. i # L - 1 => i + 1 \in 1..(L - 1)
      BY <1>4
    <3> QED BY <3>1, <1>9
  <2> QED BY <2>1, <2>2, <2>3, <2>4, <2>5, <1>8
<1>14. Chain(r, v, z)
  BY <1>2, <1>9, <1>10, <1>12, <1>13 DEF Chain
<1>15. r.head \in {0} \cup Tasks /\ r.next \in [Slots -> {0} \cup Tasks]
  BY <1>6, <1>7, <1>8
<1> QED BY <1>3, <1>5, <1>6, <1>8, <1>14, <1>15 DEF v

\* Popping keeps a queue sound and takes a live, marked task.
LEMMA PopSound ==
    ASSUME TaskInv, NEW q, Sound(q), CanPop(q), NEW r, r = PopWaiter(q)
    PROVE  /\ Sound(r) /\ q.head \in Live /\ slotOf[q.head] \in q.on
           /\ r.on = q.on \ {slotOf[q.head]}
<1>0. q \in Queues /\ Tallied(q)
  BY DEF Sound
<1>1. PICK w \in Seq(Tasks), z \in 0..MaxTask : Chain(q, w, z)
  BY DEF Sound, Linked
<1>2. /\ w # <<>> /\ q.head = w[1] /\ q.head \in Live
      /\ slotOf[q.head] \in q.on
      /\ Chain(r, Tail(w), z) /\ r.on = q.on \ {slotOf[q.head]}
      /\ r.count = q.count - 1
      /\ r.tail = IF r.head = 0 THEN 0 ELSE q.tail
      /\ r.head \in {0} \cup Tasks /\ r.next \in [Slots -> {0} \cup Tasks]
      /\ r = [head |-> r.head, tail |-> r.tail, next |-> r.next,
              on |-> r.on, count |-> r.count]
  BY <1>0, <1>1, PopChain
<1>3. slotOf[q.head] \in Slots
  BY <1>2, LiveSlot
<1>4. q.count - 1 = Cardinality(q.on \ {slotOf[q.head]}) /\ q.count - 1 \in Nat
  BY <1>0, <1>2, <1>3, TallyOne
<1>5. r.tail \in {0} \cup Tasks /\ r.on \in SUBSET Slots
  BY <1>0, <1>2 DEF Queues
<1>6. r \in Queues /\ Tallied(r)
  BY <1>2, <1>4, <1>5 DEF Queues, Tallied
<1>7. Tail(w) \in Seq(Tasks)
  BY <1>2
<1>8. Linked(r)
  BY <1>2, <1>7 DEF Linked
<1> QED BY <1>2, <1>6, <1>8 DEF Sound

\* Popping a line takes its first task.
LEMMA PopLine ==
    ASSUME TaskInv, NEW q \in Queues, NEW w, Line(q, w), w # <<>>,
           NEW r, r = PopWaiter(q)
    PROVE  /\ CanPop(q) /\ q.head = w[1] /\ w[1] \in Live
           /\ Line(r, Tail(w))
<1> DEFINE L == Len(w)
           v == Tail(w)
<1>1. Chain(q, w, 0)
  BY DEF Line
<1>2. /\ w \in Seq(Tasks) /\ L \in 0..TaskCapacity /\ IsInjective(w)
      /\ \A i \in 1..L :
            /\ w[i] \in Tasks /\ w[i] \in Live /\ TaskSlot(w[i]) = slotOf[w[i]]
            /\ slotOf[w[i]] \in Slots /\ slotOf[w[i]] # NoSlot
      /\ \A i, j \in 1..L : slotOf[w[i]] = slotOf[w[j]] => i = j
  BY <1>1, ChainFacts
<1>3. L \in Nat /\ L >= 1 /\ 1 \in 1..L
  BY <1>2
<1>4. q.head = w[1] /\ CanPop(q)
  <2>1. q.head = w[1]
    BY <1>1 DEF Chain
  <2> QED BY <2>1, <1>2, <1>3 DEF CanPop, Tasks
<1>5. /\ Chain(r, v, 0) /\ r.on = q.on \ {slotOf[q.head]}
      /\ r.count = q.count - 1
      /\ r.tail = IF r.head = 0 THEN 0 ELSE q.tail
  BY <1>1, <1>4, PopChain
<1>6. /\ v \in Seq(Tasks) /\ Len(v) = L - 1
      /\ \A i \in 1..(L - 1) : v[i] = w[i + 1]
  BY <1>2, <1>3
<1> HIDE DEF v
<1>7. r.count = Len(v)
  BY <1>5, <1>6 DEF Line
<1>8. ASSUME NEW x \in r.on PROVE \E i \in 1..Len(v) : x = slotOf[v[i]]
  <2>1. PICK j \in 1..L : x = slotOf[w[j]]
    BY <1>5 DEF Line
  <2>2. j # 1
    BY <2>1, <1>4, <1>5
  <2>3. j - 1 \in 1..(L - 1) /\ (j - 1) + 1 = j
    BY <2>2, <1>3
  <2>4. v[j - 1] = w[j]
    BY <2>3, <1>6
  <2> QED BY <2>1, <2>3, <2>4, <1>6
<1>9. r.tail = IF v = <<>> THEN 0 ELSE v[Len(v)]
  <2>1. CASE L = 1
    <3>1. v = <<>>
      BY <2>1, <1>6
    <3>2. r.head = 0
      BY <3>1, <1>5 DEF Chain
    <3> QED BY <3>1, <3>2, <1>5
  <2>2. CASE L # 1
    <3>1. v # <<>> /\ 1 \in 1..(L - 1) /\ L - 1 \in 1..(L - 1)
          /\ (L - 1) + 1 = L /\ 1 + 1 \in 1..L
      BY <2>2, <1>3, <1>6
    <3>2. r.head = v[1] /\ v[1] = w[1 + 1] /\ v[L - 1] = w[L]
      BY <3>1, <1>5, <1>6 DEF Chain
    <3>3. r.head # 0
      BY <3>1, <3>2, <1>2 DEF Tasks
    <3>4. q.tail = w[L]
      BY DEF Line
    <3> QED BY <3>1, <3>2, <3>3, <3>4, <1>5, <1>6
  <2> QED BY <2>1, <2>2
<1>10. Line(r, v)
  BY <1>5, <1>7, <1>8, <1>9 DEF Line
<1> QED BY <1>2, <1>3, <1>4, <1>10 DEF v

\* The walk finds a task of the chain in its place and nobody else who is
\* alive.
LEMMA PlacesFound ==
    ASSUME TaskInv, NEW q \in Queues, NEW w, NEW z, Chain(q, w, z),
           NEW t \in Live, NEW P, P = Places(q, t)
    PROVE  /\ \A k \in 1..Len(w) : w[k] = t => P = {k - 1}
           /\ t \notin Range(w) => P = {}
<1>1. /\ w \in Seq(Tasks) /\ Len(w) \in 0..TaskCapacity /\ IsInjective(w)
      /\ DOMAIN w = 1..Len(w) /\ Range(w) = {w[i] : i \in 1..Len(w)}
  BY ChainFacts
<1>2. /\ \A i \in 1..Len(w) : Walk(q)[i - 1] = w[i]
      /\ \A n \in 0..(TaskCapacity - 1) :
            n >= Len(w) => Walk(q)[n] \in {0, z}
  BY WalkMeets
<1>3. t \in Tasks /\ TaskSlot(t) # NoSlot
  BY LiveSlot
<1>4. t # z /\ t # 0
  BY <1>3 DEF Chain, Tasks
<1>5. ASSUME NEW n \in P PROVE n \in Int /\ n + 1 \in 1..Len(w) /\ w[n + 1] = t
  <2>1. n \in 0..(TaskCapacity - 1) /\ Walk(q)[n] = t
    BY DEF Places
  <2>2. n < Len(w)
    BY <1>1, <1>2, <1>4, <2>1
  <2>3. n + 1 \in 1..Len(w) /\ (n + 1) - 1 = n
    BY <1>1, <2>1, <2>2
  <2> QED BY <1>2, <2>1, <2>3
<1>6. ASSUME NEW k \in 1..Len(w), w[k] = t PROVE P = {k - 1}
  <2>1. k - 1 \in 0..(TaskCapacity - 1)
    BY <1>1, ChannelAssumption
  <2>2. k - 1 \in P
    BY <1>2, <1>6, <2>1 DEF Places
  <2>3. ASSUME NEW n \in P PROVE n = k - 1
    <3>1. n + 1 = k
      BY <1>1, <1>5, <1>6 DEF IsInjective
    <3>2. n \in Int
      BY <1>5
    <3> QED BY <3>1, <3>2
  <2> QED BY <2>2, <2>3
<1>7. ASSUME t \notin Range(w) PROVE P = {}
  BY <1>1, <1>5, <1>7
<1> QED BY <1>6, <1>7

\* Removing task w[k] of a chain.
LEMMA RemoveChain ==
    ASSUME TaskInv, NEW q \in Queues, NEW w, NEW z, Chain(q, w, z),
           NEW k \in 1..Len(w), NEW r, r = RemoveWaiter(q, w[k]),
           NEW v, v = [i \in 1..(Len(w) - 1) |-> IF i < k THEN w[i] ELSE w[i + 1]]
    PROVE  /\ Chain(r, v, z) /\ v \in Seq(Tasks) /\ Len(v) = Len(w) - 1
           /\ r.on = q.on \ {slotOf[w[k]]} /\ r.count = q.count - 1
           /\ r.tail = IF q.tail # w[k] THEN q.tail
                       ELSE IF k = 1 THEN 0 ELSE w[k - 1]
           /\ r.head \in {0} \cup Tasks /\ r.next \in [Slots -> {0} \cup Tasks]
           /\ r = [head |-> r.head, tail |-> r.tail, next |-> r.next,
                   on |-> r.on, count |-> r.count]
<1> DEFINE L == Len(w)
<1>1. /\ w \in Seq(Tasks) /\ L \in 0..TaskCapacity /\ IsInjective(w)
      /\ DOMAIN w = 1..L /\ Range(w) = {w[i] : i \in 1..L}
      /\ \A i \in 1..L :
            /\ w[i] \in Tasks /\ w[i] \in Live /\ TaskSlot(w[i]) = slotOf[w[i]]
            /\ slotOf[w[i]] \in Slots /\ slotOf[w[i]] # NoSlot
      /\ \A i, j \in 1..L : slotOf[w[i]] = slotOf[w[j]] => i = j
  BY ChainFacts
<1>2. /\ z \in 0..(nextTask - 1) /\ TaskSlot(z) = NoSlot
      /\ (\A i \in 1..L : slotOf[w[i]] \in q.on)
      /\ q.head = IF L = 0 THEN z ELSE w[1]
      /\ (\A i \in 1..L : q.next[slotOf[w[i]]] = IF i = L THEN z ELSE w[i + 1])
  BY DEF Chain
<1>3. L \in Nat /\ k \in Nat /\ k >= 1 /\ k <= L /\ 1 \in 1..L
  BY <1>1
<1>4. PICK t, s : t = w[k] /\ s = slotOf[w[k]]
  OBVIOUS
<1>5. t \in Live /\ TaskSlot(t) = s /\ s \in Slots /\ s \in q.on
  BY <1>1, <1>2, <1>4
<1>6. PICK P : P = Places(q, t)
  OBVIOUS
<1>7. P = {k - 1}
  BY <1>4, <1>5, <1>6, PlacesFound
<1>8. PICK n : n = Min(P)
  OBVIOUS
<1>9. n = k - 1
  <2>1. k - 1 <= k - 1
    BY <1>3
  <2> QED BY <2>1, <1>7, <1>8 DEF Min
<1>10. PICK b : b = IF n = 0 THEN 0 ELSE Walk(q)[n - 1]
  OBVIOUS
<1>11. b = IF k = 1 THEN 0 ELSE w[k - 1]
  <2>1. CASE k = 1
    BY <2>1, <1>9, <1>10
  <2>2. CASE k # 1
    <3>1. n # 0 /\ n \in 1..L /\ n = k - 1
      BY <2>2, <1>3, <1>9
    <3>2. Walk(q)[n - 1] = w[n]
      BY <3>1, WalkMeets
    <3> QED BY <2>2, <3>1, <3>2, <1>10
  <2> QED BY <2>1, <2>2
<1>12. PICK y : y = q.next[s]
  OBVIOUS
<1>13. /\ r.head = IF n = 0 THEN y ELSE q.head
       /\ r.tail = IF q.tail = t THEN b ELSE q.tail
       /\ r.next = [x \in Slots |-> IF x = s THEN 0
                                    ELSE IF n > 0 /\ x = TaskSlot(b) THEN y
                                    ELSE q.next[x]]
       /\ r.on = q.on \ {s} /\ r.count = q.count - 1
       /\ r = [head |-> r.head, tail |-> r.tail, next |-> r.next,
               on |-> r.on, count |-> r.count]
  <2>1. P # {}
    BY <1>7
  <2> QED BY <2>1, <1>4, <1>5, <1>6, <1>8, <1>10, <1>12 DEF RemoveWaiter
<1>14. y = IF k = L THEN z ELSE w[k + 1]
  BY <1>2, <1>4, <1>12
<1>15. q.next \in [Slots -> {0} \cup Tasks] /\ y \in {0} \cup Tasks
       /\ q.head \in {0} \cup Tasks
  <2>1. q.next \in [Slots -> {0} \cup Tasks] /\ q.head \in {0} \cup Tasks
    BY DEF Queues
  <2> QED BY <2>1, <1>5, <1>12
<1>16. /\ v \in Seq(Tasks) /\ Len(v) = L - 1 /\ DOMAIN v = 1..(L - 1)
       /\ \A i \in 1..(L - 1) :
             /\ i < k => v[i] = w[i]
             /\ ~(i < k) => v[i] = w[i + 1]
  <2>1. \A i \in 1..(L - 1) : i \in 1..L /\ i + 1 \in 1..L
    BY <1>3
  <2>2. v \in [1..(L - 1) -> Tasks]
    BY <2>1, <1>1
  <2>3. L - 1 \in Nat
    BY <1>3
  <2>4. v \in Seq(Tasks) /\ Len(v) = L - 1 /\ DOMAIN v = 1..(L - 1)
    <3>1. PICK m \in Nat : m = L - 1
      BY <2>3
    <3>2. v \in [1..m -> Tasks]
      BY ONLY <2>2, <3>1
    <3>3. v \in Seq(Tasks) /\ Len(v) = m /\ DOMAIN v = 1..m
      BY ONLY <3>2, m \in Nat
    <3> QED BY ONLY <3>1, <3>3
  <2>5. ASSUME NEW i \in 1..(L - 1)
        PROVE  (i < k => v[i] = w[i]) /\ (~(i < k) => v[i] = w[i + 1])
    OBVIOUS
  <2> QED BY <2>4, <2>5
<1>160. L # 1 => v # <<>>
  <2>1. Len(v) = L - 1 /\ L \in Nat
    BY <1>3, <1>16
  <2> QED BY ONLY <2>1
<1>17. IsInjective(v)
  <2> SUFFICES ASSUME NEW i \in 1..(L - 1), NEW j \in 1..(L - 1), v[i] = v[j]
               PROVE  i = j
    BY <1>16 DEF IsInjective
  <2>1. i \in 1..L /\ j \in 1..L /\ i + 1 \in 1..L /\ j + 1 \in 1..L
    BY <1>3
  <2>2. \A a, c \in 1..L : w[a] = w[c] => a = c
    BY <1>1 DEF IsInjective
  <2> QED BY <2>1, <2>2, <1>3, <1>16
<1>18. r.head = IF v = <<>> THEN z ELSE v[1]
  <2>1. CASE k = 1 /\ L = 1
    <3>1. v = <<>> /\ n = 0
      BY <2>1, <1>16, <1>9
    <3> QED BY <2>1, <3>1, <1>13, <1>14
  <2>2. CASE k = 1 /\ L # 1
    <3>1. v # <<>> /\ n = 0 /\ 1 \in 1..(L - 1) /\ k # L
      BY <2>2, <1>160, <1>3, <1>9
    <3>2. v[1] = w[1 + 1]
      BY <2>2, <3>1, <1>16
    <3> QED BY <2>2, <3>1, <3>2, <1>13, <1>14
  <2>3. CASE k # 1
    <3>1. v # <<>> /\ n # 0 /\ 1 \in 1..(L - 1) /\ 1 < k /\ L # 0
      BY <2>3, <1>160, <1>3, <1>9
    <3>2. v[1] = w[1]
      BY <3>1, <1>16
    <3> QED BY <3>1, <3>2, <1>2, <1>13
  <2> QED BY <2>1, <2>2, <2>3
<1>19. ASSUME NEW i \in 1..(L - 1)
       PROVE  /\ slotOf[v[i]] \in r.on
              /\ r.next[slotOf[v[i]]] = IF i = L - 1 THEN z ELSE v[i + 1]
  <2>1. PICK j \in 1..L : j = (IF i < k THEN i ELSE i + 1) /\ v[i] = w[j]
    <3>1. i \in 1..L /\ i + 1 \in 1..L
      BY <1>3
    <3> QED BY <3>1, <1>16
  <2>2. j # k /\ i \in Nat
    BY <2>1, <1>3
  <2>3. slotOf[w[j]] # s /\ slotOf[w[j]] \in Slots /\ slotOf[w[j]] \in q.on
    BY <2>1, <2>2, <1>1, <1>2, <1>4
  <2>4. slotOf[v[i]] \in r.on
    BY <2>1, <2>3, <1>13
  <2>5. CASE i = k - 1
    <3>1. k # 1 /\ n > 0 /\ j = k - 1 /\ b = w[k - 1]
      BY <2>1, <2>5, <1>3, <1>9, <1>11
    <3>2. TaskSlot(b) = slotOf[w[j]]
      BY <3>1, <1>1
    <3>3. r.next[slotOf[w[j]]] = y
      BY <3>1, <3>2, <2>3, <1>13
    <3>4. k = L <=> i = L - 1
      BY <2>5, <1>3
    <3>5. k # L => v[i + 1] = w[k + 1]
      <4>1. k # L => i + 1 \in 1..(L - 1) /\ ~(i + 1 < k) /\ (i + 1) + 1 = k + 1
        BY <2>5, <1>3
      <4> QED BY <4>1, <1>16
    <3> QED BY <2>1, <2>4, <3>3, <3>4, <3>5, <1>14
  <2>6. CASE i # k - 1
    <3>1. ~(n > 0 /\ slotOf[w[j]] = TaskSlot(b))
      <4> SUFFICES ASSUME n > 0, slotOf[w[j]] = TaskSlot(b) PROVE FALSE
        OBVIOUS
      <4>1. k # 1 /\ b = w[k - 1] /\ k - 1 \in 1..L
        BY <1>3, <1>9, <1>11
      <4>2. slotOf[w[j]] = slotOf[w[k - 1]]
        BY <4>1, <1>1
      <4>3. j = k - 1
        BY <4>1, <4>2, <1>1
      <4> QED BY <4>3, <2>1, <2>6, <1>3
    <3>2. r.next[slotOf[w[j]]] = q.next[slotOf[w[j]]]
      BY <3>1, <2>3, <1>13
    <3>3. r.next[slotOf[w[j]]] = IF j = L THEN z ELSE w[j + 1]
      BY <3>2, <2>1, <1>2
    <3>4. j = L <=> i = L - 1
      BY <2>1, <2>2, <2>6, <1>3
    <3>5. j # L => v[i + 1] = w[j + 1]
      <4> SUFFICES ASSUME j # L PROVE v[i + 1] = w[j + 1]
        OBVIOUS
      <4>1. i + 1 \in 1..(L - 1)
        BY <3>4, <2>2, <1>3
      <4>2. CASE i < k
        <5>1. i + 1 < k /\ j = i
          BY <4>2, <2>1, <2>2, <2>6, <1>3
        <5> QED BY <4>1, <5>1, <1>16
      <4>3. CASE ~(i < k)
        <5>1. ~(i + 1 < k) /\ j = i + 1
          BY <4>3, <2>1, <2>2, <1>3
        <5> QED BY <4>1, <5>1, <1>16
      <4> QED BY <4>2, <4>3
    <3> QED BY <2>1, <2>4, <3>3, <3>4, <3>5
  <2> QED BY <2>5, <2>6
<1>20. Chain(r, v, z)
  <2>1. \A i \in 1..Len(v) :
           /\ slotOf[v[i]] \in r.on
           /\ r.next[slotOf[v[i]]] = IF i = Len(v) THEN z ELSE v[i + 1]
    <3>1. Len(v) = L - 1
      BY <1>16
    <3> QED BY <3>1, <1>19
  <2> QED BY <2>1, <1>2, <1>16, <1>17, <1>18 DEF Chain
<1>21. r.head \in {0} \cup Tasks /\ r.next \in [Slots -> {0} \cup Tasks]
  BY <1>13, <1>15
<1>22. r.tail = IF q.tail # w[k] THEN q.tail ELSE IF k = 1 THEN 0 ELSE w[k - 1]
  BY <1>4, <1>11, <1>13
<1> QED BY <1>4, <1>13, <1>16, <1>20, <1>21, <1>22

\* Removing keeps a queue sound and takes the mark away.
LEMMA RemoveSound ==
    ASSUME TaskInv, NEW q, Sound(q), NEW t \in Live, NEW r,
           r = RemoveWaiter(q, t)
    PROVE  Sound(r) /\ r.on = q.on \ {slotOf[t]}
<1>0. q \in Queues /\ Tallied(q)
  BY DEF Sound
<1>1. PICK w \in Seq(Tasks), z \in 0..MaxTask : Chain(q, w, z)
  BY DEF Sound, Linked
<1>2. PICK s : s = slotOf[t]
  OBVIOUS
<1>3. t \in Tasks /\ TaskSlot(t) = s /\ s \in Slots /\ s # NoSlot
  BY <1>2, LiveSlot
<1>4. /\ w \in Seq(Tasks) /\ Len(w) \in 0..TaskCapacity
      /\ DOMAIN w = 1..Len(w) /\ Range(w) = {w[i] : i \in 1..Len(w)}
      /\ \A x \in Live : \A i \in 1..Len(w) : slotOf[x] = slotOf[w[i]] => x = w[i]
  BY <1>0, <1>1, ChainFacts
<1>5. s \in q.on =>
         q.count - 1 = Cardinality(q.on \ {s}) /\ q.count - 1 \in Nat
  BY <1>0, <1>3, TallyOne
<1>6. q.on \in SUBSET Slots /\ q.head \in {0} \cup Tasks
      /\ q.tail \in {0} \cup Tasks /\ q.next \in [Slots -> {0} \cup Tasks]
  BY <1>0 DEF Queues
<1>7. CASE s \notin q.on
  <2>1. r = q
    BY <1>3, <1>7 DEF RemoveWaiter
  <2> QED BY <2>1, <1>2, <1>7
<1>8. CASE s \in q.on /\ t \notin Range(w)
  <2>1. PICK P : P = Places(q, t)
    OBVIOUS
  <2>2. P = {}
    BY <2>1, <1>0, <1>1, <1>8, PlacesFound
  <2>3. r = [head |-> q.head, tail |-> q.tail, next |-> [q.next EXCEPT ![s] = 0],
             on |-> q.on \ {s}, count |-> q.count - 1]
    BY <2>1, <2>2, <1>3, <1>8 DEF RemoveWaiter
  <2>4. [q.next EXCEPT ![s] = 0] \in [Slots -> {0} \cup Tasks]
    BY <1>6
  <2>5. r \in Queues /\ Tallied(r)
    BY <2>3, <2>4, <1>5, <1>6, <1>8 DEF Queues, Tallied
  <2>6. \A i \in 1..Len(w) : slotOf[w[i]] # s
    BY <1>2, <1>4, <1>8
  <2>7. /\ w \in Seq(Tasks) /\ IsInjective(w)
        /\ z \in 0..(nextTask - 1) /\ TaskSlot(z) = NoSlot
        /\ (\A i \in 1..Len(w) : slotOf[w[i]] \in q.on)
        /\ q.head = IF w = <<>> THEN z ELSE w[1]
        /\ (\A i \in 1..Len(w) :
              q.next[slotOf[w[i]]] = IF i = Len(w) THEN z ELSE w[i + 1])
    BY <1>1 DEF Chain
  <2>8. ASSUME NEW i \in 1..Len(w)
        PROVE  /\ slotOf[w[i]] \in r.on
               /\ r.next[slotOf[w[i]]] = q.next[slotOf[w[i]]]
    BY <2>3, <2>6, <2>7, <1>6
  <2>9. r.head = q.head
    BY <2>3
  <2>10. Chain(r, w, z)
    BY <2>7, <2>8, <2>9 DEF Chain
  <2>11. Linked(r)
    BY <2>10 DEF Linked
  <2> QED BY <2>3, <2>5, <2>11, <1>2 DEF Sound
<1>9. CASE s \in q.on /\ t \in Range(w)
  <2>1. PICK k \in 1..Len(w) : w[k] = t
    BY <1>4, <1>9
  <2>2. PICK v : v = [i \in 1..(Len(w) - 1) |-> IF i < k THEN w[i] ELSE w[i + 1]]
    OBVIOUS
  <2>3. /\ Chain(r, v, z) /\ v \in Seq(Tasks) /\ Len(v) = Len(w) - 1
        /\ r.on = q.on \ {slotOf[w[k]]} /\ r.count = q.count - 1
        /\ r.tail = IF q.tail # w[k] THEN q.tail
                    ELSE IF k = 1 THEN 0 ELSE w[k - 1]
        /\ r.head \in {0} \cup Tasks /\ r.next \in [Slots -> {0} \cup Tasks]
        /\ r = [head |-> r.head, tail |-> r.tail, next |-> r.next,
                on |-> r.on, count |-> r.count]
    <3>1. r = RemoveWaiter(q, w[k]) /\ TaskInv /\ k \in 1..Len(w)
      BY <2>1
    <3>2. q \in Queues /\ Chain(q, w, z)
      BY <1>0, <1>1
    <3> QED BY ONLY <3>1, <3>2, <2>2, RemoveChain
  <2>4. r.tail \in {0} \cup Tasks
    <3>1. k = 1 \/ k - 1 \in 1..Len(w)
      BY <1>4
    <3>2. k = 1 \/ w[k - 1] \in Tasks
      BY <3>1, <1>4
    <3> QED BY <3>2, <2>3, <1>6
  <2>5. r.on = q.on \ {s}
    BY <2>1, <2>3, <1>2
  <2>6. r \in Queues /\ Tallied(r)
    BY <2>3, <2>4, <2>5, <1>5, <1>6, <1>9 DEF Queues, Tallied
  <2>7. Linked(r)
    BY <2>3 DEF Linked
  <2> QED BY <2>5, <2>6, <2>7, <1>2 DEF Sound
<1> QED BY <1>7, <1>8, <1>9

\* Removing the last task of a line.
LEMMA RemoveLine ==
    ASSUME TaskInv, NEW q \in Queues, NEW w \in Seq(Tasks), NEW t \in Live,
           Line(q, Append(w, t)), NEW r, r = RemoveWaiter(q, t)
    PROVE  Line(r, w)
<1>1. PICK u : u = Append(w, t)
  OBVIOUS
<1>2. t \in Tasks
  BY LiveSlot
<1>3. PICK m \in Nat : m = Len(w)
  OBVIOUS
<1>4. /\ u \in Seq(Tasks) /\ Len(u) = m + 1 /\ u[m + 1] = t /\ u # <<>>
      /\ \A i \in 1..m : u[i] = w[i]
      /\ m + 1 \in 1..Len(u)
  BY <1>1, <1>2, <1>3
<1>5. /\ Chain(q, u, 0) /\ q.tail = u[Len(u)] /\ q.count = Len(u)
      /\ \A s \in q.on : \E i \in 1..Len(u) : s = slotOf[u[i]]
  BY <1>1, <1>4 DEF Line
<1>6. PICK v : v = [i \in 1..(Len(u) - 1) |-> IF i < m + 1 THEN u[i] ELSE u[i + 1]]
  OBVIOUS
<1>7. /\ Chain(r, v, 0) /\ v \in Seq(Tasks) /\ Len(v) = Len(u) - 1
      /\ r.on = q.on \ {slotOf[u[m + 1]]} /\ r.count = q.count - 1
      /\ r.tail = IF q.tail # u[m + 1] THEN q.tail
                  ELSE IF m + 1 = 1 THEN 0 ELSE u[(m + 1) - 1]
  BY <1>4, <1>5, <1>6, RemoveChain
<1>8. v = w
  <2>1. Len(v) = m /\ \A i \in 1..m : v[i] = w[i]
    BY <1>4, <1>6, <1>7
  <2> QED BY <2>1, <1>3, <1>7
<1>9. r.tail = IF w = <<>> THEN 0 ELSE w[Len(w)]
  <2>1. r.tail = IF m = 0 THEN 0 ELSE u[m]
    BY <1>4, <1>5, <1>7
  <2>2. m # 0 => m \in 1..m /\ u[m] = w[m] /\ w # <<>>
    BY <1>3, <1>4
  <2>3. m = 0 => w = <<>>
    <3> SUFFICES ASSUME Len(w) = 0 PROVE w = <<>>
      BY <1>3
    <3> QED OBVIOUS
  <2> QED BY <2>1, <2>2, <2>3, <1>3
<1>10. ASSUME NEW s \in r.on PROVE \E i \in 1..Len(w) : s = slotOf[w[i]]
  <2>1. PICK i \in 1..Len(u) : s = slotOf[u[i]]
    BY <1>5, <1>7
  <2>2. i # m + 1
    BY <2>1, <1>7
  <2>3. i \in 1..m
    BY <2>1, <2>2, <1>4
  <2> QED BY <2>1, <2>3, <1>3, <1>4
<1>11. r.count = Len(w)
  BY <1>3, <1>4, <1>5, <1>7
<1> QED BY <1>7, <1>8, <1>9, <1>10, <1>11 DEF Line

\* A queue counts its marks.
LEMMA CountMarks ==
    ASSUME NEW q, Sound(q)
    PROVE  q.on \in SUBSET Slots /\ (q.count = 0 <=> q.on = {}) /\ q.count \in Nat
<1>1. q.on \in SUBSET Slots /\ q.count = Cardinality(q.on) /\ q.count \in Nat
  BY DEF Sound, Queues, Tallied
<1>2. IsFiniteSet(q.on)
  BY <1>1, Finite
<1> QED BY <1>1, <1>2, FS_EmptySet

\* What closing does to a chain and its marks.
LEMMA DetachChain ==
    ASSUME TaskInv, NEW q \in Queues, Tallied(q), NEW w, NEW z, Chain(q, w, z),
           NEW r, r = Detached(q)
    PROVE  /\ Sound(r) /\ r.head = 0 /\ r.tail = 0
           /\ r.on = q.on \ {slotOf[w[i]] : i \in 1..Len(w)}
           /\ r.count = q.count - Len(w)
           /\ Chain(r, <<>>, 0)
<1> DEFINE L == Len(w)
           D == {slotOf[w[i]] : i \in 1..L}
<1>1. /\ w \in Seq(Tasks) /\ L \in 0..TaskCapacity /\ IsInjective(w)
      /\ DOMAIN w = 1..L /\ Range(w) = {w[i] : i \in 1..L}
      /\ \A i \in 1..L :
            /\ w[i] \in Tasks /\ w[i] \in Live /\ TaskSlot(w[i]) = slotOf[w[i]]
            /\ slotOf[w[i]] \in Slots /\ slotOf[w[i]] # NoSlot
      /\ \A i, j \in 1..L : slotOf[w[i]] = slotOf[w[j]] => i = j
  BY ChainFacts
<1>2. Reachable(q) = Range(w) /\ Cardinality(Reachable(q)) = L
  BY ReachChain
<1>3. {TaskSlot(t) : t \in Reachable(q)} = D
  BY <1>1, <1>2
<1>4. /\ q.on \in SUBSET Slots /\ q.next \in [Slots -> {0} \cup Tasks]
      /\ q.count = Cardinality(q.on) /\ q.count \in Nat
  BY DEF Queues, Tallied
<1>5. D \subseteq q.on
  BY DEF Chain
<1>6. Cardinality(D) = L /\ IsFiniteSet(D)
  <2> DEFINE f == [i \in 1..L |-> slotOf[w[i]]]
  <2>1. f \in Seq(Slots) /\ DOMAIN f = 1..L /\ Len(f) = L
    <3>1. f \in [1..L -> Slots] /\ L \in Nat
      BY <1>1
    <3> QED BY <3>1
  <2>2. IsInjective(f)
    BY <2>1, <1>1 DEF IsInjective
  <2>3. Range(f) = D
    BY <2>1 DEF Range
  <2> HIDE DEF f, D, L
  <2>4. IsFiniteSet(Range(f)) /\ Cardinality(Range(f)) = Len(f)
    BY <2>1, <2>2, OnceLength
  <2> QED BY <2>1, <2>3, <2>4
<1> HIDE DEF D
<1>7. Cardinality(q.on \ D) = q.count - L /\ q.count - L \in Nat
  <2>1. IsFiniteSet(q.on)
    BY <1>4, Finite
  <2>2. /\ Cardinality(q.on \ D) = Cardinality(q.on) - Cardinality(q.on \cap D)
        /\ IsFiniteSet(q.on \ D)
    BY <2>1, FS_Difference
  <2>3. q.on \cap D = D
    BY <1>5
  <2>4. Cardinality(q.on \ D) \in Nat
    BY <2>2, FS_CardinalityType
  <2> QED BY <2>2, <2>3, <2>4, <1>4, <1>6
<1>8. r = [head |-> 0, tail |-> 0,
           next |-> [s \in Slots |-> IF s \in D THEN 0 ELSE q.next[s]],
           on |-> q.on \ D, count |-> q.count - L]
  BY <1>2, <1>3 DEF Detached
<1>9. r \in Queues /\ Tallied(r)
  <2>1. [s \in Slots |-> IF s \in D THEN 0 ELSE q.next[s]]
           \in [Slots -> {0} \cup Tasks]
    BY <1>4
  <2> QED BY <2>1, <1>4, <1>7, <1>8 DEF Queues, Tallied
<1>10. Chain(r, <<>>, 0)
  <2>1. <<>> \in Seq(Tasks) /\ IsInjective(<<>>) /\ Len(<<>>) = 0
    BY DEF IsInjective
  <2>2. 0 \in 0..(nextTask - 1) /\ TaskSlot(0) = NoSlot
    BY TaskFacts DEF TaskSlot, Tasks, TaskType
  <2>3. r.head = 0
    BY <1>8
  <2> QED BY <2>1, <2>2, <2>3 DEF Chain
<1>11. Linked(r)
  <2>1. <<>> \in Seq(Tasks) /\ 0 \in 0..MaxTask
    BY ChannelAssumption
  <2> QED BY <2>1, <1>10 DEF Linked
<1> QED BY <1>8, <1>9, <1>10, <1>11 DEF Sound, D

\* Closing a line empties it.
LEMMA DetachLine ==
    ASSUME TaskInv, NEW q \in Queues, Tallied(q), NEW w, Line(q, w),
           NEW r, r = Detached(q)
    PROVE  Line(r, <<>>)
<1>1. Chain(q, w, 0) /\ q.count = Len(w)
      /\ \A s \in q.on : \E i \in 1..Len(w) : s = slotOf[w[i]]
  BY DEF Line
<1>2. /\ r.head = 0 /\ r.tail = 0
      /\ r.on = q.on \ {slotOf[w[i]] : i \in 1..Len(w)}
      /\ r.count = q.count - Len(w)
      /\ Chain(r, <<>>, 0)
  BY <1>1, DetachChain
<1>3. r.on = {}
  BY <1>1, <1>2
<1>4. q.count \in Nat
  BY DEF Queues
<1>5. r.count = Len(<<>>)
  BY <1>1, <1>2, <1>4
<1> QED BY <1>2, <1>3, <1>5 DEF Line

\* A chain outlives a step that keeps the slots of its tasks.
LEMMA ChainStays ==
    ASSUME TaskType, TaskType', NEW q, NEW w, NEW z, Chain(q, w, z),
           \A i \in 1..Len(w) : slotOf'[w[i]] = slotOf[w[i]],
           z \in Tasks => slotOf'[z] = slotOf[z],
           nextTask' >= nextTask
    PROVE  Chain(q, w, z)'
<1>1. z \in 0..(nextTask - 1) /\ TaskSlot(z) = NoSlot
  BY DEF Chain
<1>2. z \in 0..(nextTask' - 1)
  <2>1. nextTask \in Nat /\ nextTask' \in Nat
    BY DEF TaskType
  <2>2. PICK a \in Nat, b \in Nat : a = nextTask /\ b = nextTask'
    BY <2>1
  <2>3. b >= a
    BY <2>2
  <2>4. z \in 0..(a - 1)
    BY <1>1, <2>2
  <2>5. z \in 0..(b - 1)
    BY <2>3, <2>4
  <2> QED BY <2>2, <2>5
<1>3. TaskSlot(z)' = NoSlot
  BY <1>1 DEF TaskSlot
<1> QED BY <1>2, <1>3 DEF Chain

\* What a queue and its name hold is the same.
LEMMA SoundNamed ==
    ASSUME NEW q, Sound(q)'
    PROVE  (sendq' = q => Sound(sendq)') /\ (recvq' = q => Sound(recvq)')
BY DEF Sound, Linked, Tallied, Chain

LEMMA LineNamed ==
    ASSUME NEW q, NEW w, Line(q, w)'
    PROVE  (sendq' = q => Line(sendq, w)') /\ (recvq' = q => Line(recvq, w)')
<1>1. ASSUME sendq' = q PROVE Line(sendq, w)'
  BY <1>1 DEF Line, Chain
<1>2. ASSUME recvq' = q PROVE Line(recvq, w)'
  BY <1>2 DEF Line, Chain
<1> QED BY <1>1, <1>2

\* Queues stay sound while no record is added or given back.
LEMMA SoundStays ==
    ASSUME TaskInv, NEW q, Sound(q), UNCHANGED <<slotOf, nextTask>>
    PROVE  Sound(q)'
BY DEF Sound, Linked, Tallied, Chain, TaskSlot

LEMMA LineStays ==
    ASSUME NEW q, NEW w, Line(q, w), UNCHANGED <<slotOf, nextTask>>
    PROVE  Line(q, w)'
BY DEF Line, Chain, TaskSlot

\* A new record changes no queue: nobody refers to it yet.
LEMMA SpawnSound ==
    ASSUME TaskInv, TaskInv', Spawn, NEW q, Sound(q)
    PROVE  Sound(q)' /\ \A w : Line(q, w) => Line(q, w)'
<1>0. TaskType /\ TaskLife /\ TaskType'
  BY TaskFacts DEF TaskInv
<1>1. /\ nextTask \in Tasks /\ nextTask' = nextTask + 1
      /\ slotOf' = [slotOf EXCEPT ![nextTask] = ClaimSpawnTaskSlot]
  BY <1>0 DEF Spawn, TaskType, Tasks
<1>2. nextTask \notin Live
  BY <1>0, <1>1 DEF TaskLife, TaskType, Live, Tasks
<1>3. q \in Queues /\ Tallied(q)
  BY DEF Sound
<1>4. ASSUME NEW w, NEW z, Chain(q, w, z) PROVE Chain(q, w, z)'
  <2>1. \A i \in 1..Len(w) : w[i] \in Live
    BY <1>3, <1>4, ChainFacts
  <2>2. \A i \in 1..Len(w) : slotOf'[w[i]] = slotOf[w[i]]
    BY <2>1, <1>0, <1>1, <1>2 DEF Live, TaskType
  <2>3. z \in 0..(nextTask - 1)
    BY <1>4 DEF Chain
  <2>4. z \in Tasks => slotOf'[z] = slotOf[z]
    BY <2>3, <1>0, <1>1 DEF TaskType, Tasks
  <2>5. nextTask' >= nextTask
    BY <1>0, <1>1 DEF TaskType
  <2> QED BY <2>2, <2>4, <2>5, <1>0, <1>4, ChainStays
<1>5. Sound(q)'
  <2>1. PICK w \in Seq(Tasks), z \in 0..MaxTask : Chain(q, w, z)
    BY DEF Sound, Linked
  <2>2. Chain(q, w, z)'
    BY <2>1, <1>4
  <2>3. Linked(q)'
    BY <2>2 DEF Linked
  <2> QED BY <2>3, <1>3 DEF Sound, Tallied
<1>6. ASSUME NEW w, Line(q, w) PROVE Line(q, w)'
  <2>1. Chain(q, w, 0)
    BY <1>6 DEF Line
  <2>2. Chain(q, w, 0)'
    BY <2>1, <1>4
  <2>3. \A i \in 1..Len(w) : slotOf'[w[i]] = slotOf[w[i]]
    <3>1. \A i \in 1..Len(w) : w[i] \in Live
      BY <1>3, <2>1, ChainFacts
    <3> QED BY <3>1, <1>0, <1>1, <1>2 DEF Live, TaskType
  <2> QED BY <1>6, <2>2, <2>3 DEF Line
<1> QED BY <1>5, <1>6

\* A record that is given back cuts the queues that still lead to it.
LEMMA RetireSound ==
    ASSUME TaskInv, TaskInv', NEW t \in Tasks, Retire(t), NEW q, Sound(q)
    PROVE  Sound(q)' /\ \A w : Line(q, w) /\ t \notin Range(w) => Line(q, w)'
<1>0. TaskType /\ TaskLife /\ TaskType' /\ 0 \notin Tasks
  BY TaskFacts DEF TaskInv, Tasks
<1>1. /\ slotOf' = [slotOf EXCEPT ![t] = NoSlot] /\ nextTask' = nextTask
      /\ state[t] = "Completed"
  BY DEF Retire
<1>2. t \in Live /\ t \in 0..(nextTask - 1)
  BY <1>0, <1>1 DEF TaskLife, Live, TaskType, Tasks
<1>3. q \in Queues /\ Tallied(q)
  BY DEF Sound
<1>4. ASSUME NEW w, NEW z, Chain(q, w, z), t \notin Range(w)
      PROVE  Chain(q, w, z)'
  <2>1. \A i \in 1..Len(w) : w[i] \in Tasks /\ w[i] # t
    <3>1. Range(w) = {w[i] : i \in 1..Len(w)} /\ \A i \in 1..Len(w) : w[i] \in Tasks
      BY <1>3, <1>4, ChainFacts
    <3> QED BY <3>1, <1>4
  <2>2. \A i \in 1..Len(w) : slotOf'[w[i]] = slotOf[w[i]]
    BY <2>1, <1>0, <1>1 DEF TaskType
  <2>3. z # t
    BY <1>2, <1>4 DEF Chain, TaskSlot, Live
  <2>4. z \in Tasks => slotOf'[z] = slotOf[z]
    BY <2>3, <1>0, <1>1 DEF TaskType
  <2>5. nextTask' >= nextTask
    BY <1>0, <1>1 DEF TaskType
  <2> QED BY <2>2, <2>4, <2>5, <1>0, <1>4, ChainStays
<1>5. Sound(q)'
  <2>1. PICK w \in Seq(Tasks), z \in 0..MaxTask : Chain(q, w, z)
    BY DEF Sound, Linked
  <2>2. CASE t \notin Range(w)
    <3>1. Chain(q, w, z)'
      BY <2>1, <2>2, <1>4
    <3>2. Linked(q)'
      BY <2>1, <3>1 DEF Linked
    <3> QED BY <3>2, <1>3 DEF Sound, Tallied
  <2>3. CASE t \in Range(w)
    <3>1. /\ Len(w) \in Nat /\ IsInjective(w) /\ DOMAIN w = 1..Len(w)
          /\ Range(w) = {w[i] : i \in 1..Len(w)}
          /\ \A i \in 1..Len(w) : w[i] \in Tasks
      BY <1>3, <2>1, ChainFacts
    <3>2. PICK k \in 1..Len(w) : w[k] = t
      BY <2>3, <3>1
    <3>3. PICK m \in Nat : m = k - 1
      BY <3>1
    <3>4. PICK v : v = [i \in 1..m |-> w[i]]
      OBVIOUS
    <3>5. \A i \in 1..m : i \in 1..Len(w) /\ i + 1 \in 1..Len(w) /\ i # k
      BY <3>1, <3>3
    <3>6. v \in Seq(Tasks) /\ Len(v) = m /\ DOMAIN v = 1..m
      <4>1. v \in [1..m -> Tasks]
        BY <3>1, <3>4, <3>5
      <4> QED BY ONLY <4>1, m \in Nat
    <3>7. \A i \in 1..m : v[i] = w[i] /\ v[i] \in Tasks /\ v[i] # t
      <4>1. ASSUME NEW i \in 1..m PROVE v[i] = w[i] /\ v[i] \in Tasks /\ v[i] # t
        <5>1. i \in 1..Len(w) /\ i # k /\ v[i] = w[i]
          BY <3>4, <3>5
        <5> QED BY <5>1, <3>1, <3>2 DEF IsInjective
      <4> QED BY <4>1
    <3>8. \A i \in 1..m : slotOf'[v[i]] = slotOf[w[i]]
      BY <3>7, <1>0, <1>1 DEF TaskType
    <3>9. IsInjective(v)
      <4> SUFFICES ASSUME NEW i \in 1..m, NEW j \in 1..m, v[i] = v[j] PROVE i = j
        BY <3>6 DEF IsInjective
      <4> QED BY <3>1, <3>5, <3>7 DEF IsInjective
    <3>10. t \in 0..(nextTask' - 1) /\ TaskSlot(t)' = NoSlot
      BY <1>0, <1>1, <1>2 DEF TaskSlot, TaskType
    <3>11. /\ \A i \in 1..Len(w) : slotOf[w[i]] \in q.on
           /\ q.head = IF w = <<>> THEN z ELSE w[1]
           /\ \A i \in 1..Len(w) :
                 q.next[slotOf[w[i]]] = IF i = Len(w) THEN z ELSE w[i + 1]
      BY <2>1 DEF Chain
    <3>12. q.head = IF v = <<>> THEN t ELSE v[1]
      <4>1. w # <<>>
        BY <3>2
      <4>2. CASE k = 1
        <5>1. v = <<>>
          BY <4>2, <3>3, <3>6
        <5> QED BY <4>1, <4>2, <5>1, <3>2, <3>11
      <4>3. CASE k # 1
        <5>1. v # <<>> /\ 1 \in 1..m
          BY <4>3, <3>3, <3>6
        <5> QED BY <4>1, <5>1, <3>7, <3>11
      <4> QED BY <4>2, <4>3
    <3>13. ASSUME NEW i \in 1..m
           PROVE  /\ slotOf'[v[i]] \in q.on
                  /\ q.next[slotOf'[v[i]]] = IF i = Len(v) THEN t ELSE v[i + 1]
      <4>1. slotOf'[v[i]] = slotOf[w[i]] /\ i \in 1..Len(w) /\ i # Len(w)
        BY <3>1, <3>3, <3>5, <3>8
      <4>2. q.next[slotOf[w[i]]] = w[i + 1] /\ slotOf[w[i]] \in q.on
        BY <4>1, <3>11
      <4>3. i = m => i + 1 = k
        BY <3>3, <3>1
      <4>4. i # m => i + 1 \in 1..m
        OBVIOUS
      <4>5. i # m => v[i + 1] = w[i + 1]
        BY <4>4, <3>7
      <4> QED BY <4>1, <4>2, <4>3, <4>5, <3>2, <3>6
    <3>14. Chain(q, v, t)'
      BY <3>6, <3>9, <3>10, <3>12, <3>13 DEF Chain
    <3>15. t \in 0..MaxTask
      BY DEF Tasks
    <3>16. Linked(q)'
      BY <3>6, <3>14, <3>15 DEF Linked
    <3> QED BY <3>16, <1>3 DEF Sound, Tallied
  <2> QED BY <2>2, <2>3
<1>6. ASSUME NEW w, Line(q, w), t \notin Range(w) PROVE Line(q, w)'
  <2>1. Chain(q, w, 0)
    BY <1>6 DEF Line
  <2>2. Chain(q, w, 0)'
    BY <2>1, <1>4, <1>6
  <2>3. \A i \in 1..Len(w) : slotOf'[w[i]] = slotOf[w[i]]
    <3>1. Range(w) = {w[i] : i \in 1..Len(w)} /\ \A i \in 1..Len(w) : w[i] \in Tasks
      BY <1>3, <2>1, ChainFacts
    <3>2. \A i \in 1..Len(w) : w[i] # t
      BY <3>1, <1>6
    <3> QED BY <3>1, <3>2, <1>0, <1>1 DEF TaskType
  <2> QED BY <1>6, <2>2, <2>3 DEF Line
<1> QED BY <1>5, <1>6

-----------------------------------------------------------------------------
(* The wakes in flight.                                                    *)

\* AddCountedWake counts each of the tasks.
LEMMA AddWakes ==
    ASSUME TaskInv, counted \in [Slots -> Nat], WakesCounted,
           NEW ts \in SUBSET Live, AddCountedWake(ts)
    PROVE  /\ counted' \in [Slots -> Nat] /\ WakesCounted'
           /\ \A s \in Slots :
                 /\ (\E t \in ts : slotOf[t] = s) => counted'[s] = counted[s] + 1
                 /\ ~(\E t \in ts : slotOf[t] = s) => counted'[s] = counted[s]
<1> DEFINE f == [t \in ts |-> <<slotOf[t], counted[slotOf[t]]>>]
           D == {f[t] : t \in ts}
<1>1. \A t \in ts : TaskSlot(t) = slotOf[t] /\ slotOf[t] \in Slots
  BY LiveSlot
<1>2. \A t, u \in ts : slotOf[t] = slotOf[u] => t = u
  BY LiveSlot
<1>3. counted' = [s \in Slots |-> IF \E t \in ts : slotOf[t] = s
                                  THEN counted[s] + 1 ELSE counted[s]]
  BY <1>1 DEF AddCountedWake
<1>4. counted' \in [Slots -> Nat]
  BY <1>3
<1>5. IsFiniteSet(ts) /\ Cardinality(ts) \in Nat
  <2>1. ts \in SUBSET Tasks
    BY DEF Live
  <2> QED BY <2>1, Finite
<1>6. f \in Bijection(ts, D)
  <2>1. f \in [ts -> D] /\ \A y \in D : \E t \in ts : f[t] = y
    OBVIOUS
  <2>2. \A t, u \in ts : f[t] = f[u] => t = u
    BY <1>2
  <2> HIDE DEF f, D
  <2> QED BY <2>1, <2>2 DEF Bijection, Injection, Surjection, IsInjective
<1>7. ExistsBijection(ts, D)
  BY <1>6 DEF ExistsBijection
<1>8. IsFiniteSet(D) /\ Cardinality(D) = Cardinality(ts)
  <2> HIDE DEF D
  <2> QED BY <1>5, <1>7, FS_Bijection
<1>9. Wakeups' = Wakeups \cup D
  <2>1. ASSUME NEW p \in Wakeups' PROVE p \in Wakeups \cup D
    <3>1. PICK s \in Slots, k \in Nat : p = <<s, k>> /\ k < counted'[s]
      BY DEF Wakeups
    <3>2. CASE k < counted[s]
      BY <3>1, <3>2 DEF Wakeups
    <3>3. CASE ~(k < counted[s])
      <4>1. counted[s] \in Nat /\ counted'[s] # counted[s]
        BY <3>1, <3>3
      <4>2. PICK t \in ts : slotOf[t] = s
        BY <4>1, <1>3
      <4>3. counted'[s] = counted[s] + 1
        BY <4>2, <1>3
      <4>4. k = counted[s]
        BY <3>1, <3>3, <4>1, <4>3
      <4> QED BY <3>1, <4>2, <4>4
    <3> QED BY <3>2, <3>3
  <2>2. ASSUME NEW p \in Wakeups PROVE p \in Wakeups'
    <3>1. PICK s \in Slots, k \in Nat : p = <<s, k>> /\ k < counted[s]
      BY DEF Wakeups
    <3>2. counted[s] \in Nat /\ counted'[s] \in {counted[s], counted[s] + 1}
      BY <1>3
    <3>3. k < counted'[s]
      BY <3>1, <3>2
    <3> QED BY <3>1, <3>3 DEF Wakeups
  <2>3. ASSUME NEW p \in D PROVE p \in Wakeups'
    <3>1. PICK t \in ts : p = <<slotOf[t], counted[slotOf[t]]>>
      OBVIOUS
    <3>2. slotOf[t] \in Slots
      BY <1>1
    <3>3. counted'[slotOf[t]] = counted[slotOf[t]] + 1 /\ counted[slotOf[t]] \in Nat
      BY <3>2, <1>3
    <3> QED BY <3>1, <3>2, <3>3 DEF Wakeups
  <2> QED BY <2>1, <2>2, <2>3
<1>10. Wakeups \cap D = {}
  <2> SUFFICES ASSUME NEW t \in ts, <<slotOf[t], counted[slotOf[t]]>> \in Wakeups
               PROVE  FALSE
    OBVIOUS
  <2>1. slotOf[t] \in Slots
    BY <1>1
  <2>2. counted[slotOf[t]] \in Nat
    BY <2>1
  <2> QED BY <2>2 DEF Wakeups
<1> HIDE DEF D
<1>11. IsFiniteSet(Wakeups) /\ inFlight = Cardinality(Wakeups)
  BY DEF WakesCounted
<1>12. /\ IsFiniteSet(Wakeups \cup D)
       /\ Cardinality(Wakeups \cup D) =
             Cardinality(Wakeups) + Cardinality(D) - Cardinality(Wakeups \cap D)
  BY <1>8, <1>11, FS_Union
<1>13. Cardinality(Wakeups \cap D) = 0
  BY <1>10, FS_EmptySet
<1>14. Cardinality(Wakeups) \in Nat
  BY <1>11, FS_CardinalityType
<1>15. inFlight' = inFlight + Cardinality(ts)
  BY DEF AddCountedWake
<1>16. inFlight' = Cardinality(Wakeups \cup D)
  BY <1>5, <1>8, <1>11, <1>12, <1>13, <1>14, <1>15
<1>17. WakesCounted'
  BY <1>9, <1>12, <1>16 DEF WakesCounted
<1> QED BY <1>3, <1>4, <1>17

\* CompleteCountedWake takes one back, if there is one.
LEMMA CompleteWake ==
    ASSUME TaskInv, counted \in [Slots -> Nat], WakesCounted,
           NEW t \in Live, CompleteCountedWake(t)
    PROVE  /\ counted' \in [Slots -> Nat] /\ WakesCounted'
           /\ \A s \in Slots : s # slotOf[t] => counted'[s] = counted[s]
           /\ counted'[slotOf[t]] =
                 IF counted[slotOf[t]] = 0 THEN 0 ELSE counted[slotOf[t]] - 1
<1>1. PICK s : s = slotOf[t]
  OBVIOUS
<1>2. s \in Slots /\ TaskSlot(t) = s
  BY <1>1, LiveSlot
<1>3. PICK c \in Nat : c = counted[s]
  BY <1>2
<1>4. /\ counted' = [counted EXCEPT ![s] = IF c > 0 THEN c - 1 ELSE c]
      /\ inFlight' = IF c > 0 THEN inFlight - 1 ELSE inFlight
  BY <1>2, <1>3 DEF CompleteCountedWake
<1>5. counted' \in [Slots -> Nat]
  <2>1. (IF c > 0 THEN c - 1 ELSE c) \in Nat
    OBVIOUS
  <2> QED BY <2>1, <1>2, <1>4
<1>6. IsFiniteSet(Wakeups) /\ inFlight = Cardinality(Wakeups)
  BY DEF WakesCounted
<1>7. CASE c = 0
  <2>0. ~(c > 0)
    BY <1>7
  <2>1. counted' = counted /\ inFlight' = inFlight
    <3>1. counted' = [counted EXCEPT ![s] = c] /\ inFlight' = inFlight
      BY <2>0, <1>4
    <3>2. [counted EXCEPT ![s] = c] = counted
      BY ONLY <1>2, <1>3, counted \in [Slots -> Nat]
    <3> QED BY <3>1, <3>2
  <2>2. Wakeups' = Wakeups
    BY <2>1 DEF Wakeups
  <2> QED BY <2>1, <2>2, <1>1, <1>3, <1>5, <1>6, <1>7 DEF WakesCounted
<1>8. CASE c # 0
  <2>1. c > 0 /\ c - 1 \in Nat
    BY <1>8
  <2>2. /\ \A x \in Slots : counted'[x] = IF x = s THEN c - 1 ELSE counted[x]
        /\ inFlight' = inFlight - 1
    BY <2>1, <1>4
  <2>3. <<s, c - 1>> \in Wakeups
    BY <2>1, <1>2, <1>3 DEF Wakeups
  <2>4. Wakeups' = Wakeups \ {<<s, c - 1>>}
    <3>1. ASSUME NEW x \in Slots, NEW k \in Nat
          PROVE  k < counted'[x] <=> k < counted[x] /\ <<x, k>> # <<s, c - 1>>
      <4>1. CASE x = s
        BY <4>1, <2>1, <2>2, <1>3
      <4>2. CASE x # s
        BY <4>2, <2>2
      <4> QED BY <4>1, <4>2
    <3> QED BY <3>1 DEF Wakeups
  <2>5. /\ IsFiniteSet(Wakeups \ {<<s, c - 1>>})
        /\ Cardinality(Wakeups \ {<<s, c - 1>>}) = Cardinality(Wakeups) - 1
    BY <2>3, <1>6, FS_RemoveElement
  <2>6. WakesCounted'
    BY <2>2, <2>4, <2>5, <1>6 DEF WakesCounted
  <2> QED BY <2>1, <2>2, <2>6, <1>1, <1>2, <1>3, <1>5, <1>8
<1> QED BY <1>7, <1>8

\* No wake in flight: no slot counts one.
LEMMA NoWakes ==
    ASSUME counted \in [Slots -> Nat], WakesCounted, inFlight = 0
    PROVE  \A s \in Slots : counted[s] = 0
<1>1. Wakeups = {}
  BY FS_EmptySet DEF WakesCounted
<1>2. ASSUME NEW s \in Slots, counted[s] # 0 PROVE FALSE
  <2>1. counted[s] \in Nat
    OBVIOUS
  <2>2. 0 < counted[s]
    BY <2>1, <1>2
  <2>3. <<s, 0>> \in Wakeups
    BY <2>2 DEF Wakeups
  <2> QED BY <2>3, <1>1
<1> QED BY <1>2

-----------------------------------------------------------------------------
(* The control block, action by action.                                    *)

\* A task that runs, waits or has ended has its record.
LEMMA RunLive ==
    ASSUME TaskInv, NEW t \in Tasks, state[t] \notin {"None", "Retired"}
    PROVE  t \in Live
BY TaskFacts DEF TaskLife, Live

\* The conjuncts of the control block's invariant.
LEMMA BlockFacts ==
    ASSUME BlockInv
    PROVE  /\ ChannelType /\ Sound(sendq) /\ Sound(recvq)
           /\ ValuesLeft /\ WakesCounted /\ ReceiversFirst /\ ReleasedClosed
BY DEF BlockInv

\* A step that leaves the control block alone.
LEMMA BlockFrame ==
    ASSUME TaskInv, BlockInv, outcome' \in [Tasks -> Outcomes],
           UNCHANGED <<slotOf, nextTask, buffer, closed, released, owner, waits,
                       nextValue, stale>>
    PROVE  BlockInv'
<1>0. /\ ChannelType /\ Sound(sendq) /\ Sound(recvq)
      /\ ValuesLeft /\ WakesCounted /\ ReceiversFirst /\ ReleasedClosed
  BY BlockFacts
<1>1. UNCHANGED <<slotOf, nextTask, buffer, closed, released, capacity,
                  waitCapacity, sendq, recvq, sendValue, rendezvous, completed,
                  counted, inFlight, nextValue, stale>>
  BY DEF owner, waits
<1>2. ChannelType'
  BY <1>0, <1>1 DEF ChannelType
<1>3. PICK q, r : q = sendq /\ r = recvq
  OBVIOUS
<1>4. Sound(q)' /\ Sound(r)'
  BY <1>0, <1>1, <1>3, SoundStays
<1>5. Sound(sendq)' /\ Sound(recvq)'
  BY <1>1, <1>3, <1>4, SoundNamed
<1>6. ValuesLeft' /\ WakesCounted' /\ ReceiversFirst' /\ ReleasedClosed'
  BY <1>0, <1>1 DEF ValuesLeft, WakesCounted, Wakeups, ReceiversFirst,
                    ReleasedClosed
<1> QED BY <1>2, <1>5, <1>6 DEF BlockInv

\* The same, but for the slots.
LEMMA BlockSlots ==
    ASSUME BlockInv, outcome' \in [Tasks -> Outcomes],
           Sound(sendq)', Sound(recvq)',
           UNCHANGED <<buffer, closed, released, owner, waits, nextValue, stale>>
    PROVE  BlockInv'
<1>0. /\ ChannelType
      /\ ValuesLeft /\ WakesCounted /\ ReceiversFirst /\ ReleasedClosed
  BY BlockFacts
<1>1. UNCHANGED <<buffer, closed, released, capacity,
                  waitCapacity, sendq, recvq, sendValue, rendezvous, completed,
                  counted, inFlight, nextValue, stale>>
  BY DEF owner, waits
<1>2. ChannelType'
  BY <1>0, <1>1 DEF ChannelType
<1>3. ValuesLeft' /\ WakesCounted' /\ ReceiversFirst' /\ ReleasedClosed'
  BY <1>0, <1>1 DEF ValuesLeft, WakesCounted, Wakeups, ReceiversFirst,
                    ReleasedClosed
<1> QED BY <1>2, <1>3 DEF BlockInv

\* Task life and the deadlock wake.
LEMMA LifeBlock ==
    ASSUME TaskInv, BlockInv,
           \/ Dispatch \/ WakeDeadlockedTasks
           \/ \E t \in Tasks : Yield(t) \/ Finish(t)
    PROVE  BlockInv'
<1>1. UNCHANGED <<slotOf, nextTask, buffer, closed, released, owner, waits,
                  nextValue, stale, outcome>>
  BY DEF Dispatch, WakeDeadlockedTasks, Yield, Finish, history
<1>2. outcome \in [Tasks -> Outcomes]
  BY BlockFacts DEF ChannelType
<1> QED BY <1>1, <1>2, BlockFrame

LEMMA SpawnBlock == ASSUME TaskInv, BlockInv, Spawn, TaskInv' PROVE BlockInv'
<1>1. UNCHANGED <<buffer, closed, released, owner, waits, nextValue, stale,
                  outcome, sendq, recvq>>
  BY DEF Spawn, history, waits
<1>2. outcome \in [Tasks -> Outcomes] /\ Sound(sendq) /\ Sound(recvq)
  BY BlockFacts DEF ChannelType
<1>3. PICK q, r : q = sendq /\ r = recvq
  OBVIOUS
<1>4. Sound(q)' /\ Sound(r)'
  BY <1>2, <1>3, SpawnSound
<1>5. Sound(sendq)' /\ Sound(recvq)'
  BY <1>1, <1>3, <1>4, SoundNamed
<1> QED BY <1>1, <1>2, <1>5, BlockSlots

LEMMA RetireBlock ==
    ASSUME TaskInv, BlockInv, NEW t \in Tasks, Retire(t), TaskInv' PROVE BlockInv'
<1>1. UNCHANGED <<buffer, closed, released, owner, waits, nextValue, stale,
                  outcome, sendq, recvq>>
  BY DEF Retire, history, waits
<1>2. outcome \in [Tasks -> Outcomes] /\ Sound(sendq) /\ Sound(recvq)
  BY BlockFacts DEF ChannelType
<1>3. PICK q, r : q = sendq /\ r = recvq
  OBVIOUS
<1>4. Sound(q)' /\ Sound(r)'
  BY <1>2, <1>3, RetireSound
<1>5. Sound(sendq)' /\ Sound(recvq)'
  BY <1>1, <1>3, <1>4, SoundNamed
<1> QED BY <1>1, <1>2, <1>5, BlockSlots

\* A new queue in the place of the old one.
LEMMA SoundPut ==
    ASSUME TaskInv, NEW q, Sound(q), UNCHANGED <<slotOf, nextTask>>
    PROVE  (sendq' = q => Sound(sendq)') /\ (recvq' = q => Sound(recvq)')
<1>1. Sound(q)'
  BY SoundStays
<1> QED BY <1>1, SoundNamed

LEMMA ClosedBlock ==
    ASSUME TaskInv, BlockInv, NEW t \in Tasks, SendClosed(t) \/ RecvClosed(t)
    PROVE  TaskInv' /\ BlockInv'
<1>1. UNCHANGED <<tasks, buffer, closed, released, owner, waits, nextValue,
                  stale>>
      /\ Ended(t, "ChannelClosed")
  BY DEF SendClosed, RecvClosed
<1>2. outcome \in [Tasks -> Outcomes]
  BY BlockFacts DEF ChannelType
<1>3. outcome' \in [Tasks -> Outcomes]
  BY <1>1, <1>2 DEF Ended, Outcomes
<1>4. UNCHANGED <<slotOf, nextTask, waitCapacity>>
  BY <1>1 DEF tasks, owner
<1>5. BlockInv'
  BY <1>1, <1>3, <1>4, BlockFrame
<1>6. TaskInv'
  BY <1>1, <1>4, KeepTasks
<1> QED BY <1>5, <1>6

\* The sequence of one element.
LEMMA OneOnce ==
    ASSUME NEW S, NEW x \in S
    PROVE  <<x>> \in Seq(S) /\ IsInjective(<<x>>) /\ Range(<<x>>) = {x}
BY DEF IsInjective, Range

\* A value numbered next is larger than all before it.
LEMMA NextValue ==
    ASSUME ChannelType, nextValue' = nextValue + 1
    PROVE  /\ nextValue' \in Nat \ {0} /\ nextValue' - 1 = nextValue
           /\ 1..(nextValue - 1) \subseteq 1..(nextValue' - 1)
           /\ nextValue \in 1..(nextValue' - 1) /\ nextValue \in Nat
           /\ nextValue \notin 1..(nextValue - 1) /\ nextValue # NoValue
           /\ buffer \in Seq(1..(nextValue' - 1))
<1>1. nextValue \in Nat \ {0} /\ buffer \in Seq(1..(nextValue - 1))
  BY DEF ChannelType
<1>2. PICK S, T : S = 1..(nextValue - 1) /\ T = 1..(nextValue' - 1)
  OBVIOUS
<1>3. S \subseteq T
  BY <1>1, <1>2
<1>4. buffer \in Seq(T)
  BY <1>1, <1>2, <1>3, SeqMonotonic
<1>5. nextValue' - 1 = nextValue
  BY <1>1
<1> QED BY <1>1, <1>2, <1>3, <1>4, <1>5 DEF NoValue

LEMMA SendToReceiverBlock ==
    ASSUME TaskInv, BlockInv, NEW t \in Tasks, SendToReceiver(t)
    PROVE  TaskInv' /\ BlockInv'
<1>0. /\ ChannelType /\ Sound(sendq) /\ Sound(recvq)
      /\ ValuesLeft /\ WakesCounted /\ ReceiversFirst /\ ReleasedClosed
  BY BlockFacts
<1>1. /\ ~closed /\ recvq.count # 0 /\ nextValue' = nextValue + 1
      /\ outcome' = [outcome EXCEPT ![t] = "Ok"]
      /\ UNCHANGED <<slotOf, freeSlots, waitId, onChannel, op, cur, nextTask,
                     nextWait, buffer, closed, released, capacity, waitCapacity,
                     sendq, sendValue, completed, counted, inFlight, stale>>
  BY DEF SendToReceiver, Ended, owner
<1>2. /\ nextValue' \in Nat \ {0} /\ nextValue' - 1 = nextValue
      /\ 1..(nextValue - 1) \subseteq 1..(nextValue' - 1)
      /\ nextValue \in Nat
  BY <1>0, <1>1, NextValue
<1>3. buffer \in Seq(1..(nextValue' - 1))
  BY <1>0, <1>1, NextValue
<1>4. outcome' \in [Tasks -> Outcomes]
  BY <1>0, <1>1 DEF ChannelType, Outcomes
<1>5. PICK q, r : q = sendq /\ r = recvq'
  OBVIOUS
<1>6. /\ Sound(r) /\ r.on \subseteq recvq.on /\ rendezvous' \in [Slots -> Nat]
      /\ TaskInv'
  <2>1. CASE CanPop(recvq)
    <3>1. /\ recvq' = PopWaiter(recvq) /\ WakeChannel(<<recvq.head>>)
          /\ rendezvous' =
                [rendezvous EXCEPT ![TaskSlot(recvq.head)] = nextValue]
      BY <2>1 DEF SendToReceiver
    <3>2. Sound(r) /\ recvq.head \in Live /\ r.on \subseteq recvq.on
      BY <2>1, <3>1, <1>0, <1>5, PopSound
    <3>3. recvq.head \in Tasks /\ TaskSlot(recvq.head) \in Slots
      BY <3>2, LiveSlot
    <3>4. rendezvous' \in [Slots -> Nat]
      BY <3>1, <3>3, <1>0, <1>2 DEF ChannelType
    <3>5. PICK ts : ts = <<recvq.head>>
      OBVIOUS
    <3>6. ts \in Seq(Tasks) /\ IsInjective(ts)
      BY <3>3, <3>5, OneOnce
    <3>7. TaskInv'
      BY <3>1, <3>5, <3>6, <1>0, <1>1, WakeTasks DEF ChannelType
    <3> QED BY <3>2, <3>4, <3>7
  <2>2. CASE ~CanPop(recvq)
    <3>1. NoWake /\ UNCHANGED <<rendezvous, recvq>>
      BY <2>2 DEF SendToReceiver
    <3>2. UNCHANGED <<tasks, waitCapacity>>
      BY <3>1, <1>1 DEF NoWake, tasks
    <3>3. TaskInv'
      BY <3>2, KeepTasks
    <3>4. rendezvous' \in [Slots -> Nat] /\ r = recvq
      BY <3>1, <1>0, <1>5 DEF ChannelType
    <3> QED BY <3>3, <3>4, <1>0
  <2> QED BY <2>1, <2>2
<1>7. ChannelType'
  BY <1>0, <1>1, <1>2, <1>3, <1>4, <1>6 DEF ChannelType
<1>8. Sound(sendq)' /\ Sound(recvq)'
  BY <1>0, <1>1, <1>5, <1>6, SoundPut
<1>9. ValuesLeft'
  BY <1>0, <1>1, <1>2 DEF ValuesLeft
<1>10. WakesCounted'
  BY <1>0, <1>1 DEF WakesCounted, Wakeups
<1>11. ReceiversFirst' /\ ReleasedClosed'
  BY <1>0, <1>1 DEF ReceiversFirst, ReleasedClosed
<1> QED BY <1>6, <1>7, <1>8, <1>9, <1>10, <1>11 DEF BlockInv

LEMMA SendToBufferBlock ==
    ASSUME TaskInv, BlockInv, NEW t \in Tasks, SendToBuffer(t)
    PROVE  TaskInv' /\ BlockInv'
<1>0. /\ ChannelType /\ Sound(sendq) /\ Sound(recvq)
      /\ ValuesLeft /\ WakesCounted /\ ReceiversFirst /\ ReleasedClosed
  BY BlockFacts
<1>1. /\ ~closed /\ recvq.count = 0 /\ nextValue' = nextValue + 1
      /\ Len(buffer) < capacity /\ buffer' = Append(buffer, nextValue)
      /\ outcome' = [outcome EXCEPT ![t] = "Ok"]
      /\ UNCHANGED <<tasks, closed, released, capacity, waitCapacity,
                     sendq, recvq, sendValue, rendezvous, completed, counted,
                     inFlight, stale>>
  BY DEF SendToBuffer, Ended, owner, waits, RoomFor
<1>2. /\ nextValue' \in Nat \ {0} /\ nextValue' - 1 = nextValue
      /\ 1..(nextValue - 1) \subseteq 1..(nextValue' - 1)
      /\ nextValue \in 1..(nextValue' - 1) /\ nextValue \in Nat
  BY <1>0, <1>1, NextValue
<1>3. TaskInv'
  BY <1>1, KeepTasks
<1>4. buffer' \in Seq(1..(nextValue' - 1)) /\ Len(buffer') <= capacity
  <2>1. buffer \in Seq(1..(nextValue' - 1))
    BY <1>0, <1>1, NextValue
  <2>2. capacity \in Nat
    BY <1>0 DEF ChannelType
  <2> QED BY <2>1, <2>2, <1>1, <1>2
<1>5. outcome' \in [Tasks -> Outcomes]
  BY <1>0, <1>1 DEF ChannelType, Outcomes
<1>6. ChannelType'
  BY <1>0, <1>1, <1>2, <1>4, <1>5 DEF ChannelType
<1>7. PICK q, r : q = sendq /\ r = recvq
  OBVIOUS
<1>8. Sound(sendq)' /\ Sound(recvq)'
  BY <1>0, <1>1, <1>7, SoundPut DEF tasks
<1>9. ValuesLeft'
  BY <1>0, <1>1, <1>2 DEF ValuesLeft
<1>10. WakesCounted'
  BY <1>0, <1>1 DEF WakesCounted, Wakeups
<1>11. ReceiversFirst' /\ ReleasedClosed'
  BY <1>0, <1>1 DEF ReceiversFirst, ReleasedClosed
<1> QED BY <1>3, <1>6, <1>8, <1>9, <1>10, <1>11 DEF BlockInv

LEMMA SendParksBlock ==
    ASSUME TaskInv, BlockInv, NEW t \in Tasks, SendParks(t)
    PROVE  TaskInv' /\ BlockInv'
<1>0. /\ ChannelType /\ Sound(sendq) /\ Sound(recvq)
      /\ ValuesLeft /\ WakesCounted /\ ReceiversFirst /\ ReleasedClosed
  BY BlockFacts
<1>1. /\ Free(t) /\ ~closed /\ ~(Len(buffer) < capacity)
      /\ ~(recvq.count # 0 /\ capacity = 0)
      /\ liveWaits < waitCapacity /\ Park(t, "send")
      /\ sendq' = PushWaiter(sendq, t)
      /\ sendValue' = [sendValue EXCEPT ![TaskSlot(t)] = nextValue]
      /\ nextValue' = nextValue + 1
      /\ UNCHANGED <<buffer, closed, released, capacity, waitCapacity,
                     recvq, rendezvous, completed, counted, inFlight, outcome,
                     stale>>
  BY DEF SendParks, Start, owner, RoomFor
<1>2. /\ nextValue' \in Nat \ {0} /\ nextValue' - 1 = nextValue
      /\ 1..(nextValue - 1) \subseteq 1..(nextValue' - 1)
      /\ nextValue \in 1..(nextValue' - 1) /\ nextValue \in Nat
  BY <1>0, <1>1, NextValue
<1>3. TaskInv'
  BY <1>0, <1>1, ParkTasks DEF ChannelType
<1>4. t \in Live
  BY <1>1, RunLive DEF Free
<1>5. TaskSlot(t) = slotOf[t] /\ slotOf[t] \in Slots
  BY <1>4, LiveSlot
<1>6. buffer \in Seq(1..(nextValue' - 1))
  BY <1>0, <1>1, NextValue
<1>7. ChannelType'
  BY <1>0, <1>1, <1>2, <1>5, <1>6 DEF ChannelType
<1>8. PICK q, r : q = sendq' /\ r = recvq
  OBVIOUS
<1>9. Sound(q) /\ q.on = sendq.on \cup {slotOf[t]}
  BY <1>0, <1>1, <1>4, <1>8, PushSound
<1>10. Sound(sendq)' /\ Sound(recvq)'
  BY <1>0, <1>1, <1>8, <1>9, SoundPut DEF Park
<1>11. ValuesLeft'
  <2>1. sendq.on \subseteq Slots /\ sendValue \in [Slots -> Nat]
    BY <1>0, CountMarks DEF ChannelType
  <2>2. ASSUME NEW s \in q.on PROVE sendValue'[s] \in 1..(nextValue' - 1)
    <3>1. CASE s = slotOf[t]
      BY <3>1, <2>1, <1>1, <1>2, <1>5
    <3>2. CASE s # slotOf[t]
      <4>1. s \in sendq.on /\ s \in Slots
        BY <3>2, <2>1, <1>9
      <4>2. sendValue'[s] = sendValue[s]
        BY <3>2, <4>1, <2>1, <1>1, <1>5
      <4> QED BY <4>1, <4>2, <1>0, <1>2 DEF ValuesLeft
    <3> QED BY <3>1, <3>2
  <2> QED BY <2>2, <1>8 DEF ValuesLeft
<1>12. WakesCounted'
  BY <1>0, <1>1 DEF WakesCounted, Wakeups
<1>13. ReceiversFirst' /\ ReleasedClosed'
  <2>1. recvq.count = 0
    <3> SUFFICES ASSUME recvq.count # 0 PROVE FALSE
      OBVIOUS
    <3>1. buffer = <<>> /\ Len(buffer) = 0
      BY <1>0 DEF ReceiversFirst
    <3> QED BY <3>1, <1>0, <1>1 DEF ChannelType
  <2> QED BY <2>1, <1>0, <1>1 DEF ReceiversFirst, ReleasedClosed
<1> QED BY <1>3, <1>7, <1>10, <1>11, <1>12, <1>13 DEF BlockInv

LEMMA SendCannotParkBlock ==
    ASSUME TaskInv, BlockInv, NEW t \in Tasks, SendCannotPark(t)
    PROVE  TaskInv' /\ BlockInv'
<1>0. /\ ChannelType /\ Sound(sendq) /\ Sound(recvq)
      /\ ValuesLeft /\ WakesCounted /\ ReceiversFirst /\ ReleasedClosed
  BY BlockFacts
<1>1. /\ Free(t) /\ ~closed /\ ~(Len(buffer) < capacity)
      /\ ~(recvq.count # 0 /\ capacity = 0)
      /\ sendq' = RemoveWaiter(PushWaiter(sendq, t), t)
      /\ sendValue' = [sendValue EXCEPT ![TaskSlot(t)] = NoValue]
      /\ CompleteCountedWake(t)
      /\ nextValue' = nextValue + 1
      /\ outcome' = [outcome EXCEPT ![t] = "ChannelWaitCapacityExceeded"]
      /\ UNCHANGED <<tasks, buffer, closed, released, capacity, waitCapacity,
                     recvq, rendezvous, completed, stale>>
  BY DEF SendCannotPark, Start, owner, RoomFor, Ended
<1>2. /\ nextValue' \in Nat \ {0} /\ nextValue' - 1 = nextValue
      /\ 1..(nextValue - 1) \subseteq 1..(nextValue' - 1)
  BY <1>0, <1>1, NextValue
<1>3. TaskInv'
  BY <1>1, KeepTasks
<1>4. t \in Live
  BY <1>1, RunLive DEF Free
<1>5. TaskSlot(t) = slotOf[t] /\ slotOf[t] \in Slots
  BY <1>4, LiveSlot
<1>6. buffer \in Seq(1..(nextValue' - 1))
  BY <1>0, <1>1, NextValue
<1>7. counted' \in [Slots -> Nat] /\ WakesCounted'
  BY <1>0, <1>1, <1>4, CompleteWake DEF ChannelType
<1>8. outcome' \in [Tasks -> Outcomes]
  BY <1>0, <1>1 DEF ChannelType, Outcomes
<1>9. sendValue' \in [Slots -> Nat]
  BY <1>0, <1>1, <1>5 DEF ChannelType, NoValue
<1>10. ChannelType'
  BY <1>0, <1>1, <1>2, <1>6, <1>7, <1>8, <1>9 DEF ChannelType
<1>11. PICK p, q, r : p = PushWaiter(sendq, t) /\ q = sendq' /\ r = recvq
  OBVIOUS
<1>12. Sound(p) /\ p.on = sendq.on \cup {slotOf[t]}
  BY <1>0, <1>4, <1>11, PushSound
<1>13. Sound(q) /\ q.on = p.on \ {slotOf[t]}
  BY <1>1, <1>4, <1>11, <1>12, RemoveSound
<1>14. Sound(sendq)' /\ Sound(recvq)'
  BY <1>0, <1>1, <1>11, <1>13, SoundPut DEF tasks
<1>15. ValuesLeft'
  <2>1. sendq.on \subseteq Slots /\ sendValue \in [Slots -> Nat]
    BY <1>0, CountMarks DEF ChannelType
  <2>2. ASSUME NEW s \in q.on PROVE sendValue'[s] \in 1..(nextValue' - 1)
    <3>1. s \in sendq.on /\ s \in Slots /\ s # slotOf[t]
      BY <2>1, <1>12, <1>13
    <3>2. sendValue'[s] = sendValue[s]
      BY <3>1, <2>1, <1>1, <1>5
    <3> QED BY <3>1, <3>2, <1>0, <1>2 DEF ValuesLeft
  <2> QED BY <2>2, <1>11 DEF ValuesLeft
<1>16. ReceiversFirst' /\ ReleasedClosed'
  <2>1. recvq.count = 0
    <3> SUFFICES ASSUME recvq.count # 0 PROVE FALSE
      OBVIOUS
    <3>1. buffer = <<>> /\ Len(buffer) = 0
      BY <1>0 DEF ReceiversFirst
    <3> QED BY <3>1, <1>0, <1>1 DEF ChannelType
  <2> QED BY <2>1, <1>0, <1>1 DEF ReceiversFirst, ReleasedClosed
<1> QED BY <1>3, <1>7, <1>10, <1>14, <1>15, <1>16 DEF BlockInv

\* recv_impl finds nobody to hand the front of the buffer to: who receives
\* has not parked while there was something to receive.
LEMMA RecvEffects ==
    ASSUME ReceiversFirst, NEW t, NEW v, NEW b, NEW ts, RecvGets(t, v, b, ts),
           b = <<>> \/ buffer # <<>>
    PROVE  /\ buffer' = b
           /\ rendezvous[TaskSlot(t)] # NoValue =>
                 rendezvous' = [rendezvous EXCEPT ![TaskSlot(t)] = NoValue]
           /\ rendezvous[TaskSlot(t)] = NoValue => rendezvous' = rendezvous
           /\ recvq' = recvq /\ CompleteParkedSend(ts)
           /\ AddCountedWake(Range(ts)) /\ WakeChannel(ts)
           /\ matched' = matched \o (IF rendezvous[TaskSlot(t)] # NoValue
                                     THEN <<>> ELSE <<v>>) \o <<>>
           /\ received' = received \cup {v} /\ Ended(t, "Ok")
           /\ UNCHANGED <<slotOf, freeSlots, waitId, onChannel, op, cur,
                          nextTask, nextWait, closed, owner, nextValue, admitted,
                          stale>>
           /\ TryReleaseSchedulerRecord
<1>1. ~HandsOver(b)
  BY DEF HandsOver, ReceiversFirst
<1>2. ToSet(ts) = Range(ts)
  BY ToSetIsRange
<1> QED BY <1>1, <1>2 DEF RecvGets

\* The branches of recv_impl that return a value keep the control block.
LEMMA RecvBlock ==
    ASSUME TaskInv, BlockInv, NEW t \in Tasks, Free(t), NEW v, NEW b,
           NEW ts \in Seq(Tasks), IsInjective(ts), Range(ts) \subseteq Live,
           RecvGets(t, v, b, ts), b = <<>> \/ buffer # <<>>,
           b \in Seq(1..(nextValue - 1)), Len(b) <= capacity,
           NEW q, Sound(q), sendq' = q, q.on \subseteq sendq.on,
           sendValue' \in [Slots -> Nat],
           \A s \in q.on : sendValue'[s] = sendValue[s]
    PROVE  TaskInv' /\ BlockInv'
<1>0. /\ ChannelType /\ Sound(sendq) /\ Sound(recvq)
      /\ ValuesLeft /\ WakesCounted /\ ReceiversFirst /\ ReleasedClosed
  BY BlockFacts
<1>1. /\ buffer' = b
      /\ rendezvous[TaskSlot(t)] # NoValue =>
            rendezvous' = [rendezvous EXCEPT ![TaskSlot(t)] = NoValue]
      /\ rendezvous[TaskSlot(t)] = NoValue => rendezvous' = rendezvous
      /\ recvq' = recvq /\ CompleteParkedSend(ts)
      /\ AddCountedWake(Range(ts)) /\ WakeChannel(ts) /\ Ended(t, "Ok")
      /\ UNCHANGED <<slotOf, freeSlots, waitId, onChannel, op, cur,
                     nextTask, nextWait, closed, owner, nextValue, admitted,
                     stale>>
      /\ TryReleaseSchedulerRecord
  BY <1>0, RecvEffects
<1>2. UNCHANGED <<slotOf, nextTask, closed, capacity, waitCapacity, nextValue,
                  stale>>
  BY <1>1 DEF owner
<1>3. TaskInv'
  BY <1>0, <1>1, <1>2, WakeTasks DEF ChannelType
<1>4. t \in Live
  BY RunLive DEF Free
<1>5. TaskSlot(t) \in Slots
  BY <1>4, LiveSlot
<1>6. rendezvous' \in [Slots -> Nat]
  <2>1. rendezvous \in [Slots -> Nat] /\ NoValue \in Nat
    BY <1>0 DEF ChannelType, NoValue
  <2>2. [rendezvous EXCEPT ![TaskSlot(t)] = NoValue] \in [Slots -> Nat]
    BY <2>1
  <2> QED BY <2>1, <2>2, <1>1
<1>7. completed' \in [Slots -> BOOLEAN]
  BY <1>1 DEF CompleteParkedSend
<1>8. counted' \in [Slots -> Nat] /\ WakesCounted'
  BY <1>0, <1>1, AddWakes DEF ChannelType
<1>9. outcome' \in [Tasks -> Outcomes]
  BY <1>0, <1>1 DEF ChannelType, Outcomes, Ended
<1>10. released' \in BOOLEAN /\ (released' => released \/ (closed' /\ buffer' = <<>>))
  BY <1>0, <1>1 DEF TryReleaseSchedulerRecord, ChannelType
<1>11. ChannelType'
  BY <1>0, <1>1, <1>2, <1>6, <1>7, <1>8, <1>9, <1>10 DEF ChannelType
<1>12. PICK r : r = recvq
  OBVIOUS
<1>13. Sound(sendq)' /\ Sound(recvq)'
  BY <1>0, <1>1, <1>2, <1>12, SoundPut
<1>14. ValuesLeft'
  BY <1>0, <1>2 DEF ValuesLeft
<1>15. ReceiversFirst'
  <2> SUFFICES ASSUME recvq'.count # 0 PROVE buffer' = <<>> /\ sendq'.count = 0
    BY DEF ReceiversFirst
  <2>1. buffer = <<>> /\ sendq.count = 0
    BY <1>0, <1>1 DEF ReceiversFirst
  <2>2. sendq.on = {}
    BY <2>1, <1>0, CountMarks
  <2>3. q.count = 0
    BY <2>2, CountMarks
  <2> QED BY <2>1, <2>3, <1>1
<1>16. ReleasedClosed'
  <2>1. released => closed /\ buffer = <<>>
    BY <1>0 DEF ReleasedClosed
  <2>2. released => b = <<>>
    BY <2>1
  <2> QED BY <2>1, <2>2, <1>1, <1>2, <1>10 DEF ReleasedClosed
<1> QED BY <1>3, <1>8, <1>11, <1>13, <1>14, <1>15, <1>16 DEF BlockInv

\* The buffer without its front, and refilled.
LEMMA BufferTail ==
    ASSUME ChannelType, buffer # <<>>
    PROVE  /\ Head(buffer) \in 1..(nextValue - 1)
           /\ Tail(buffer) \in Seq(1..(nextValue - 1))
           /\ Len(Tail(buffer)) = Len(buffer) - 1 /\ Len(Tail(buffer)) <= capacity
           /\ \A v \in 1..(nextValue - 1) :
                 /\ Append(Tail(buffer), v) \in Seq(1..(nextValue - 1))
                 /\ Len(Append(Tail(buffer), v)) <= capacity
<1>1. PICK S : S = 1..(nextValue - 1)
  OBVIOUS
<1>2. buffer \in Seq(S) /\ Len(buffer) <= capacity /\ capacity \in Nat
  BY <1>1 DEF ChannelType
<1>3. Len(buffer) \in Nat /\ Len(buffer) # 0
  BY <1>2
<1>4. Head(buffer) \in S /\ Tail(buffer) \in Seq(S)
      /\ Len(Tail(buffer)) = Len(buffer) - 1
  BY <1>2
<1>5. ASSUME NEW v \in S
      PROVE  Append(Tail(buffer), v) \in Seq(S)
             /\ Len(Append(Tail(buffer), v)) = Len(buffer)
  BY <1>3, <1>4
<1> QED BY <1>1, <1>2, <1>3, <1>4, <1>5

\* The front of the senders is popped.
LEMMA SenderPopped ==
    ASSUME TaskInv, BlockInv, CanPop(sendq), NEW s, s = TaskSlot(sendq.head),
           NEW q, q = PopWaiter(sendq),
           sendValue' = [sendValue EXCEPT ![s] = NoValue]
    PROVE  /\ Sound(q) /\ q.on \subseteq sendq.on
           /\ sendq.head \in Live /\ <<sendq.head>> \in Seq(Tasks)
           /\ IsInjective(<<sendq.head>>) /\ Range(<<sendq.head>>) = {sendq.head}
           /\ s = slotOf[sendq.head] /\ s \in sendq.on /\ s \in Slots
           /\ sendValue[s] \in 1..(nextValue - 1)
           /\ sendValue' \in [Slots -> Nat]
           /\ \A x \in q.on : sendValue'[x] = sendValue[x]
<1>0. ChannelType /\ Sound(sendq) /\ ValuesLeft
  BY BlockFacts
<1>1. /\ Sound(q) /\ sendq.head \in Live /\ slotOf[sendq.head] \in sendq.on
      /\ q.on = sendq.on \ {slotOf[sendq.head]}
  BY <1>0, PopSound
<1>2. sendq.head \in Tasks /\ s = slotOf[sendq.head] /\ s \in Slots
  BY <1>1, LiveSlot
<1>3. PICK h : h = sendq.head
  OBVIOUS
<1>4. <<h>> \in Seq(Tasks) /\ IsInjective(<<h>>) /\ Range(<<h>>) = {h}
  BY <1>2, <1>3, OneOnce
<1>5. sendq.on \subseteq Slots
  BY <1>0, CountMarks
<1>6. sendValue' \in [Slots -> Nat]
  BY <1>0, <1>2 DEF ChannelType, NoValue
<1>7. \A x \in q.on : sendValue'[x] = sendValue[x]
  BY <1>0, <1>1, <1>2, <1>5 DEF ChannelType
<1>8. sendValue[s] \in 1..(nextValue - 1)
  BY <1>0, <1>1, <1>2 DEF ValuesLeft
<1> QED BY <1>1, <1>2, <1>3, <1>4, <1>6, <1>7, <1>8

\* Nobody is popped.
LEMMA EmptyOnce ==
    <<>> \in Seq(Tasks) /\ IsInjective(<<>>) /\ Range(<<>>) = {}
BY DEF IsInjective, Range

LEMMA RecvRendezvousBlock ==
    ASSUME TaskInv, BlockInv, NEW t \in Tasks, RecvRendezvous(t)
    PROVE  TaskInv' /\ BlockInv'
<1>0. ChannelType /\ Sound(sendq)
  BY BlockFacts
<1>1. /\ Free(t) /\ sendq' = sendq /\ sendValue' = sendValue
      /\ RecvGets(t, rendezvous[TaskSlot(t)], buffer, <<>>)
  BY DEF RecvRendezvous, Start
<1>2. PICK q, b, v, ts : /\ q = sendq /\ b = buffer
                         /\ v = rendezvous[TaskSlot(t)] /\ ts = <<>>
  OBVIOUS
<1>3. /\ ts \in Seq(Tasks) /\ IsInjective(ts) /\ Range(ts) \subseteq Live
      /\ RecvGets(t, v, b, ts) /\ (b = <<>> \/ buffer # <<>>)
      /\ b \in Seq(1..(nextValue - 1)) /\ Len(b) <= capacity
      /\ Sound(q) /\ sendq' = q /\ q.on \subseteq sendq.on
      /\ sendValue' \in [Slots -> Nat] /\ Free(t)
      /\ \A s \in q.on : sendValue'[s] = sendValue[s]
  BY <1>0, <1>1, <1>2, EmptyOnce DEF ChannelType
<1> QED BY <1>3, RecvBlock

LEMMA RecvBufferedBlock ==
    ASSUME TaskInv, BlockInv, NEW t \in Tasks, RecvBuffered(t)
    PROVE  TaskInv' /\ BlockInv'
<1>0. ChannelType /\ Sound(sendq)
  BY BlockFacts
<1>1. Free(t) /\ buffer # <<>>
  BY DEF RecvBuffered, Start
<1>2. /\ Tail(buffer) \in Seq(1..(nextValue - 1)) /\ Len(Tail(buffer)) <= capacity
      /\ \A v \in 1..(nextValue - 1) :
            /\ Append(Tail(buffer), v) \in Seq(1..(nextValue - 1))
            /\ Len(Append(Tail(buffer), v)) <= capacity
  BY <1>0, <1>1, BufferTail
<1>3. CASE CanPop(sendq)
  <2>1. PICK s : s = TaskSlot(sendq.head)
    OBVIOUS
  <2>2. PICK q, b, v, ts : /\ q = PopWaiter(sendq)
                           /\ b = Append(Tail(buffer), sendValue[s])
                           /\ v = Head(buffer) /\ ts = <<sendq.head>>
    OBVIOUS
  <2>3. /\ sendq' = q /\ RecvGets(t, v, b, ts)
        /\ sendValue' = [sendValue EXCEPT ![s] = NoValue]
    BY <1>3, <2>1, <2>2 DEF RecvBuffered
  <2>4. /\ Sound(q) /\ q.on \subseteq sendq.on /\ sendq.head \in Live
        /\ ts \in Seq(Tasks) /\ IsInjective(ts) /\ Range(ts) = {sendq.head}
        /\ sendValue[s] \in 1..(nextValue - 1)
        /\ sendValue' \in [Slots -> Nat]
        /\ \A x \in q.on : sendValue'[x] = sendValue[x]
    BY <1>3, <2>1, <2>2, <2>3, SenderPopped
  <2>5. b \in Seq(1..(nextValue - 1)) /\ Len(b) <= capacity
    BY <1>2, <2>2, <2>4
  <2>6. Range(ts) \subseteq Live
    BY <2>4
  <2> QED BY <1>1, <2>3, <2>4, <2>5, <2>6, RecvBlock
<1>4. CASE ~CanPop(sendq)
  <2>1. PICK q, b, v, ts : /\ q = sendq /\ b = Tail(buffer)
                           /\ v = Head(buffer) /\ ts = <<>>
    OBVIOUS
  <2>2. sendq' = q /\ sendValue' = sendValue /\ RecvGets(t, v, b, ts)
    BY <1>4, <2>1 DEF RecvBuffered
  <2>3. /\ ts \in Seq(Tasks) /\ IsInjective(ts) /\ Range(ts) \subseteq Live
        /\ b \in Seq(1..(nextValue - 1)) /\ Len(b) <= capacity
        /\ Sound(q) /\ q.on \subseteq sendq.on
        /\ sendValue' \in [Slots -> Nat]
        /\ \A s \in q.on : sendValue'[s] = sendValue[s]
    BY <1>0, <1>2, <2>1, <2>2, EmptyOnce DEF ChannelType
  <2> QED BY <1>1, <2>2, <2>3, RecvBlock
<1> QED BY <1>3, <1>4

LEMMA RecvFromSenderBlock ==
    ASSUME TaskInv, BlockInv, NEW t \in Tasks, RecvFromSender(t)
    PROVE  TaskInv' /\ BlockInv'
<1>0. ChannelType /\ Sound(sendq)
  BY BlockFacts
<1>1. Free(t)
  BY DEF RecvFromSender, Start
<1>2. PICK b : b = <<>>
  OBVIOUS
<1>3. b \in Seq(1..(nextValue - 1)) /\ Len(b) <= capacity
  BY <1>0, <1>2 DEF ChannelType
<1>4. CASE CanPop(sendq)
  <2>1. PICK s : s = TaskSlot(sendq.head)
    OBVIOUS
  <2>2. PICK q, v, ts : /\ q = PopWaiter(sendq)
                        /\ v = sendValue[s] /\ ts = <<sendq.head>>
    OBVIOUS
  <2>3. /\ sendq' = q /\ RecvGets(t, v, b, ts)
        /\ sendValue' = [sendValue EXCEPT ![s] = NoValue]
    BY <1>2, <1>4, <2>1, <2>2 DEF RecvFromSender
  <2>4. /\ Sound(q) /\ q.on \subseteq sendq.on /\ sendq.head \in Live
        /\ ts \in Seq(Tasks) /\ IsInjective(ts) /\ Range(ts) = {sendq.head}
        /\ sendValue' \in [Slots -> Nat]
        /\ \A x \in q.on : sendValue'[x] = sendValue[x]
    BY <1>4, <2>1, <2>2, <2>3, SenderPopped
  <2>5. Range(ts) \subseteq Live
    BY <2>4
  <2> QED BY <1>1, <1>2, <1>3, <2>3, <2>4, <2>5, RecvBlock
<1>5. CASE ~CanPop(sendq)
  <2>1. PICK q, v, ts : q = sendq /\ v = NoValue /\ ts = <<>>
    OBVIOUS
  <2>2. sendq' = q /\ sendValue' = sendValue /\ RecvGets(t, v, b, ts)
    BY <1>2, <1>5, <2>1 DEF RecvFromSender
  <2>3. /\ ts \in Seq(Tasks) /\ IsInjective(ts) /\ Range(ts) \subseteq Live
        /\ Sound(q) /\ q.on \subseteq sendq.on
        /\ sendValue' \in [Slots -> Nat]
        /\ \A s \in q.on : sendValue'[s] = sendValue[s]
    BY <1>0, <2>1, <2>2, EmptyOnce DEF ChannelType
  <2> QED BY <1>1, <1>2, <1>3, <2>2, <2>3, RecvBlock
<1> QED BY <1>4, <1>5

LEMMA RecvParksBlock ==
    ASSUME TaskInv, BlockInv, NEW t \in Tasks, RecvParks(t)
    PROVE  TaskInv' /\ BlockInv'
<1>0. /\ ChannelType /\ Sound(sendq) /\ Sound(recvq)
      /\ ValuesLeft /\ WakesCounted /\ ReceiversFirst /\ ReleasedClosed
  BY BlockFacts
<1>1. /\ Free(t) /\ ~closed /\ buffer = <<>> /\ sendq.count = 0
      /\ liveWaits < waitCapacity /\ Park(t, "recv")
      /\ recvq' = PushWaiter(recvq, t)
      /\ UNCHANGED <<buffer, closed, released, capacity, waitCapacity, sendq,
                     sendValue, rendezvous, completed, counted, inFlight,
                     nextValue, outcome, stale>>
  BY DEF RecvParks, Start, owner, NothingToReceive
<1>2. TaskInv'
  BY <1>0, <1>1, ParkTasks DEF ChannelType
<1>3. t \in Live
  BY <1>1, RunLive DEF Free
<1>4. ChannelType'
  BY <1>0, <1>1 DEF ChannelType
<1>5. PICK q, r : q = sendq /\ r = recvq'
  OBVIOUS
<1>6. Sound(r)
  BY <1>0, <1>1, <1>3, <1>5, PushSound
<1>7. Sound(sendq)' /\ Sound(recvq)'
  BY <1>0, <1>1, <1>5, <1>6, SoundPut DEF Park
<1>8. ValuesLeft' /\ WakesCounted'
  BY <1>0, <1>1 DEF ValuesLeft, WakesCounted, Wakeups
<1>9. ReceiversFirst' /\ ReleasedClosed'
  BY <1>0, <1>1 DEF ReceiversFirst, ReleasedClosed
<1> QED BY <1>2, <1>4, <1>7, <1>8, <1>9 DEF BlockInv

LEMMA RecvCannotParkBlock ==
    ASSUME TaskInv, BlockInv, NEW t \in Tasks, RecvCannotPark(t)
    PROVE  TaskInv' /\ BlockInv'
<1>0. /\ ChannelType /\ Sound(sendq) /\ Sound(recvq)
      /\ ValuesLeft /\ WakesCounted /\ ReceiversFirst /\ ReleasedClosed
  BY BlockFacts
<1>1. /\ Free(t) /\ ~closed /\ buffer = <<>> /\ sendq.count = 0
      /\ recvq' = RemoveWaiter(PushWaiter(recvq, t), t)
      /\ CompleteCountedWake(t)
      /\ outcome' = [outcome EXCEPT ![t] = "ChannelWaitCapacityExceeded"]
      /\ UNCHANGED <<tasks, buffer, closed, released, capacity, waitCapacity,
                     sendq, sendValue, rendezvous, completed, nextValue, stale>>
  BY DEF RecvCannotPark, Start, owner, NothingToReceive, Ended
<1>2. TaskInv'
  BY <1>1, KeepTasks
<1>3. t \in Live
  BY <1>1, RunLive DEF Free
<1>4. counted' \in [Slots -> Nat] /\ WakesCounted'
  BY <1>0, <1>1, <1>3, CompleteWake DEF ChannelType
<1>5. outcome' \in [Tasks -> Outcomes]
  BY <1>0, <1>1 DEF ChannelType, Outcomes
<1>6. ChannelType'
  BY <1>0, <1>1, <1>4, <1>5 DEF ChannelType
<1>7. PICK p, q, r : p = PushWaiter(recvq, t) /\ q = sendq /\ r = recvq'
  OBVIOUS
<1>8. Sound(p)
  BY <1>0, <1>3, <1>7, PushSound
<1>9. Sound(r)
  BY <1>1, <1>3, <1>7, <1>8, RemoveSound
<1>10. Sound(sendq)' /\ Sound(recvq)'
  BY <1>0, <1>1, <1>7, <1>9, SoundPut DEF tasks
<1>11. ValuesLeft'
  BY <1>0, <1>1 DEF ValuesLeft
<1>12. ReceiversFirst' /\ ReleasedClosed'
  BY <1>0, <1>1 DEF ReceiversFirst, ReleasedClosed
<1> QED BY <1>2, <1>4, <1>6, <1>10, <1>11, <1>12 DEF BlockInv

\* A wait that is resumed, as a sender or as a receiver.
LEMMA ResumeBlock ==
    ASSUME TaskInv, BlockInv, NEW t \in Tasks,
           CoroutineResumeSend(t) \/ CoroutineResumeRecv(t)
    PROVE  TaskInv' /\ BlockInv'
<1>0. /\ ChannelType /\ Sound(sendq) /\ Sound(recvq)
      /\ ValuesLeft /\ WakesCounted /\ ReceiversFirst /\ ReleasedClosed
  BY BlockFacts
<1>1. /\ cur = t /\ state[t] = "Running"
      /\ op' = [op EXCEPT ![t] = "none"] /\ CompleteCountedWake(t)
      /\ \E v \in {"Ok", "ChannelClosed", "TaskContextMissing"} : Ended(t, v)
      /\ stale' = (stale \/ waitResult[t] = "TaskDeadlock")
      /\ UNCHANGED <<slotOf, freeSlots, state, waitId, waitResult, onChannel,
                     ready, cur, nextTask, nextWait, liveWaits, buffer,
                     closed, capacity, waitCapacity, sendq, recvq, sendValue,
                     nextValue>>
      /\ TryReleaseSchedulerRecord
  BY DEF CoroutineResumeSend, CoroutineResumeRecv, Missing, owner
<1>2. t \in Live
  BY <1>1, RunLive
<1>3. TaskSlot(t) \in Slots
  BY <1>2, LiveSlot
<1>4. /\ rendezvous' \in [Slots -> Nat] /\ completed' \in [Slots -> BOOLEAN]
  <2>1. /\ rendezvous \in [Slots -> Nat] /\ completed \in [Slots -> BOOLEAN]
        /\ NoValue \in Nat
    BY <1>0 DEF ChannelType, NoValue
  <2>2. CASE CoroutineResumeSend(t)
    BY <2>1, <2>2, <1>3 DEF CoroutineResumeSend
  <2>3. CASE CoroutineResumeRecv(t)
    BY <2>1, <2>3, <1>3 DEF CoroutineResumeRecv
  <2> QED BY <2>2, <2>3
<1>5. TaskInv'
  BY <1>1, ResumeTasks
<1>6. counted' \in [Slots -> Nat] /\ WakesCounted'
  BY <1>0, <1>1, <1>2, CompleteWake DEF ChannelType
<1>7. outcome' \in [Tasks -> Outcomes]
  BY <1>0, <1>1 DEF ChannelType, Outcomes, Ended
<1>8. released' \in BOOLEAN /\ (released' => released \/ (closed' /\ buffer' = <<>>))
  BY <1>0, <1>1 DEF TryReleaseSchedulerRecord, ChannelType
<1>9. stale' \in BOOLEAN
  BY <1>0, <1>1 DEF ChannelType
<1>10. ChannelType'
  BY <1>0, <1>1, <1>4, <1>6, <1>7, <1>8, <1>9 DEF ChannelType
<1>11. PICK q, r : q = sendq /\ r = recvq
  OBVIOUS
<1>12. Sound(sendq)' /\ Sound(recvq)'
  BY <1>0, <1>1, <1>11, SoundPut
<1>13. ValuesLeft' /\ ReceiversFirst'
  BY <1>0, <1>1 DEF ValuesLeft, ReceiversFirst
<1>14. ReleasedClosed'
  BY <1>0, <1>1, <1>8 DEF ReleasedClosed
<1> QED BY <1>5, <1>6, <1>10, <1>12, <1>13, <1>14 DEF BlockInv

\* Closing, with the buffer kept or discarded.
LEMMA CloseBlock ==
    ASSUME TaskInv, BlockInv, NEW b \in {buffer, <<>>}, CloseEffects(b),
           UNCHANGED <<capacity, waitCapacity>>, outcome' \in [Tasks -> Outcomes]
    PROVE  TaskInv' /\ BlockInv'
<1>0. /\ ChannelType /\ Sound(sendq) /\ Sound(recvq)
      /\ ValuesLeft /\ WakesCounted /\ ReceiversFirst /\ ReleasedClosed
  BY BlockFacts
<1>1. PICK q, r, Q, R : /\ q = sendq' /\ r = recvq'
                        /\ Q = Reachable(sendq) /\ R = Reachable(recvq)
  OBVIOUS
<1>2. /\ closed' = TRUE /\ buffer' = b
      /\ q = Detached(sendq) /\ r = Detached(recvq)
      /\ sendValue' = [s \in Slots |-> IF \E u \in Q : TaskSlot(u) = s
                                       THEN NoValue ELSE sendValue[s]]
      /\ AddCountedWake(Q \cup R) /\ WakeChannel(ByWait(Q \cup R))
      /\ UNCHANGED <<slotOf, freeSlots, waitId, onChannel, op, cur, nextTask,
                     nextWait, rendezvous, completed, nextValue, stale>>
      /\ TryReleaseSchedulerRecord
  BY <1>1 DEF CloseEffects
<1>3. /\ sendq \in Queues /\ Tallied(sendq) /\ recvq \in Queues /\ Tallied(recvq)
  BY <1>0 DEF Sound
<1>4. PICK w \in Seq(Tasks), z \in 0..MaxTask : Chain(sendq, w, z)
  BY <1>0 DEF Sound, Linked
<1>5. PICK x \in Seq(Tasks), y \in 0..MaxTask : Chain(recvq, x, y)
  BY <1>0 DEF Sound, Linked
<1>6. Q = Range(w) /\ Q \subseteq Live
  BY <1>1, <1>3, <1>4, ReachChain, ChainFacts
<1>7. R = Range(x) /\ R \subseteq Live
  BY <1>1, <1>3, <1>5, ReachChain, ChainFacts
<1>8. /\ Sound(q) /\ q.on = sendq.on \ {slotOf[w[i]] : i \in 1..Len(w)}
  BY <1>2, <1>3, <1>4, DetachChain
<1>9. /\ Sound(r) /\ r.on \subseteq recvq.on
  BY <1>2, <1>3, <1>5, DetachChain
<1>10. Q \cup R \in SUBSET Live /\ Q \cup R \in SUBSET Tasks
  BY <1>6, <1>7 DEF Live
<1>11. counted' \in [Slots -> Nat] /\ WakesCounted'
  BY <1>0, <1>2, <1>10, AddWakes DEF ChannelType
<1>12. PICK ts : ts = ByWait(Q \cup R)
  OBVIOUS
<1>13. ts \in Seq(Tasks) /\ IsInjective(ts)
  BY <1>10, <1>12, ByWaitOnce, TaskFacts DEF TaskType
<1>14. TaskInv'
  BY <1>0, <1>2, <1>12, <1>13, WakeTasks DEF ChannelType
<1>15. sendValue' \in [Slots -> Nat]
  BY <1>0, <1>2 DEF ChannelType, NoValue
<1>16. b \in Seq(1..(nextValue - 1)) /\ Len(b) <= capacity
  <2>1. CASE b = buffer
    BY <2>1, <1>0 DEF ChannelType
  <2>2. CASE b = <<>>
    <3>1. capacity \in Nat
      BY <1>0 DEF ChannelType
    <3>2. b \in Seq(1..(nextValue - 1)) /\ Len(b) = 0
      BY <2>2
    <3> QED BY ONLY <3>1, <3>2
  <2> QED BY <2>1, <2>2
<1>17. released' \in BOOLEAN /\ (released' => released \/ (closed' /\ buffer' = <<>>))
  BY <1>0, <1>2 DEF TryReleaseSchedulerRecord, ChannelType
<1>18. ChannelType'
  BY <1>0, <1>2, <1>11, <1>15, <1>16, <1>17 DEF ChannelType
<1>19. Sound(sendq)' /\ Sound(recvq)'
  BY <1>1, <1>2, <1>8, <1>9, SoundPut
<1>20. ValuesLeft'
  <2>1. sendq.on \subseteq Slots
    BY <1>0, CountMarks
  <2>2. ASSUME NEW s \in q.on PROVE sendValue'[s] \in 1..(nextValue' - 1)
    <3>1. s \in sendq.on /\ s \in Slots /\ \A i \in 1..Len(w) : slotOf[w[i]] # s
      BY <2>1, <1>8
    <3>2. ~(\E u \in Q : TaskSlot(u) = s)
      <4>1. /\ Range(w) = {w[i] : i \in 1..Len(w)}
            /\ \A i \in 1..Len(w) : TaskSlot(w[i]) = slotOf[w[i]]
        BY <1>3, <1>4, ChainFacts
      <4> QED BY <3>1, <4>1, <1>6
    <3>3. sendValue'[s] = sendValue[s]
      BY <3>1, <3>2, <1>2
    <3> QED BY <3>1, <3>3, <1>0, <1>2 DEF ValuesLeft
  <2> QED BY <2>2, <1>1 DEF ValuesLeft
<1>21. ReceiversFirst'
  <2> SUFFICES ASSUME r.count # 0 PROVE b = <<>> /\ q.count = 0
    BY <1>1, <1>2 DEF ReceiversFirst
  <2>1. recvq.count # 0
    BY <1>0, <1>9, CountMarks
  <2>2. buffer = <<>> /\ sendq.count = 0
    BY <2>1, <1>0 DEF ReceiversFirst
  <2>3. sendq.on = {}
    BY <2>2, <1>0, CountMarks
  <2>4. q.count = 0
    BY <2>3, <1>8, CountMarks
  <2> QED BY <2>2, <2>4
<1>22. ReleasedClosed'
  BY <1>0, <1>2, <1>17 DEF ReleasedClosed
<1> QED BY <1>11, <1>14, <1>18, <1>19, <1>20, <1>21, <1>22 DEF BlockInv

LEMMA CloseAbandonBlock ==
    ASSUME TaskInv, BlockInv, Close \/ Abandon
    PROVE  TaskInv' /\ BlockInv'
<1>0. outcome \in [Tasks -> Outcomes]
  BY BlockFacts DEF ChannelType
<1>1. CASE Close
  <2>1. outcome' \in [Tasks -> Outcomes]
    BY <1>0, <1>1 DEF Close, Ended, Outcomes
  <2>2. CloseEffects(buffer) /\ UNCHANGED <<capacity, waitCapacity>>
    BY <1>1 DEF Close, owner
  <2>3. PICK b : b = buffer
    OBVIOUS
  <2> QED BY <2>1, <2>2, <2>3, CloseBlock
<1>2. CASE Abandon
  <2>1. PICK b : b = <<>>
    OBVIOUS
  <2>2. /\ CloseEffects(b) /\ UNCHANGED <<capacity, waitCapacity>>
        /\ outcome' \in [Tasks -> Outcomes] /\ b \in {buffer, <<>>}
    BY <1>0, <1>2, <2>1 DEF Abandon
  <2> QED BY <2>2, CloseBlock
<1> QED BY <1>1, <1>2

\* The control block as it is made.
LEMMA InitBlock == ASSUME Init PROVE BlockInv
<1>0. TaskInv
  BY InitTasks
<1>1. ChannelType
  <2>1. \E limit \in Limits : capacity = limit[1] /\ waitCapacity = limit[2]
    BY DEF Init
  <2>2. PICK limit \in Limits : capacity = limit[1] /\ waitCapacity = limit[2]
    BY <2>1
  <2>3. limit \in Nat \X Nat
    BY ChannelAssumption
  <2>4. /\ capacity \in Nat /\ waitCapacity \in Nat
        /\ <<capacity, waitCapacity>> \in Limits
    BY <2>2, <2>3
  <2>5. /\ nextValue = 1 /\ buffer = <<>>
        /\ sendValue \in [Slots -> Nat] /\ rendezvous \in [Slots -> Nat]
        /\ completed \in [Slots -> BOOLEAN] /\ counted \in [Slots -> Nat]
        /\ closed \in BOOLEAN /\ released \in BOOLEAN /\ stale \in BOOLEAN
    BY DEF Init, NoValue
  <2>6. outcome \in [Tasks -> Outcomes]
    BY DEF Init, Outcomes
  <2> QED BY <2>4, <2>5, <2>6 DEF ChannelType
<1>2. PICK q : q = EmptyQueue
  OBVIOUS
<1>3. Sound(q)
  <2>1. /\ q.head = 0 /\ q.tail = 0 /\ q.on = {} /\ q.count = 0
        /\ q.next = [s \in Slots |-> 0] /\ q \in Queues
    BY <1>2 DEF EmptyQueue, Queues
  <2>2. Tallied(q)
    BY <2>1, FS_EmptySet DEF Tallied
  <2>3. <<>> \in Seq(Tasks) /\ IsInjective(<<>>) /\ Len(<<>>) = 0
    BY DEF IsInjective
  <2>4. 0 \in 0..(nextTask - 1) /\ TaskSlot(0) = NoSlot /\ 0 \in 0..MaxTask
    BY ChannelAssumption DEF Init, TaskSlot, Tasks
  <2>5. Chain(q, <<>>, 0)
    BY <2>1, <2>3, <2>4 DEF Chain
  <2> QED BY <2>1, <2>2, <2>3, <2>4, <2>5 DEF Sound, Linked
<1>4. Sound(sendq) /\ Sound(recvq)
  BY <1>2, <1>3 DEF Init
<1>5. ValuesLeft /\ ReceiversFirst /\ ReleasedClosed
  BY DEF Init, EmptyQueue, ValuesLeft, ReceiversFirst, ReleasedClosed
<1>6. WakesCounted
  <2>1. Wakeups = {}
    BY DEF Init, Wakeups
  <2> QED BY <2>1, FS_EmptySet DEF Init, WakesCounted
<1> QED BY <1>1, <1>4, <1>5, <1>6 DEF BlockInv

-----------------------------------------------------------------------------
(* Until a wait is resumed by the deadlock wake alone.                     *)

\* The two lines of tasks, and what is known of them.
LEMMA LineFacts ==
    ASSUME TaskInv, NEW q, Sound(q), NEW w, Line(q, w)
    PROVE  /\ w \in Seq(Tasks) /\ Len(w) \in Nat /\ IsInjective(w)
           /\ DOMAIN w = 1..Len(w) /\ Range(w) = {w[i] : i \in 1..Len(w)}
           /\ Range(w) \subseteq Live /\ Range(w) \subseteq Tasks
           /\ q.on = {slotOf[w[i]] : i \in 1..Len(w)}
           /\ \A i \in 1..Len(w) : w[i] \in Live /\ slotOf[w[i]] \in Slots
           /\ \A i, j \in 1..Len(w) : slotOf[w[i]] = slotOf[w[j]] => i = j
           /\ \A t \in Live : slotOf[t] \in q.on <=> t \in Range(w)
           /\ q.count = Len(w) /\ (q.count = 0 <=> w = <<>>)
           /\ CanPop(q) <=> w # <<>>
           /\ w # <<>> => q.head = w[1]
           /\ Chain(q, w, 0) /\ q \in Queues /\ Tallied(q)
<1>1. /\ Chain(q, w, 0) /\ q \in Queues /\ Tallied(q) /\ q.count = Len(w)
      /\ \A s \in q.on : \E i \in 1..Len(w) : s = slotOf[w[i]]
  BY DEF Line, Sound
<1>2. /\ w \in Seq(Tasks) /\ Len(w) \in 0..TaskCapacity /\ IsInjective(w)
      /\ DOMAIN w = 1..Len(w) /\ Range(w) = {w[i] : i \in 1..Len(w)}
      /\ \A i \in 1..Len(w) :
            /\ w[i] \in Tasks /\ w[i] \in Live /\ TaskSlot(w[i]) = slotOf[w[i]]
            /\ slotOf[w[i]] \in Slots /\ slotOf[w[i]] # NoSlot
      /\ \A i, j \in 1..Len(w) : slotOf[w[i]] = slotOf[w[j]] => i = j
      /\ \A t \in Live : \A i \in 1..Len(w) :
            slotOf[t] = slotOf[w[i]] => t = w[i]
  BY <1>1, ChainFacts
<1>3. q.head = IF w = <<>> THEN 0 ELSE w[1]
  BY <1>1 DEF Chain
<1>4. \A i \in 1..Len(w) : slotOf[w[i]] \in q.on
  BY <1>1 DEF Chain
<1>5. q.on = {slotOf[w[i]] : i \in 1..Len(w)}
  BY <1>1, <1>4
<1>6. \A t \in Live : slotOf[t] \in q.on <=> t \in Range(w)
  BY <1>2, <1>5
<1>7. Len(w) \in Nat /\ (Len(w) = 0 <=> w = <<>>)
  BY <1>2
<1>8. CanPop(q) <=> w # <<>>
  <2>1. CASE w = <<>>
    BY <2>1, <1>3 DEF CanPop
  <2>2. CASE w # <<>>
    <3>1. 1 \in 1..Len(w)
      BY <2>2, <1>7
    <3> QED BY <2>2, <3>1, <1>2, <1>3 DEF CanPop, Tasks
  <2> QED BY <2>1, <2>2
<1> QED BY <1>1, <1>2, <1>3, <1>5, <1>6, <1>7, <1>8

\* The values of the parked senders.
LEMMA ValuesType ==
    ASSUME TaskInv, BlockInv, NEW ws, Line(sendq, ws)
    PROVE  /\ Values(ws) \in Seq(1..(nextValue - 1)) /\ Len(Values(ws)) = Len(ws)
           /\ \A i \in 1..Len(ws) : Values(ws)[i] = sendValue[slotOf[ws[i]]]
<1>1. Sound(sendq) /\ ValuesLeft
  BY BlockFacts
<1>2. /\ Len(ws) \in Nat /\ sendq.on = {slotOf[ws[i]] : i \in 1..Len(ws)}
  BY <1>1, LineFacts
<1>3. \A i \in 1..Len(ws) : sendValue[slotOf[ws[i]]] \in 1..(nextValue - 1)
  BY <1>1, <1>2 DEF ValuesLeft
<1>4. PICK S : S = 1..(nextValue - 1)
  OBVIOUS
<1>5. Values(ws) \in [1..Len(ws) -> S]
  BY <1>3, <1>4 DEF Values
<1>6. Values(ws) \in Seq(S) /\ Len(Values(ws)) = Len(ws)
  BY <1>2, <1>5
<1> QED BY <1>4, <1>6 DEF Values

\* A step that touches neither the control block nor who awaits what.
LEMMA ExactLife ==
    ASSUME TaskInv, BlockInv, NEW ws \in Seq(Tasks), NEW wr \in Seq(Tasks),
           Line(sendq, ws), Line(recvq, wr), Line(sendq, ws)', Line(recvq, wr)',
           Standing(ws, wr), SlotsHold(ws, wr), Flow(ws),
           UNCHANGED <<op, buffer, closed, owner, waits, nextValue, admitted,
                       matched, received>>,
           \A t \in Tasks : op[t] # "none" =>
              /\ slotOf'[t] = slotOf[t]
              /\ \A k \in {"send", "recv"} : /\ Waits(t, k) => Waits(t, k)'
                                             /\ Served(t, k) => Served(t, k)'
    PROVE  Exact'
<1>0. UNCHANGED <<op, buffer, closed, capacity, sendValue, rendezvous,
                  completed, counted, nextValue, admitted, matched, received>>
  BY DEF owner, waits
<1>1. Range(ws) \subseteq Tasks /\ Range(wr) \subseteq Tasks
  BY BlockFacts, LineFacts
<1>2. Standing(ws, wr)'
  <2>1. \A t \in Range(ws) : Waits(t, "send")'
    BY <1>1 DEF Standing, Waits
  <2>2. \A t \in Range(wr) : Waits(t, "recv")'
    BY <1>1 DEF Standing, Waits
  <2>3. ASSUME NEW t \in Tasks, op'[t] = "send", t \notin Range(ws)
        PROVE  /\ Served(t, "send")'
               /\ completed'[slotOf'[t]] \/ (closed' /\ counted'[slotOf'[t]] # 0)
    <3>1. /\ op[t] = "send" /\ Served(t, "send")
          /\ completed[slotOf[t]] \/ (closed /\ counted[slotOf[t]] # 0)
      BY <2>3, <1>0 DEF Standing
    <3>2. slotOf'[t] = slotOf[t] /\ Served(t, "send")'
      BY <3>1
    <3> QED BY <3>1, <3>2, <1>0
  <2>4. ASSUME NEW t \in Tasks, op'[t] = "recv", t \notin Range(wr)
        PROVE  /\ Served(t, "recv")'
               /\ rendezvous'[slotOf'[t]] # NoValue
                  \/ (closed' /\ counted'[slotOf'[t]] # 0)
    <3>1. /\ op[t] = "recv" /\ Served(t, "recv")
          /\ rendezvous[slotOf[t]] # NoValue
             \/ (closed /\ counted[slotOf[t]] # 0)
      BY <2>4, <1>0 DEF Standing
    <3>2. slotOf'[t] = slotOf[t] /\ Served(t, "recv")'
      BY <3>1
    <3> QED BY <3>1, <3>2, <1>0
  <2>5. closed' => ws = <<>> /\ wr = <<>>
    BY <1>0 DEF Standing
  <2> QED BY <2>1, <2>2, <2>3, <2>4, <2>5 DEF Standing
<1>3. SlotsHold(ws, wr)'
  <2>1. ASSUME NEW s \in Slots, completed'[s]
        PROVE  \E t \in Tasks :
                  slotOf'[t] = s /\ op'[t] = "send" /\ t \notin Range(ws)
    BY <2>1, <1>0 DEF SlotsHold
  <2>2. ASSUME NEW s \in Slots, rendezvous'[s] # NoValue
        PROVE  \E t \in Tasks :
                  slotOf'[t] = s /\ op'[t] = "recv" /\ t \notin Range(wr)
    BY <2>2, <1>0 DEF SlotsHold
  <2>3. ASSUME NEW s \in Slots, counted'[s] # 0
        PROVE  /\ counted'[s] = 1
               /\ \E t \in Tasks : /\ slotOf'[t] = s /\ op'[t] # "none"
                                   /\ t \notin Range(ws) /\ t \notin Range(wr)
    BY <2>3, <1>0 DEF SlotsHold
  <2> QED BY <2>1, <2>2, <2>3 DEF SlotsHold
<1>4. Values(ws)' = Values(ws)
  <2>1. Range(ws) = {ws[i] : i \in 1..Len(ws)}
    BY BlockFacts, LineFacts
  <2>2. \A i \in 1..Len(ws) : ws[i] \in Tasks /\ op[ws[i]] = "send"
    BY <2>1, <1>1 DEF Standing, Waits
  <2> QED BY <2>2, <1>0 DEF Values
<1>5. LeftSlots' = LeftSlots /\ LeftValues' = LeftValues
  BY <1>0 DEF LeftSlots, LeftValues
<1>6. Flow(ws)'
  BY <1>0, <1>4, <1>5 DEF Flow
<1> QED BY <1>2, <1>3, <1>6 DEF Exact

\* The lines of the two queues, by name.
LEMMA ExactFacts ==
    ASSUME ChannelInv, ~stale
    PROVE  /\ TaskInv /\ BlockInv /\ Sound(sendq) /\ Sound(recvq)
           /\ Told /\ (released => Unawaited)
           /\ \E ws \in Seq(Tasks), wr \in Seq(Tasks) :
                 /\ Line(sendq, ws) /\ Line(recvq, wr)
                 /\ Standing(ws, wr) /\ SlotsHold(ws, wr) /\ Flow(ws)
BY BlockFacts DEF ChannelInv, Exact

\* Lines stay while no record is added or given back.
LEMMA LinePut ==
    ASSUME NEW q, NEW w, Line(q, w), UNCHANGED <<slotOf, nextTask>>
    PROVE  (sendq' = q => Line(sendq, w)') /\ (recvq' = q => Line(recvq, w)')
<1>1. Line(q, w)'
  BY LineStays
<1> QED BY <1>1, LineNamed

LEMMA LifeExact ==
    ASSUME ChannelInv, ~stale,
           \/ Dispatch \/ WakeDeadlockedTasks
           \/ \E t \in Tasks : Yield(t) \/ Finish(t)
    PROVE  Exact'
<1>0. /\ TaskInv /\ BlockInv /\ Sound(sendq) /\ Sound(recvq)
      /\ TaskType /\ TaskLife /\ ReadyOnce
  BY ExactFacts, TaskFacts
<1>1. PICK ws \in Seq(Tasks), wr \in Seq(Tasks) :
          /\ Line(sendq, ws) /\ Line(recvq, wr)
          /\ Standing(ws, wr) /\ SlotsHold(ws, wr) /\ Flow(ws)
  BY ExactFacts
<1>2. UNCHANGED <<slotOf, nextTask, op, buffer, closed, owner, waits, sendq,
                  recvq, nextValue, admitted, matched, received>>
  BY DEF Dispatch, WakeDeadlockedTasks, Yield, Finish, history, waits
<1>3. PICK q, r : q = sendq /\ r = recvq
  OBVIOUS
<1>4. Line(sendq, ws)' /\ Line(recvq, wr)'
  BY <1>1, <1>2, <1>3, LinePut
<1>5. ASSUME NEW t \in Tasks, op[t] # "none", NEW k \in {"send", "recv"}
      PROVE  (Waits(t, k) => Waits(t, k)') /\ (Served(t, k) => Served(t, k)')
  <2>0. op' = op /\ (state[t] = "ChannelBlocked" => onChannel[t])
    BY <1>0, <1>2 DEF TaskLife
  <2>1. CASE Dispatch
    <3>1. Head(ready) \in Tasks /\ state[Head(ready)] = "Ready"
      <4>1. ready \in Seq(Tasks) /\ ready # <<>> /\ Range(ready) = Runnable
        BY <2>1, <1>0 DEF Dispatch, TaskType, ReadyOnce
      <4>2. Head(ready) \in Range(ready)
        BY <4>1, TailOnce
      <4> QED BY <4>1, <4>2 DEF Runnable
    <3>2. /\ state' = [state EXCEPT ![Head(ready)] = "Running"]
          /\ UNCHANGED <<waitResult, onChannel>>
      BY <2>1 DEF Dispatch
    <3>3. state'[t] = state[t] \/ (state[t] = "Ready" /\ state'[t] = "Running")
      BY <3>1, <3>2, <1>0 DEF TaskType
    <3> QED BY <2>0, <3>2, <3>3 DEF Waits, Served
  <2>2. CASE WakeDeadlockedTasks
    <3>1. PICK V : V = {u \in Tasks : state[u] = "ChannelBlocked"}
      OBVIOUS
    <3>2. /\ state' = SetOf(state, V, "Ready") /\ UNCHANGED onChannel
          /\ waitResult' = SetOf(waitResult, V, "TaskDeadlock")
      BY <2>2, <3>1 DEF WakeDeadlockedTasks
    <3>3. CASE t \in V
      <4>1. state'[t] = "Ready" /\ waitResult'[t] = "TaskDeadlock"
            /\ state[t] = "ChannelBlocked"
        BY <3>1, <3>2, <3>3 DEF SetOf
      <4> QED BY <2>0, <3>2, <4>1 DEF Waits, Served
    <3>4. CASE t \notin V
      <4>1. state'[t] = state[t] /\ waitResult'[t] = waitResult[t]
        BY <3>2, <3>4 DEF SetOf
      <4> QED BY <2>0, <3>2, <4>1 DEF Waits, Served
    <3> QED BY <3>3, <3>4
  <2>3. ASSUME NEW u \in Tasks, Yield(u) \/ Finish(u)
        PROVE  (Waits(t, k) => Waits(t, k)') /\ (Served(t, k) => Served(t, k)')
    <3>1. op[u] = "none"
      BY <2>3 DEF Yield, Finish, Free
    <3>2. t # u
      BY <3>1, <1>5
    <3>3. /\ state'[t] = state[t] /\ waitResult'[t] = waitResult[t]
          /\ onChannel'[t] = onChannel[t]
      BY <2>3, <3>2, <1>0 DEF Yield, Finish, TaskType
    <3> QED BY <2>0, <3>3 DEF Waits, Served
  <2> QED BY <2>1, <2>2, <2>3
<1>6. \A t \in Tasks : op[t] # "none" =>
         /\ slotOf'[t] = slotOf[t]
         /\ \A k \in {"send", "recv"} : /\ Waits(t, k) => Waits(t, k)'
                                        /\ Served(t, k) => Served(t, k)'
  BY <1>2, <1>5
<1> QED BY <1>0, <1>1, <1>2, <1>4, <1>6, ExactLife

LEMMA SpawnExact == ASSUME ChannelInv, ~stale, Spawn, TaskInv' PROVE Exact'
<1>0. /\ TaskInv /\ BlockInv /\ Sound(sendq) /\ Sound(recvq)
      /\ TaskType /\ TaskLife
  BY ExactFacts, TaskFacts
<1>1. PICK ws \in Seq(Tasks), wr \in Seq(Tasks) :
          /\ Line(sendq, ws) /\ Line(recvq, wr)
          /\ Standing(ws, wr) /\ SlotsHold(ws, wr) /\ Flow(ws)
  BY ExactFacts
<1>2. UNCHANGED <<op, buffer, closed, owner, waits, sendq, recvq, nextValue,
                  admitted, matched, received, waitResult, onChannel>>
  BY DEF Spawn, history, waits
<1>3. PICK q, r : q = sendq /\ r = recvq
  OBVIOUS
<1>4. Line(q, ws)' /\ Line(r, wr)'
  BY <1>0, <1>1, <1>3, SpawnSound
<1>5. Line(sendq, ws)' /\ Line(recvq, wr)'
  BY <1>2, <1>3, <1>4, LineNamed
<1>6. nextTask \in Tasks /\ op[nextTask] = "none"
  BY <1>0 DEF Spawn, TaskLife, TaskType, Tasks
<1>7. ASSUME NEW t \in Tasks, op[t] # "none"
      PROVE  /\ slotOf'[t] = slotOf[t]
             /\ \A k \in {"send", "recv"} : /\ Waits(t, k) => Waits(t, k)'
                                            /\ Served(t, k) => Served(t, k)'
  <2>1. t # nextTask
    BY <1>6, <1>7
  <2>2. slotOf'[t] = slotOf[t] /\ state'[t] = state[t]
    BY <2>1, <1>0, <1>6 DEF Spawn, TaskType
  <2> QED BY <2>2, <1>2 DEF Waits, Served
<1> QED BY <1>0, <1>1, <1>2, <1>5, <1>7, ExactLife

LEMMA RetireExact ==
    ASSUME ChannelInv, ~stale, NEW t \in Tasks, Retire(t), TaskInv' PROVE Exact'
<1>0. /\ TaskInv /\ BlockInv /\ Sound(sendq) /\ Sound(recvq)
      /\ TaskType /\ TaskLife
  BY ExactFacts, TaskFacts
<1>1. PICK ws \in Seq(Tasks), wr \in Seq(Tasks) :
          /\ Line(sendq, ws) /\ Line(recvq, wr)
          /\ Standing(ws, wr) /\ SlotsHold(ws, wr) /\ Flow(ws)
  BY ExactFacts
<1>2. UNCHANGED <<op, buffer, closed, owner, waits, sendq, recvq, nextValue,
                  admitted, matched, received, waitResult, onChannel>>
  BY DEF Retire, history, waits
<1>3. PICK q, r : q = sendq /\ r = recvq
  OBVIOUS
<1>4. op[t] = "none"
  BY <1>0 DEF Retire, TaskLife, TaskType
<1>5. t \notin Range(ws) /\ t \notin Range(wr)
  BY <1>1, <1>4 DEF Standing, Waits
<1>6. Line(q, ws)' /\ Line(r, wr)'
  BY <1>0, <1>1, <1>3, <1>5, RetireSound
<1>7. Line(sendq, ws)' /\ Line(recvq, wr)'
  BY <1>2, <1>3, <1>6, LineNamed
<1>8. ASSUME NEW u \in Tasks, op[u] # "none"
      PROVE  /\ slotOf'[u] = slotOf[u]
             /\ \A k \in {"send", "recv"} : /\ Waits(u, k) => Waits(u, k)'
                                            /\ Served(u, k) => Served(u, k)'
  <2>1. u # t
    BY <1>4, <1>8
  <2>2. slotOf'[u] = slotOf[u] /\ state'[u] = state[u]
    BY <2>1, <1>0 DEF Retire, TaskType
  <2> QED BY <2>2, <1>2 DEF Waits, Served
<1> QED BY <1>0, <1>1, <1>2, <1>7, <1>8, ExactLife

\* send on a closed channel, recv on a closed and drained one.
LEMMA ClosedExact ==
    ASSUME ChannelInv, ~stale, NEW t \in Tasks, SendClosed(t) \/ RecvClosed(t)
    PROVE  Exact'
<1>0. TaskInv /\ BlockInv
  BY ExactFacts
<1>1. PICK ws \in Seq(Tasks), wr \in Seq(Tasks) :
          /\ Line(sendq, ws) /\ Line(recvq, wr)
          /\ Standing(ws, wr) /\ SlotsHold(ws, wr) /\ Flow(ws)
  BY ExactFacts
<1>2. UNCHANGED <<slotOf, nextTask, state, op, buffer, closed, owner, waits,
                  sendq, recvq, nextValue, admitted, matched, received,
                  waitResult, onChannel>>
  BY DEF SendClosed, RecvClosed, tasks, waits
<1>3. PICK q, r : q = sendq /\ r = recvq
  OBVIOUS
<1>4. Line(sendq, ws)' /\ Line(recvq, wr)'
  BY <1>1, <1>2, <1>3, LinePut
<1>5. \A u \in Tasks : op[u] # "none" =>
         /\ slotOf'[u] = slotOf[u]
         /\ \A k \in {"send", "recv"} : /\ Waits(u, k) => Waits(u, k)'
                                        /\ Served(u, k) => Served(u, k)'
  BY <1>2 DEF Waits, Served
<1> QED BY <1>0, <1>1, <1>2, <1>4, <1>5, ExactLife

\* What lies in a live task's slot is its own.
LEMMA SlotOwner ==
    ASSUME TaskInv, ChannelType, NEW ws, NEW wr, SlotsHold(ws, wr), NEW t \in Live
    PROVE  /\ completed[slotOf[t]] => op[t] = "send" /\ t \notin Range(ws)
           /\ rendezvous[slotOf[t]] # NoValue =>
                 op[t] = "recv" /\ t \notin Range(wr)
           /\ counted[slotOf[t]] # 0 =>
                 /\ counted[slotOf[t]] = 1 /\ op[t] # "none"
                 /\ t \notin Range(ws) /\ t \notin Range(wr)
<1>1. slotOf[t] \in Slots /\ slotOf[t] # NoSlot
  BY LiveSlot
<1>2. ASSUME NEW u \in Tasks, slotOf[u] = slotOf[t] PROVE u = t
  <2>1. u \in Live
    BY <1>1, <1>2 DEF Live
  <2> QED BY <2>1, <1>2, LiveSlot
<1> QED BY <1>1, <1>2 DEF SlotsHold

\* The tasks taken out of the two lines by a step.
Taken(ws, wr, xs, xr) ==
    (Range(ws) \ Range(xs)) \cup (Range(wr) \ Range(xr))

\* A step that takes tasks out of the lines and serves them.
LEMMA ServeStep ==
    ASSUME TaskInv, ChannelType, NEW ws, NEW wr, NEW xs, NEW xr, NEW W,
           W = Taken(ws, wr, xs, xr),
           Standing(ws, wr), SlotsHold(ws, wr),
           Range(xs) \subseteq Range(ws), Range(xr) \subseteq Range(wr),
           Range(ws) \subseteq Live, Range(wr) \subseteq Live,
           UNCHANGED <<slotOf, op, onChannel>>,
           \A u \in Tasks \ W : op[u] # "none" =>
              state'[u] = state[u] /\ waitResult'[u] = waitResult[u],
           \A u \in W : state'[u] # "ChannelBlocked" /\ waitResult'[u] = "Ok",
           \A u \in W : op[u] = "send" =>
              /\ completed'[slotOf[u]] \/ (closed' /\ counted'[slotOf[u]] # 0)
              /\ rendezvous'[slotOf[u]] = NoValue,
           \A u \in W : op[u] = "recv" =>
              /\ rendezvous'[slotOf[u]] # NoValue
                 \/ (closed' /\ counted'[slotOf[u]] # 0)
              /\ ~completed'[slotOf[u]],
           \A u \in W : counted'[slotOf[u]] \in {0, 1},
           \A s \in Slots : (\A u \in W : slotOf[u] # s) =>
              /\ completed'[s] = completed[s] /\ rendezvous'[s] = rendezvous[s]
              /\ counted'[s] = counted[s],
           closed => closed', closed' => xs = <<>> /\ xr = <<>>
    PROVE  Standing(xs, xr)' /\ SlotsHold(xs, xr)'
<1>0. TaskType
  BY TaskFacts
<1>1. W \subseteq Live /\ W \subseteq Tasks
  BY DEF Taken, Live
<1>2. /\ \A t \in Range(ws) : Waits(t, "send")
      /\ \A t \in Range(wr) : Waits(t, "recv")
  BY DEF Standing
<1>3. /\ \A t \in Range(ws) : op[t] = "send" /\ t \in Live /\ t \in Tasks
      /\ \A t \in Range(wr) : op[t] = "recv" /\ t \in Live /\ t \in Tasks
  BY <1>2 DEF Waits, Live
<1>4. /\ \A t \in Range(xs) : t \notin W
      /\ \A t \in Range(xr) : t \notin W
  BY <1>3 DEF Taken
<1>5. ASSUME NEW t \in Tasks, op[t] # "none", t \notin W
      PROVE  t \in Live /\ \A u \in W : slotOf[u] # slotOf[t]
  <2>1. t \in Live
    BY <1>5, RunLive, TaskFacts DEF TaskLife
  <2> QED BY <2>1, <1>1, <1>5, LiveSlot
<1>6. \A t \in Range(xs) : Waits(t, "send")'
  <2> SUFFICES ASSUME NEW t \in Range(xs) PROVE Waits(t, "send")'
    OBVIOUS
  <2>1. Waits(t, "send") /\ t \in Tasks /\ t \notin W /\ op[t] = "send"
    BY <1>2, <1>3, <1>4
  <2>2. state'[t] = state[t] /\ waitResult'[t] = waitResult[t]
    BY <2>1
  <2> QED BY <2>1, <2>2 DEF Waits
<1>7. \A t \in Range(xr) : Waits(t, "recv")'
  <2> SUFFICES ASSUME NEW t \in Range(xr) PROVE Waits(t, "recv")'
    OBVIOUS
  <2>1. Waits(t, "recv") /\ t \in Tasks /\ t \notin W /\ op[t] = "recv"
    BY <1>2, <1>3, <1>4
  <2>2. state'[t] = state[t] /\ waitResult'[t] = waitResult[t]
    BY <2>1
  <2> QED BY <2>1, <2>2 DEF Waits
<1>8. ASSUME NEW t \in Tasks, op[t] = "send", t \notin Range(xs)
      PROVE  /\ Served(t, "send")'
             /\ completed'[slotOf[t]] \/ (closed' /\ counted'[slotOf[t]] # 0)
  <2>1. CASE t \in W
    BY <2>1, <1>8 DEF Served
  <2>2. CASE t \notin W
    <3>1. t \notin Range(ws)
      BY <2>2, <1>8 DEF Taken
    <3>2. /\ Served(t, "send")
          /\ completed[slotOf[t]] \/ (closed /\ counted[slotOf[t]] # 0)
      BY <3>1, <1>8 DEF Standing
    <3>3. state'[t] = state[t] /\ waitResult'[t] = waitResult[t]
      BY <2>2, <1>8
    <3>4. t \in Live /\ \A u \in W : slotOf[u] # slotOf[t]
      BY <2>2, <1>5, <1>8
    <3>5. slotOf[t] \in Slots
      BY <3>4, LiveSlot
    <3>6. completed'[slotOf[t]] = completed[slotOf[t]]
          /\ counted'[slotOf[t]] = counted[slotOf[t]]
      BY <3>4, <3>5
    <3> QED BY <3>2, <3>3, <3>6 DEF Served
  <2> QED BY <2>1, <2>2
<1>9. ASSUME NEW t \in Tasks, op[t] = "recv", t \notin Range(xr)
      PROVE  /\ Served(t, "recv")'
             /\ rendezvous'[slotOf[t]] # NoValue
                \/ (closed' /\ counted'[slotOf[t]] # 0)
  <2>1. CASE t \in W
    BY <2>1, <1>9 DEF Served
  <2>2. CASE t \notin W
    <3>1. t \notin Range(wr)
      BY <2>2, <1>9 DEF Taken
    <3>2. /\ Served(t, "recv")
          /\ rendezvous[slotOf[t]] # NoValue \/ (closed /\ counted[slotOf[t]] # 0)
      BY <3>1, <1>9 DEF Standing
    <3>3. state'[t] = state[t] /\ waitResult'[t] = waitResult[t]
      BY <2>2, <1>9
    <3>4. t \in Live /\ \A u \in W : slotOf[u] # slotOf[t]
      BY <2>2, <1>5, <1>9
    <3>5. slotOf[t] \in Slots
      BY <3>4, LiveSlot
    <3>6. rendezvous'[slotOf[t]] = rendezvous[slotOf[t]]
          /\ counted'[slotOf[t]] = counted[slotOf[t]]
      BY <3>4, <3>5
    <3> QED BY <3>2, <3>3, <3>6 DEF Served
  <2> QED BY <2>1, <2>2
<1>10. Standing(xs, xr)'
  BY <1>6, <1>7, <1>8, <1>9 DEF Standing
<1>11. \A u \in W : op[u] \in {"send", "recv"} /\ u \in Tasks
                    /\ u \notin Range(xs) /\ u \notin Range(xr)
  BY <1>1, <1>3, <1>4 DEF Taken
<1>12. ASSUME NEW s \in Slots, completed'[s]
       PROVE  \E t \in Tasks : /\ slotOf[t] = s /\ op[t] = "send"
                               /\ t \notin Range(xs)
  <2>1. CASE \E u \in W : slotOf[u] = s
    BY <2>1, <1>11, <1>12
  <2>2. CASE ~(\E u \in W : slotOf[u] = s)
    BY <2>2, <1>12 DEF SlotsHold
  <2> QED BY <2>1, <2>2
<1>13. ASSUME NEW s \in Slots, rendezvous'[s] # NoValue
       PROVE  \E t \in Tasks : /\ slotOf[t] = s /\ op[t] = "recv"
                               /\ t \notin Range(xr)
  <2>1. CASE \E u \in W : slotOf[u] = s
    BY <2>1, <1>11, <1>13
  <2>2. CASE ~(\E u \in W : slotOf[u] = s)
    BY <2>2, <1>13 DEF SlotsHold
  <2> QED BY <2>1, <2>2
<1>14. ASSUME NEW s \in Slots, counted'[s] # 0
       PROVE  /\ counted'[s] = 1
              /\ \E t \in Tasks : /\ slotOf[t] = s /\ op[t] # "none"
                                  /\ t \notin Range(xs) /\ t \notin Range(xr)
  <2>1. CASE \E u \in W : slotOf[u] = s
    BY <2>1, <1>11, <1>14
  <2>2. CASE ~(\E u \in W : slotOf[u] = s)
    BY <2>2, <1>14 DEF SlotsHold
  <2> QED BY <2>1, <2>2
<1>15. SlotsHold(xs, xr)'
  BY <1>12, <1>13, <1>14 DEF SlotsHold
<1> QED BY <1>10, <1>15

\* A task parks at the end of a line.
LEMMA ParkStep ==
    ASSUME TaskInv, ChannelType, NEW ws \in Seq(Tasks), NEW wr \in Seq(Tasks),
           Standing(ws, wr), SlotsHold(ws, wr),
           NEW t \in Tasks, Free(t), NEW kind \in {"send", "recv"},
           Park(t, kind), ~closed,
           UNCHANGED <<closed, rendezvous, completed, counted>>,
           NEW xs, xs = (IF kind = "send" THEN Append(ws, t) ELSE ws),
           NEW xr, xr = (IF kind = "recv" THEN Append(wr, t) ELSE wr)
    PROVE  Standing(xs, xr)' /\ SlotsHold(xs, xr)'
<1>0. TaskType
  BY TaskFacts
<1>1. op[t] = "none" /\ state[t] = "Running"
  BY DEF Free
<1>2. /\ \A u \in Tasks : u # t => /\ state'[u] = state[u] /\ op'[u] = op[u]
                                   /\ waitResult'[u] = waitResult[u]
                                   /\ onChannel'[u] = onChannel[u]
      /\ state'[t] = "ChannelBlocked" /\ op'[t] = kind /\ slotOf' = slotOf
  BY <1>0 DEF Park, TaskType
<1>3. /\ \A u \in Range(ws) : Waits(u, "send") /\ u # t /\ u \in Tasks
      /\ \A u \in Range(wr) : Waits(u, "recv") /\ u # t /\ u \in Tasks
  <2>1. Range(ws) \subseteq Tasks /\ Range(wr) \subseteq Tasks
    BY RangeOfSeq
  <2> QED BY <2>1, <1>1 DEF Standing, Waits
<1>4. /\ Range(xs) = IF kind = "send" THEN Range(ws) \cup {t} ELSE Range(ws)
      /\ Range(xr) = IF kind = "recv" THEN Range(wr) \cup {t} ELSE Range(wr)
  <2>1. /\ Range(Append(ws, t)) = Range(ws) \cup {t}
        /\ Range(Append(wr, t)) = Range(wr) \cup {t}
    BY AppendOnce
  <2>2. CASE kind = "send"
    BY <2>1, <2>2
  <2>3. CASE kind = "recv"
    BY <2>1, <2>3
  <2> QED BY <2>2, <2>3
<1>5. \A u \in Range(xs) : Waits(u, "send")'
  BY <1>2, <1>3, <1>4 DEF Waits
<1>6. \A u \in Range(xr) : Waits(u, "recv")'
  BY <1>2, <1>3, <1>4 DEF Waits
<1>7. ASSUME NEW u \in Tasks, op'[u] = "send", u \notin Range(xs)
      PROVE  /\ Served(u, "send")'
             /\ completed'[slotOf'[u]] \/ (closed' /\ counted'[slotOf'[u]] # 0)
  <2>1. u # t /\ u \notin Range(ws)
    BY <1>2, <1>4, <1>7
  <2>2. op[u] = "send"
    BY <2>1, <1>2, <1>7
  <2>3. /\ Served(u, "send")
        /\ completed[slotOf[u]] \/ (closed /\ counted[slotOf[u]] # 0)
    BY <2>1, <2>2 DEF Standing
  <2> QED BY <2>1, <2>3, <1>2 DEF Served
<1>8. ASSUME NEW u \in Tasks, op'[u] = "recv", u \notin Range(xr)
      PROVE  /\ Served(u, "recv")'
             /\ rendezvous'[slotOf'[u]] # NoValue
                \/ (closed' /\ counted'[slotOf'[u]] # 0)
  <2>1. u # t /\ u \notin Range(wr)
    BY <1>2, <1>4, <1>8
  <2>2. op[u] = "recv"
    BY <2>1, <1>2, <1>8
  <2>3. /\ Served(u, "recv")
        /\ rendezvous[slotOf[u]] # NoValue \/ (closed /\ counted[slotOf[u]] # 0)
    BY <2>1, <2>2 DEF Standing
  <2> QED BY <2>1, <2>3, <1>2 DEF Served
<1>9. Standing(xs, xr)'
  BY <1>5, <1>6, <1>7, <1>8 DEF Standing
<1>10. ASSUME NEW s \in Slots, completed[s]
       PROVE  \E u \in Tasks :
                 slotOf'[u] = s /\ op'[u] = "send" /\ u \notin Range(xs)
  <2>1. PICK u \in Tasks : slotOf[u] = s /\ op[u] = "send" /\ u \notin Range(ws)
    BY <1>10 DEF SlotsHold
  <2> QED BY <2>1, <1>1, <1>2, <1>4
<1>11. ASSUME NEW s \in Slots, rendezvous[s] # NoValue
       PROVE  \E u \in Tasks :
                 slotOf'[u] = s /\ op'[u] = "recv" /\ u \notin Range(xr)
  <2>1. PICK u \in Tasks : slotOf[u] = s /\ op[u] = "recv" /\ u \notin Range(wr)
    BY <1>11 DEF SlotsHold
  <2> QED BY <2>1, <1>1, <1>2, <1>4
<1>12. ASSUME NEW s \in Slots, counted[s] # 0
       PROVE  /\ counted[s] = 1
              /\ \E u \in Tasks : /\ slotOf'[u] = s /\ op'[u] # "none"
                                  /\ u \notin Range(xs) /\ u \notin Range(xr)
  <2>1. PICK u \in Tasks : /\ slotOf[u] = s /\ op[u] # "none"
                           /\ u \notin Range(ws) /\ u \notin Range(wr)
    BY <1>12 DEF SlotsHold
  <2>2. counted[s] = 1
    BY <1>12 DEF SlotsHold
  <2> QED BY <2>1, <2>2, <1>1, <1>2, <1>4
<1>13. SlotsHold(xs, xr)'
  BY <1>10, <1>11, <1>12 DEF SlotsHold
<1> QED BY <1>9, <1>13

\* A task that was served goes on, and its slot is cleared.
LEMMA ResumeStep ==
    ASSUME TaskInv, ChannelType, NEW ws, NEW wr,
           Standing(ws, wr), SlotsHold(ws, wr), NEW t \in Live,
           op[t] # "none", t \notin Range(ws), t \notin Range(wr),
           op' = [op EXCEPT ![t] = "none"],
           UNCHANGED <<slotOf, state, waitResult, onChannel, closed>>,
           ~completed'[slotOf[t]], rendezvous'[slotOf[t]] = NoValue,
           counted'[slotOf[t]] = 0,
           \A s \in Slots : s # slotOf[t] =>
              /\ completed'[s] = completed[s] /\ rendezvous'[s] = rendezvous[s]
              /\ counted'[s] = counted[s]
    PROVE  Standing(ws, wr)' /\ SlotsHold(ws, wr)'
<1>0. TaskType
  BY TaskFacts
<1>1. \A u \in Tasks : op'[u] = IF u = t THEN "none" ELSE op[u]
  BY <1>0 DEF TaskType
<1>2. op' \in [Tasks -> {"none", "send", "recv"}]
  BY <1>0 DEF TaskType
<1>3. ASSUME NEW u, op[u] # "none", u \in Tasks, u # t
      PROVE  slotOf[u] \in Slots /\ slotOf[u] # slotOf[t]
  <2>1. u \in Live
    BY <1>3, RunLive, TaskFacts DEF TaskLife
  <2> QED BY <2>1, <1>3, LiveSlot
<1>4. /\ \A u \in Range(ws) : Waits(u, "send")'
      /\ \A u \in Range(wr) : Waits(u, "recv")'
  <2>1. /\ \A u \in Range(ws) : Waits(u, "send") /\ op[u] = "send" /\ u # t
        /\ \A u \in Range(wr) : Waits(u, "recv") /\ op[u] = "recv" /\ u # t
    BY DEF Standing, Waits
  <2>2. \A u : u # t => op'[u] = op[u]
    BY <1>0 DEF TaskType
  <2> QED BY <2>1, <2>2 DEF Waits
<1>5. ASSUME NEW u \in Tasks, op'[u] = "send", u \notin Range(ws)
      PROVE  /\ Served(u, "send")'
             /\ completed'[slotOf'[u]] \/ (closed' /\ counted'[slotOf'[u]] # 0)
  <2>1. u # t /\ op[u] = "send"
    BY <1>1, <1>5
  <2>2. /\ Served(u, "send")
        /\ completed[slotOf[u]] \/ (closed /\ counted[slotOf[u]] # 0)
    BY <2>1, <1>5 DEF Standing
  <2>3. slotOf[u] \in Slots /\ slotOf[u] # slotOf[t]
    BY <2>1, <1>3
  <2> QED BY <2>1, <2>2, <2>3, <1>5 DEF Served
<1>6. ASSUME NEW u \in Tasks, op'[u] = "recv", u \notin Range(wr)
      PROVE  /\ Served(u, "recv")'
             /\ rendezvous'[slotOf'[u]] # NoValue
                \/ (closed' /\ counted'[slotOf'[u]] # 0)
  <2>1. u # t /\ op[u] = "recv"
    BY <1>1, <1>6
  <2>2. /\ Served(u, "recv")
        /\ rendezvous[slotOf[u]] # NoValue \/ (closed /\ counted[slotOf[u]] # 0)
    BY <2>1, <1>6 DEF Standing
  <2>3. slotOf[u] \in Slots /\ slotOf[u] # slotOf[t]
    BY <2>1, <1>3
  <2> QED BY <2>1, <2>2, <2>3, <1>6 DEF Served
<1>7. Standing(ws, wr)'
  <2>1. closed' => ws = <<>> /\ wr = <<>>
    BY DEF Standing
  <2> QED BY <2>1, <1>4, <1>5, <1>6 DEF Standing
<1>8. ASSUME NEW s \in Slots, completed'[s]
      PROVE  \E u \in Tasks :
                slotOf'[u] = s /\ op'[u] = "send" /\ u \notin Range(ws)
  <2>1. s # slotOf[t]
    BY <1>8
  <2>2. completed[s]
    BY <2>1, <1>8
  <2>3. PICK u \in Tasks : slotOf[u] = s /\ op[u] = "send" /\ u \notin Range(ws)
    BY <2>2 DEF SlotsHold
  <2> QED BY <2>1, <2>3, <1>1
<1>9. ASSUME NEW s \in Slots, rendezvous'[s] # NoValue
      PROVE  \E u \in Tasks :
                slotOf'[u] = s /\ op'[u] = "recv" /\ u \notin Range(wr)
  <2>1. s # slotOf[t]
    BY <1>9
  <2>2. rendezvous[s] # NoValue
    BY <2>1, <1>9
  <2>3. PICK u \in Tasks : slotOf[u] = s /\ op[u] = "recv" /\ u \notin Range(wr)
    BY <2>2 DEF SlotsHold
  <2> QED BY <2>1, <2>3, <1>1
<1>10. ASSUME NEW s \in Slots, counted'[s] # 0
       PROVE  /\ counted'[s] = 1
              /\ \E u \in Tasks : /\ slotOf'[u] = s /\ op'[u] # "none"
                                  /\ u \notin Range(ws) /\ u \notin Range(wr)
  <2>1. s # slotOf[t]
    BY <1>10
  <2>2. counted[s] # 0 /\ counted'[s] = counted[s]
    BY <2>1, <1>10
  <2>3. PICK u \in Tasks : /\ slotOf[u] = s /\ op[u] # "none"
                           /\ u \notin Range(ws) /\ u \notin Range(wr)
    BY <2>2 DEF SlotsHold
  <2>4. counted[s] = 1
    BY <2>2 DEF SlotsHold
  <2> QED BY <2>1, <2>2, <2>3, <2>4, <1>1
<1>11. SlotsHold(ws, wr)'
  BY <1>8, <1>9, <1>10 DEF SlotsHold
<1> QED BY <1>7, <1>11

-----------------------------------------------------------------------------
(* The values on their way.                                                *)

\* The parts of the flow share no value.
LEMMA FlowFacts ==
    ASSUME TaskInv, BlockInv, NEW ws, Line(sendq, ws), Flow(ws),
           NEW V, V = 1..(nextValue - 1)
    PROVE  /\ V \subseteq Nat /\ nextValue \in Nat /\ nextValue \notin V
           /\ NoValue \notin V
           /\ matched \in Seq(V) /\ buffer \in Seq(V) /\ Values(ws) \in Seq(V)
           /\ matched \o buffer \in Seq(V) /\ admitted \in Seq(V)
           /\ admitted = (matched \o buffer) \o Values(ws)
           /\ IsInjective(admitted)
           /\ IsInjective(matched) /\ IsInjective(buffer)
           /\ IsInjective(matched \o buffer) /\ IsInjective(Values(ws))
           /\ Range(matched) \subseteq V /\ Range(buffer) \subseteq V
           /\ Range(admitted) \subseteq V
           /\ Range(matched \o buffer) = Range(matched) \cup Range(buffer)
           /\ Range(matched) \cap Range(buffer) = {}
           /\ Range(matched \o buffer) \cap Range(Values(ws)) = {}
           /\ received \subseteq V /\ LeftValues \subseteq V
<1>1. ChannelType
  BY BlockFacts
<1>2. V \subseteq Nat /\ nextValue \in Nat /\ nextValue \notin V /\ NoValue \notin V
  BY <1>1 DEF ChannelType, NoValue
<1>3. matched \in Seq(V) /\ buffer \in Seq(V)
  BY <1>1 DEF ChannelType, Flow
<1>4. Values(ws) \in Seq(V)
  BY ValuesType
<1>5. PICK m, b, v : m = matched /\ b = buffer /\ v = Values(ws)
  OBVIOUS
<1>6. m \in Seq(V) /\ b \in Seq(V) /\ v \in Seq(V)
  BY <1>3, <1>4, <1>5
<1>7. m \o b \in Seq(V) /\ Range(m \o b) = Range(m) \cup Range(b)
  BY <1>6, ConcatOnce
<1>8. (m \o b) \o v \in Seq(V)
  BY <1>6, <1>7, ConcatOnce
<1>9. admitted = (m \o b) \o v /\ IsInjective(admitted)
  BY <1>5 DEF Flow
<1>10. IsInjective(m \o b) /\ IsInjective(v) /\ Range(m \o b) \cap Range(v) = {}
  BY <1>6, <1>7, <1>9, SplitOnce
<1>11. IsInjective(m) /\ IsInjective(b) /\ Range(m) \cap Range(b) = {}
  BY <1>6, <1>10, SplitOnce
<1>12. Range(m) \subseteq V /\ Range(b) \subseteq V /\ Range(admitted) \subseteq V
  BY <1>6, <1>8, <1>9, RangeOfSeq
<1>13. Range(matched) = received \cup LeftValues
  BY DEF Flow
<1> QED BY <1>2, <1>5, <1>6, <1>7, <1>8, <1>9, <1>10, <1>11, <1>12, <1>13

\* A value is sent: the parts over one more number.
LEMMA FlowSent ==
    ASSUME TaskInv, BlockInv, NEW ws, Line(sendq, ws), Flow(ws),
           nextValue' = nextValue + 1,
           NEW V, V = 1..(nextValue - 1), NEW X, X = 1..(nextValue' - 1)
    PROVE  /\ V \subseteq X /\ nextValue \in X /\ nextValue' - 1 = nextValue
           /\ nextValue \notin V /\ nextValue # NoValue /\ nextValue \in Nat
           /\ matched \in Seq(X) /\ buffer \in Seq(X) /\ Values(ws) \in Seq(X)
           /\ matched \o buffer \in Seq(X) /\ admitted \in Seq(X)
           /\ Append(admitted, nextValue) \in Seq(X)
           /\ IsInjective(Append(admitted, nextValue))
<1>1. /\ V \subseteq X /\ nextValue \in X /\ nextValue' - 1 = nextValue
      /\ nextValue \notin V /\ nextValue # NoValue /\ nextValue \in Nat
  BY BlockFacts, NextValue
<1>2. /\ matched \in Seq(V) /\ buffer \in Seq(V) /\ Values(ws) \in Seq(V)
      /\ matched \o buffer \in Seq(V) /\ admitted \in Seq(V)
      /\ IsInjective(admitted) /\ Range(admitted) \subseteq V
  BY FlowFacts
<1>3. /\ matched \in Seq(X) /\ buffer \in Seq(X) /\ Values(ws) \in Seq(X)
      /\ matched \o buffer \in Seq(X) /\ admitted \in Seq(X)
  BY <1>1, <1>2, SeqMonotonic
<1>4. nextValue \notin Range(admitted)
  BY <1>1, <1>2
<1>5. PICK a, n : a = admitted /\ n = nextValue
  OBVIOUS
<1>6. Append(a, n) \in Seq(X) /\ IsInjective(Append(a, n))
  BY <1>1, <1>2, <1>3, <1>4, <1>5, AppendOnce
<1> QED BY <1>1, <1>3, <1>5, <1>6

\* An empty line of senders.
LEMMA NoValues == Values(<<>>) = <<>> /\ Values(<<>>)' = <<>>
BY DEF Values

\* What waking one task does: it was waiting, and not running.
LEMMA WakeOne ==
    ASSUME TaskInv, NEW h \in Tasks, NEW k, Waits(h, k), cur # h,
           WakeChannel(<<h>>)
    PROVE  /\ state'[h] # "ChannelBlocked" /\ waitResult'[h] = "Ok"
           /\ \A u \in Tasks : u # h =>
                 state'[u] = state[u] /\ waitResult'[u] = waitResult[u]
<1>0. TaskType /\ TaskLife
  BY TaskFacts
<1>1. PICK ts : ts = <<h>>
  OBVIOUS
<1>2. Range(ts) = {h}
  BY <1>1, OneOnce
<1>3. /\ state' = SetOf(state, WokenOf(Range(ts)), "Ready")
      /\ waitResult' = SetOf(waitResult, WokenOf(Range(ts))
                                         \cup PendingOf(Range(ts)), "Ok")
  BY <1>1, WakeEffects
<1>4. state[h] # "Running"
  BY <1>0 DEF TaskLife
<1>5. h \in WokenOf({h}) \/ h \in PendingOf({h})
  BY <1>4 DEF Waits, WokenOf, PendingOf
<1>6. waitResult'[h] = "Ok"
  BY <1>2, <1>3, <1>5 DEF SetOf
<1>7. state'[h] # "ChannelBlocked"
  BY <1>2, <1>3 DEF SetOf, WokenOf
<1>8. ASSUME NEW u \in Tasks, u # h
      PROVE  state'[u] = state[u] /\ waitResult'[u] = waitResult[u]
  BY <1>2, <1>3, <1>8 DEF SetOf, WokenOf, PendingOf
<1> QED BY <1>6, <1>7, <1>8

\* The first of a line leaves it.
LEMMA FirstTaken ==
    ASSUME NEW w \in Seq(Tasks), IsInjective(w), w # <<>>, NEW v, v = Tail(w)
    PROVE  /\ v \in Seq(Tasks) /\ Range(w) \ Range(v) = {w[1]}
           /\ Range(v) \subseteq Range(w) /\ w[1] \in Range(w)
           /\ Head(w) = w[1]
<1>1. /\ Head(w) \in Tasks /\ Tail(w) \in Seq(Tasks) /\ Head(w) \in Range(w)
      /\ Range(w) = Range(Tail(w)) \cup {Head(w)}
      /\ Head(w) \notin Range(Tail(w))
  BY TailOnce
<1>2. Head(w) = w[1]
  OBVIOUS
<1> QED BY <1>1, <1>2

LEMMA SendToReceiverExact ==
    ASSUME ChannelInv, ~stale, NEW t \in Tasks, SendToReceiver(t)
    PROVE  Exact'
<1>0. /\ TaskInv /\ BlockInv /\ Sound(sendq) /\ Sound(recvq) /\ ChannelType
      /\ ReceiversFirst /\ TaskType
  BY ExactFacts, BlockFacts, TaskFacts
<1>1. PICK ws \in Seq(Tasks), wr \in Seq(Tasks) :
          /\ Line(sendq, ws) /\ Line(recvq, wr)
          /\ Standing(ws, wr) /\ SlotsHold(ws, wr) /\ Flow(ws)
  BY ExactFacts
<1>2. /\ (sendq.count = 0 <=> ws = <<>>) /\ Range(ws) \subseteq Live
      /\ (recvq.count = 0 <=> wr = <<>>)
      /\ IsInjective(wr) /\ Range(wr) \subseteq Live /\ Range(wr) \subseteq Tasks
      /\ (CanPop(recvq) <=> wr # <<>>)
      /\ recvq \in Queues /\ (wr # <<>> => recvq.head = wr[1])
  BY <1>0, <1>1, LineFacts
<1>3. /\ Free(t) /\ ~closed /\ recvq.count # 0
      /\ admitted' = Append(admitted, nextValue) /\ nextValue' = nextValue + 1
      /\ UNCHANGED <<slotOf, onChannel, op, nextTask, buffer, closed, capacity,
                     sendq, sendValue, completed, counted, received>>
  BY DEF SendToReceiver, Start, owner
<1>4. wr # <<>> /\ CanPop(recvq) /\ buffer = <<>> /\ ws = <<>>
  BY <1>0, <1>2, <1>3 DEF ReceiversFirst
<1>5. PICK h : h = wr[1]
  OBVIOUS
<1>6. /\ rendezvous' = [rendezvous EXCEPT ![TaskSlot(h)] = nextValue]
      /\ WakeChannel(<<h>>) /\ recvq' = PopWaiter(recvq)
      /\ matched' = Append(matched, nextValue)
  BY <1>2, <1>4, <1>5 DEF SendToReceiver
<1>7. PICK v, q, r : v = Tail(wr) /\ q = sendq /\ r = recvq'
  OBVIOUS
<1>8. /\ v \in Seq(Tasks) /\ Range(wr) \ Range(v) = {h}
      /\ Range(v) \subseteq Range(wr) /\ h \in Range(wr)
  BY <1>1, <1>2, <1>4, <1>5, <1>7, FirstTaken
<1>9. h \in Live /\ h \in Tasks /\ Waits(h, "recv") /\ op[h] = "recv"
  BY <1>1, <1>2, <1>8 DEF Standing, Waits
<1>10. Line(r, v)
  BY <1>0, <1>1, <1>2, <1>4, <1>6, <1>7, PopLine
<1>11. Line(sendq, ws)' /\ Line(recvq, v)'
  BY <1>1, <1>3, <1>7, <1>10, LinePut
<1>12. TaskSlot(h) = slotOf[h] /\ slotOf[h] \in Slots
  BY <1>0, <1>9, LiveSlot
<1>13. /\ rendezvous[slotOf[h]] = NoValue /\ ~completed[slotOf[h]]
       /\ counted[slotOf[h]] = 0
  BY <1>0, <1>1, <1>8, <1>9, SlotOwner
<1>14. cur # h
  BY <1>3, <1>9 DEF Free
<1>15. /\ state'[h] # "ChannelBlocked" /\ waitResult'[h] = "Ok"
       /\ \A u \in Tasks : u # h =>
             state'[u] = state[u] /\ waitResult'[u] = waitResult[u]
  BY <1>0, <1>6, <1>9, <1>14, WakeOne
<1>16. rendezvous \in [Slots -> Nat]
  BY <1>0 DEF ChannelType
<1>17. PICK V, X : V = 1..(nextValue - 1) /\ X = 1..(nextValue' - 1)
  OBVIOUS
<1>18. /\ nextValue \notin V /\ nextValue # NoValue /\ nextValue \in Nat
       /\ matched \in Seq(X) /\ buffer \in Seq(X) /\ nextValue \in X
       /\ Append(admitted, nextValue) \in Seq(X)
       /\ IsInjective(Append(admitted, nextValue))
  BY <1>0, <1>1, <1>3, <1>17, FlowSent
<1>19. /\ admitted = (matched \o buffer) \o Values(ws) /\ received \subseteq V
       /\ LeftValues \subseteq V /\ matched \in Seq(V) /\ V \subseteq Nat
       /\ Range(matched) \subseteq V
  BY <1>0, <1>1, <1>17, FlowFacts
<1>20. /\ rendezvous'[slotOf[h]] = nextValue
       /\ \A s \in Slots : s # slotOf[h] => rendezvous'[s] = rendezvous[s]
       /\ DOMAIN rendezvous' = Slots
  BY <1>6, <1>12, <1>16
<1>21. Standing(ws, v)' /\ SlotsHold(ws, v)'
  <2>1. PICK W : W = Taken(ws, wr, ws, v)
    OBVIOUS
  <2>2. W = {h}
    BY <2>1, <1>8 DEF Taken
  <2>3. \A u \in W : op[u] # "send"
    BY <2>2, <1>9
  <2>4. UNCHANGED <<slotOf, op, onChannel>> /\ ~closed' /\ ~closed
    BY <1>3
  <2>5. \A u \in Tasks \ W : state'[u] = state[u] /\ waitResult'[u] = waitResult[u]
    BY <2>2, <1>15
  <2>6. \A u \in W : /\ state'[u] # "ChannelBlocked" /\ waitResult'[u] = "Ok"
                     /\ rendezvous'[slotOf[u]] # NoValue
                     /\ ~completed'[slotOf[u]] /\ counted'[slotOf[u]] = 0
    BY <2>2, <1>3, <1>13, <1>15, <1>18, <1>20
  <2>7. \A s \in Slots : (\A u \in W : slotOf[u] # s) =>
           /\ completed'[s] = completed[s] /\ rendezvous'[s] = rendezvous[s]
           /\ counted'[s] = counted[s]
    BY <2>2, <1>3, <1>20
  <2>8. /\ \A u \in W : counted'[slotOf[u]] \in {0, 1}
        /\ Range(ws) \subseteq Range(ws)
    BY <2>6
  <2> QED BY <2>1, <2>3, <2>4, <2>5, <2>6, <2>7, <2>8, <1>0, <1>1, <1>2, <1>8,
             ServeStep
<1>22. /\ LeftSlots' = LeftSlots \cup {slotOf[h]} /\ slotOf[h] \notin LeftSlots
       /\ LeftValues' = LeftValues \cup {nextValue}
  <2>1. LeftSlots' = LeftSlots \cup {slotOf[h]} /\ slotOf[h] \notin LeftSlots
    BY <1>12, <1>13, <1>18, <1>20 DEF LeftSlots
  <2>2. \A s \in LeftSlots : rendezvous'[s] = rendezvous[s]
    BY <2>1, <1>20 DEF LeftSlots
  <2> QED BY <2>1, <2>2, <1>20 DEF LeftValues
<1>23. Flow(ws)'
  <2>1. matched' \in Seq(X) /\ Range(matched') = Range(matched) \cup {nextValue}
    <3>1. PICK m, n : m = matched /\ n = nextValue
      OBVIOUS
    <3>2. Append(m, n) \in Seq(X) /\ Range(Append(m, n)) = Range(m) \cup {n}
      BY <3>1, <1>18, AppendOnce
    <3> QED BY <3>1, <3>2, <1>6
  <2>2. Values(ws) = <<>> /\ Values(ws)' = <<>>
    BY <1>4, NoValues
  <2>3. admitted = matched
    BY <2>2, <1>4, <1>18, <1>19, ConcatEmptySeq
  <2>4. admitted' = (matched' \o buffer') \o Values(ws)'
    <3>1. matched' \o <<>> = matched'
      BY <2>1, ConcatEmptySeq
    <3> QED BY <3>1, <2>2, <2>3, <1>3, <1>4, <1>6
  <2>5. /\ Range(matched) = received \cup LeftValues
        /\ received \cap LeftValues = {} /\ received \subseteq Nat
        /\ \A s, u \in LeftSlots : rendezvous[s] = rendezvous[u] => s = u
    BY <1>1 DEF Flow
  <2>6. received \cap LeftValues' = {}
    BY <2>5, <1>18, <1>19, <1>22
  <2>7. ASSUME NEW s \in LeftSlots', NEW u \in LeftSlots',
               rendezvous'[s] = rendezvous'[u]
        PROVE  s = u
    <3>1. \A x \in LeftSlots : /\ rendezvous'[x] = rendezvous[x]
                               /\ rendezvous[x] # nextValue
      BY <1>18, <1>19, <1>20, <1>22 DEF LeftValues, LeftSlots
    <3> QED BY <2>5, <2>7, <3>1, <1>20, <1>22
  <2> QED BY <2>1, <2>4, <2>5, <2>6, <2>7, <1>3, <1>4, <1>17, <1>18, <1>22
          DEF Flow
<1> QED BY <1>8, <1>11, <1>21, <1>23 DEF Exact

\* A step that serves nobody.
LEMMA NobodyServed ==
    ASSUME NEW ws, NEW wr, Standing(ws, wr), SlotsHold(ws, wr),
           UNCHANGED <<slotOf, state, waitResult, onChannel, op, closed,
                       rendezvous, completed, counted>>
    PROVE  Standing(ws, wr)' /\ SlotsHold(ws, wr)'
<1>1. \A t, k : (Waits(t, k)' <=> Waits(t, k)) /\ (Served(t, k)' <=> Served(t, k))
  BY DEF Waits, Served
<1>2. Standing(ws, wr)'
  BY <1>1 DEF Standing
<1>3. SlotsHold(ws, wr)'
  BY DEF SlotsHold
<1> QED BY <1>2, <1>3

\* A value appended to the last part is appended to the whole.
LEMMA AppendLast ==
    ASSUME NEW S, NEW m \in Seq(S), NEW b \in Seq(S), NEW x \in S
    PROVE  m \o Append(b, x) = Append(m \o b, x)
<1>1. /\ Append(b, x) = b \o <<x>> /\ <<x>> \in Seq(S) /\ m \o b \in Seq(S)
  BY AppendIsConcat, ConcatProperties
<1>2. Append(m \o b, x) = (m \o b) \o <<x>>
  BY <1>1, AppendIsConcat
<1>3. (m \o b) \o <<x>> = m \o (b \o <<x>>)
  BY <1>1, ConcatAssociative
<1> QED BY <1>1, <1>2, <1>3

LEMMA SendToBufferExact ==
    ASSUME ChannelInv, ~stale, NEW t \in Tasks, SendToBuffer(t)
    PROVE  Exact'
<1>0. TaskInv /\ BlockInv /\ ChannelType
  BY ExactFacts, BlockFacts
<1>1. PICK ws \in Seq(Tasks), wr \in Seq(Tasks) :
          /\ Line(sendq, ws) /\ Line(recvq, wr)
          /\ Standing(ws, wr) /\ SlotsHold(ws, wr) /\ Flow(ws)
  BY ExactFacts
<1>2. /\ Len(buffer) < capacity /\ buffer' = Append(buffer, nextValue)
      /\ admitted' = Append(admitted, nextValue) /\ nextValue' = nextValue + 1
      /\ UNCHANGED <<slotOf, state, waitResult, onChannel, op, closed, capacity,
                     rendezvous, completed, counted, sendq, recvq, sendValue,
                     nextTask, matched, received>>
  BY DEF SendToBuffer, RoomFor, tasks, waits, owner
<1>3. ws = <<>>
  <2>1. Len(buffer) \in Nat /\ capacity \in Nat
    BY <1>0 DEF ChannelType
  <2>2. Len(buffer) # capacity
    BY <2>1, <1>2
  <2> QED BY <2>2, <1>1 DEF Flow
<1>4. PICK q, r : q = sendq /\ r = recvq
  OBVIOUS
<1>5. Line(sendq, ws)' /\ Line(recvq, wr)'
  BY <1>1, <1>2, <1>4, LinePut
<1>6. Standing(ws, wr)' /\ SlotsHold(ws, wr)'
  BY <1>1, <1>2, NobodyServed
<1>7. PICK V, X : V = 1..(nextValue - 1) /\ X = 1..(nextValue' - 1)
  OBVIOUS
<1>8. /\ matched \in Seq(X) /\ buffer \in Seq(X) /\ nextValue \in X
      /\ matched \o buffer \in Seq(X)
      /\ IsInjective(Append(admitted, nextValue))
  BY <1>0, <1>1, <1>2, <1>7, FlowSent
<1>9. admitted = (matched \o buffer) \o Values(ws)
  BY <1>0, <1>1, <1>7, FlowFacts
<1>10. Values(ws) = <<>> /\ Values(ws)' = <<>>
  BY <1>3, NoValues
<1>11. admitted = matched \o buffer
  BY <1>8, <1>9, <1>10, ConcatEmptySeq
<1>12. admitted' = (matched' \o buffer') \o Values(ws)'
  <2>1. PICK m, b, n : m = matched /\ b = buffer /\ n = nextValue
    OBVIOUS
  <2>2. m \o Append(b, n) = Append(m \o b, n) /\ Append(m \o b, n) \in Seq(X)
    BY <2>1, <1>8, AppendLast, AppendProperties
  <2>3. Append(m \o b, n) \o <<>> = Append(m \o b, n)
    BY <2>2, ConcatEmptySeq
  <2> QED BY <2>1, <2>2, <2>3, <1>2, <1>10, <1>11
<1>13. LeftSlots' = LeftSlots /\ LeftValues' = LeftValues
  BY <1>2 DEF LeftSlots, LeftValues
<1>14. Flow(ws)'
  <2>1. /\ received \subseteq Nat /\ Range(matched) = received \cup LeftValues
        /\ received \cap LeftValues = {}
        /\ \A s, u \in LeftSlots : rendezvous[s] = rendezvous[u] => s = u
    BY <1>1 DEF Flow
  <2> QED BY <2>1, <1>2, <1>3, <1>7, <1>8, <1>12, <1>13 DEF Flow
<1> QED BY <1>5, <1>6, <1>14 DEF Exact

\* A task outside of an await stands in no line, and its slot is empty.
LEMMA FreeEmpty ==
    ASSUME TaskInv, ChannelType, NEW ws, NEW wr, Standing(ws, wr),
           SlotsHold(ws, wr), NEW t \in Tasks, Free(t)
    PROVE  /\ t \in Live /\ TaskSlot(t) = slotOf[t] /\ slotOf[t] \in Slots
           /\ t \notin Range(ws) /\ t \notin Range(wr)
           /\ ~completed[slotOf[t]] /\ rendezvous[slotOf[t]] = NoValue
           /\ counted[slotOf[t]] = 0
<1>1. op[t] = "none" /\ t \in Live
  BY RunLive DEF Free
<1>2. TaskSlot(t) = slotOf[t] /\ slotOf[t] \in Slots
  BY <1>1, LiveSlot
<1>3. t \notin Range(ws) /\ t \notin Range(wr)
  BY <1>1 DEF Standing, Waits
<1> QED BY <1>1, <1>2, <1>3, SlotOwner

\* Other slots' entries do not change what the parked senders left.
LEMMA ValuesKept ==
    ASSUME TaskInv, NEW q, Sound(q), NEW ws, Line(q, ws),
           UNCHANGED slotOf, \A s \in q.on : sendValue'[s] = sendValue[s]
    PROVE  Values(ws)' = Values(ws)
<1>1. q.on = {slotOf[ws[i]] : i \in 1..Len(ws)}
  BY LineFacts
<1>2. \A i \in 1..Len(ws) : sendValue'[slotOf[ws[i]]] = sendValue[slotOf[ws[i]]]
  BY <1>1
<1> QED BY <1>2 DEF Values

LEMMA SendParksExact ==
    ASSUME ChannelInv, ~stale, NEW t \in Tasks, SendParks(t)
    PROVE  Exact'
<1>0. TaskInv /\ BlockInv /\ ChannelType /\ Sound(sendq) /\ Sound(recvq)
  BY ExactFacts, BlockFacts
<1>1. PICK ws \in Seq(Tasks), wr \in Seq(Tasks) :
          /\ Line(sendq, ws) /\ Line(recvq, wr)
          /\ Standing(ws, wr) /\ SlotsHold(ws, wr) /\ Flow(ws)
  BY ExactFacts
<1>2. /\ Free(t) /\ ~closed /\ ~(Len(buffer) < capacity)
      /\ Park(t, "send") /\ sendq' = PushWaiter(sendq, t)
      /\ sendValue' = [sendValue EXCEPT ![TaskSlot(t)] = nextValue]
      /\ admitted' = Append(admitted, nextValue) /\ nextValue' = nextValue + 1
      /\ UNCHANGED <<slotOf, nextTask, buffer, closed, capacity, recvq,
                     rendezvous, completed, counted, matched, received>>
  BY DEF SendParks, Start, RoomFor, owner, Park
<1>3. /\ t \in Live /\ TaskSlot(t) = slotOf[t] /\ slotOf[t] \in Slots
      /\ t \notin Range(ws) /\ t \notin Range(wr)
  BY <1>0, <1>1, <1>2, FreeEmpty
<1>4. PICK xs : xs = Append(ws, t)
  OBVIOUS
<1>5. xs \in Seq(Tasks) /\ xs # <<>> /\ Len(xs) = Len(ws) + 1
      /\ xs[Len(ws) + 1] = t /\ Len(ws) \in Nat
      /\ \A i \in 1..Len(ws) : xs[i] = ws[i]
  BY <1>4, AppendProperties
<1>6. PICK q, r : q = sendq' /\ r = recvq
  OBVIOUS
<1>7. Line(q, xs)
  <2>1. sendq \in Queues
    BY <1>0 DEF Sound
  <2> QED BY <2>1, <1>0, <1>1, <1>2, <1>3, <1>4, <1>6, PushLine
<1>8. Line(sendq, xs)' /\ Line(recvq, wr)'
  BY <1>1, <1>2, <1>6, <1>7, LinePut
<1>9. Standing(xs, wr)' /\ SlotsHold(xs, wr)'
  <2>1. PICK k \in {"send", "recv"} : k = "send"
    OBVIOUS
  <2>2. /\ xs = (IF k = "send" THEN Append(ws, t) ELSE ws)
        /\ wr = (IF k = "recv" THEN Append(wr, t) ELSE wr)
    BY <2>1, <1>4
  <2>3. Park(t, k)
    BY <2>1, <1>2
  <2> QED BY <2>2, <2>3, <1>0, <1>1, <1>2, ParkStep
<1>10. PICK V, X : V = 1..(nextValue - 1) /\ X = 1..(nextValue' - 1)
  OBVIOUS
<1>11. /\ matched \in Seq(X) /\ buffer \in Seq(X) /\ nextValue \in X
       /\ matched \o buffer \in Seq(X) /\ Values(ws) \in Seq(X)
       /\ IsInjective(Append(admitted, nextValue))
  <2>1. Line(sendq, ws) /\ Flow(ws) /\ nextValue' = nextValue + 1
    BY <1>1, <1>2
  <2> QED BY ONLY <2>1, <1>0, <1>10, FlowSent
<1>12. admitted = (matched \o buffer) \o Values(ws)
  BY <1>0, <1>1, <1>10, FlowFacts
<1>13. Values(xs)' = Append(Values(ws), nextValue)
  <2>1. /\ \A i \in 1..Len(ws) : slotOf[ws[i]] \in Slots /\ ws[i] \in Live
        /\ \A u \in Live : slotOf[u] \in sendq.on <=> u \in Range(ws)
        /\ Range(ws) = {ws[i] : i \in 1..Len(ws)}
    BY <1>0, <1>1, LineFacts
  <2>2. sendValue \in [Slots -> Nat]
    BY <1>0 DEF ChannelType
  <2>3. sendValue'[slotOf[t]] = nextValue
    BY <2>2, <1>2, <1>3
  <2>4. \A i \in 1..Len(ws) :
           sendValue'[slotOf[ws[i]]] = sendValue[slotOf[ws[i]]]
    <3> SUFFICES ASSUME NEW i \in 1..Len(ws)
                 PROVE  sendValue'[slotOf[ws[i]]] = sendValue[slotOf[ws[i]]]
      OBVIOUS
    <3>1. ws[i] # t /\ ws[i] \in Live
      BY <2>1, <1>3
    <3>2. slotOf[ws[i]] # slotOf[t]
      BY <3>1, <1>0, <1>3, LiveSlot
    <3> QED BY <3>2, <2>1, <2>2, <1>2, <1>3
  <2>5. PICK L \in Nat : L = Len(ws)
    BY <1>5
  <2>6. Values(xs)' = [n \in 1..(L + 1) |-> sendValue'[slotOf[xs[n]]]]
    BY <2>5, <1>2, <1>5 DEF Values
  <2>7. \A n \in 1..L : sendValue'[slotOf[xs[n]]] = sendValue[slotOf[ws[n]]]
    BY <2>4, <2>5, <1>5
  <2>8. sendValue'[slotOf[xs[L + 1]]] = nextValue
    BY <2>3, <2>5, <1>5
  <2>9. PICK f : f = Values(ws)
    OBVIOUS
  <2>10. f = [n \in 1..L |-> sendValue[slotOf[ws[n]]]] /\ f \in Seq(X) /\ Len(f) = L
    <3>1. f = [n \in 1..L |-> sendValue[slotOf[ws[n]]]] /\ f \in Seq(X)
      BY <2>5, <2>9, <1>11 DEF Values
    <3> QED BY <3>1
  <2>11. PICK g : g = Append(f, nextValue)
    OBVIOUS
  <2>12. /\ g \in Seq(X) /\ Len(g) = L + 1 /\ g[L + 1] = nextValue
         /\ \A n \in 1..L : g[n] = f[n]
    BY <2>10, <2>11, <1>11, AppendProperties
  <2>13. g = [n \in 1..(L + 1) |-> g[n]]
    BY <2>12
  <2>14. \A n \in 1..(L + 1) : g[n] = sendValue'[slotOf[xs[n]]]
    <3> SUFFICES ASSUME NEW n \in 1..(L + 1)
                 PROVE  g[n] = sendValue'[slotOf[xs[n]]]
      OBVIOUS
    <3>1. CASE n = L + 1
      BY <3>1, <2>8, <2>12
    <3>2. CASE n # L + 1
      <4>1. n \in 1..L
        BY <3>2
      <4> QED BY <4>1, <2>7, <2>10, <2>12
    <3> QED BY <3>1, <3>2
  <2> QED BY <2>6, <2>9, <2>11, <2>13, <2>14
<1>14. admitted' = (matched' \o buffer') \o Values(xs)'
  <2>1. PICK m, v, n : m = matched \o buffer /\ v = Values(ws) /\ n = nextValue
    OBVIOUS
  <2>2. m \in Seq(X) /\ v \in Seq(X) /\ n \in X
    BY <2>1, <1>11
  <2>3. m \o Append(v, n) = Append(m \o v, n)
    BY <2>2, AppendLast
  <2> QED BY <2>1, <2>3, <1>2, <1>12, <1>13
<1>15. LeftSlots' = LeftSlots /\ LeftValues' = LeftValues
  BY <1>2 DEF LeftSlots, LeftValues
<1>16. Flow(xs)'
  <2>1. /\ received \subseteq Nat /\ Range(matched) = received \cup LeftValues
        /\ received \cap LeftValues = {}
        /\ \A s, u \in LeftSlots : rendezvous[s] = rendezvous[u] => s = u
    BY <1>1 DEF Flow
  <2>2. Len(buffer') = capacity'
    BY <1>0, <1>2 DEF ChannelType
  <2> QED BY <2>1, <2>2, <1>2, <1>10, <1>11, <1>14, <1>15 DEF Flow
<1> QED BY <1>5, <1>8, <1>9, <1>16 DEF Exact

\* The flow of values, when none moves.
LEMMA FlowKept ==
    ASSUME NEW ws, Flow(ws), Values(ws)' = Values(ws),
           UNCHANGED <<buffer, capacity, rendezvous, admitted, matched, received>>,
           matched \in Seq(1..(nextValue' - 1))
    PROVE  Flow(ws)'
<1>1. LeftSlots' = LeftSlots /\ LeftValues' = LeftValues
  BY DEF LeftSlots, LeftValues
<1> QED BY <1>1 DEF Flow

LEMMA SendCannotParkExact ==
    ASSUME ChannelInv, ~stale, NEW t \in Tasks, SendCannotPark(t)
    PROVE  Exact'
<1>0. /\ TaskInv /\ BlockInv /\ ChannelType /\ Sound(sendq) /\ Sound(recvq)
      /\ WakesCounted
  BY ExactFacts, BlockFacts
<1>1. PICK ws \in Seq(Tasks), wr \in Seq(Tasks) :
          /\ Line(sendq, ws) /\ Line(recvq, wr)
          /\ Standing(ws, wr) /\ SlotsHold(ws, wr) /\ Flow(ws)
  BY ExactFacts
<1>2. /\ Free(t) /\ sendq' = RemoveWaiter(PushWaiter(sendq, t), t)
      /\ sendValue' = [sendValue EXCEPT ![TaskSlot(t)] = NoValue]
      /\ CompleteCountedWake(t) /\ nextValue' = nextValue + 1
      /\ UNCHANGED <<slotOf, nextTask, state, waitResult, onChannel, op, buffer,
                     closed, capacity, recvq, rendezvous, completed, admitted,
                     matched, received>>
  BY DEF SendCannotPark, Start, owner, tasks
<1>3. /\ t \in Live /\ TaskSlot(t) = slotOf[t] /\ slotOf[t] \in Slots
      /\ t \notin Range(ws) /\ counted[slotOf[t]] = 0
  BY <1>0, <1>1, <1>2, FreeEmpty
<1>4. counted' = counted
  <2>1. counted \in [Slots -> Nat]
    BY <1>0 DEF ChannelType
  <2>2. /\ counted' \in [Slots -> Nat] /\ counted'[slotOf[t]] = 0
        /\ \A s \in Slots : s # slotOf[t] => counted'[s] = counted[s]
    BY <2>1, <1>0, <1>2, <1>3, CompleteWake
  <2> QED BY <2>1, <2>2, <1>3
<1>5. PICK p, q, r : p = PushWaiter(sendq, t) /\ q = sendq' /\ r = recvq
  OBVIOUS
<1>6. Line(p, Append(ws, t))
  <2>1. sendq \in Queues
    BY <1>0 DEF Sound
  <2> QED BY <2>1, <1>0, <1>1, <1>3, <1>5, PushLine
<1>7. Line(q, ws)
  <2>1. Sound(p)
    BY <1>0, <1>3, <1>5, PushSound
  <2>2. p \in Queues
    BY <2>1 DEF Sound
  <2> QED BY <2>2, <1>0, <1>2, <1>3, <1>5, <1>6, RemoveLine
<1>8. Line(sendq, ws)' /\ Line(recvq, wr)'
  BY <1>1, <1>2, <1>5, <1>7, LinePut
<1>9. Standing(ws, wr)' /\ SlotsHold(ws, wr)'
  BY <1>1, <1>2, <1>4, NobodyServed
<1>10. Values(ws)' = Values(ws)
  <2>1. sendValue \in [Slots -> Nat] /\ sendq.on \subseteq Slots
    BY <1>0, CountMarks DEF ChannelType
  <2>2. slotOf[t] \notin sendq.on
    BY <1>0, <1>1, <1>3, LineFacts
  <2>3. \A s \in sendq.on : sendValue'[s] = sendValue[s]
    BY <2>1, <2>2, <1>2, <1>3
  <2>4. PICK z : z = sendq
    OBVIOUS
  <2> QED BY <2>3, <2>4, <1>0, <1>1, <1>2, ValuesKept
<1>11. PICK V, X : V = 1..(nextValue - 1) /\ X = 1..(nextValue' - 1)
  OBVIOUS
<1>12. matched \in Seq(X)
  BY <1>0, <1>1, <1>2, <1>11, FlowSent
<1>13. Flow(ws)'
  BY <1>1, <1>2, <1>10, <1>11, <1>12, FlowKept
<1> QED BY <1>8, <1>9, <1>13 DEF Exact

LEMMA RecvParksExact ==
    ASSUME ChannelInv, ~stale, NEW t \in Tasks, RecvParks(t)
    PROVE  Exact'
<1>0. TaskInv /\ BlockInv /\ ChannelType /\ Sound(sendq) /\ Sound(recvq)
  BY ExactFacts, BlockFacts
<1>1. PICK ws \in Seq(Tasks), wr \in Seq(Tasks) :
          /\ Line(sendq, ws) /\ Line(recvq, wr)
          /\ Standing(ws, wr) /\ SlotsHold(ws, wr) /\ Flow(ws)
  BY ExactFacts
<1>2. /\ Free(t) /\ ~closed /\ Park(t, "recv") /\ recvq' = PushWaiter(recvq, t)
      /\ UNCHANGED <<slotOf, nextTask, buffer, closed, capacity, sendq,
                     sendValue, rendezvous, completed, counted, nextValue,
                     admitted, matched, received>>
  BY DEF RecvParks, Start, owner, Park
<1>3. t \in Live /\ t \notin Range(ws) /\ t \notin Range(wr)
  BY <1>0, <1>1, <1>2, FreeEmpty
<1>4. PICK xr : xr = Append(wr, t)
  OBVIOUS
<1>5. xr \in Seq(Tasks)
  BY <1>4, AppendProperties
<1>6. PICK q, r : q = sendq /\ r = recvq'
  OBVIOUS
<1>7. Line(r, xr)
  <2>1. recvq \in Queues
    BY <1>0 DEF Sound
  <2> QED BY <2>1, <1>0, <1>1, <1>2, <1>3, <1>4, <1>6, PushLine
<1>8. Line(sendq, ws)' /\ Line(recvq, xr)'
  BY <1>1, <1>2, <1>6, <1>7, LinePut
<1>9. Standing(ws, xr)' /\ SlotsHold(ws, xr)'
  <2>1. PICK k \in {"send", "recv"} : k = "recv"
    OBVIOUS
  <2>2. /\ ws = (IF k = "send" THEN Append(ws, t) ELSE ws)
        /\ xr = (IF k = "recv" THEN Append(wr, t) ELSE wr)
    BY <2>1, <1>4
  <2>3. Park(t, k)
    BY <2>1, <1>2
  <2> QED BY <2>2, <2>3, <1>0, <1>1, <1>2, ParkStep
<1>10. Values(ws)' = Values(ws)
  BY <1>2 DEF Values
<1>11. Flow(ws)'
  BY <1>1, <1>2, <1>10, FlowKept DEF Flow
<1> QED BY <1>5, <1>8, <1>9, <1>11 DEF Exact

LEMMA RecvCannotParkExact ==
    ASSUME ChannelInv, ~stale, NEW t \in Tasks, RecvCannotPark(t)
    PROVE  Exact'
<1>0. /\ TaskInv /\ BlockInv /\ ChannelType /\ Sound(sendq) /\ Sound(recvq)
      /\ WakesCounted
  BY ExactFacts, BlockFacts
<1>1. PICK ws \in Seq(Tasks), wr \in Seq(Tasks) :
          /\ Line(sendq, ws) /\ Line(recvq, wr)
          /\ Standing(ws, wr) /\ SlotsHold(ws, wr) /\ Flow(ws)
  BY ExactFacts
<1>2. /\ Free(t) /\ recvq' = RemoveWaiter(PushWaiter(recvq, t), t)
      /\ CompleteCountedWake(t)
      /\ UNCHANGED <<slotOf, nextTask, state, waitResult, onChannel, op, buffer,
                     closed, capacity, sendq, sendValue, rendezvous, completed,
                     nextValue, admitted, matched, received>>
  BY DEF RecvCannotPark, Start, owner, tasks
<1>3. /\ t \in Live /\ TaskSlot(t) = slotOf[t] /\ slotOf[t] \in Slots
      /\ t \notin Range(wr) /\ counted[slotOf[t]] = 0
  BY <1>0, <1>1, <1>2, FreeEmpty
<1>4. counted' = counted
  <2>1. counted \in [Slots -> Nat]
    BY <1>0 DEF ChannelType
  <2>2. /\ counted' \in [Slots -> Nat] /\ counted'[slotOf[t]] = 0
        /\ \A s \in Slots : s # slotOf[t] => counted'[s] = counted[s]
    BY <2>1, <1>0, <1>2, <1>3, CompleteWake
  <2> QED BY <2>1, <2>2, <1>3
<1>5. PICK p, q, r : p = PushWaiter(recvq, t) /\ q = sendq /\ r = recvq'
  OBVIOUS
<1>6. Line(p, Append(wr, t))
  <2>1. recvq \in Queues
    BY <1>0 DEF Sound
  <2> QED BY <2>1, <1>0, <1>1, <1>3, <1>5, PushLine
<1>7. Line(r, wr)
  <2>1. Sound(p)
    BY <1>0, <1>3, <1>5, PushSound
  <2>2. p \in Queues
    BY <2>1 DEF Sound
  <2> QED BY <2>2, <1>0, <1>1, <1>2, <1>3, <1>5, <1>6, RemoveLine
<1>8. Line(sendq, ws)' /\ Line(recvq, wr)'
  BY <1>1, <1>2, <1>5, <1>7, LinePut
<1>9. Standing(ws, wr)' /\ SlotsHold(ws, wr)'
  BY <1>1, <1>2, <1>4, NobodyServed
<1>10. Values(ws)' = Values(ws)
  BY <1>2 DEF Values
<1>11. Flow(ws)'
  BY <1>1, <1>2, <1>10, FlowKept DEF Flow
<1> QED BY <1>8, <1>9, <1>11 DEF Exact

\* Waking tasks that wait: none of them is parked any more.
LEMMA WakeMany ==
    ASSUME TaskInv, NEW ts, Range(ts) \subseteq Tasks,
           \A h \in Range(ts) : cur # h /\ \E k : Waits(h, k),
           WakeChannel(ts)
    PROVE  /\ \A h \in Range(ts) :
                 state'[h] # "ChannelBlocked" /\ waitResult'[h] = "Ok"
           /\ \A u \in Tasks \ Range(ts) :
                 state'[u] = state[u] /\ waitResult'[u] = waitResult[u]
<1>0. TaskType /\ TaskLife
  BY TaskFacts
<1>1. PICK W : W = Range(ts)
  OBVIOUS
<1>2. /\ state' = SetOf(state, WokenOf(W), "Ready")
      /\ waitResult' = SetOf(waitResult, WokenOf(W) \cup PendingOf(W), "Ok")
  BY <1>1, WakeEffects
<1>3. ASSUME NEW h \in W
      PROVE  state'[h] # "ChannelBlocked" /\ waitResult'[h] = "Ok"
  <2>1. h \in Tasks /\ cur # h /\ \E k : Waits(h, k)
    BY <1>1
  <2>2. state[h] # "Running"
    BY <2>1, <1>0 DEF TaskLife
  <2>3. h \in WokenOf(W) \/ h \in PendingOf(W)
    BY <2>1, <2>2 DEF Waits, WokenOf, PendingOf
  <2>4. waitResult'[h] = "Ok"
    BY <2>1, <2>3, <1>2 DEF SetOf
  <2>5. state'[h] # "ChannelBlocked"
    BY <2>1, <1>2 DEF SetOf, WokenOf
  <2> QED BY <2>4, <2>5
<1>4. ASSUME NEW u \in Tasks, u \notin W
      PROVE  state'[u] = state[u] /\ waitResult'[u] = waitResult[u]
  BY <1>2, <1>4 DEF SetOf, WokenOf, PendingOf
<1> QED BY <1>1, <1>3, <1>4

\* A sequence is its front and the rest.
LEMMA FrontAndRest ==
    ASSUME NEW S, NEW s \in Seq(S), s # <<>>
    PROVE  /\ s = <<Head(s)>> \o Tail(s) /\ <<Head(s)>> \in Seq(S)
           /\ Tail(s) \in Seq(S) /\ Head(s) = s[1] /\ Head(s) \in S
<1>1. PICK h, r : h = Head(s) /\ r = Tail(s)
  OBVIOUS
<1>2. /\ h \in S /\ r \in Seq(S) /\ h = s[1] /\ Len(s) \in Nat \ {0}
      /\ Len(r) = Len(s) - 1 /\ \A i \in 1..Len(r) : r[i] = s[i + 1]
  BY <1>1, HeadTailProperties, EmptySeq
<1>3. <<h>> \in Seq(S) /\ Len(<<h>>) = 1 /\ <<h>>[1] = h
  BY <1>2
<1>4. PICK f : f = <<h>>
  OBVIOUS
<1>5. /\ f \o r \in Seq(S) /\ Len(f \o r) = Len(f) + Len(r)
      /\ \A i \in 1..(Len(f) + Len(r)) :
            (f \o r)[i] = IF i <= Len(f) THEN f[i] ELSE r[i - Len(f)]
  BY <1>2, <1>3, <1>4, ConcatProperties
<1>6. PICK n \in Nat : n = Len(s)
  BY <1>2
<1>7. Len(f \o r) = n
  BY <1>2, <1>3, <1>4, <1>5, <1>6
<1>8. ASSUME NEW i \in 1..n PROVE (f \o r)[i] = s[i]
  <2>0. Len(f) = 1 /\ Len(r) = n - 1 /\ i \in 1..(Len(f) + Len(r))
    BY <1>2, <1>3, <1>4, <1>6
  <2>1. CASE i = 1
    <3>1. i <= Len(f)
      BY <2>0, <2>1
    <3>2. (f \o r)[i] = f[i]
      BY <2>0, <3>1, <1>5
    <3> QED BY <3>2, <2>1, <1>2, <1>3, <1>4
  <2>2. CASE i # 1
    <3>1. i - 1 \in 1..Len(r) /\ ~(i <= Len(f)) /\ (i - 1) + 1 = i
          /\ i - Len(f) = i - 1
      BY <2>0, <2>2
    <3>2. (f \o r)[i] = r[i - Len(f)]
      BY <2>0, <3>1, <1>5
    <3> QED BY <3>1, <3>2, <1>2
  <2> QED BY <2>1, <2>2
<1>9. f \o r = s
  BY <1>5, <1>6, <1>7, <1>8, SeqEqual
<1> QED BY <1>1, <1>2, <1>3, <1>4, <1>9

\* The first of the senders goes, and with it the first of their values.
LEMMA ValuesFront ==
    ASSUME TaskInv, BlockInv, NEW ws \in Seq(Tasks), Line(sendq, ws), ws # <<>>,
           NEW v, v = Tail(ws), NEW s, s = slotOf[ws[1]],
           sendValue' = [sendValue EXCEPT ![s] = NoValue], UNCHANGED slotOf
    PROVE  /\ Values(ws) # <<>> /\ Head(Values(ws)) = sendValue[s]
           /\ Values(v)' = Tail(Values(ws))
<1>0. Sound(sendq) /\ ChannelType
  BY BlockFacts
<1>1. PICK V : V = 1..(nextValue - 1)
  OBVIOUS
<1>2. /\ Values(ws) \in Seq(V) /\ Len(Values(ws)) = Len(ws)
      /\ \A i \in 1..Len(ws) : Values(ws)[i] = sendValue[slotOf[ws[i]]]
  BY <1>1, ValuesType
<1>3. PICK L \in Nat : L = Len(ws)
  OBVIOUS
<1>4. L # 0 /\ 1 \in 1..L
  BY <1>3, EmptySeq
<1>5. PICK f : f = Values(ws)
  OBVIOUS
<1>6. f \in Seq(V) /\ Len(f) = L /\ f # <<>> /\ f[1] = sendValue[s]
  BY <1>2, <1>3, <1>4, <1>5
<1>7. /\ Head(f) = f[1] /\ Tail(f) \in Seq(V) /\ Len(Tail(f)) = L - 1
      /\ \A i \in 1..(L - 1) : Tail(f)[i] = f[i + 1]
  BY <1>6, HeadTailProperties
<1>8. /\ v \in Seq(Tasks) /\ Len(v) = L - 1
      /\ \A i \in 1..(L - 1) : v[i] = ws[i + 1]
  BY <1>3, HeadTailProperties
<1>9. /\ \A i \in 1..L : slotOf[ws[i]] \in Slots
      /\ \A i, j \in 1..L : slotOf[ws[i]] = slotOf[ws[j]] => i = j
  <2>1. /\ \A i \in 1..Len(ws) : ws[i] \in Live /\ slotOf[ws[i]] \in Slots
        /\ \A i, j \in 1..Len(ws) : slotOf[ws[i]] = slotOf[ws[j]] => i = j
    BY <1>0, LineFacts
  <2> QED BY ONLY <2>1, <1>3
<1>10. ASSUME NEW i \in 1..(L - 1)
       PROVE  sendValue'[slotOf[v[i]]] = Tail(f)[i]
  <2>1. i + 1 \in 1..L /\ i + 1 # 1
    OBVIOUS
  <2>2. slotOf[ws[i + 1]] # s /\ slotOf[ws[i + 1]] \in Slots
    BY <2>1, <1>4, <1>9
  <2>3. sendValue'[slotOf[ws[i + 1]]] = sendValue[slotOf[ws[i + 1]]]
    BY <2>2, <1>0 DEF ChannelType
  <2>4. f[i + 1] = sendValue[slotOf[ws[i + 1]]]
    BY <2>1, <1>2, <1>3, <1>5
  <2> QED BY <2>3, <2>4, <1>7, <1>8
<1>11. Values(v)' = [n \in 1..(L - 1) |-> sendValue'[slotOf[v[n]]]]
  BY <1>8 DEF Values
<1>12. PICK g, k : g = Tail(f) /\ k = L - 1
  OBVIOUS
<1>13. g \in Seq(V) /\ Len(g) = k
  BY <1>7, <1>12
<1>14. g = [n \in 1..k |-> g[n]]
  BY <1>13
<1>15. Values(v)' = Tail(f)
  BY <1>10, <1>11, <1>12, <1>14
<1> QED BY <1>5, <1>6, <1>7, <1>15

\* The branches of recv_impl that return a value: v is the oldest of those
\* buffered and parked, and the others keep their order.
LEMMA RecvExact ==
    ASSUME TaskInv, BlockInv, NEW ws \in Seq(Tasks), NEW wr \in Seq(Tasks),
           Line(sendq, ws), Line(recvq, wr), Standing(ws, wr),
           SlotsHold(ws, wr), Flow(ws),
           NEW t \in Tasks, Free(t), NEW v, NEW b, NEW ts, NEW V,
           V = 1..(nextValue - 1), v \in V, b \in Seq(V),
           RecvGets(t, v, b, ts), b = <<>> \/ buffer # <<>>,
           NEW q, sendq' = q, NEW xs \in Seq(Tasks), Line(q, xs),
           Range(xs) \subseteq Range(ws), Range(ts) = Range(ws) \ Range(xs),
           NEW vs, vs \in Seq(V), vs = Values(xs)',
           <<v>> \o (b \o vs) = buffer \o Values(ws),
           xs # <<>> => Len(b) = capacity
    PROVE  Exact'
<1>0. /\ ChannelType /\ Sound(sendq) /\ Sound(recvq) /\ ReceiversFirst
      /\ WakesCounted /\ TaskType
  BY BlockFacts, TaskFacts
<1>1. /\ t \in Live /\ TaskSlot(t) = slotOf[t] /\ rendezvous[slotOf[t]] = NoValue
      /\ t \notin Range(ws) /\ cur = t
  BY <1>0, FreeEmpty DEF Free
<1>2. /\ buffer' = b /\ rendezvous' = rendezvous /\ recvq' = recvq
      /\ CompleteParkedSend(ts) /\ AddCountedWake(Range(ts)) /\ WakeChannel(ts)
      /\ matched' = matched \o <<v>> \o <<>>
      /\ received' = received \cup {v}
      /\ UNCHANGED <<slotOf, onChannel, op, nextTask, closed, capacity,
                     nextValue, admitted>>
  BY <1>0, <1>1, RecvEffects DEF owner
<1>3. PICK r : r = recvq
  OBVIOUS
<1>4. Line(sendq, xs)' /\ Line(recvq, wr)'
  BY <1>2, <1>3, LinePut
<1>5. PICK W : W = Range(ts)
  OBVIOUS
<1>6. /\ Range(ws) \subseteq Live /\ Range(wr) \subseteq Live
      /\ Range(ws) \subseteq Tasks /\ (ws # <<>> => sendq.count # 0)
  BY <1>0, LineFacts
<1>7. \A u \in W : /\ u \in Range(ws) /\ u \in Live /\ u \in Tasks /\ u # t
                   /\ Waits(u, "send") /\ op[u] = "send"
  BY <1>1, <1>5, <1>6 DEF Standing, Waits
<1>8. /\ \A u \in W : state'[u] # "ChannelBlocked" /\ waitResult'[u] = "Ok"
      /\ \A u \in Tasks \ W :
            state'[u] = state[u] /\ waitResult'[u] = waitResult[u]
  BY <1>1, <1>2, <1>5, <1>7, WakeMany
<1>9. \A u \in W : /\ slotOf[u] \in Slots /\ TaskSlot(u) = slotOf[u]
                   /\ rendezvous[slotOf[u]] = NoValue /\ counted[slotOf[u]] = 0
  <2> SUFFICES ASSUME NEW u \in W
               PROVE  /\ slotOf[u] \in Slots /\ TaskSlot(u) = slotOf[u]
                      /\ rendezvous[slotOf[u]] = NoValue
                      /\ counted[slotOf[u]] = 0
    OBVIOUS
  <2>1. u \in Live /\ u \in Range(ws) /\ op[u] = "send"
    BY <1>7
  <2> QED BY <2>1, <1>0, SlotOwner, LiveSlot
<1>10. /\ \A u \in W : completed'[slotOf[u]]
       /\ \A s \in Slots : (\A u \in W : slotOf[u] # s) =>
             completed'[s] = completed[s]
  <2>1. \A s \in Slots : completed'[s] = (completed[s]
                            \/ \E u \in W : TaskSlot(u) = s)
    BY <1>2, <1>5, ToSetIsRange DEF CompleteParkedSend
  <2>2. completed \in [Slots -> BOOLEAN]
    BY <1>0 DEF ChannelType
  <2>3. \A u \in W : completed'[slotOf[u]]
    BY ONLY <2>1, <1>9
  <2>4. ASSUME NEW s \in Slots, \A u \in W : slotOf[u] # s
        PROVE  completed'[s] = completed[s]
    BY ONLY <2>1, <2>2, <2>4, <1>9
  <2> QED BY <2>3, <2>4
<1>11. /\ \A u \in W : counted'[slotOf[u]] = 1
       /\ \A s \in Slots : (\A u \in W : slotOf[u] # s) =>
             counted'[s] = counted[s]
  <2>1. counted \in [Slots -> Nat] /\ W \in SUBSET Live /\ AddCountedWake(W)
    BY <1>0, <1>2, <1>5, <1>7 DEF ChannelType
  <2>2. \A s \in Slots :
           /\ (\E u \in W : slotOf[u] = s) => counted'[s] = counted[s] + 1
           /\ ~(\E u \in W : slotOf[u] = s) => counted'[s] = counted[s]
    BY <2>1, <1>0, AddWakes
  <2>3. \A u \in W : counted'[slotOf[u]] = 1
    BY ONLY <2>2, <1>9
  <2> QED BY <2>2, <2>3
<1>12. Standing(xs, wr)' /\ SlotsHold(xs, wr)'
  <2>1. W = Taken(ws, wr, xs, wr) /\ Range(wr) \subseteq Range(wr)
    BY <1>5 DEF Taken
  <2>2. UNCHANGED <<slotOf, op, onChannel>> /\ (closed => closed')
    BY <1>2
  <2>3. \A u \in W : /\ completed'[slotOf[u]] /\ rendezvous'[slotOf[u]] = NoValue
                     /\ counted'[slotOf[u]] \in {0, 1} /\ op[u] # "recv"
    BY <1>2, <1>7, <1>9, <1>10, <1>11
  <2>4. \A s \in Slots : (\A u \in W : slotOf[u] # s) =>
           /\ completed'[s] = completed[s] /\ rendezvous'[s] = rendezvous[s]
           /\ counted'[s] = counted[s]
    BY <1>2, <1>10, <1>11
  <2>5. closed' => xs = <<>> /\ wr = <<>>
    <3> SUFFICES ASSUME closed PROVE xs = <<>> /\ wr = <<>>
      BY <1>2
    <3>1. ws = <<>> /\ wr = <<>>
      BY DEF Standing
    <3>2. Range(xs) = {}
      BY <3>1, EmptyOnce
    <3>3. xs = <<>>
      <4>1. xs # <<>> => Head(xs) \in Range(xs)
        BY TailOnce
      <4> QED BY <4>1, <3>2
    <3> QED BY <3>1, <3>3
  <2>6. /\ TaskInv /\ Standing(ws, wr) /\ SlotsHold(ws, wr)
        /\ Range(xs) \subseteq Range(ws)
    OBVIOUS
  <2> QED BY ONLY <2>1, <2>2, <2>3, <2>4, <2>5, <2>6, <1>0, <1>6, <1>8,
             ServeStep
<1>13. /\ matched \in Seq(V) /\ buffer \in Seq(V) /\ Values(ws) \in Seq(V)
       /\ admitted = (matched \o buffer) \o Values(ws) /\ IsInjective(admitted)
       /\ V \subseteq Nat
  BY FlowFacts
<1>14. /\ matched' \in Seq(V) /\ v \notin Range(matched)
       /\ Range(matched') = Range(matched) \cup {v}
       /\ admitted = matched' \o b \o vs
  <2>1. PICK m, c, w, a : /\ m = matched /\ c = buffer /\ w = Values(ws)
                          /\ a = admitted
    OBVIOUS
  <2>2. /\ m \in Seq(V) /\ c \in Seq(V) /\ w \in Seq(V)
        /\ a = (m \o c) \o w /\ IsInjective(a)
    BY ONLY <2>1, <1>13
  <2>3. <<v>> \o (b \o vs) = c \o w
    BY Zenon, <2>1
  <2>9. /\ m \in Seq(V) /\ c \in Seq(V) /\ w \in Seq(V) /\ b \in Seq(V)
        /\ vs \in Seq(V) /\ v \in V
    BY <2>2
  <2>11. PICK o, d : o = <<v>> /\ d = b \o vs
    OBVIOUS
  <2>12. o \in Seq(V) /\ Range(o) = {v}
    <3>1. o \in Seq(V) /\ Len(o) = 1 /\ o[1] = v
      BY ONLY <2>9, <2>11
    <3> QED BY ONLY <3>1 DEF Range
  <2>13. d \in Seq(V)
    BY ONLY <2>9, <2>11, ConcatOnce
  <2>14. PICK n, e : n = m \o o /\ e = o \o d
    OBVIOUS
  <2>15. n \in Seq(V) /\ Range(n) = Range(m) \cup {v}
    BY ONLY <2>9, <2>12, <2>14, ConcatOnce
  <2>16. e \in Seq(V) /\ Range(e) = {v} \cup Range(d)
    BY ONLY <2>12, <2>13, <2>14, ConcatOnce
  <2>17. n \o <<>> = n
    BY ONLY <2>15, ConcatEmptySeq
  <2>18. a = m \o e
    <3>1. (m \o c) \o w = m \o (c \o w)
      <4>1. Regroups(m, c, w)
        BY ONLY <2>9, Regroup
      <4> QED BY ONLY <4>1 DEF Regroups
    <3>2. c \o w = e
      BY ONLY Zenon, <2>3, <2>11, <2>14
    <3>3. a = (m \o c) \o w
      BY ONLY <2>2
    <3> QED BY ONLY Zenon, <3>1, <3>2, <3>3
  <2>19. (n \o b) \o vs = m \o e
    <3>1. (n \o b) \o vs = n \o (b \o vs)
      <4>1. n \in Seq(V) /\ b \in Seq(V) /\ vs \in Seq(V)
        BY ONLY <2>9, <2>15
      <4>2. Regroups(n, b, vs)
        BY ONLY <4>1, Regroup
      <4> QED BY ONLY <4>2 DEF Regroups
    <3>2. (m \o o) \o d = m \o (o \o d)
      <4>1. m \in Seq(V) /\ o \in Seq(V) /\ d \in Seq(V)
        BY ONLY <2>9, <2>12, <2>13
      <4>2. Regroups(m, o, d)
        BY ONLY <4>1, Regroup
      <4> QED BY ONLY <4>2 DEF Regroups
    <3> QED BY ONLY Zenon, <3>1, <3>2, <2>11, <2>14
  <2>20. v \notin Range(m)
    <3>1. IsInjective(m \o e)
      BY ONLY Zenon, <2>2, <2>18
    <3>2. Range(m) \cap Range(e) = {}
      BY ONLY <3>1, <2>9, <2>16, SplitOnce
    <3> QED BY ONLY <3>2, <2>16
  <2>21. m \o <<v>> \o <<>> = n
    BY ONLY Zenon, <2>11, <2>14, <2>17
  <2>22. a = n \o b \o vs
    BY ONLY Zenon, <2>18, <2>19
  <2>23. matched' = n
    BY ONLY Zenon, <2>1, <2>21, <1>2
  <2> QED BY ONLY Zenon, <2>1, <2>15, <2>20, <2>22, <2>23
<1>21. LeftSlots' = LeftSlots /\ LeftValues' = LeftValues
  BY <1>2 DEF LeftSlots, LeftValues
<1>22. Flow(xs)'
  <2>1. /\ received \subseteq Nat /\ Range(matched) = received \cup LeftValues
        /\ received \cap LeftValues = {}
        /\ \A s, u \in LeftSlots : rendezvous[s] = rendezvous[u] => s = u
    BY DEF Flow
  <2>2. /\ received' \subseteq Nat /\ Range(matched') = received' \cup LeftValues'
        /\ received' \cap LeftValues' = {}
    <3>1. v \in Nat
      BY <1>13
    <3> QED BY ONLY <3>1, <2>1, <1>2, <1>14, <1>21
  <2>3. admitted' = matched' \o buffer' \o Values(xs)'
    BY <1>2, <1>14
  <2>4. /\ matched' \in Seq(1..(nextValue' - 1)) /\ IsInjective(admitted')
        /\ (xs # <<>> => Len(buffer') = capacity')
    BY <1>2, <1>13, <1>14
  <2>5. \A s, u \in LeftSlots' : rendezvous'[s] = rendezvous'[u] => s = u
    BY <2>1, <1>2, <1>21
  <2> QED BY <2>2, <2>3, <2>4, <2>5 DEF Flow
<1> QED BY <1>4, <1>12, <1>22 DEF Exact

\* What was left in the slot of a task that is free would be somebody else's.
LEMMA RecvRendezvousExact ==
    ASSUME ChannelInv, ~stale, NEW t \in Tasks, RecvRendezvous(t)
    PROVE  Exact'
<1>0. TaskInv /\ ChannelType
  BY ExactFacts, BlockFacts
<1>1. PICK ws \in Seq(Tasks), wr \in Seq(Tasks) :
          Standing(ws, wr) /\ SlotsHold(ws, wr)
  BY ExactFacts
<1>2. Free(t) /\ rendezvous[TaskSlot(t)] # NoValue
  BY DEF RecvRendezvous, Start
<1>3. TaskSlot(t) = slotOf[t] /\ rendezvous[slotOf[t]] = NoValue
  BY <1>0, <1>1, <1>2, FreeEmpty
<1> QED BY <1>2, <1>3

LEMMA RecvFromSenderExact ==
    ASSUME ChannelInv, ~stale, NEW t \in Tasks, RecvFromSender(t)
    PROVE  Exact'
<1>0. TaskInv /\ BlockInv /\ ChannelType /\ Sound(sendq)
  BY ExactFacts, BlockFacts
<1>1. PICK ws \in Seq(Tasks), wr \in Seq(Tasks) :
          /\ Line(sendq, ws) /\ Line(recvq, wr)
          /\ Standing(ws, wr) /\ SlotsHold(ws, wr) /\ Flow(ws)
  BY ExactFacts
<1>2. /\ (sendq.count = 0 <=> ws = <<>>) /\ (CanPop(sendq) <=> ws # <<>>)
      /\ (ws # <<>> => sendq.head = ws[1]) /\ sendq \in Queues /\ IsInjective(ws)
  BY <1>0, <1>1, LineFacts
<1>3. Free(t) /\ buffer = <<>> /\ sendq.count # 0
  BY DEF RecvFromSender, Start
<1>4. ws # <<>> /\ CanPop(sendq) /\ sendq.head = ws[1]
  BY <1>2, <1>3
<1>5. PICK s, q, xs, b, ts, v : /\ s = slotOf[ws[1]] /\ q = PopWaiter(sendq)
                                /\ xs = Tail(ws) /\ b = <<>> /\ ts = <<ws[1]>>
                                /\ v = sendValue[s]
  OBVIOUS
<1>6. /\ xs \in Seq(Tasks) /\ Range(ws) \ Range(xs) = {ws[1]}
      /\ Range(xs) \subseteq Range(ws)
  BY <1>1, <1>2, <1>4, <1>5, FirstTaken
<1>7. ws[1] \in Live /\ Line(q, xs)
  BY <1>0, <1>1, <1>2, <1>4, <1>5, PopLine
<1>8. TaskSlot(ws[1]) = s
  BY <1>0, <1>5, <1>7, LiveSlot
<1>9. /\ sendq' = q /\ RecvGets(t, v, b, ts)
      /\ sendValue' = [sendValue EXCEPT ![s] = NoValue]
  BY <1>4, <1>5, <1>8 DEF RecvFromSender
<1>10. slotOf' = slotOf
  BY <1>9 DEF RecvGets
<1>11. /\ Values(ws) # <<>> /\ Head(Values(ws)) = v
       /\ Values(xs)' = Tail(Values(ws))
  BY <1>0, <1>1, <1>4, <1>5, <1>9, <1>10, ValuesFront
<1>12. PICK V : V = 1..(nextValue - 1)
  OBVIOUS
<1>13. Values(ws) \in Seq(V)
  BY <1>0, <1>1, <1>12, FlowFacts
<1>14. PICK vs, w : vs = Values(xs)' /\ w = Values(ws)
  OBVIOUS
<1>15. /\ v \in V /\ b \in Seq(V) /\ vs \in Seq(V) /\ w \in Seq(V)
       /\ w = <<v>> \o vs
  <2>1. w \in Seq(V) /\ w # <<>> /\ Head(w) = v /\ vs = Tail(w)
    BY ONLY <1>11, <1>13, <1>14
  <2>2. w = <<Head(w)>> \o Tail(w) /\ Tail(w) \in Seq(V) /\ Head(w) \in V
    BY ONLY <2>1, FrontAndRest
  <2>3. b \in Seq(V)
    BY ONLY <1>5, EmptySeq
  <2> QED BY ONLY Zenon, <2>1, <2>2, <2>3
<1>16. <<v>> \o (b \o vs) = buffer \o Values(ws)
  <2>1. <<>> \o vs = vs /\ <<>> \o w = w
    BY ONLY <1>15, ConcatEmptySeq
  <2> QED BY ONLY Zenon, <2>1, <1>3, <1>5, <1>14, <1>15
<1>17. Len(b) = capacity
  BY <1>1, <1>3, <1>4, <1>5 DEF Flow
<1>18. Range(ts) = Range(ws) \ Range(xs)
  <2>1. PICK h : h = ws[1]
    OBVIOUS
  <2>2. h \in Tasks /\ ts = <<h>>
    BY <2>1, <1>5, <1>7 DEF Live
  <2> QED BY <2>1, <2>2, <1>6, OneOnce
<1>19. t \in Tasks /\ ws \in Seq(Tasks) /\ wr \in Seq(Tasks)
  OBVIOUS
<1>20. b = <<>> \/ buffer # <<>>
  BY <1>5
<1> QED BY ONLY <1>0, <1>1, <1>3, <1>6, <1>7, <1>9, <1>12, <1>14, <1>15, <1>16,
           <1>17, <1>18, <1>19, <1>20, RecvExact

\* The front of the buffer goes, and the first parked value takes the place
\* that is free.
LEMMA Refill ==
    ASSUME NEW V, NEW c \in Seq(V), c # <<>>, NEW w \in Seq(V), w # <<>>,
           NEW b, b = Append(Tail(c), Head(w)), NEW vs, vs = Tail(w),
           NEW v, v = Head(c)
    PROVE  /\ <<v>> \o (b \o vs) = c \o w /\ b \in Seq(V) /\ vs \in Seq(V)
           /\ v \in V /\ Len(b) = Len(c)
<1>1. PICK r, x, o, y : /\ r = Tail(c) /\ x = Head(w) /\ o = <<v>> /\ y = <<x>>
  OBVIOUS
<1>2. /\ c = o \o r /\ o \in Seq(V) /\ r \in Seq(V) /\ v \in V
  BY <1>1, FrontAndRest
<1>3. /\ w = y \o vs /\ y \in Seq(V) /\ vs \in Seq(V) /\ x \in V
  BY <1>1, FrontAndRest
<1>4. b = Append(r, x)
  BY ONLY <1>1, Zenon, b = Append(Tail(c), Head(w))
<1>5. b = r \o y /\ b \in Seq(V)
  <2>1. Append(r, x) = r \o <<x>> /\ Append(r, x) \in Seq(V)
    BY ONLY <1>2, <1>3, AppendIsConcat, AppendProperties
  <2> QED BY ONLY Zenon, <2>1, <1>1, <1>4
<1>6. (r \o y) \o vs = r \o (y \o vs)
  <2>1. r \in Seq(V) /\ y \in Seq(V) /\ vs \in Seq(V)
    BY ONLY <1>2, <1>3
  <2>2. Regroups(r, y, vs)
    BY ONLY <2>1, Regroup
  <2> QED BY ONLY <2>2 DEF Regroups
<1>7. (o \o r) \o w = o \o (r \o w)
  <2>1. o \in Seq(V) /\ r \in Seq(V) /\ w \in Seq(V)
    BY <1>2
  <2>2. Regroups(o, r, w)
    BY ONLY <2>1, Regroup
  <2> QED BY ONLY <2>2 DEF Regroups
<1>8. <<v>> \o (b \o vs) = c \o w
  BY ONLY Zenon, <1>1, <1>2, <1>3, <1>5, <1>6, <1>7
<1>9. Len(b) = Len(c)
  <2>1. Len(r) = Len(c) - 1 /\ Len(c) \in Nat
    BY <1>1, HeadTailProperties
  <2>2. Len(Append(r, x)) = Len(r) + 1
    BY ONLY <1>2, <1>3, AppendProperties
  <2> QED BY ONLY <2>1, <2>2, <1>4
<1> QED BY ONLY <1>2, <1>3, <1>5, <1>8, <1>9

LEMMA RecvBufferedExact ==
    ASSUME ChannelInv, ~stale, NEW t \in Tasks, RecvBuffered(t)
    PROVE  Exact'
<1>0. TaskInv /\ BlockInv /\ ChannelType /\ Sound(sendq)
  BY ExactFacts, BlockFacts
<1>1. PICK ws \in Seq(Tasks), wr \in Seq(Tasks) :
          /\ Line(sendq, ws) /\ Line(recvq, wr)
          /\ Standing(ws, wr) /\ SlotsHold(ws, wr) /\ Flow(ws)
  BY ExactFacts
<1>2. /\ (CanPop(sendq) <=> ws # <<>>)
      /\ (ws # <<>> => sendq.head = ws[1]) /\ sendq \in Queues /\ IsInjective(ws)
  BY <1>0, <1>1, LineFacts
<1>3. Free(t) /\ buffer # <<>>
  BY DEF RecvBuffered, Start
<1>4. PICK V, v : V = 1..(nextValue - 1) /\ v = Head(buffer)
  OBVIOUS
<1>5. Values(ws) \in Seq(V) /\ buffer \in Seq(V)
  BY <1>0, <1>1, <1>4, FlowFacts
<1>6. t \in Tasks /\ ws \in Seq(Tasks) /\ wr \in Seq(Tasks)
  OBVIOUS
<1>7. CASE ws # <<>>
  <2>1. CanPop(sendq) /\ sendq.head = ws[1]
    BY <1>2, <1>7
  <2>2. PICK s, q, xs, b, ts : /\ s = slotOf[ws[1]] /\ q = PopWaiter(sendq)
                               /\ xs = Tail(ws) /\ ts = <<ws[1]>>
                               /\ b = Append(Tail(buffer), sendValue[s])
    OBVIOUS
  <2>3. /\ xs \in Seq(Tasks) /\ Range(ws) \ Range(xs) = {ws[1]}
        /\ Range(xs) \subseteq Range(ws)
    BY <1>1, <1>2, <1>7, <2>2, FirstTaken
  <2>4. ws[1] \in Live /\ Line(q, xs)
    BY <1>0, <1>1, <1>2, <1>7, <2>2, PopLine
  <2>5. TaskSlot(ws[1]) = s
    BY <1>0, <2>2, <2>4, LiveSlot
  <2>6. /\ sendq' = q /\ RecvGets(t, v, b, ts)
        /\ sendValue' = [sendValue EXCEPT ![s] = NoValue]
    BY <1>4, <2>1, <2>2, <2>5 DEF RecvBuffered
  <2>7. slotOf' = slotOf
    BY <2>6 DEF RecvGets
  <2>8. /\ Values(ws) # <<>> /\ Head(Values(ws)) = sendValue[s]
        /\ Values(xs)' = Tail(Values(ws))
    BY <1>0, <1>1, <1>7, <2>2, <2>6, <2>7, ValuesFront
  <2>9. PICK vs, w, c : vs = Values(xs)' /\ w = Values(ws) /\ c = buffer
    OBVIOUS
  <2>10. /\ c \in Seq(V) /\ c # <<>> /\ w \in Seq(V) /\ w # <<>>
         /\ b = Append(Tail(c), Head(w)) /\ vs = Tail(w) /\ v = Head(c)
    BY ONLY <1>3, <1>4, <1>5, <2>2, <2>8, <2>9
  <2>11. /\ <<v>> \o (b \o vs) = c \o w /\ b \in Seq(V) /\ vs \in Seq(V)
         /\ v \in V /\ Len(b) = Len(c)
    BY ONLY <2>10, Refill
  <2>12. <<v>> \o (b \o vs) = buffer \o Values(ws)
    BY ONLY Zenon, <2>9, <2>11
  <2>13. Len(b) = capacity
    BY <1>1, <1>7, <2>9, <2>11 DEF Flow
  <2>14. Range(ts) = Range(ws) \ Range(xs)
    <3>1. PICK h : h = ws[1]
      OBVIOUS
    <3>2. h \in Tasks /\ ts = <<h>>
      BY <3>1, <2>2, <2>4 DEF Live
    <3> QED BY <3>1, <3>2, <2>3, OneOnce
  <2>15. b = <<>> \/ buffer # <<>>
    BY <1>3
  <2> QED BY ONLY <1>0, <1>1, <1>3, <1>4, <1>6, <2>3, <2>4, <2>6, <2>9, <2>11,
             <2>12, <2>13, <2>14, <2>15, RecvExact
<1>8. CASE ws = <<>>
  <2>1. PICK q, xs, b, ts : /\ q = sendq /\ xs = ws /\ ts = <<>>
                            /\ b = Tail(buffer)
    OBVIOUS
  <2>2. sendq' = q /\ RecvGets(t, v, b, ts)
    BY <1>2, <1>4, <1>8, <2>1 DEF RecvBuffered
  <2>3. PICK vs : vs = Values(xs)'
    OBVIOUS
  <2>4. vs = <<>> /\ Values(ws) = <<>>
    BY <1>8, <2>1, <2>3, NoValues
  <2>5. buffer = <<v>> \o b /\ b \in Seq(V) /\ v \in V
    BY <1>3, <1>4, <1>5, <2>1, FrontAndRest
  <2>6. b \o <<>> = b /\ buffer \o <<>> = buffer
    BY ONLY <1>5, <2>5, ConcatEmptySeq
  <2>7. <<v>> \o (b \o vs) = buffer \o Values(ws)
    BY ONLY Zenon, <2>4, <2>5, <2>6
  <2>8. /\ xs \in Seq(Tasks) /\ Line(q, xs) /\ Range(xs) \subseteq Range(ws)
        /\ Range(ts) = Range(ws) \ Range(xs) /\ vs \in Seq(V)
        /\ (xs # <<>> => Len(b) = capacity)
    BY <1>1, <1>6, <1>8, <2>1, <2>4, EmptyOnce, EmptySeq
  <2>9. b = <<>> \/ buffer # <<>>
    BY <1>3
  <2> QED BY ONLY <1>0, <1>1, <1>3, <1>4, <1>6, <2>2, <2>3, <2>5, <2>7, <2>8,
             <2>9, RecvExact
<1> QED BY <1>7, <1>8

\* A task that goes on and was not woken by the deadlock wake was served: it
\* stands in no line.
LEMMA ResumedServed ==
    ASSUME TaskInv, ChannelType, NEW ws, NEW wr, Standing(ws, wr),
           SlotsHold(ws, wr), NEW t \in Tasks, cur = t, state[t] = "Running",
           op[t] # "none", waitResult[t] # "TaskDeadlock",
           CompleteCountedWake(t), WakesCounted
    PROVE  /\ t \in Live /\ TaskSlot(t) = slotOf[t] /\ slotOf[t] \in Slots
           /\ t \notin Range(ws) /\ t \notin Range(wr)
           /\ counted'[slotOf[t]] = 0
           /\ \A s \in Slots : s # slotOf[t] => counted'[s] = counted[s]
<1>1. t \in Live
  BY RunLive
<1>2. TaskSlot(t) = slotOf[t] /\ slotOf[t] \in Slots
  BY <1>1, LiveSlot
<1>3. t \notin Range(ws) /\ t \notin Range(wr)
  BY DEF Standing, Waits
<1>4. counted \in [Slots -> Nat]
  BY DEF ChannelType
<1>5. /\ \A s \in Slots : s # slotOf[t] => counted'[s] = counted[s]
      /\ counted'[slotOf[t]] =
            IF counted[slotOf[t]] = 0 THEN 0 ELSE counted[slotOf[t]] - 1
  BY <1>1, <1>4, CompleteWake
<1>6. counted[slotOf[t]] # 0 => counted[slotOf[t]] = 1
  BY <1>1, SlotOwner
<1> QED BY <1>1, <1>2, <1>3, <1>5, <1>6

LEMMA ResumeSendExact ==
    ASSUME ChannelInv, ~stale', NEW t \in Tasks, CoroutineResumeSend(t)
    PROVE  Exact'
<1>1. /\ cur = t /\ state[t] = "Running" /\ op[t] = "send"
      /\ op' = [op EXCEPT ![t] = "none"] /\ CompleteCountedWake(t)
      /\ completed' = [completed EXCEPT ![TaskSlot(t)] = FALSE]
      /\ stale' = (stale \/ waitResult[t] = "TaskDeadlock")
      /\ UNCHANGED <<slotOf, nextTask, state, waitResult, onChannel, buffer,
                     closed, capacity, sendq, recvq, sendValue, rendezvous,
                     nextValue, admitted, matched, received>>
  BY DEF CoroutineResumeSend, owner
<1>2. ~stale /\ waitResult[t] # "TaskDeadlock"
  BY <1>1
<1>3. TaskInv /\ BlockInv /\ ChannelType /\ WakesCounted
  BY <1>2, ExactFacts, BlockFacts
<1>4. PICK ws \in Seq(Tasks), wr \in Seq(Tasks) :
          /\ Line(sendq, ws) /\ Line(recvq, wr)
          /\ Standing(ws, wr) /\ SlotsHold(ws, wr) /\ Flow(ws)
  BY <1>2, ExactFacts
<1>5. /\ t \in Live /\ TaskSlot(t) = slotOf[t] /\ slotOf[t] \in Slots
      /\ t \notin Range(ws) /\ t \notin Range(wr)
      /\ counted'[slotOf[t]] = 0
      /\ \A s \in Slots : s # slotOf[t] => counted'[s] = counted[s]
  BY <1>1, <1>2, <1>3, <1>4, ResumedServed
<1>6. PICK q, r : q = sendq /\ r = recvq
  OBVIOUS
<1>7. Line(sendq, ws)' /\ Line(recvq, wr)'
  BY <1>1, <1>4, <1>6, LinePut
<1>8. Standing(ws, wr)' /\ SlotsHold(ws, wr)'
  <2>1. rendezvous'[slotOf[t]] = NoValue
    BY <1>1, <1>3, <1>4, <1>5, SlotOwner
  <2>2. completed \in [Slots -> BOOLEAN]
    BY <1>3 DEF ChannelType
  <2>3. ~completed'[slotOf[t]]
    BY <2>2, <1>1, <1>5
  <2>4. \A s \in Slots : s # slotOf[t] =>
           /\ completed'[s] = completed[s] /\ rendezvous'[s] = rendezvous[s]
           /\ counted'[s] = counted[s]
    BY <2>2, <1>1, <1>5
  <2>5. op[t] # "none"
    BY <1>1
  <2> QED BY <2>1, <2>3, <2>4, <2>5, <1>1, <1>3, <1>4, <1>5, ResumeStep
<1>9. Values(ws)' = Values(ws)
  BY <1>1 DEF Values
<1>10. Flow(ws)'
  BY <1>1, <1>4, <1>9, FlowKept DEF Flow
<1> QED BY <1>7, <1>8, <1>10 DEF Exact

LEMMA ResumeRecvExact ==
    ASSUME ChannelInv, ~stale', NEW t \in Tasks, CoroutineResumeRecv(t)
    PROVE  Exact'
<1>1. /\ cur = t /\ state[t] = "Running" /\ op[t] = "recv"
      /\ op' = [op EXCEPT ![t] = "none"] /\ CompleteCountedWake(t)
      /\ rendezvous' = [rendezvous EXCEPT ![TaskSlot(t)] = NoValue]
      /\ received' = IF rendezvous[TaskSlot(t)] = NoValue THEN received
                     ELSE received \cup {rendezvous[TaskSlot(t)]}
      /\ stale' = (stale \/ waitResult[t] = "TaskDeadlock")
      /\ UNCHANGED <<slotOf, nextTask, state, waitResult, onChannel, buffer,
                     closed, capacity, sendq, recvq, sendValue, completed,
                     nextValue, admitted, matched>>
  BY DEF CoroutineResumeRecv, owner
<1>2. ~stale /\ waitResult[t] # "TaskDeadlock"
  BY <1>1
<1>3. TaskInv /\ BlockInv /\ ChannelType /\ WakesCounted
  BY <1>2, ExactFacts, BlockFacts
<1>4. PICK ws \in Seq(Tasks), wr \in Seq(Tasks) :
          /\ Line(sendq, ws) /\ Line(recvq, wr)
          /\ Standing(ws, wr) /\ SlotsHold(ws, wr) /\ Flow(ws)
  BY <1>2, ExactFacts
<1>5. /\ t \in Live /\ TaskSlot(t) = slotOf[t] /\ slotOf[t] \in Slots
      /\ t \notin Range(ws) /\ t \notin Range(wr)
      /\ counted'[slotOf[t]] = 0
      /\ \A s \in Slots : s # slotOf[t] => counted'[s] = counted[s]
  BY <1>1, <1>2, <1>3, <1>4, ResumedServed
<1>6. PICK q, r : q = sendq /\ r = recvq
  OBVIOUS
<1>7. Line(sendq, ws)' /\ Line(recvq, wr)'
  BY <1>1, <1>4, <1>6, LinePut
<1>8. PICK x : x = slotOf[t]
  OBVIOUS
<1>9. /\ rendezvous \in [Slots -> Nat] /\ rendezvous' \in [Slots -> Nat]
      /\ rendezvous'[x] = NoValue /\ x \in Slots
      /\ \A s \in Slots : s # x => rendezvous'[s] = rendezvous[s]
  BY <1>1, <1>3, <1>5, <1>8 DEF ChannelType, NoValue
<1>10. Standing(ws, wr)' /\ SlotsHold(ws, wr)'
  <2>1. ~completed'[slotOf[t]]
    BY <1>1, <1>3, <1>4, <1>5, SlotOwner
  <2>2. /\ rendezvous'[slotOf[t]] = NoValue
        /\ \A s \in Slots : s # slotOf[t] =>
              /\ completed'[s] = completed[s] /\ rendezvous'[s] = rendezvous[s]
              /\ counted'[s] = counted[s]
    BY <1>1, <1>5, <1>8, <1>9
  <2>3. op[t] # "none"
    BY <1>1
  <2> QED BY <2>1, <2>2, <2>3, <1>1, <1>3, <1>4, <1>5, ResumeStep
<1>11. Values(ws)' = Values(ws)
  BY <1>1 DEF Values
<1>12. /\ received \subseteq Nat /\ Range(matched) = received \cup LeftValues
       /\ received \cap LeftValues = {}
       /\ \A s, u \in LeftSlots : rendezvous[s] = rendezvous[u] => s = u
  BY <1>4 DEF Flow
<1>13. LeftSlots' = LeftSlots \ {x} /\ LeftSlots \subseteq Slots
  BY <1>9 DEF LeftSlots
<1>14. \A s \in LeftSlots' : rendezvous'[s] = rendezvous[s] /\ s \in LeftSlots
  BY <1>9, <1>13
<1>15. /\ received' \subseteq Nat /\ Range(matched) = received' \cup LeftValues'
       /\ received' \cap LeftValues' = {}
  <2>1. CASE x \in LeftSlots
    <3>1. received' = received \cup {rendezvous[x]}
      BY <2>1, <1>1, <1>5, <1>8 DEF LeftSlots
    <3>2. LeftValues' = LeftValues \ {rendezvous[x]}
      <4>1. LeftValues' = {rendezvous'[s] : s \in LeftSlots'}
        BY DEF LeftValues
      <4>2. LeftValues' = {rendezvous[s] : s \in LeftSlots \ {x}}
        BY <4>1, <1>13, <1>14
      <4> QED BY <4>2, <2>1, <1>12 DEF LeftValues
    <3>3. rendezvous[x] \in LeftValues /\ rendezvous[x] \in Nat
      BY <2>1, <1>9 DEF LeftValues
    <3> QED BY <3>1, <3>2, <3>3, <1>12
  <2>2. CASE x \notin LeftSlots
    <3>1. received' = received
      BY <2>2, <1>1, <1>5, <1>8 DEF LeftSlots
    <3>2. LeftSlots' = LeftSlots
      BY <2>2, <1>13
    <3>3. LeftValues' = LeftValues
      BY <3>2, <1>14 DEF LeftValues
    <3> QED BY <3>1, <3>3, <1>12
  <2> QED BY <2>1, <2>2
<1>16. \A s, u \in LeftSlots' : rendezvous'[s] = rendezvous'[u] => s = u
  BY <1>12, <1>14
<1>17. Flow(ws)'
  <2>1. /\ matched \in Seq(1..(nextValue - 1))
        /\ admitted = matched \o buffer \o Values(ws)
        /\ IsInjective(admitted) /\ (ws # <<>> => Len(buffer) = capacity)
    BY <1>4 DEF Flow
  <2> QED BY <2>1, <1>1, <1>11, <1>15, <1>16 DEF Flow
<1> QED BY <1>7, <1>10, <1>17 DEF Exact

\* close() takes what was not handed over back from the order of values: the
\* parked values, and the buffered ones if the buffer is discarded.
LEMMA CloseFlow ==
    ASSUME NEW V, NEW m \in Seq(V), NEW c \in Seq(V), NEW w \in Seq(V),
           IsInjective((m \o c) \o w), NEW b, b = c \/ b = <<>>
    PROVE  /\ Keep((m \o c) \o w, Range((m \o c) \o w)
                                     \ (Range(w) \cup (Range(c) \ Range(b))))
                 = (m \o b) \o <<>>
           /\ IsInjective((m \o b) \o <<>>)
<1>0. /\ m \in Seq(V) /\ c \in Seq(V) /\ w \in Seq(V)
  OBVIOUS
<1>9. PICK a, lost : /\ a = (m \o c) \o w
                     /\ lost = Range(w) \cup (Range(c) \ Range(b))
  OBVIOUS
<1>1. PICK n, T : n = m \o c /\ T = Range(a) \ lost
  OBVIOUS
<1>2. n \in Seq(V) /\ Range(n) = Range(m) \cup Range(c)
  BY ONLY <1>0, <1>1, ConcatOnce
<1>3. a = n \o w /\ IsInjective(n \o w)
  BY Zenon, <1>9, <1>1
<1>4. Range(a) = Range(n) \cup Range(w)
  <2>1. Range(n \o w) = Range(n) \cup Range(w)
    BY ONLY <1>0, <1>2, ConcatOnce
  <2> QED BY ONLY Zenon, <2>1, <1>3
<1>5. IsInjective(n) /\ Range(n) \cap Range(w) = {}
  BY ONLY <1>0, <1>2, <1>3, SplitOnce
<1>6. IsInjective(m) /\ Range(m) \cap Range(c) = {}
  <2>1. IsInjective(m \o c)
    BY ONLY <1>1, <1>5
  <2> QED BY ONLY <2>1, <1>0, SplitOnce
<1>7. CASE b = c
  <2>1. lost = Range(w)
    BY <1>7, <1>9
  <2>2. Range(n) \subseteq T /\ Range(w) \cap T = {}
    BY ONLY <2>1, <1>1, <1>4, <1>5
  <2>3. Keep(n \o w, T) = n
    BY ONLY <2>2, <1>0, <1>2, KeepFront
  <2>4. n \o <<>> = n
    BY ONLY <1>2, ConcatEmptySeq
  <2> QED BY ONLY Zenon, <2>3, <2>4, <1>9, <1>1, <1>3, <1>5, <1>7
<1>8. CASE b = <<>>
  <2>1. lost = Range(w) \cup Range(c)
    BY <1>8, <1>9, EmptyOnce
  <2>2. PICK d : d = c \o w
    OBVIOUS
  <2>3. d \in Seq(V) /\ Range(d) = Range(c) \cup Range(w)
    BY ONLY <2>2, <1>0, ConcatOnce
  <2>4. (m \o c) \o w = m \o (c \o w)
    <3>1. Regroups(m, c, w)
      BY ONLY <1>0, Regroup
    <3> QED BY ONLY <3>1 DEF Regroups
  <2>5. a = m \o d
    BY ONLY Zenon, <2>2, <2>4, <1>1, <1>3
  <2>6. Range(m) \subseteq T /\ Range(d) \cap T = {}
    BY ONLY <2>1, <2>3, <1>1, <1>2, <1>4, <1>5, <1>6
  <2>7. Keep(m \o d, T) = m
    BY ONLY <2>3, <2>6, <1>0, KeepFront
  <2>8. m \o <<>> = m
    BY ONLY <1>0, ConcatEmptySeq
  <2> QED BY ONLY Zenon, <2>5, <2>7, <2>8, <1>9, <1>1, <1>6, <1>8
<1> QED BY ONLY <1>7, <1>8, b = c \/ b = <<>>

LEMMA CloseExact ==
    ASSUME ChannelInv, ~stale, NEW b \in {buffer, <<>>}, CloseEffects(b),
           UNCHANGED capacity, \A u \in Tasks : op[u] # "none" => cur # u
    PROVE  Exact'
<1>0. /\ TaskInv /\ BlockInv /\ ChannelType /\ Sound(sendq) /\ Sound(recvq)
      /\ WakesCounted /\ TaskType
  BY ExactFacts, BlockFacts, TaskFacts
<1>1. PICK ws \in Seq(Tasks), wr \in Seq(Tasks) :
          /\ Line(sendq, ws) /\ Line(recvq, wr)
          /\ Standing(ws, wr) /\ SlotsHold(ws, wr) /\ Flow(ws)
  BY ExactFacts
<1>2. /\ Range(ws) \subseteq Live /\ Range(ws) \subseteq Tasks
      /\ Chain(sendq, ws, 0) /\ sendq \in Queues /\ Tallied(sendq)
      /\ Range(ws) = {ws[i] : i \in 1..Len(ws)}
  BY <1>0, <1>1, LineFacts
<1>3. /\ Range(wr) \subseteq Live /\ Range(wr) \subseteq Tasks
      /\ Chain(recvq, wr, 0) /\ recvq \in Queues /\ Tallied(recvq)
  BY <1>0, <1>1, LineFacts
<1>4. Reachable(sendq) = Range(ws)
  BY <1>0, <1>2, ReachChain
<1>5. Reachable(recvq) = Range(wr)
  BY <1>0, <1>3, ReachChain
<1>6. PICK W, lost, n : /\ W = Range(ws) \cup Range(wr)
                        /\ lost = {sendValue[TaskSlot(u)] : u \in Range(ws)}
                                    \cup (Range(buffer) \ Range(b))
                        /\ n = <<>>
  OBVIOUS
<1>7. /\ closed' = TRUE /\ buffer' = b
      /\ sendq' = Detached(sendq) /\ recvq' = Detached(recvq)
      /\ AddCountedWake(W) /\ WakeChannel(ByWait(W))
      /\ admitted' = Keep(admitted, Range(admitted) \ lost)
      /\ UNCHANGED <<slotOf, onChannel, op, nextTask, rendezvous, completed,
                     nextValue, matched, received>>
  BY <1>4, <1>5, <1>6, ToSetIsRange DEF CloseEffects
<1>8. PICK q, r : q = sendq' /\ r = recvq'
  OBVIOUS
<1>9. Line(q, n) /\ Line(r, n)
  BY <1>0, <1>1, <1>2, <1>3, <1>6, <1>7, <1>8, DetachLine
<1>10. Line(sendq, n)' /\ Line(recvq, n)'
  BY <1>7, <1>8, <1>9, LinePut
<1>11. \A u \in W : /\ u \in Live /\ u \in Tasks /\ cur # u /\ op[u] # "none"
                    /\ (op[u] = "send" => u \in Range(ws))
                    /\ (op[u] = "recv" => u \in Range(wr))
                    /\ \E k : Waits(u, k)
  BY <1>1, <1>2, <1>3, <1>6 DEF Standing, Waits
<1>12. PICK ts : ts = ByWait(W)
  OBVIOUS
<1>13. Range(ts) = W /\ W \subseteq Tasks
  BY <1>0, <1>2, <1>3, <1>6, <1>12, ByWaitOnce DEF TaskType
<1>14. /\ \A u \in W : state'[u] # "ChannelBlocked" /\ waitResult'[u] = "Ok"
       /\ \A u \in Tasks \ W :
             state'[u] = state[u] /\ waitResult'[u] = waitResult[u]
  BY <1>0, <1>7, <1>11, <1>12, <1>13, WakeMany
<1>15. \A u \in W : /\ slotOf[u] \in Slots /\ counted[slotOf[u]] = 0
                    /\ (op[u] = "send" => rendezvous[slotOf[u]] = NoValue)
                    /\ (op[u] = "recv" => ~completed[slotOf[u]])
  <2> SUFFICES ASSUME NEW u \in W
               PROVE  /\ slotOf[u] \in Slots /\ counted[slotOf[u]] = 0
                      /\ (op[u] = "send" => rendezvous[slotOf[u]] = NoValue)
                      /\ (op[u] = "recv" => ~completed[slotOf[u]])
    OBVIOUS
  <2>1. u \in Live /\ (u \in Range(ws) \/ u \in Range(wr))
    BY <1>6, <1>11
  <2> QED BY <2>1, <1>0, <1>1, SlotOwner, LiveSlot
<1>16. /\ \A u \in W : counted'[slotOf[u]] = 1
       /\ \A s \in Slots : (\A u \in W : slotOf[u] # s) =>
             counted'[s] = counted[s]
  <2>1. counted \in [Slots -> Nat] /\ W \in SUBSET Live
    BY <1>0, <1>2, <1>3, <1>6 DEF ChannelType
  <2>2. \A s \in Slots :
           /\ (\E u \in W : slotOf[u] = s) => counted'[s] = counted[s] + 1
           /\ ~(\E u \in W : slotOf[u] = s) => counted'[s] = counted[s]
    BY <2>1, <1>0, <1>7, AddWakes
  <2>3. \A u \in W : counted'[slotOf[u]] = 1
    BY ONLY <2>2, <1>15
  <2> QED BY <2>2, <2>3
<1>17. Standing(n, n)' /\ SlotsHold(n, n)'
  <2>1. W = Taken(ws, wr, n, n) /\ Range(n) \subseteq Range(ws)
        /\ Range(n) \subseteq Range(wr)
    BY <1>6, EmptyOnce DEF Taken
  <2>2. /\ UNCHANGED <<slotOf, op, onChannel>> /\ (closed => closed') /\ closed'
        /\ (closed' => n = <<>> /\ n = <<>>)
    BY <1>6, <1>7
  <2>3. /\ \A u \in W : op[u] = "send" =>
              /\ completed'[slotOf[u]] \/ (closed' /\ counted'[slotOf[u]] # 0)
              /\ rendezvous'[slotOf[u]] = NoValue
        /\ \A u \in W : op[u] = "recv" =>
              /\ rendezvous'[slotOf[u]] # NoValue
                 \/ (closed' /\ counted'[slotOf[u]] # 0)
              /\ ~completed'[slotOf[u]]
        /\ \A u \in W : counted'[slotOf[u]] \in {0, 1}
    BY ONLY <2>2, <1>7, <1>15, <1>16
  <2>4. \A s \in Slots : (\A u \in W : slotOf[u] # s) =>
           /\ completed'[s] = completed[s] /\ rendezvous'[s] = rendezvous[s]
           /\ counted'[s] = counted[s]
    BY ONLY <1>7, <1>16
  <2>5. Standing(ws, wr) /\ SlotsHold(ws, wr)
    BY <1>1
  <2> QED BY ONLY <2>1, <2>2, <2>3, <2>4, <2>5, <1>0, <1>2, <1>3, <1>14,
             ServeStep
<1>18. Values(n) = <<>> /\ Values(n)' = <<>>
  BY <1>6, NoValues
<1>19. PICK V : V = 1..(nextValue - 1)
  OBVIOUS
<1>20. /\ matched \in Seq(V) /\ buffer \in Seq(V) /\ Values(ws) \in Seq(V)
       /\ admitted = (matched \o buffer) \o Values(ws) /\ IsInjective(admitted)
  BY <1>0, <1>1, <1>19, FlowFacts
<1>21. {sendValue[TaskSlot(u)] : u \in Range(ws)} = Range(Values(ws))
  <2>1. \A i \in 1..Len(ws) : TaskSlot(ws[i]) = slotOf[ws[i]]
    BY <1>2 DEF TaskSlot
  <2>2. Range(Values(ws)) = {sendValue[slotOf[ws[i]]] : i \in 1..Len(ws)}
    BY DEF Range, Values
  <2> QED BY <2>1, <2>2, <1>2
<1>22. admitted' = (matched' \o buffer') \o Values(n)' /\ IsInjective(admitted')
  <2>1. PICK m, c, w, a : /\ m = matched /\ c = buffer /\ w = Values(ws)
                          /\ a = admitted
    OBVIOUS
  <2>2. /\ m \in Seq(V) /\ c \in Seq(V) /\ w \in Seq(V)
        /\ a = (m \o c) \o w /\ IsInjective(a)
    BY ONLY <2>1, <1>20
  <2>3. b = c \/ b = <<>>
    BY <2>1
  <2>4. lost = Range(w) \cup (Range(c) \ Range(b))
    BY ONLY <2>1, <1>6, <1>21
  <2>5. IsInjective((m \o c) \o w)
    BY ONLY Zenon, <2>2
  <2>6. /\ Keep((m \o c) \o w, Range((m \o c) \o w)
                                  \ (Range(w) \cup (Range(c) \ Range(b))))
              = (m \o b) \o <<>>
        /\ IsInjective((m \o b) \o <<>>)
    BY ONLY <2>2, <2>3, <2>5, CloseFlow
  <2>7. /\ Keep(a, Range(a) \ lost) = (m \o b) \o <<>>
        /\ IsInjective((m \o b) \o <<>>)
    BY ONLY Zenon, <2>2, <2>4, <2>6
  <2> QED BY ONLY Zenon, <2>1, <2>7, <1>7, <1>18
<1>23. LeftSlots' = LeftSlots /\ LeftValues' = LeftValues
  BY <1>7 DEF LeftSlots, LeftValues
<1>24. Flow(n)'
  <2>1. /\ received \subseteq Nat /\ Range(matched) = received \cup LeftValues
        /\ received \cap LeftValues = {}
        /\ \A s, u \in LeftSlots : rendezvous[s] = rendezvous[u] => s = u
    BY <1>1 DEF Flow
  <2> QED BY <2>1, <1>6, <1>7, <1>19, <1>20, <1>22, <1>23 DEF Flow
<1>25. n \in Seq(Tasks)
  BY <1>6, EmptyOnce
<1> QED BY <1>10, <1>17, <1>24, <1>25 DEF Exact

LEMMA CloseAbandonExact ==
    ASSUME ChannelInv, ~stale, Close \/ Abandon
    PROVE  Exact'
<1>0. TaskType
  BY ExactFacts, TaskFacts
<1>1. \A u \in Tasks : op[u] # "none" => cur # u
  <2>1. cur = 0 \/ \E t \in Tasks : Free(t)
    BY DEF Close, Abandon, Start
  <2> QED BY <2>1 DEF Free, Tasks
<1>2. CASE Close
  <2>1. PICK b : b = buffer
    OBVIOUS
  <2>2. CloseEffects(b) /\ UNCHANGED capacity /\ b \in {buffer, <<>>}
    BY <1>2, <2>1 DEF Close, owner
  <2> QED BY <2>2, <1>1, CloseExact
<1>3. CASE Abandon
  <2>1. PICK b : b = <<>>
    OBVIOUS
  <2>2. CloseEffects(b) /\ UNCHANGED capacity /\ b \in {buffer, <<>>}
    BY <1>3, <2>1 DEF Abandon
  <2> QED BY <2>2, <1>1, CloseExact
<1> QED BY <1>2, <1>3

-----------------------------------------------------------------------------
(* What operations are told, and the release of the scheduler record.      *)

\* A wait that ends otherwise than by the deadlock wake ends with its value
\* taken, a value, or the channel closed.
LEMMA ResumeTold ==
    ASSUME ChannelInv, ~stale', NEW t \in Tasks,
           CoroutineResumeSend(t) \/ CoroutineResumeRecv(t)
    PROVE  outcome' \in {[outcome EXCEPT ![t] = "Ok"],
                         [outcome EXCEPT ![t] = "ChannelClosed"]}
<1>1. /\ cur = t /\ state[t] = "Running" /\ op[t] \in {"send", "recv"}
      /\ CompleteCountedWake(t)
      /\ stale' = (stale \/ waitResult[t] = "TaskDeadlock")
  BY DEF CoroutineResumeSend, CoroutineResumeRecv
<1>2. ~stale /\ waitResult[t] # "TaskDeadlock" /\ op[t] # "none"
  BY <1>1
<1>3. TaskInv /\ BlockInv /\ ChannelType /\ WakesCounted
  BY <1>2, ExactFacts, BlockFacts
<1>4. PICK ws \in Seq(Tasks), wr \in Seq(Tasks) :
          Standing(ws, wr) /\ SlotsHold(ws, wr)
  BY <1>2, ExactFacts
<1>5. TaskSlot(t) = slotOf[t] /\ t \notin Range(ws) /\ t \notin Range(wr)
  BY <1>1, <1>2, <1>3, <1>4, ResumedServed
<1>6. CASE CoroutineResumeSend(t)
  <2>1. completed[TaskSlot(t)] \/ closed
    BY <1>4, <1>5, <1>6 DEF Standing, CoroutineResumeSend
  <2>2. outcome' = [outcome EXCEPT ![t] = IF completed[TaskSlot(t)] THEN "Ok"
                                          ELSE Missing]
    BY <1>6 DEF CoroutineResumeSend, Ended
  <2> QED BY <2>1, <2>2 DEF Missing
<1>7. CASE CoroutineResumeRecv(t)
  <2>1. rendezvous[TaskSlot(t)] # NoValue \/ closed
    BY <1>4, <1>5, <1>7 DEF Standing, CoroutineResumeRecv
  <2>2. outcome' = [outcome EXCEPT ![t] = IF rendezvous[TaskSlot(t)] # NoValue
                                          THEN "Ok" ELSE Missing]
    BY <1>7 DEF CoroutineResumeRecv, Ended
  <2> QED BY <2>1, <2>2 DEF Missing
<1> QED BY <1>6, <1>7

\* An operation that says how it ended does not say that its context is gone.
LEMMA ToldStays ==
    ASSUME ChannelType, Told, NEW t, NEW r, r # "TaskContextMissing",
           outcome' = outcome \/ outcome' = [outcome EXCEPT ![t] = r]
    PROVE  Told'
<1>1. outcome \in [Tasks -> Outcomes]
  BY DEF ChannelType
<1> QED BY <1>1 DEF Told

LEMMA NextTold ==
    ASSUME ChannelInv, ~stale', ~stale, Next
    PROVE  Told'
<1>0. ChannelType /\ Told
  BY ExactFacts, BlockFacts
<1>1. CASE Spawn \/ Dispatch \/ WakeDeadlockedTasks \/ Abandon
  BY <1>0, <1>1 DEF Told, Spawn, Dispatch, WakeDeadlockedTasks, Abandon, history
<1>2. CASE Close
  <2>1. PICK r : r = "Ok"
    OBVIOUS
  <2>2. r # "TaskContextMissing"
    BY <2>1
  <2>3. outcome' = outcome \/ \E t \in Tasks : outcome' = [outcome EXCEPT ![t] = r]
    BY <1>2, <2>1 DEF Close, Ended
  <2> QED BY <2>2, <2>3, <1>0, ToldStays
<1>3. ASSUME NEW t \in Tasks, Retire(t) \/ Yield(t) \/ Finish(t)
      PROVE  Told'
  BY <1>0, <1>3 DEF Told, Retire, Yield, Finish, history
<1>4. ASSUME NEW t \in Tasks, Send(t) PROVE Told'
  <2>1. \E r \in {"Ok", "ChannelClosed", "ChannelWaitCapacityExceeded"} :
           outcome' = outcome \/ outcome' = [outcome EXCEPT ![t] = r]
    BY <1>4 DEF Send, SendClosed, SendToReceiver, SendToBuffer, SendParks,
                SendCannotPark, Ended
  <2>2. PICK r \in {"Ok", "ChannelClosed", "ChannelWaitCapacityExceeded"} :
           outcome' = outcome \/ outcome' = [outcome EXCEPT ![t] = r]
    BY <2>1
  <2>3. r # "TaskContextMissing"
    OBVIOUS
  <2> QED BY <2>2, <2>3, <1>0, ToldStays
<1>5. ASSUME NEW t \in Tasks, Recv(t) PROVE Told'
  <2>1. \E r \in {"Ok", "ChannelClosed", "ChannelWaitCapacityExceeded"} :
           outcome' = outcome \/ outcome' = [outcome EXCEPT ![t] = r]
    <3>1. CASE RecvRendezvous(t) \/ RecvBuffered(t) \/ RecvFromSender(t)
      <4>1. \E v, b, ts : RecvGets(t, v, b, ts)
        BY <3>1 DEF RecvRendezvous, RecvBuffered, RecvFromSender
      <4> QED BY <4>1 DEF RecvGets, Ended
    <3>2. CASE RecvClosed(t) \/ RecvParks(t) \/ RecvCannotPark(t)
      BY <3>2 DEF RecvClosed, RecvParks, RecvCannotPark, Ended
    <3> QED BY <3>1, <3>2, <1>5 DEF Recv
  <2>2. PICK r \in {"Ok", "ChannelClosed", "ChannelWaitCapacityExceeded"} :
           outcome' = outcome \/ outcome' = [outcome EXCEPT ![t] = r]
    BY <2>1
  <2>3. r # "TaskContextMissing"
    OBVIOUS
  <2> QED BY <2>2, <2>3, <1>0, ToldStays
<1>6. ASSUME NEW t \in Tasks, CoroutineResumeSend(t) \/ CoroutineResumeRecv(t)
      PROVE  Told'
  <2>1. \E r \in {"Ok", "ChannelClosed"} : outcome' = [outcome EXCEPT ![t] = r]
    BY <1>6, ResumeTold
  <2>2. PICK r \in {"Ok", "ChannelClosed"} : outcome' = [outcome EXCEPT ![t] = r]
    BY <2>1
  <2>3. r # "TaskContextMissing"
    OBVIOUS
  <2> QED BY <2>2, <2>3, <1>0, ToldStays
<1> QED BY <1>1, <1>2, <1>3, <1>4, <1>5, <1>6 DEF Next, Quantum

\* Once a channel is closed, drained and without wakes in flight, nobody is
\* inside an await on it.
LEMMA QuietReleased ==
    ASSUME TaskInv', BlockInv', Exact', closed', inFlight' = 0,
           \A s \in Slots : rendezvous'[s] = NoValue /\ ~completed'[s]
    PROVE  Unawaited'
<1>1. /\ TaskType' /\ TaskLife' /\ WakesCounted'
      /\ counted' \in [Slots -> Nat]
  BY DEF TaskInv, BlockInv, ChannelType
<1>2. \A s \in Slots : counted'[s] = 0
  <2>1. Wakeups' = {}
    BY <1>1, FS_EmptySet DEF WakesCounted
  <2>2. ASSUME NEW s \in Slots, counted'[s] # 0 PROVE FALSE
    <3>1. counted'[s] \in Nat
      BY <1>1
    <3>2. 0 < counted'[s]
      BY <3>1, <2>2
    <3>3. <<s, 0>> \in Wakeups'
      BY <3>2 DEF Wakeups
    <3> QED BY <3>3, <2>1
  <2> QED BY <2>2
<1>3. PICK ws \in Seq(Tasks), wr \in Seq(Tasks) : Standing(ws, wr)'
  BY DEF Exact
<1>4. ws = <<>> /\ wr = <<>>
  BY <1>3 DEF Standing
<1>5. Range(ws) = {} /\ Range(wr) = {}
  BY <1>4, EmptyOnce
<1>6. ASSUME NEW t \in Tasks, op'[t] # "none" PROVE FALSE
  <2>1. slotOf'[t] \in Slots
    BY <1>1, <1>6 DEF TaskLife, TaskType
  <2>2. op'[t] = "send" \/ op'[t] = "recv"
    BY <1>1, <1>6 DEF TaskType
  <2> QED BY <2>1, <2>2, <1>2, <1>3, <1>5 DEF Standing
<1> QED BY <1>6 DEF Unawaited

LEMMA NextUnawaited ==
    ASSUME ChannelInv, ~stale, Next, TaskInv', BlockInv', Exact', released'
    PROVE  Unawaited'
<1>0. /\ TaskInv /\ BlockInv /\ TaskType /\ ReleasedClosed
      /\ (released => Unawaited)
  BY ExactFacts, BlockFacts, TaskFacts
<1>1. CASE ~released
  <2>1. TryReleaseSchedulerRecord
    <3>1. released' # released
      BY <1>1
    <3>2. CASE Close \/ Abandon
      BY <3>2 DEF Close, Abandon, CloseEffects
    <3>3. CASE \E t \in Tasks : Recv(t)
      <4>1. PICK t \in Tasks : Recv(t)
        BY <3>3
      <4>2. CASE RecvRendezvous(t) \/ RecvBuffered(t) \/ RecvFromSender(t)
        <5>1. \E v, b, ts : RecvGets(t, v, b, ts)
          BY <4>2 DEF RecvRendezvous, RecvBuffered, RecvFromSender
        <5> QED BY <5>1 DEF RecvGets
      <4>3. CASE RecvClosed(t) \/ RecvParks(t) \/ RecvCannotPark(t)
        BY <4>3, <3>1 DEF RecvClosed, RecvParks, RecvCannotPark
      <4> QED BY <4>1, <4>2, <4>3 DEF Recv
    <3>4. CASE \E t \in Tasks : CoroutineResumeSend(t) \/ CoroutineResumeRecv(t)
      BY <3>4 DEF CoroutineResumeSend, CoroutineResumeRecv
    <3>5. CASE \E t \in Tasks : Send(t)
      BY <3>1, <3>5 DEF Send, SendClosed, SendToReceiver, SendToBuffer,
                        SendParks, SendCannotPark
    <3>6. CASE \/ Spawn \/ Dispatch \/ WakeDeadlockedTasks
               \/ \E t \in Tasks : Yield(t) \/ Finish(t) \/ Retire(t)
      BY <3>1, <3>6 DEF Spawn, Dispatch, WakeDeadlockedTasks, Yield, Finish,
                        Retire
    <3> QED BY <3>2, <3>3, <3>4, <3>5, <3>6 DEF Next, Quantum
  <2>2. /\ closed' /\ inFlight' = 0
        /\ \A s \in Slots : rendezvous'[s] = NoValue /\ ~completed'[s]
    BY <2>1, <1>1 DEF TryReleaseSchedulerRecord
  <2> QED BY <2>2, QuietReleased
<1>2. CASE released
  <2>1. Unawaited /\ closed
    BY <1>0, <1>2 DEF ReleasedClosed
  <2>2. op' = op \/ \E t \in Tasks : op' = [op EXCEPT ![t] = "none"]
    <3>1. CASE Close \/ Abandon
      BY <3>1 DEF Close, Abandon, CloseEffects
    <3>2. CASE \E t \in Tasks : Recv(t)
      <4>1. PICK t \in Tasks : Recv(t)
        BY <3>2
      <4>2. CASE RecvRendezvous(t) \/ RecvBuffered(t) \/ RecvFromSender(t)
        <5>1. \E v, b, ts : RecvGets(t, v, b, ts)
          BY <4>2 DEF RecvRendezvous, RecvBuffered, RecvFromSender
        <5> QED BY <5>1 DEF RecvGets
      <4>3. CASE RecvClosed(t) \/ RecvParks(t) \/ RecvCannotPark(t)
        BY <4>3, <2>1 DEF RecvClosed, RecvParks, RecvCannotPark, tasks
      <4> QED BY <4>1, <4>2, <4>3 DEF Recv
    <3>3. CASE \E t \in Tasks : CoroutineResumeSend(t) \/ CoroutineResumeRecv(t)
      BY <3>3 DEF CoroutineResumeSend, CoroutineResumeRecv
    <3>4. CASE \E t \in Tasks : Send(t)
      BY <2>1, <3>4 DEF Send, SendClosed, SendToReceiver, SendToBuffer,
                        SendParks, SendCannotPark, tasks
    <3>5. CASE \/ Spawn \/ Dispatch \/ WakeDeadlockedTasks
               \/ \E t \in Tasks : Yield(t) \/ Finish(t) \/ Retire(t)
      BY <3>5 DEF Spawn, Dispatch, WakeDeadlockedTasks, Yield, Finish, Retire
    <3> QED BY <3>1, <3>2, <3>3, <3>4, <3>5 DEF Next, Quantum
  <2> QED BY <2>1, <2>2, <1>0 DEF Unawaited, TaskType
<1> QED BY <1>1, <1>2

-----------------------------------------------------------------------------
(* The invariant.                                                          *)

\* The first two layers, for every action.
LEMMA NextBlock ==
    ASSUME TaskInv, BlockInv, Next
    PROVE  TaskInv' /\ BlockInv'
<1>0. waitCapacity \in Nat
  BY BlockFacts DEF ChannelType
<1>1. CASE Spawn
  BY <1>1, SpawnTasks, SpawnBlock
<1>2. CASE Dispatch
  BY <1>2, DispatchTasks, LifeBlock
<1>3. CASE WakeDeadlockedTasks
  BY <1>0, <1>3, DeadlockTasks, LifeBlock
<1>4. CASE Close \/ Abandon
  BY <1>4, CloseAbandonBlock
<1>5. ASSUME NEW t \in Tasks, Send(t) PROVE TaskInv' /\ BlockInv'
  BY <1>5, ClosedBlock, SendToReceiverBlock, SendToBufferBlock, SendParksBlock,
     SendCannotParkBlock DEF Send
<1>6. ASSUME NEW t \in Tasks, Recv(t) PROVE TaskInv' /\ BlockInv'
  BY <1>6, RecvRendezvousBlock, RecvBufferedBlock, RecvFromSenderBlock,
     ClosedBlock, RecvParksBlock, RecvCannotParkBlock DEF Recv
<1>7. ASSUME NEW t \in Tasks, Yield(t) PROVE TaskInv' /\ BlockInv'
  BY <1>7, YieldTasks, LifeBlock
<1>8. ASSUME NEW t \in Tasks, Finish(t) PROVE TaskInv' /\ BlockInv'
  BY <1>8, FinishTasks, LifeBlock
<1>9. ASSUME NEW t \in Tasks, CoroutineResumeSend(t) \/ CoroutineResumeRecv(t)
      PROVE  TaskInv' /\ BlockInv'
  BY <1>9, ResumeBlock
<1>10. ASSUME NEW t \in Tasks, Retire(t) PROVE TaskInv' /\ BlockInv'
  BY <1>10, RetireTasks, RetireBlock
<1> QED BY <1>1, <1>2, <1>3, <1>4, <1>5, <1>6, <1>7, <1>8, <1>9, <1>10
        DEF Next, Quantum

\* The third layer: only a resume by the deadlock wake alone leaves it.
LEMMA NextExact ==
    ASSUME ChannelInv, ~stale, ~stale', Next, TaskInv'
    PROVE  Exact'
<1>1. CASE Spawn
  BY <1>1, SpawnExact
<1>2. CASE Dispatch \/ WakeDeadlockedTasks
  BY <1>2, LifeExact
<1>3. CASE Close \/ Abandon
  BY <1>3, CloseAbandonExact
<1>4. ASSUME NEW t \in Tasks, Send(t) PROVE Exact'
  BY <1>4, ClosedExact, SendToReceiverExact, SendToBufferExact, SendParksExact,
     SendCannotParkExact DEF Send
<1>5. ASSUME NEW t \in Tasks, Recv(t) PROVE Exact'
  BY <1>5, RecvRendezvousExact, RecvBufferedExact, RecvFromSenderExact,
     ClosedExact, RecvParksExact, RecvCannotParkExact DEF Recv
<1>6. ASSUME NEW t \in Tasks, Yield(t) \/ Finish(t) PROVE Exact'
  BY <1>6, LifeExact
<1>7. ASSUME NEW t \in Tasks, CoroutineResumeSend(t) PROVE Exact'
  BY <1>7, ResumeSendExact
<1>8. ASSUME NEW t \in Tasks, CoroutineResumeRecv(t) PROVE Exact'
  BY <1>8, ResumeRecvExact
<1>9. ASSUME NEW t \in Tasks, Retire(t) PROVE Exact'
  BY <1>9, RetireExact
<1> QED BY <1>1, <1>2, <1>3, <1>4, <1>5, <1>6, <1>7, <1>8, <1>9
        DEF Next, Quantum

\* A wait once resumed by the deadlock wake alone stays one.
LEMMA StaleStays == ASSUME Next, ~stale' PROVE ~stale
<1>1. CASE Close \/ Abandon
  BY <1>1 DEF Close, Abandon, CloseEffects
<1>2. ASSUME NEW t \in Tasks, Recv(t) PROVE ~stale
  <2>1. CASE RecvRendezvous(t) \/ RecvBuffered(t) \/ RecvFromSender(t)
    <3>1. \E v, b, ts : RecvGets(t, v, b, ts)
      BY <2>1 DEF RecvRendezvous, RecvBuffered, RecvFromSender
    <3> QED BY <3>1 DEF RecvGets
  <2>2. CASE RecvClosed(t) \/ RecvParks(t) \/ RecvCannotPark(t)
    BY <2>2 DEF RecvClosed, RecvParks, RecvCannotPark
  <2> QED BY <1>2, <2>1, <2>2 DEF Recv
<1>3. ASSUME NEW t \in Tasks, Send(t) PROVE ~stale
  BY <1>3 DEF Send, SendClosed, SendToReceiver, SendToBuffer, SendParks,
              SendCannotPark
<1>4. ASSUME NEW t \in Tasks, CoroutineResumeSend(t) \/ CoroutineResumeRecv(t)
      PROVE  ~stale
  BY <1>4 DEF CoroutineResumeSend, CoroutineResumeRecv
<1>5. CASE \/ Spawn \/ Dispatch \/ WakeDeadlockedTasks
           \/ \E t \in Tasks : Yield(t) \/ Finish(t) \/ Retire(t)
  BY <1>5 DEF Spawn, Dispatch, WakeDeadlockedTasks, Yield, Finish, Retire,
              history
<1> QED BY <1>1, <1>2, <1>3, <1>4, <1>5 DEF Next, Quantum

LEMMA NextInv == ASSUME ChannelInv, Next PROVE ChannelInv'
<1>1. TaskInv' /\ BlockInv'
  BY NextBlock DEF ChannelInv
<1>2. ASSUME ~stale' PROVE Exact' /\ Told' /\ (released' => Unawaited')
  <2>1. ~stale
    BY <1>2, StaleStays
  <2>2. Exact'
    BY <1>1, <1>2, <2>1, NextExact
  <2>3. Told'
    BY <1>2, <2>1, NextTold
  <2>4. released' => Unawaited'
    BY <1>1, <2>1, <2>2, NextUnawaited
  <2> QED BY <2>2, <2>3, <2>4
<1> QED BY <1>1, <1>2 DEF ChannelInv

LEMMA StutterInv == ASSUME ChannelInv, UNCHANGED vars PROVE ChannelInv'
<1>1. UNCHANGED <<tasks, buffer, closed, released, owner, waits, history>>
  BY DEF vars
<1>2. TaskInv' /\ BlockInv'
  <2>1. TaskInv /\ BlockInv /\ ChannelType
    BY BlockFacts DEF ChannelInv
  <2>2. TaskInv'
    BY <1>1, <2>1, KeepTasks DEF owner
  <2>3. outcome' \in [Tasks -> Outcomes]
    BY <1>1, <2>1 DEF history, ChannelType
  <2> QED BY <1>1, <2>1, <2>2, <2>3, BlockFrame DEF tasks, history
<1>3. ASSUME ~stale' PROVE Exact' /\ Told' /\ (released' => Unawaited')
  <2>1. ~stale
    BY <1>1, <1>3 DEF history
  <2>2. PICK ws \in Seq(Tasks), wr \in Seq(Tasks) :
            /\ Line(sendq, ws) /\ Line(recvq, wr)
            /\ Standing(ws, wr) /\ SlotsHold(ws, wr) /\ Flow(ws)
    BY <2>1, ExactFacts
  <2>3. PICK q, r : q = sendq /\ r = recvq
    OBVIOUS
  <2>4. Line(sendq, ws)' /\ Line(recvq, wr)'
    BY <1>1, <2>2, <2>3, LinePut DEF tasks, waits
  <2>5. Standing(ws, wr)' /\ SlotsHold(ws, wr)'
    BY <1>1, <2>2, NobodyServed DEF tasks, waits
  <2>6. Values(ws)' = Values(ws)
    BY <1>1 DEF Values, tasks, waits
  <2>7. UNCHANGED <<buffer, capacity, rendezvous, admitted, matched, received,
                    nextValue>>
    BY <1>1 DEF owner, waits, history
  <2>8. Flow(ws)'
    BY <2>2, <2>6, <2>7, FlowKept DEF Flow
  <2>9. Exact'
    BY <2>4, <2>5, <2>8 DEF Exact
  <2>10. Told' /\ (released' => Unawaited')
    BY <1>1, <2>1, ExactFacts DEF Told, Unawaited, history, tasks
  <2> QED BY <2>9, <2>10
<1> QED BY <1>2, <1>3 DEF ChannelInv

LEMMA InitInv == ASSUME Init PROVE ChannelInv
<1>0. TaskInv /\ BlockInv
  BY InitTasks, InitBlock
<1>1. PICK q, n : q = EmptyQueue /\ n = <<>>
  OBVIOUS
<1>2. n \in Seq(Tasks) /\ IsInjective(n) /\ Range(n) = {} /\ Len(n) = 0
  BY <1>1, EmptyOnce
<1>3. q.head = 0 /\ q.tail = 0 /\ q.on = {} /\ q.count = 0
  BY <1>1 DEF EmptyQueue
<1>4. Line(q, n)
  <2>1. 0 \in 0..(nextTask - 1) /\ TaskSlot(0) = NoSlot
    BY DEF Init, TaskSlot, Tasks
  <2>2. Chain(q, n, 0)
    BY <2>1, <1>1, <1>2, <1>3 DEF Chain
  <2> QED BY <2>2, <1>1, <1>2, <1>3 DEF Line
<1>5. Line(sendq, n) /\ Line(recvq, n)
  BY <1>1, <1>4 DEF Init
<1>6. Standing(n, n) /\ SlotsHold(n, n)
  BY <1>1, <1>2 DEF Init, Standing, SlotsHold, NoValue
<1>7. Values(n) = <<>>
  BY <1>1, NoValues
<1>8. LeftSlots = {} /\ LeftValues = {}
  BY DEF Init, LeftSlots, LeftValues
<1>9. matched = <<>> /\ buffer = <<>> /\ admitted = <<>> /\ received = {}
  BY DEF Init
<1>10. <<>> \o <<>> \o <<>> = <<>> /\ \A S : <<>> \in Seq(S)
  BY ConcatEmptySeq, EmptySeq
<1>11. Range(<<>>) = {} /\ IsInjective(<<>>)
  BY EmptyOnce
<1>12. Flow(n)
  BY <1>1, <1>7, <1>8, <1>9, <1>10, <1>11 DEF Flow
<1>13. Exact
  BY <1>2, <1>5, <1>6, <1>12 DEF Exact
<1>14. Told /\ Unawaited
  BY DEF Init, Told, Unawaited
<1> QED BY <1>0, <1>13, <1>14 DEF ChannelInv

\* The invariant of the channel, in every state: the task records, the
\* control block, and until a wait was resumed by the deadlock wake alone the
\* exact contents of the waiter queues, slots and buffer.
THEOREM ChannelInductive == Spec => []ChannelInv
<1>1. Init => ChannelInv
  BY InitInv
<1>2. ChannelInv /\ [Next]_vars => ChannelInv'
  BY NextInv, StutterInv
<1> QED BY <1>1, <1>2, PTL DEF Spec

-----------------------------------------------------------------------------
(* What the invariant says.                                                *)

\* The types of the two layers are those of the type invariant.
LEMMA InvTypes == ASSUME ChannelInv PROVE TypeOK
<1>1. TaskInv /\ BlockInv /\ TaskType /\ WaitsCounted
  BY DEF ChannelInv, TaskInv
<1>2. ChannelType /\ Sound(sendq) /\ Sound(recvq) /\ WakesCounted
  BY <1>1 DEF BlockInv
<1>3. Cardinality(Parked) \in Nat
  BY Finite DEF Parked
<1>4. liveWaits \in 0..waitCapacity
  BY <1>1, <1>2, <1>3 DEF WaitsCounted, ChannelType
<1>5. inFlight \in Nat
  BY <1>2, FS_CardinalityType DEF WakesCounted
<1>6. sendq \in Queues /\ recvq \in Queues
  BY <1>2 DEF Sound
<1> QED BY <1>1, <1>2, <1>4, <1>5, <1>6 DEF TypeOK, TaskType, ChannelType, States

\* The values of the parked senders, read by a walk, are those of the line.
LEMMA InvPending ==
    ASSUME TaskInv, Sound(sendq), NEW ws, Line(sendq, ws)
    PROVE  PendingValues = Values(ws)
<1>1. Chain(sendq, ws, 0) /\ sendq \in Queues /\ Len(ws) \in Nat
  BY LineFacts
<1>2. Cardinality(Reachable(sendq)) = Len(ws)
  BY <1>1, ReachChain
<1>3. \A i \in 1..Len(ws) : Walk(sendq)[i - 1] = ws[i]
  BY <1>1, WalkMeets
<1>4. \A i \in 1..Len(ws) : TaskSlot(ws[i]) = slotOf[ws[i]]
  BY <1>1, ChainFacts
<1>5. \A i \in 1..Len(ws) :
         sendValue[TaskSlot(Walk(sendq)[i - 1])] = sendValue[slotOf[ws[i]]]
  BY <1>3, <1>4
<1> QED BY <1>2, <1>5 DEF PendingValues, Values

\* The slots that hold a value are as many as the values they hold.
LEMMA LeftCounted ==
    ASSUME \A s, u \in LeftSlots : rendezvous[s] = rendezvous[u] => s = u
    PROVE  /\ IsFiniteSet(LeftSlots) /\ IsFiniteSet(LeftValues)
           /\ Cardinality(LeftValues) = Cardinality(LeftSlots)
<1>1. IsFiniteSet(LeftSlots)
  <2>1. LeftSlots \in SUBSET Slots
    BY DEF LeftSlots
  <2> QED BY <2>1, Finite
<1>2. PICK f : f = [s \in LeftSlots |-> rendezvous[s]]
  OBVIOUS
<1>3. f \in [LeftSlots -> LeftValues] /\ \A s \in LeftSlots : f[s] = rendezvous[s]
  BY <1>2 DEF LeftValues
<1>4. \A v \in LeftValues : \E s \in LeftSlots : f[s] = v
  BY <1>3 DEF LeftValues
<1>5. f \in Bijection(LeftSlots, LeftValues)
  BY <1>3, <1>4 DEF Bijection, Injection, Surjection, IsInjective
<1>6. ExistsBijection(LeftSlots, LeftValues)
  BY <1>5 DEF ExistsBijection
<1> QED BY <1>1, <1>6, FS_Bijection

\* Every value that was matched is in one slot or was returned, and once.
LEMMA InvHanded ==
    ASSUME TaskInv, BlockInv, NEW ws, Line(sendq, ws), Flow(ws)
    PROVE  HandedOverOnce
<1>1. PICK V : V = 1..(nextValue - 1)
  OBVIOUS
<1>2. matched \in Seq(V) /\ IsInjective(matched)
  BY <1>1, FlowFacts
<1>3. /\ Range(matched) = received \cup LeftValues
      /\ received \cap LeftValues = {}
      /\ \A s, u \in LeftSlots : rendezvous[s] = rendezvous[u] => s = u
  BY DEF Flow
<1>4. IsFiniteSet(Range(matched)) /\ Cardinality(Range(matched)) = Len(matched)
  BY <1>2, OnceLength
<1>5. /\ IsFiniteSet(LeftSlots) /\ IsFiniteSet(LeftValues)
      /\ Cardinality(LeftValues) = Cardinality(LeftSlots)
  BY <1>3, LeftCounted
<1>6. IsFiniteSet(received)
  BY <1>3, <1>4, FS_Subset
<1>7. Cardinality(received \cup LeftValues) =
         Cardinality(received) + Cardinality(LeftValues)
           - Cardinality(received \cap LeftValues)
  BY <1>5, <1>6, FS_Union
<1>8. Cardinality(received \cap LeftValues) = 0
  BY <1>3, FS_EmptySet
<1>9. Cardinality(received) \in Nat /\ Cardinality(LeftSlots) \in Nat
  BY <1>5, <1>6, FS_CardinalityType
<1>10. Len(matched) = Cardinality(received) + Cardinality(LeftSlots)
  BY <1>3, <1>4, <1>5, <1>7, <1>8, <1>9
<1>11. ToSet(matched) = received \cup LeftValues
  BY <1>3, ToSetIsRange
<1> QED BY <1>10, <1>11 DEF HandedOverOnce, LeftSlots, LeftValues

\* The order of the values.
LEMMA InvFifo == ASSUME ChannelInv PROVE Fifo
<1>1. SUFFICES ASSUME ~stale
               PROVE  admitted = matched \o buffer \o PendingValues /\ HandedOverOnce
  BY DEF Fifo
<1>2. TaskInv /\ BlockInv /\ Sound(sendq)
  BY <1>1, ExactFacts
<1>3. PICK ws \in Seq(Tasks), wr \in Seq(Tasks) :
         /\ Line(sendq, ws) /\ Line(recvq, wr)
         /\ Standing(ws, wr) /\ SlotsHold(ws, wr) /\ Flow(ws)
  BY <1>1, ExactFacts
<1>4. PendingValues = Values(ws)
  BY <1>2, <1>3, InvPending
<1>5. admitted = matched \o buffer \o Values(ws)
  BY <1>3 DEF Flow
<1>6. HandedOverOnce
  BY <1>2, <1>3, InvHanded
<1> QED BY <1>4, <1>5, <1>6

\* Who is parked could not be served.
LEMMA InvMatch == ASSUME ChannelInv PROVE NoMissedMatch
<1>1. ReceiversFirst
  BY DEF ChannelInv, BlockInv
<1>2. ASSUME ~stale, sendq.count # 0 PROVE Len(buffer) = capacity
  <2>1. TaskInv /\ Sound(sendq)
    BY <1>2, ExactFacts
  <2>2. PICK ws \in Seq(Tasks), wr \in Seq(Tasks) :
           /\ Line(sendq, ws) /\ Line(recvq, wr)
           /\ Standing(ws, wr) /\ SlotsHold(ws, wr) /\ Flow(ws)
    BY <1>2, ExactFacts
  <2>3. ws # <<>>
    BY <1>2, <2>1, <2>2, LineFacts
  <2> QED BY <2>2, <2>3 DEF Flow
<1> QED BY <1>1, <1>2 DEF NoMissedMatch, ReceiversFirst

\* Who is parked stands in a line.
LEMMA InvParked == ASSUME ChannelInv PROVE ParkedIsQueued
<1>1. TaskType /\ TaskLife /\ ReadyOnce /\ WaitsCounted
  BY DEF ChannelInv, TaskInv
<1>2. Blocked("send") \cup Blocked("recv") = Parked
  <2>1. ASSUME NEW t \in Parked PROVE t \in Blocked("send") \cup Blocked("recv")
    <3>1. t \in Tasks /\ state[t] = "ChannelBlocked"
      BY DEF Parked
    <3>2. op[t] # "none" /\ op[t] \in {"none", "send", "recv"}
      BY <1>1, <3>1 DEF TaskLife, TaskType
    <3> QED BY <3>1, <3>2 DEF Blocked
  <2> QED BY <2>1 DEF Blocked, Parked
<1>3. ASSUME ~stale
      PROVE  /\ Blocked("send") \subseteq Reachable(sendq)
             /\ Blocked("recv") \subseteq Reachable(recvq)
             /\ closed => Blocked("send") \cup Blocked("recv") = {}
  <2>1. TaskInv /\ Sound(sendq) /\ Sound(recvq)
    BY <1>3, ExactFacts
  <2>2. PICK ws \in Seq(Tasks), wr \in Seq(Tasks) :
           /\ Line(sendq, ws) /\ Line(recvq, wr)
           /\ Standing(ws, wr) /\ SlotsHold(ws, wr) /\ Flow(ws)
    BY <1>3, ExactFacts
  <2>3. Chain(sendq, ws, 0) /\ sendq \in Queues
    BY <2>1, <2>2, LineFacts
  <2>4. Chain(recvq, wr, 0) /\ recvq \in Queues
    BY <2>1, <2>2, LineFacts
  <2>5. Reachable(sendq) = Range(ws)
    BY <2>1, <2>3, ReachChain
  <2>6. Reachable(recvq) = Range(wr)
    BY <2>1, <2>4, ReachChain
  <2>7. ASSUME NEW t \in Blocked("send") PROVE t \in Range(ws)
    <3>1. t \in Tasks /\ op[t] = "send" /\ state[t] = "ChannelBlocked"
      BY DEF Blocked
    <3> QED BY <3>1, <2>2 DEF Standing, Served
  <2>8. ASSUME NEW t \in Blocked("recv") PROVE t \in Range(wr)
    <3>1. t \in Tasks /\ op[t] = "recv" /\ state[t] = "ChannelBlocked"
      BY DEF Blocked
    <3> QED BY <3>1, <2>2 DEF Standing, Served
  <2>9. ASSUME closed PROVE Range(ws) = {} /\ Range(wr) = {}
    <3>1. ws = <<>> /\ wr = <<>>
      BY <2>2, <2>9 DEF Standing
    <3> QED BY <3>1 DEF Range
  <2> QED BY <2>5, <2>6, <2>7, <2>8, <2>9
<1>4. IsInjective(ready) /\ ToSet(ready) = {t \in Tasks : state[t] = "Ready"}
  BY <1>1, ToSetIsRange DEF ReadyOnce, Runnable
<1> QED BY <1>1, <1>2, <1>3, <1>4 DEF ParkedIsQueued, WaitsCounted

\* Nobody comes back to a record that was given back.
LEMMA InvReleased == ASSUME ChannelInv PROVE ReleasedQuiet
<1>1. ReleasedClosed /\ stale \in BOOLEAN /\ released \in BOOLEAN
  BY DEF ChannelInv, BlockInv, ChannelType
<1>2. ~stale => (released => Unawaited)
  BY DEF ChannelInv
<1> QED BY <1>1, <1>2 DEF ReleasedQuiet, ReleasedClosed, Unawaited

\* Every counter, queue and slot of the channel keeps its type and its bound:
\* live_channel_waits within channel_wait_capacity, the buffer within its
\* capacity, no counter of waiters or wakes below zero.
THEOREM ChannelTypes == Spec => []TypeOK
BY ChannelInductive, InvTypes, PTL

\* Until a wait is resumed by the deadlock wake alone, the values the channel
\* took leave it in their order, through the buffer, the parked senders and
\* the direct hand-over alike, and none is lost or returned twice.
THEOREM ChannelFifo == Spec => []Fifo
BY ChannelInductive, InvFifo, PTL

\* A receiver waits only while nothing is to receive, also after the deadlock
\* wake, and until then a sender waits only while the buffer is full.
THEOREM NobodyMissed == Spec => []NoMissedMatch
BY ChannelInductive, InvMatch, PTL

\* Who is parked is linked where send, recv and close will find it, close
\* leaves nobody parked, and the ready queue and the count of live waits are
\* exact in every state.
THEOREM ParkedQueued == Spec => []ParkedIsQueued
BY ChannelInductive, InvParked, PTL

\* The scheduler record of the channel goes back only when the channel is
\* closed and empty and no operation can come back to it.
THEOREM ReleaseQuiet == Spec => []ReleasedQuiet
BY ChannelInductive, InvReleased, PTL

\* No operation that was woken by its counterpart or by close finds nothing in
\* its slot.
THEOREM OutcomeDefinite == Spec => []DefiniteOutcome
<1>1. ChannelInv => DefiniteOutcome
  BY DEF ChannelInv, Told, DefiniteOutcome
<1> QED BY <1>1, ChannelInductive, PTL
=============================================================================
