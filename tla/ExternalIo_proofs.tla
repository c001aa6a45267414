------------------------- MODULE ExternalIo_proofs -------------------------
(***************************************************************************)
(* The inductive invariant of ExternalIo and the theorems that rest on it, *)
(* for every number of tasks, lanes, slots and scopes and every script.    *)
(*                                                                         *)
(* What the properties lack to be inductive.  A commit ticket is held on   *)
(* one lane only (Tickets), so at most one coroutine is inside a quantum;  *)
(* a task is at one place of its home lane, with the state, the wake       *)
(* ticket and the position in its await that go with the place (Placed);   *)
(* a slot that is admitted, queued, executed or complete belongs to the    *)
(* task that holds its token (Slotted), so admissions and their FIFO are   *)
(* in one order; a phase word, the units of work left of a pass and the    *)
(* wakers agree (Computed); the counters count (Counted); and a root that  *)
(* saw no job in flight stays alone (Rooted).                              *)
(***************************************************************************)
EXTENDS ExternalIo, SequenceLemmas, FiniteSetTheorems

\* Where a lane worker holds a job; a job's turn is not over; a work item is
\* not yet released.
Own == {"turn", "run", "finish", "publish", "release"}
InTurn == {"turn", "run", "finish"}
AtWork == {"work", "released"}
JobKinds == {"Regular", "External", "Direct", "Mailbox"}

\* The places inside an await before the coroutine is suspended, and those
\* of the admission of a host operation.
Admission == {"park", "count", "commit", "queue"}

MailRec == [st : 0..2, task : 0..TaskCount, ticket : Nat]
LaneRec == [job : 0..TaskCount, jobTicket : Nat, done : BOOLEAN,
            ext : Seq(Tasks), direct : Seq(Tasks), work : Seq(Tasks),
            mail : MailRec,
            pc : Own \cup AtWork \cup {"idle", "wake"},
            task : 0..TaskCount, ticket : Nat,
            kind : JobKinds \cup {"None", "Work"}]
SlotRec == [st : {"Free", "Admitting", "Queued", "Running", "Complete"},
            seq : Nat, task : 0..TaskCount, phase : 0..3,
            outcome : {"Pending", "Native", "Invalid"}, released : Nat]
IoRec == [pc : {"none", "wait", "native", "publish", "wake", "await", "exited"},
          slot : 0..SlotCount, seq : Nat, prior : 0..3]

TaskTypes ==
    /\ state \in [Tasks -> {"Ready", "Running", "JoinBlocked",
                            "ExternalBlocked"} \cup Terminal]
    /\ wakeTicket \in [Tasks -> Nat]
    /\ step \in [Tasks -> Nat \ {0}]
    /\ at \in [Tasks -> {"next", "submitted", "park", "count", "commit",
                         "queue", "complete", "reset", "end"}]
    /\ token \in [Tasks -> 0..SlotCount]

ReadyTypes ==
    /\ ready \in Seq(Tasks) /\ joinWaits \in Seq(Tasks)
    /\ epoch \in Nat /\ consumed \in 0..epoch

LaneTypes ==
    /\ lane \in [Lanes -> LaneRec]
    /\ toIssue \in Nat /\ next \in 1..toIssue
    /\ laneStop \in BOOLEAN /\ inFlight \in Nat

ComputeTypes ==
    /\ phase \in [Tasks -> 0..3]
    /\ pass \in [Tasks -> Nat]
    /\ device \in [Tasks -> {"idle", "busy", "wake"}]

PoolTypes ==
    /\ slot \in [Slots -> SlotRec]
    /\ free \in Seq(Slots) /\ queue \in Seq(Slots)
    /\ nextSub \in Nat /\ nextExec \in 1..nextSub
    /\ subs \in Nat /\ stop \in BOOLEAN
    /\ io \in IoRec /\ reserved \in 0..PayloadCapacity

RootTypes ==
    /\ root \in {"open", "drain", "collect", "check", "sleep", "finish",
                 "stopping", "joining"}
    /\ collects \in Lanes /\ scopes \in 1..MaxScopes
    /\ script \in Scripts[scopes]

Types ==
    TaskTypes /\ ReadyTypes /\ LaneTypes /\ ComputeTypes /\ PoolTypes /\ RootTypes

-----------------------------------------------------------------------------
(* Places.                                                                 *)

\* A queue that holds each element of A once and nothing else.
Once(q, A) == IsInjective(q) /\ Range(q) = A

InState(s) == {t \in Tasks : state[t] = s}

\* The ready queue and the join waits hold the tasks of their states.
Queued == Once(ready, InState("Ready")) /\ Once(joinWaits, InState("JoinBlocked"))

\* The coroutine of t is inside its quantum.
Runs(t) == lane[Home(t)].pc = "run" /\ lane[Home(t)].task = t

\* A task that a dispatch made Running and that has not begun.
Fresh(t) == state[t] = "Running" /\ wakeTicket[t] = 0 /\ at[t] = "next"

\* A task whose wake has a ticket.
Woken(t) ==
    /\ state[t] = "ExternalBlocked" /\ wakeTicket[t] # 0
    /\ at[t] \in {"reset", "complete"}

\* The frame and the lists of a lane agree with where its worker is.
Shape(l) ==
    LET n == lane[l] IN
    /\ n.pc = "idle" => n.task = 0 /\ n.ticket = 0 /\ n.kind = "None"
    /\ n.pc \in Own => n.task \in Tasks /\ Home(n.task) = l /\ n.kind \in JobKinds
    /\ n.pc = "release" => n.kind # "Regular"
    /\ n.pc \in AtWork \cup {"wake"} => n.task \in Tasks /\ n.kind = "Work"
    /\ n.job # 0 => Home(n.job) = l
    /\ n.job = 0 => n.jobTicket = 0
    /\ n.mail.st = 0 => n.mail = NoMail
    /\ n.mail.st # 0 => n.mail.task \in Tasks /\ Home(n.mail.task) = l
    /\ (n.mail.st = 2) <=> (n.kind = "Mailbox")
    /\ IsInjective(n.ext) /\ \A t \in Range(n.ext) : Home(t) = l
    /\ IsInjective(n.direct) /\ \A t \in Range(n.direct) : Home(t) = l

\* What waits on a lane has the state that goes with its list.
Listed(l) ==
    LET n == lane[l] IN
    /\ n.job # 0 => Fresh(n.job)
    /\ n.mail.st = 1 => Fresh(n.mail.task)
    /\ \A t \in Range(n.direct) :
          state[t] = "Running" /\ wakeTicket[t] # 0 /\ at[t] = "next"
    /\ \A t \in Range(n.ext) : Woken(t)
    /\ n.job # 0 /\ n.mail.st = 1 => n.job # n.mail.task

\* So has what the worker of a lane took, which is on no list any more.
Framed(l) ==
    LET n == lane[l] IN
    /\ n.pc = "turn" /\ n.kind = "External" =>
          Woken(n.task) /\ n.task \notin Range(n.ext)
    /\ n.pc = "turn" /\ n.kind # "External" => Fresh(n.task)
    /\ n.pc = "run" =>
          /\ wakeTicket[n.task] = 0
          /\ \/ /\ state[n.task] = "Running"
                /\ at[n.task] \in {"next", "submitted", "park", "reset", "complete"}
             \/ state[n.task] = "Failed" /\ at[n.task] \in {"next", "park"}
             \/ /\ state[n.task] = "ExternalBlocked"
                /\ at[n.task] \in {"count", "commit", "queue"}
    /\ n.pc \in {"turn", "run"} =>
          /\ n.job # n.task
          /\ n.mail.st = 1 => n.mail.task # n.task

\* A task outside its quantum is between awaits or suspended in one.
Rests(t) ==
    /\ ~Runs(t) =>
          /\ at[t] \in {"next", "reset", "complete", "end"}
          /\ (at[t] \in {"reset", "complete"}) <=> (state[t] = "ExternalBlocked")
          /\ (at[t] = "end") <=> (state[t] \in Terminal)
    /\ wakeTicket[t] # 0 => state[t] \in {"Running", "ExternalBlocked"}

PlacedOn(l) ==
    /\ Shape(l) /\ Listed(l) /\ Framed(l)
    /\ \A t \in Tasks : Home(t) = l => Rests(t)

Placed == \A l \in Lanes : PlacedOn(l)

-----------------------------------------------------------------------------
(* Tickets.                                                                *)

\* The tickets that can be issued.
Numbers == Nat \ {0}

\* Ticket x is with a job, a mailbox, a frame or a wake of lane l.
Holds(l, x) ==
    \/ lane[l].job # 0 /\ lane[l].jobTicket = x
    \/ lane[l].mail.st = 1 /\ lane[l].mail.ticket = x
    \/ lane[l].pc \in InTurn /\ lane[l].ticket = x
    \/ \E t \in Tasks : Home(t) = l /\ wakeTicket[t] = x

Tickets ==
    /\ \A l \in Lanes, x \in Numbers : Holds(l, x) => x < toIssue
    /\ \A l, m \in Lanes, x \in Numbers : Holds(l, x) /\ Holds(m, x) => l = m
    /\ \A l \in Lanes : lane[l].pc \in {"run", "finish"} => lane[l].ticket = next

-----------------------------------------------------------------------------
(* Host I/O.                                                               *)

\* A coroutine with an operation it awaits is a coordinator, or none.
Computes(t) == \E i \in DOMAIN script[t] : script[t][i] \in ComputeOps

\* The task of slot s holds its token.
Held(s) == slot[s].task \in Tasks /\ token[slot[s].task] = s

\* The task of slot s is suspended in its await and has no wake yet.
Asleep(s) ==
    /\ Held(s)
    /\ at[slot[s].task] = "complete"
    /\ state[slot[s].task] = "ExternalBlocked" /\ wakeTicket[slot[s].task] = 0

SlotKept(s) ==
    LET x == slot[s] IN
    /\ x.st = "Free" => x.phase = Pending /\ x.released < nextSub
    /\ x.st # "Free" => x.seq \in 1..(nextSub - 1) /\ x.released < x.seq /\ Held(s)
    /\ x.st = "Admitting" =>
          /\ Runs(x.task) /\ x.seq + 1 = nextSub
          /\ \/ at[x.task] = "park" /\ x.phase = Pending
             \/ at[x.task] \in {"count", "commit"} /\ x.phase = Parking
             \/ at[x.task] = "queue" /\ x.phase = Parked
    /\ x.st \in {"Queued", "Running"} => Asleep(s) /\ x.phase = Parked
    /\ x.st = "Running" =>
          io.slot = s /\ io.pc \in {"native", "publish"} /\ io.seq = x.seq
    /\ x.st = "Complete" =>
          /\ io.slot = s /\ io.pc \in {"wake", "await"} /\ io.seq = x.seq
          /\ at[x.task] = "complete"
    /\ x.st = "Queued" /\ io.pc \in {"native", "publish"} => io.seq < x.seq

\* The I/O worker is at the slot it took.
WorkerKept ==
    /\ io.pc \in {"native", "publish"} =>
          io.slot \in Slots /\ slot[io.slot].st = "Running"
    /\ io.pc = "wake" =>
          /\ io.slot \in Slots /\ slot[io.slot].st = "Complete"
          /\ io.prior = Parked /\ Asleep(io.slot)
    /\ io.pc = "await" => io.slot \in Slots

\* A token names the slot of the task's operation.
TokenKept(t) ==
    /\ token[t] # 0 =>
          /\ slot[token[t]].task = t /\ slot[token[t]].st # "Free"
          /\ at[t] \in Admission \cup {"complete"}
          /\ (at[t] = "complete") <=> (slot[token[t]].st # "Admitting")
          /\ ~Computes(t)
    /\ at[t] \in {"queue", "complete"} => token[t] # 0

Ascends == \A i, j \in DOMAIN queue : i < j => slot[queue[i]].seq < slot[queue[j]].seq

Distinct ==
    \A x, y \in Slots : slot[x].st # "Free" /\ slot[y].st # "Free" /\ x # y =>
        slot[x].seq # slot[y].seq

Lists ==
    /\ Once(free, {s \in Slots : slot[s].st = "Free"})
    /\ Once(queue, {s \in Slots : slot[s].st = "Queued"})
    /\ Ascends /\ Distinct

Slotted ==
    /\ Lists /\ WorkerKept
    /\ \A s \in Slots : SlotKept(s)
    /\ \A t \in Tasks : TokenKept(t)

-----------------------------------------------------------------------------
(* Compute.                                                                *)

PhaseKept(t) ==
    /\ ~Computes(t) => phase[t] = Pending /\ pass[t] = 0 /\ device[t] = "idle"
    /\ Computes(t) => state[t] # "Failed"
    /\ token[t] = 0 /\ at[t] \notin {"next", "end"} => Computes(t)
    /\ at[t] \in {"next", "end", "submitted"} => phase[t] = Pending
    /\ token[t] = 0 =>
          /\ at[t] = "park" => phase[t] \in {Pending, Done}
          /\ at[t] \in {"count", "commit"} => phase[t] \in {Parking, Done}
          /\ at[t] = "reset" => phase[t] \in {Parked, Done}
    /\ at[t] = "reset" /\ phase[t] = Parked =>
          state[t] = "ExternalBlocked" /\ wakeTicket[t] = 0
    /\ phase[t] = Done \/ at[t] \in {"next", "end"} =>
          pass[t] = 0 /\ device[t] # "busy"
    /\ pass[t] # 0 \/ at[t] = "submitted" => device[t] # "busy"

\* The coordinator of a completed pass or operation that is to be woken.
Waked(t) ==
    /\ t \in Tasks /\ phase[t] = Done /\ at[t] = "reset"
    /\ state[t] = "ExternalBlocked" /\ wakeTicket[t] = 0

Wakers ==
    /\ \A t \in Tasks : device[t] = "wake" => Waked(t)
    /\ \A l \in Lanes : lane[l].pc = "wake" =>
          Waked(lane[l].task) /\ device[lane[l].task] # "wake"
    /\ \A l, m \in Lanes :
          /\ lane[l].pc = "wake" /\ lane[m].pc = "wake"
          /\ lane[l].task = lane[m].task
          => l = m

\* The lanes with a work item of the pass of t.
OnLane(t, l) ==
    \/ t \in Range(lane[l].work)
    \/ lane[l].pc \in AtWork /\ lane[l].task = t

WorkLanes(t) == {l \in Lanes : OnLane(t, l)}

\* A pass has one unit for each item not released and for its submitter.
Units(t) == IF at[t] = "submitted" THEN 1 ELSE 0

WorkKept(l) ==
    /\ IsInjective(lane[l].work)
    /\ lane[l].pc \in AtWork => lane[l].task \notin Range(lane[l].work)

Passes == \A t \in Tasks : pass[t] = Cardinality(WorkLanes(t)) + Units(t)

Computed ==
    /\ \A t \in Tasks : PhaseKept(t)
    /\ \A l \in Lanes : WorkKept(l)
    /\ Wakers /\ Passes

-----------------------------------------------------------------------------
(* Counters and the root.                                                  *)

\* A task that waits for a lane without the root, and a frame of such a job.
Parks(t) ==
    LET n == lane[Home(t)] IN
    \/ n.mail.st = 1 /\ n.mail.task = t
    \/ t \in Range(n.direct)
    \/ /\ state[t] = "ExternalBlocked"
       /\ at[t] \in {"commit", "queue", "reset", "complete"}
       /\ ~(n.pc = "turn" /\ n.task = t)

ParkedTasks == {t \in Tasks : Parks(t)}
DirectFrames == {l \in Lanes : lane[l].pc \in Own /\ lane[l].kind # "Regular"}
TokenTasks == {t \in Tasks : token[t] # 0}
Admits == \E s \in Slots : slot[s].st = "Admitting"

FlightsCounted == inFlight = Cardinality(DirectFrames) + Cardinality(ParkedTasks)
BytesCounted == reserved = Cardinality(TokenTasks)
AdmissionsCounted == subs = IF Admits THEN 1 ELSE 0

Counted == FlightsCounted /\ BytesCounted /\ AdmissionsCounted

\* A regular job is on the lane the root waits for, once.
RegularFrame(l) == lane[l].pc \in Own /\ lane[l].kind = "Regular"

Regular(l) ==
    /\ lane[l].job # 0 \/ lane[l].done \/ RegularFrame(l) =>
          root = "collect" /\ collects = l
    /\ lane[l].job # 0 => ~lane[l].done /\ ~RegularFrame(l)
    /\ lane[l].done => ~RegularFrame(l)

Over == {"finish", "stopping", "joining"}

Rooted ==
    /\ \A l \in Lanes : Regular(l)
    /\ root \in Over => inFlight = 0
    /\ laneStop <=> (root = "joining")
    /\ stop => root = "stopping"
    /\ root = "joining" => io = NoIo

IInv ==
    Types /\ Queued /\ Placed /\ Tickets /\ Slotted /\ Computed /\ Counted /\ Rooted

-----------------------------------------------------------------------------
(* Facts every step uses.                                                  *)

\* Tasks, lanes and slots are finite and 0 is no task and no slot; the home
\* of a task is a lane.
LEMMA Sizes ==
    /\ 0 \notin Tasks /\ 0 \notin Slots
    /\ Tasks \subseteq Nat /\ Slots \subseteq Nat /\ Lanes \subseteq Nat
    /\ 0..TaskCount = Tasks \cup {0} /\ 0..SlotCount = Slots \cup {0}
    /\ 0 \in Lanes
    /\ \A t \in Tasks : Home(t) \in Lanes
BY SizeAssumption DEF Tasks, Slots, Lanes, Home

LEMMA Finite ==
    /\ IsFiniteSet(Tasks) /\ Cardinality(Tasks) = TaskCount
    /\ IsFiniteSet(Lanes) /\ Cardinality(Lanes) = LaneCount
    /\ IsFiniteSet(Slots) /\ Cardinality(Slots) = SlotCount
<1>1. TaskCount \in Nat /\ LaneCount \in Nat /\ SlotCount \in Nat
  BY SizeAssumption
<1>2. IsFiniteSet(1..TaskCount) /\ Cardinality(1..TaskCount) = TaskCount
  <2>1. PICK a \in Int, b \in Int : a = 1 /\ b = TaskCount
    BY <1>1
  <2>2. IsFiniteSet(a..b) /\ Cardinality(a..b) = IF a > b THEN 0 ELSE b - a + 1
    BY FS_Interval
  <2> QED BY <1>1, <2>1, <2>2
<1>3. IsFiniteSet(0..(LaneCount - 1)) /\ Cardinality(0..(LaneCount - 1)) = LaneCount
  <2>1. PICK a \in Int, b \in Int : a = 0 /\ b = LaneCount - 1
    BY <1>1
  <2>2. IsFiniteSet(a..b) /\ Cardinality(a..b) = IF a > b THEN 0 ELSE b - a + 1
    BY FS_Interval
  <2> QED BY <1>1, <2>1, <2>2
<1>4. IsFiniteSet(1..SlotCount) /\ Cardinality(1..SlotCount) = SlotCount
  <2>1. PICK a \in Int, b \in Int : a = 1 /\ b = SlotCount
    BY <1>1
  <2>2. IsFiniteSet(a..b) /\ Cardinality(a..b) = IF a > b THEN 0 ELSE b - a + 1
    BY FS_Interval
  <2> QED BY <1>1, <2>1, <2>2
<1> QED BY <1>2, <1>3, <1>4 DEF Tasks, Lanes, Slots

\* A program only awaits passes and device operations, or none of them.
LEMMA Programs ==
    ASSUME RootTypes, NEW t \in Tasks
    PROVE  /\ script[t] \in Seq(Ops)
           /\ Computes(t) => script[t] \in Seq(ComputeOps)
<1>1. /\ scopes \in 1..MaxScopes /\ script \in Scripts[scopes]
  BY DEF RootTypes
<1>2. script[t] \in Seq(ComputeOps) \cup Seq(Ops \ ComputeOps)
  BY <1>1, ScriptAssumption
<1>3. ComputeOps \subseteq Ops
  BY DEF Ops, ComputeOps
<1> QED BY <1>2, <1>3 DEF Computes

\* What the next await is, and whose.
LEMMA OpKinds ==
    ASSUME TaskTypes, RootTypes, NEW t \in Tasks
    PROVE  /\ Op(t) \in ComputeOps => Computes(t)
           /\ Op(t) \in Ops \ ComputeOps => ~Computes(t)
<1>1. step[t] \in Nat \ {0}
  BY DEF TaskTypes
<1>2. script[t] \in Seq(Ops) /\ (Computes(t) => script[t] \in Seq(ComputeOps))
  BY Programs
<1>3. Len(script[t]) \in Nat /\ DOMAIN script[t] = 1..Len(script[t])
  BY <1>2
<1>4. Op(t) # "end" => step[t] \in DOMAIN script[t] /\ Op(t) = script[t][step[t]]
  BY <1>1, <1>3 DEF Op
<1>5. Op(t) = "end" => Op(t) \notin Ops /\ Op(t) \notin ComputeOps
  BY DEF Ops, ComputeOps
<1>6. Computes(t) /\ Op(t) # "end" => Op(t) \in ComputeOps
  BY <1>2, <1>3, <1>4
<1> QED BY <1>4, <1>5, <1>6 DEF Computes

-----------------------------------------------------------------------------
(* What does not change keeps its part.                                    *)

SameJobs(m) ==
    /\ lane'[m].job = lane[m].job /\ lane'[m].jobTicket = lane[m].jobTicket
    /\ lane'[m].ext = lane[m].ext /\ lane'[m].direct = lane[m].direct
    /\ lane'[m].mail = lane[m].mail
    /\ lane'[m].pc = lane[m].pc /\ lane'[m].task = lane[m].task
    /\ lane'[m].ticket = lane[m].ticket /\ lane'[m].kind = lane[m].kind

SameTask(t) ==
    /\ state'[t] = state[t] /\ wakeTicket'[t] = wakeTicket[t] /\ at'[t] = at[t]

\* A lane's frame and lists, and the tasks on them.
LEMMA LaneFields ==
    ASSUME Types, NEW l \in Lanes
    PROVE  /\ lane[l] \in LaneRec
           /\ lane[l].job \in Tasks \cup {0} /\ lane[l].task \in Tasks \cup {0}
           /\ lane[l].ext \in Seq(Tasks) /\ lane[l].direct \in Seq(Tasks)
           /\ lane[l].work \in Seq(Tasks)
           /\ Range(lane[l].ext) \subseteq Tasks /\ Range(lane[l].direct) \subseteq Tasks
           /\ Range(lane[l].work) \subseteq Tasks
           /\ lane[l].mail \in MailRec
<1>1. lane[l] \in LaneRec
  BY DEF Types, LaneTypes
<1>2. lane[l].ext \in Seq(Tasks) /\ lane[l].direct \in Seq(Tasks)
      /\ lane[l].work \in Seq(Tasks) /\ lane[l].mail \in MailRec
      /\ lane[l].job \in 0..TaskCount /\ lane[l].task \in 0..TaskCount
  BY <1>1 DEF LaneRec
<1>3. \A q \in Seq(Tasks) : Range(q) \subseteq Tasks
  BY DEF Range
<1> QED BY <1>1, <1>2, <1>3, Sizes

LEMMA PlacedElsewhere ==
    ASSUME Types, Placed, NEW m \in Lanes, SameJobs(m),
           \A t \in Tasks : Home(t) = m => SameTask(t)
    PROVE  PlacedOn(m)'
<1>1. PlacedOn(m)
  BY DEF Placed
<1>2. lane[m].job \in Tasks \cup {0} /\ Range(lane[m].ext) \subseteq Tasks
      /\ Range(lane[m].direct) \subseteq Tasks
  BY LaneFields
<1>3. Shape(m)'
  BY <1>1 DEF PlacedOn, Shape, SameJobs
<1>4. Listed(m)'
  BY <1>1, <1>2 DEF PlacedOn, Shape, Listed, SameJobs, SameTask, Fresh, Woken
<1>5. Framed(m)'
  BY <1>1, <1>2 DEF PlacedOn, Shape, Framed, SameJobs, SameTask, Fresh, Woken, Own
<1>6. \A t \in Tasks : Home(t) = m => Rests(t)'
  BY <1>1 DEF PlacedOn, Rests, Runs, SameJobs, SameTask
<1> QED BY <1>3, <1>4, <1>5, <1>6 DEF PlacedOn

\* A step on one lane, about tasks of that lane.
LEMMA PlacedThere ==
    ASSUME Types, Placed, NEW l \in Lanes,
           \A m \in Lanes \ {l} : SameJobs(m),
           \A t \in Tasks : Home(t) # l => SameTask(t),
           PlacedOn(l)'
    PROVE  Placed'
BY PlacedElsewhere DEF Placed

LEMMA PlacedStays ==
    ASSUME Types, Placed, \A m \in Lanes : SameJobs(m), \A t \in Tasks : SameTask(t)
    PROVE  Placed'
BY PlacedElsewhere DEF Placed

\* A step that issues no ticket, and one that issues one on lane h.
LEMMA TicketsMove ==
    ASSUME Types, Types', Tickets, toIssue' = toIssue, next' = next,
           \A m \in Lanes, x \in Numbers : Holds(m, x)' => Holds(m, x),
           \A m \in Lanes : lane'[m].pc \in {"run", "finish"} => lane'[m].ticket = next
    PROVE  Tickets'
BY DEF Tickets

LEMMA TicketIssued ==
    ASSUME Types, Types', Tickets, toIssue' = toIssue + 1, next' = next,
           NEW h \in Lanes,
           \A m \in Lanes, x \in Numbers :
              Holds(m, x)' => Holds(m, x) \/ (m = h /\ x = toIssue),
           \A m \in Lanes : lane'[m].pc \in {"run", "finish"} => lane'[m].ticket = next
    PROVE  Tickets'
<1>1. toIssue \in Nat
  BY DEF Types, LaneTypes
<1>2. \A l \in Lanes, x \in Numbers : Holds(l, x) => x < toIssue
  BY DEF Tickets
<1>3. \A l \in Lanes, x \in Numbers : Holds(l, x)' => x < toIssue'
  BY <1>1, <1>2 DEF Numbers
<1>4. ASSUME NEW l \in Lanes, NEW m \in Lanes, NEW x \in Numbers, Holds(l, x)', Holds(m, x)'
      PROVE  l = m
  <2>1. x = toIssue => ~Holds(l, x) /\ ~Holds(m, x)
    BY <1>1, <1>2
  <2>2. Holds(l, x) /\ Holds(m, x) => l = m
    BY DEF Tickets
  <2> QED BY <1>4, <2>1, <2>2
<1> QED BY <1>3, <1>4 DEF Tickets

LEMMA TicketsStay ==
    ASSUME Types, Types', Tickets, UNCHANGED <<toIssue, next, wakeTicket>>,
           \A m \in Lanes : SameJobs(m)
    PROVE  Tickets'
<1>1. \A m \in Lanes, x \in Numbers : Holds(m, x)' => Holds(m, x)
  BY DEF Holds, SameJobs
<1>2. \A m \in Lanes : lane'[m].pc \in {"run", "finish"} => lane'[m].ticket = next
  BY DEF Tickets, SameJobs
<1> QED BY <1>1, <1>2, TicketsMove

\* The task of slot s is as before for the slot.
SameFor(t) == SameTask(t) /\ (Runs(t)' <=> Runs(t))

\* Neither the pool nor a task with a token changes; a task without one does
\* not come to a place of host I/O.
LEMMA SlottedStays ==
    ASSUME Types, Slotted, UNCHANGED <<slot, free, queue, nextSub, io, token, script>>,
           \A t \in Tasks : token[t] # 0 => SameFor(t),
           \A t \in Tasks : token[t] = 0 => at'[t] \notin {"queue", "complete"}
    PROVE  Slotted'
<1>1. Lists'
  BY DEF Slotted, Lists, Once, Ascends, Distinct
<1>2. ASSUME NEW s \in Slots PROVE SlotKept(s)'
  <2>1. SlotKept(s)
    BY DEF Slotted
  <2>2. slot[s].st # "Free" => /\ slot[s].task \in Tasks /\ token[slot[s].task] = s
                               /\ SameFor(slot[s].task)
    BY <2>1, Sizes DEF SlotKept, Held
  <2> QED BY <2>1, <2>2 DEF SlotKept, Held, Asleep, SameFor, SameTask
<1>3. WorkerKept'
  <2>1. WorkerKept
    BY DEF Slotted
  <2>2. io.pc = "wake" => SameFor(slot[io.slot].task)
    BY <2>1, Sizes DEF WorkerKept, Asleep, Held
  <2> QED BY <2>1, <2>2 DEF WorkerKept, Asleep, Held, SameFor, SameTask
<1>4. ASSUME NEW t \in Tasks PROVE TokenKept(t)'
  <2>1. TokenKept(t)
    BY DEF Slotted
  <2> QED BY <2>1 DEF TokenKept, Computes, SameFor, SameTask
<1> QED BY <1>1, <1>2, <1>3, <1>4 DEF Slotted

\* The work of a lane is as before.
SameWork(m) ==
    /\ lane'[m].work = lane[m].work
    /\ (lane'[m].pc \in AtWork) <=> (lane[m].pc \in AtWork)
    /\ (lane'[m].pc = "wake") <=> (lane[m].pc = "wake")
    /\ lane[m].pc \in AtWork \cup {"wake"} => lane'[m].task = lane[m].task

\* A step that leaves the work of all lanes and concerns one task's awaits.
LEMMA WorkStays ==
    ASSUME Types, Computed, \A m \in Lanes : SameWork(m)
    PROVE  /\ \A m \in Lanes : WorkKept(m)'
           /\ \A t : WorkLanes(t)' = WorkLanes(t)
<1>1. \A m \in Lanes : WorkKept(m)'
  BY DEF Computed, WorkKept, SameWork
<1>2. \A t, m : m \in Lanes => (OnLane(t, m)' <=> OnLane(t, m))
  BY DEF OnLane, SameWork
<1> QED BY <1>1, <1>2 DEF WorkLanes

\* Tasks other than t keep what they compute; t does not wait for a waker.
LEMMA ComputedOf ==
    ASSUME Types, Computed, NEW t \in Tasks, UNCHANGED script,
           \A m \in Lanes : SameWork(m),
           \A u \in Tasks \ {t} :
              /\ SameTask(u) /\ token'[u] = token[u] /\ phase'[u] = phase[u]
              /\ pass'[u] = pass[u] /\ device'[u] = device[u],
           ~Waked(t), device'[t] # "wake",
           PhaseKept(t)', pass'[t] - Units(t)' = pass[t] - Units(t), pass'[t] \in Int
    PROVE  Computed'
<1>1. \A m \in Lanes : WorkKept(m)'
  BY WorkStays
<1>2. \A u \in Tasks : PhaseKept(u)'
  BY DEF Computed, PhaseKept, SameTask, Computes
<1>3. \A u \in Tasks : device'[u] = "wake" => u # t /\ Waked(u) /\ Waked(u)'
  BY DEF Computed, Wakers, Waked, SameTask
<1>4. \A m \in Lanes : lane'[m].pc = "wake" =>
         /\ lane[m].pc = "wake" /\ lane'[m].task = lane[m].task
         /\ lane[m].task # t /\ Waked(lane[m].task) /\ device[lane[m].task] # "wake"
  BY DEF Computed, Wakers, SameWork
<1>5. Wakers'
  <2>0. \A u \in Tasks \ {t} : Waked(u) => Waked(u)'
    BY DEF Waked, SameTask
  <2>1. ASSUME NEW m \in Lanes, lane'[m].pc = "wake"
        PROVE  (Waked(lane[m].task) /\ device[lane[m].task] # "wake")'
    <3>1. PICK u : u = lane[m].task
      OBVIOUS
    <3>2. u \in Tasks \ {t} /\ Waked(u) /\ device[u] # "wake" /\ lane'[m].task = u
      BY <1>4, <2>1, <3>1 DEF Waked
    <3>3. Waked(u)' /\ device'[u] # "wake"
      BY <2>0, <3>2
    <3> QED BY <3>2, <3>3 DEF Waked
  <2>2. \A l, m \in Lanes :
          /\ lane'[l].pc = "wake" /\ lane'[m].pc = "wake"
          /\ lane'[l].task = lane'[m].task
          => l = m
    BY <1>4 DEF Computed, Wakers
  <2> QED BY <1>3, <2>1, <2>2 DEF Wakers
<1>6. ASSUME NEW u \in Tasks
      PROVE  pass'[u] = Cardinality(WorkLanes(u))' + Units(u)'
  <2>1. WorkLanes(u)' = WorkLanes(u)
    BY WorkStays
  <2>2. pass[u] = Cardinality(WorkLanes(u)) + Units(u)
    BY DEF Computed, Passes
  <2>3. Cardinality(WorkLanes(u)) \in Nat
    BY Finite, FS_Subset, FS_CardinalityType DEF WorkLanes
  <2>4. CASE u = t
    BY <2>1, <2>2, <2>3, <2>4 DEF Units
  <2>5. CASE u # t
    BY <2>1, <2>2, <2>5 DEF Units, SameTask
  <2> QED BY <2>4, <2>5
<1> QED BY <1>1, <1>2, <1>5, <1>6 DEF Computed, Passes

LEMMA ComputedStays ==
    ASSUME Types, Computed, UNCHANGED <<script, token, phase, pass, device>>,
           \A m \in Lanes : SameWork(m), \A u \in Tasks : SameTask(u)
    PROVE  Computed'
<1>1. \A m \in Lanes : WorkKept(m)'
  BY WorkStays
<1>2. \A u \in Tasks : PhaseKept(u)'
  BY DEF Computed, PhaseKept, SameTask, Computes
<1>3. \A u \in Tasks : Waked(u)' <=> Waked(u)
  BY DEF Waked, SameTask
<1>4. \A m \in Lanes : lane'[m].pc = "wake" =>
         lane[m].pc = "wake" /\ lane'[m].task = lane[m].task
  BY DEF SameWork
<1>5. Wakers'
  <2>1. Wakers
    BY DEF Computed
  <2>2. \A m \in Lanes : lane[m].pc = "wake" => lane[m].task \in Tasks
    BY <2>1 DEF Wakers, Waked
  <2> QED BY <1>3, <1>4, <2>1, <2>2 DEF Wakers
<1>6. \A u \in Tasks : pass'[u] = Cardinality(WorkLanes(u))' + Units(u)'
  <2>1. \A u \in Tasks : WorkLanes(u)' = WorkLanes(u)
    BY WorkStays
  <2> QED BY <2>1 DEF Units, SameTask, Computed, Passes
<1> QED BY <1>1, <1>2, <1>5, <1>6 DEF Computed, Passes

-----------------------------------------------------------------------------
(* Counting.                                                               *)

\* One element more, one element less.
LEMMA CountOne ==
    ASSUME NEW A, IsFiniteSet(A), NEW x
    PROVE  /\ Cardinality(A) \in Nat
           /\ x \notin A => Cardinality(A \cup {x}) = Cardinality(A) + 1
           /\ x \in A => Cardinality(A \ {x}) = Cardinality(A) - 1
           /\ x \in A => Cardinality(A) >= 1
<1>1. Cardinality(A) \in Nat
  BY FS_CardinalityType
<1>2. x \notin A => Cardinality(A \cup {x}) = Cardinality(A) + 1
  BY FS_AddElement
<1>3. x \in A => Cardinality(A \ {x}) = Cardinality(A) - 1
  BY FS_RemoveElement
<1>4. x \in A => Cardinality(A \ {x}) \in Nat
  BY FS_RemoveElement, FS_CardinalityType
<1> QED BY <1>1, <1>2, <1>3, <1>4

\* The counted sets are finite.
LEMMA CountedFinite ==
    /\ IsFiniteSet(DirectFrames) /\ IsFiniteSet(ParkedTasks) /\ IsFiniteSet(TokenTasks)
    /\ Cardinality(DirectFrames) \in Nat /\ Cardinality(ParkedTasks) \in Nat
    /\ Cardinality(TokenTasks) \in Nat
<1>1. DirectFrames \subseteq Lanes /\ ParkedTasks \subseteq Tasks /\ TokenTasks \subseteq Tasks
  BY DEF DirectFrames, ParkedTasks, TokenTasks
<1>2. IsFiniteSet(DirectFrames) /\ IsFiniteSet(ParkedTasks) /\ IsFiniteSet(TokenTasks)
  BY <1>1, Finite, FS_Subset
<1> QED BY <1>2, FS_CardinalityType

\* With no job in flight there is none.
LEMMA NoFlight ==
    ASSUME FlightsCounted, inFlight = 0
    PROVE  DirectFrames = {} /\ ParkedTasks = {}
<1>1. Cardinality(DirectFrames) = 0 /\ Cardinality(ParkedTasks) = 0
  BY CountedFinite DEF FlightsCounted
<1> QED BY <1>1, CountedFinite, FS_EmptySet

LEMMA FlightsStay ==
    ASSUME FlightsCounted, inFlight' = inFlight,
           DirectFrames' = DirectFrames, ParkedTasks' = ParkedTasks
    PROVE  FlightsCounted'
BY DEF FlightsCounted

\* A worker takes a counted job of task t on lane l.
LEMMA FlightTaken ==
    ASSUME FlightsCounted, inFlight' = inFlight, NEW l, NEW t,
           l \notin DirectFrames, DirectFrames' = DirectFrames \cup {l},
           t \in ParkedTasks, ParkedTasks' = ParkedTasks \ {t}
    PROVE  FlightsCounted'
<1>1. /\ Cardinality(DirectFrames)' = Cardinality(DirectFrames) + 1
      /\ Cardinality(ParkedTasks)' = Cardinality(ParkedTasks) - 1
  BY CountedFinite, CountOne
<1> QED BY <1>1, CountedFinite DEF FlightsCounted

\* The job on lane l is over.
LEMMA FlightEnds ==
    ASSUME FlightsCounted, inFlight' = IF inFlight > 0 THEN inFlight - 1 ELSE 0,
           NEW l \in DirectFrames, DirectFrames' = DirectFrames \ {l},
           ParkedTasks' = ParkedTasks
    PROVE  FlightsCounted'
<1>1. /\ Cardinality(DirectFrames)' = Cardinality(DirectFrames) - 1
      /\ Cardinality(DirectFrames) >= 1
  BY CountedFinite, CountOne
<1> QED BY <1>1, CountedFinite DEF FlightsCounted

\* Task t parks, or its park is rolled back.
LEMMA FlightParks ==
    ASSUME FlightsCounted, inFlight' = inFlight + 1, DirectFrames' = DirectFrames,
           NEW t, t \notin ParkedTasks, ParkedTasks' = ParkedTasks \cup {t}
    PROVE  FlightsCounted'
<1>1. Cardinality(ParkedTasks)' = Cardinality(ParkedTasks) + 1
  BY CountedFinite, CountOne
<1> QED BY <1>1, CountedFinite DEF FlightsCounted

LEMMA FlightUnparks ==
    ASSUME FlightsCounted, inFlight' = inFlight - 1, DirectFrames' = DirectFrames,
           NEW t \in ParkedTasks, ParkedTasks' = ParkedTasks \ {t}
    PROVE  FlightsCounted' /\ inFlight' \in Nat
<1>1. Cardinality(ParkedTasks)' = Cardinality(ParkedTasks) - 1
      /\ Cardinality(ParkedTasks) >= 1
  BY CountedFinite, CountOne
<1> QED BY <1>1, CountedFinite DEF FlightsCounted

\* What is counted is as before.
LEMMA FlightSets ==
    ASSUME \A m \in Lanes : SameJobs(m), \A t \in Tasks : SameTask(t)
    PROVE  DirectFrames' = DirectFrames /\ ParkedTasks' = ParkedTasks
<1>1. \A m \in Lanes : (m \in DirectFrames' <=> m \in DirectFrames)
  BY DEF DirectFrames, SameJobs
<1>2. \A t \in Tasks : Parks(t)' <=> Parks(t)
  BY Sizes DEF Parks, SameJobs, SameTask
<1> QED BY <1>1, <1>2 DEF DirectFrames, ParkedTasks

LEMMA PoolCountsStay ==
    ASSUME BytesCounted /\ AdmissionsCounted, UNCHANGED <<token, slot, reserved, subs>>
    PROVE  BytesCounted' /\ AdmissionsCounted'
BY DEF BytesCounted, AdmissionsCounted, TokenTasks, Admits

LEMMA CountedStays ==
    ASSUME Counted, UNCHANGED <<inFlight, token, slot, reserved, subs>>,
           \A m \in Lanes : SameJobs(m), \A t \in Tasks : SameTask(t)
    PROVE  Counted'
BY FlightSets, FlightsStay, PoolCountsStay DEF Counted

-----------------------------------------------------------------------------
(* The root, and a coroutine inside its quantum.                           *)

SameRegular(m) ==
    /\ lane'[m].job = lane[m].job /\ lane'[m].done = lane[m].done
    /\ RegularFrame(m)' <=> RegularFrame(m)

LEMMA RootedStays ==
    ASSUME Rooted, UNCHANGED <<root, collects, laneStop, stop>>,
           \A m \in Lanes : SameRegular(m),
           root \in Over => UNCHANGED inFlight,
           root = "joining" => UNCHANGED io
    PROVE  Rooted'
<1>1. \A m \in Lanes : Regular(m)'
  BY DEF Rooted, Regular, SameRegular
<1>2. root \in Over => inFlight' = 0
  BY DEF Rooted
<1> QED BY <1>1, <1>2 DEF Rooted

\* Nothing of a drain that is over is on a lane.
LEMMA OverIsQuiet ==
    ASSUME IInv, root \in Over
    PROVE  /\ DirectFrames = {} /\ ParkedTasks = {}
           /\ \A l \in Lanes : lane[l].pc \notin Own /\ lane[l].job = 0 /\ ~lane[l].done
           /\ \A t \in Tasks : state[t] # "ExternalBlocked" /\ ~Runs(t)
<1>1. DirectFrames = {} /\ ParkedTasks = {}
  BY NoFlight DEF IInv, Counted, Rooted
<1>2. \A l \in Lanes : Regular(l) /\ root # "collect"
  BY DEF IInv, Rooted, Over
<1>3. \A l \in Lanes : lane[l].pc \notin Own /\ lane[l].job = 0 /\ ~lane[l].done
  BY <1>1, <1>2 DEF DirectFrames, Regular, RegularFrame
<1>4. ASSUME NEW t \in Tasks PROVE state[t] # "ExternalBlocked" /\ ~Runs(t)
  <2>1. Home(t) \in Lanes
    BY Sizes
  <2>2. ~Runs(t) /\ lane[Home(t)].pc # "turn"
    BY <1>3, <2>1 DEF Runs, Own
  <2>3. Rests(t)
    BY <2>1 DEF IInv, Placed, PlacedOn
  <2>4. state[t] = "ExternalBlocked" => Parks(t)
    BY <2>2, <2>3 DEF Rests, Parks
  <2> QED BY <1>1, <2>2, <2>4 DEF ParkedTasks
<1> QED BY <1>1, <1>3, <1>4

\* The coroutine that is inside its quantum is the only one, is on no list
\* and keeps the root from ending the drain.
LEMMA InQuantum ==
    ASSUME IInv, NEW l \in Lanes, NEW t, t = lane[l].task, lane[l].pc = "run"
    PROVE  /\ t \in Tasks /\ Home(t) = l /\ Runs(t) /\ wakeTicket[t] = 0
           /\ lane[l].kind \in JobKinds
           /\ \A m \in Lanes : lane[m].pc \in {"run", "finish"} => m = l
           /\ \A u \in Tasks : Runs(u) => u = t
           /\ lane[l].ticket = next
           /\ root \notin Over /\ ~laneStop /\ ~stop
           /\ t \notin Range(lane[l].ext) /\ t \notin Range(lane[l].direct)
           /\ lane[l].job # t /\ (lane[l].mail.st = 1 => lane[l].mail.task # t)
           /\ ~Waked(t)
<1>1. PlacedOn(l)
  BY DEF IInv, Placed
<1>2. t \in Tasks /\ Home(t) = l /\ lane[l].kind \in JobKinds
  BY <1>1 DEF PlacedOn, Shape, Own
<1>3. Runs(t)
  BY <1>2 DEF Runs
<1>4. \A m \in Lanes : lane[m].pc \in {"run", "finish"} => m = l
  <2>1. \A m \in Lanes : lane[m].pc \in {"run", "finish"} => lane[m].ticket = next
    BY DEF IInv, Tickets
  <2>2. next \in Numbers
    BY DEF IInv, Types, LaneTypes, Numbers
  <2>3. \A m \in Lanes : lane[m].pc \in {"run", "finish"} => Holds(m, next)
    BY <2>1 DEF Holds, InTurn
  <2>4. Holds(l, next)
    BY <2>3
  <2> QED BY <2>2, <2>3, <2>4 DEF IInv, Tickets
<1>5. \A u \in Tasks : Runs(u) => u = t
  BY <1>4, Sizes DEF Runs
<1>6. root \notin Over
  BY OverIsQuiet DEF Own
<1>7. ~laneStop /\ ~stop
  BY <1>6 DEF IInv, Rooted, Over
<1>8. lane[l].ticket = next
  BY DEF IInv, Tickets
<1>9. Framed(l) /\ Listed(l)
  BY <1>1 DEF PlacedOn
<1>10. wakeTicket[t] = 0 /\ lane[l].job # t /\ (lane[l].mail.st = 1 => lane[l].mail.task # t)
  BY <1>9 DEF Framed
<1>11. t \notin Range(lane[l].ext) /\ t \notin Range(lane[l].direct)
  BY <1>9, <1>10 DEF Listed, Woken
<1>12. ~Waked(t)
  BY <1>9 DEF Framed, Waked
<1> QED BY <1>2, <1>3, <1>4, <1>5, <1>6, <1>7, <1>8, <1>10, <1>11, <1>12

-----------------------------------------------------------------------------
(* The root alone.                                                         *)

LEMMA RootMoves ==
    ASSUME IInv, UNCHANGED <<records, ready, joinWaits, tickets, lane, inFlight,
                             compute, pool, io>>,
           Types', Rooted'
    PROVE  IInv'
<1> USE DEF records, tickets, compute, pool
<1>1. \A m \in Lanes : SameJobs(m) /\ SameWork(m)
  BY DEF SameJobs, SameWork
<1>2. \A t \in Tasks : SameTask(t) /\ SameFor(t)
  BY DEF SameTask, SameFor, Runs
<1>3. Queued'
  BY DEF IInv, Queued, InState, Once
<1>4. Placed'
  BY <1>1, <1>2, PlacedStays DEF IInv
<1>5. Tickets'
  BY <1>1, TicketsStay DEF IInv
<1>6. Slotted'
  <2>1. \A t \in Tasks : token[t] = 0 => at'[t] \notin {"queue", "complete"}
    BY DEF IInv, Slotted, TokenKept
  <2> QED BY <1>2, <2>1, SlottedStays DEF IInv
<1>7. Computed'
  BY <1>1, <1>2, ComputedStays DEF IInv
<1>8. Counted'
  BY <1>1, <1>2, CountedStays DEF IInv
<1> QED BY <1>3, <1>4, <1>5, <1>6, <1>7, <1>8 DEF IInv

LEMMA Stutters == IInv /\ UNCHANGED vars => IInv'
<1> SUFFICES ASSUME IInv, UNCHANGED vars PROVE IInv'
  OBVIOUS
<1> USE DEF vars, records, readyVars, tickets, compute, pool, rootVars
<1>1. Types'
  BY DEF IInv, Types, TaskTypes, ReadyTypes, LaneTypes, ComputeTypes, PoolTypes, RootTypes
<1>2. \A m \in Lanes : SameRegular(m)
  BY DEF SameRegular, RegularFrame
<1>3. Rooted'
  BY <1>2, RootedStays DEF IInv
<1> QED BY <1>1, <1>3, RootMoves

\* Drain begins, looks at the ready queue and waits for direct jobs.
LEMMA DrainLoopKeeps ==
    IInv /\ (BeginDrain \/ SeesNoReady \/ WaitForDirectJobs \/ Wakes) => IInv'
<1> SUFFICES ASSUME IInv, BeginDrain \/ SeesNoReady \/ WaitForDirectJobs \/ Wakes
             PROVE  IInv'
  OBVIOUS
<1> USE DEF BeginDrain, SeesNoReady, WaitForDirectJobs, Wakes
<1>1. UNCHANGED <<records, ready, epoch, joinWaits, tickets, lane, laneStop, inFlight,
                  compute, pool, stop, io, collects, scopes>>
  BY DEF readyVars
<1>2. /\ consumed' \in {consumed, epoch}
      /\ root' \in {"drain", "check", "finish", "sleep"}
      /\ root' = "finish" => inFlight = 0
      /\ root \in {"open", "drain", "check", "sleep"}
  BY DEF readyVars
<1>3. Types'
  BY <1>1, <1>2 DEF IInv, Types, TaskTypes, ReadyTypes, LaneTypes, ComputeTypes,
     PoolTypes, RootTypes, records, tickets, compute, pool
<1>4. Rooted'
  BY <1>1, <1>2 DEF IInv, Rooted, Regular, RegularFrame, Over
<1> QED BY <1>1, <1>3, <1>4, RootMoves

LEMMA DrainReturnsKeeps == IInv /\ DrainReturns => IInv'
<1> SUFFICES ASSUME IInv, DrainReturns PROVE IInv'
  OBVIOUS
<1>1. /\ UNCHANGED <<records, ready, epoch, consumed, joinWaits, tickets, lane,
                     laneStop, inFlight, compute, pool, io, collects, scopes>>
      /\ root = "finish" /\ root' = "stopping" /\ stop' = TRUE
  BY DEF DrainReturns, readyVars
<1>2. Types'
  BY <1>1 DEF IInv, Types, TaskTypes, ReadyTypes, LaneTypes, ComputeTypes,
     PoolTypes, RootTypes, records, tickets, compute, pool
<1>3. Rooted'
  BY <1>1 DEF IInv, Rooted, Regular, RegularFrame, Over
<1> QED BY <1>1, <1>2, <1>3, RootMoves

-----------------------------------------------------------------------------
(* Steps of one lane worker.                                               *)

\* What a step on lane l, about tasks of that lane, leaves elsewhere.
LEMMA Elsewhere ==
    ASSUME NEW l \in Lanes, \A m \in Lanes \ {l} : lane'[m] = lane[m],
           \A t \in Tasks : Home(t) # l => SameTask(t)
    PROVE  /\ \A m \in Lanes \ {l} : SameJobs(m) /\ SameWork(m) /\ SameRegular(m)
           /\ \A m \in Lanes \ {l}, x \in Numbers : Holds(m, x)' => Holds(m, x)
           /\ \A m \in Lanes \ {l} : m \in DirectFrames' <=> m \in DirectFrames
           /\ \A t \in Tasks : Home(t) # l =>
                 /\ Runs(t)' <=> Runs(t)
                 /\ Parks(t)' <=> Parks(t)
<1>1. \A m \in Lanes \ {l} : SameJobs(m) /\ SameWork(m) /\ SameRegular(m)
  BY DEF SameJobs, SameWork, SameRegular, RegularFrame
<1>2. \A m \in Lanes \ {l}, x \in Numbers : Holds(m, x)' => Holds(m, x)
  BY DEF Holds, SameTask
<1>3. \A m \in Lanes \ {l} : m \in DirectFrames' <=> m \in DirectFrames
  BY DEF DirectFrames
<1>4. \A t \in Tasks : Home(t) # l => (Runs(t)' <=> Runs(t)) /\ (Parks(t)' <=> Parks(t))
  BY Sizes DEF Runs, Parks, SameTask
<1> QED BY <1>1, <1>2, <1>3, <1>4

\* The counted sets change at lane l and task t only.
LEMMA SetsElsewhere ==
    ASSUME NEW l \in Lanes, \A m \in Lanes \ {l} : m \in DirectFrames' <=> m \in DirectFrames,
           NEW t \in Tasks, \A u \in Tasks \ {t} : Parks(u)' <=> Parks(u)
    PROVE  /\ (l \in DirectFrames' <=> l \in DirectFrames) => DirectFrames' = DirectFrames
           /\ l \in DirectFrames' => DirectFrames' = DirectFrames \cup {l}
           /\ l \notin DirectFrames' => DirectFrames' = DirectFrames \ {l}
           /\ (Parks(t)' <=> Parks(t)) => ParkedTasks' = ParkedTasks
           /\ Parks(t)' => ParkedTasks' = ParkedTasks \cup {t}
           /\ ~Parks(t)' => ParkedTasks' = ParkedTasks \ {t}
BY DEF DirectFrames, ParkedTasks

\* The work items move on their lanes, none is released, no task changes.
LEMMA ComputedMoves ==
    ASSUME Types, Computed, UNCHANGED <<script, token, phase, pass, device>>,
           \A m \in Lanes : WorkKept(m)',
           \A t \in Tasks, m \in Lanes : OnLane(t, m)' <=> OnLane(t, m),
           \A m \in Lanes : lane'[m].pc = "wake" =>
              lane[m].pc = "wake" /\ lane'[m].task = lane[m].task,
           \A u \in Tasks : SameTask(u)
    PROVE  Computed'
<1>2. \A u \in Tasks : PhaseKept(u)'
  BY DEF Computed, PhaseKept, SameTask, Computes
<1>3. \A u \in Tasks : Waked(u)' <=> Waked(u)
  BY DEF Waked, SameTask
<1>5. Wakers'
  <2>1. Wakers
    BY DEF Computed
  <2>2. \A m \in Lanes : lane[m].pc = "wake" => lane[m].task \in Tasks
    BY <2>1 DEF Wakers, Waked
  <2> QED BY <1>3, <2>1, <2>2 DEF Wakers
<1>6. \A u \in Tasks : pass'[u] = Cardinality(WorkLanes(u))' + Units(u)'
  <2>1. \A u \in Tasks : WorkLanes(u)' = WorkLanes(u)
    BY DEF WorkLanes
  <2> QED BY <2>1 DEF Units, SameTask, Computed, Passes
<1> QED BY <1>2, <1>5, <1>6 DEF Computed, Passes

\* A step of lane l that changes no task, no ticket and no job of the lane
\* but its frame, and does not enter or leave a job.
LEMMA WorkerMoves ==
    ASSUME IInv, NEW l \in Lanes, Types',
           UNCHANGED <<records, ready, joinWaits, tickets, laneStop, inFlight,
                       pool, stop, io, root, collects>>,
           \A m \in Lanes \ {l} : lane'[m] = lane[m],
           lane[l].pc \notin Own, lane'[l].pc \notin Own,
           lane'[l].job = lane[l].job, lane'[l].jobTicket = lane[l].jobTicket,
           lane'[l].done = lane[l].done, lane'[l].mail = lane[l].mail,
           lane'[l].ext = lane[l].ext, lane'[l].direct = lane[l].direct,
           Shape(l)', Computed'
    PROVE  IInv'
<1> USE DEF records, tickets, pool
<1>1. \A t \in Tasks : SameTask(t) /\ SameFor(t)
  BY Sizes DEF SameTask, SameFor, Runs, Own
<1>2. /\ \A m \in Lanes \ {l} : SameJobs(m) /\ SameRegular(m)
      /\ \A m \in Lanes \ {l}, x \in Numbers : Holds(m, x)' => Holds(m, x)
      /\ \A m \in Lanes \ {l} : m \in DirectFrames' <=> m \in DirectFrames
  BY <1>1, Elsewhere
<1>3. Queued'
  BY DEF IInv, Queued, InState, Once
<1>4. Placed'
  <2>1. PlacedOn(l)
    BY DEF IInv, Placed
  <2>2. Listed(l)'
    BY <1>1, <2>1, LaneFields DEF PlacedOn, Shape, Listed, Fresh, Woken, SameTask, IInv
  <2>3. Framed(l)'
    BY DEF Framed, Own
  <2>4. \A t \in Tasks : Home(t) = l => Rests(t)'
    BY <1>1, <2>1 DEF PlacedOn, Rests, SameFor, SameTask
  <2> QED BY <1>1, <1>2, <2>2, <2>3, <2>4, PlacedThere DEF IInv, PlacedOn
<1>5. Tickets'
  <2>1. \A x \in Numbers : Holds(l, x)' => Holds(l, x)
    BY DEF Holds, InTurn, Own
  <2>2. \A m \in Lanes : lane'[m].pc \in {"run", "finish"} => lane'[m].ticket = next
    BY DEF IInv, Tickets, Own
  <2> QED BY <1>2, <2>1, <2>2, TicketsMove DEF IInv
<1>6. Slotted'
  <2>1. \A t \in Tasks : token[t] = 0 => at'[t] \notin {"queue", "complete"}
    BY DEF IInv, Slotted, TokenKept
  <2> QED BY <1>1, <2>1, SlottedStays DEF IInv
<1>7. Counted'
  <2>1. DirectFrames' = DirectFrames
    BY <1>2 DEF DirectFrames
  <2>2. \A t \in Tasks : Parks(t)' <=> Parks(t)
    BY Sizes DEF Parks, Own
  <2>3. ParkedTasks' = ParkedTasks
    BY <2>2 DEF ParkedTasks
  <2> QED BY <2>1, <2>3, FlightsStay, PoolCountsStay DEF IInv, Counted
<1>8. Rooted'
  <2>1. SameRegular(l)
    BY DEF SameRegular, RegularFrame
  <2> QED BY <1>2, <2>1, RootedStays DEF IInv
<1> QED BY <1>3, <1>4, <1>5, <1>6, <1>7, <1>8 DEF IInv

\* The types of a step that changes lanes and the compute words only.
LEMMA LaneStepTypes ==
    ASSUME Types, UNCHANGED <<records, readyVars, tickets, laneStop, inFlight, pool,
                              stop, io, rootVars>>,
           LaneTypes', ComputeTypes'
    PROVE  Types'
BY DEF Types, TaskTypes, ReadyTypes, LaneTypes, ComputeTypes, PoolTypes, RootTypes,
   records, readyVars, tickets, pool, rootVars

LEMMA ClaimWorkKeeps ==
    ASSUME IInv, NEW l \in Lanes, ClaimWork(l)
    PROVE  IInv'
<1>1. PICK n \in LaneRec : n = lane[l]
  BY LaneFields DEF IInv
<1>2. n.work \in Seq(Tasks) /\ n.work # <<>> /\ n.pc = "idle"
  BY <1>1 DEF LaneRec, ClaimWork
<1>3. PICK h, q : h = Head(n.work) /\ q = Tail(n.work)
  OBVIOUS
<1>4. /\ h \in Tasks /\ q \in Seq(Tasks) /\ Range(n.work) = Range(q) \cup {h}
      /\ IsInjective(n.work) => IsInjective(q) /\ h \notin Range(q)
  BY <1>2, <1>3, TailOnce
<1>5. lane' = [lane EXCEPT ![l] = [n EXCEPT !.pc = "work", !.kind = "Work",
                                            !.task = h, !.work = q]]
  BY <1>1, <1>3 DEF ClaimWork
<1>6. lane \in [Lanes -> LaneRec]
  BY DEF IInv, Types, LaneTypes
<1>7. /\ lane'[l] = [n EXCEPT !.pc = "work", !.kind = "Work", !.task = h, !.work = q]
      /\ \A m \in Lanes \ {l} : lane'[m] = lane[m]
  BY <1>5, <1>6
<1>8. lane'[l] \in LaneRec
  BY <1>4, <1>7, Sizes DEF LaneRec, AtWork
<1>9. /\ lane'[l].pc = "work" /\ lane'[l].kind = "Work" /\ lane'[l].task = h
      /\ lane'[l].work = q /\ lane'[l].job = lane[l].job
      /\ lane'[l].jobTicket = lane[l].jobTicket /\ lane'[l].done = lane[l].done
      /\ lane'[l].mail = lane[l].mail /\ lane'[l].ext = lane[l].ext
      /\ lane'[l].direct = lane[l].direct
  BY <1>1, <1>7 DEF LaneRec
<1>10. UNCHANGED <<records, readyVars, tickets, laneStop, inFlight, compute,
                   pool, stop, io, rootVars>>
  BY DEF ClaimWork
<1>11. Types'
  <2>1. lane' \in [Lanes -> LaneRec]
    BY <1>5, <1>6, <1>7, <1>8
  <2> QED BY <2>1, <1>10, LaneStepTypes DEF IInv, Types, LaneTypes, ComputeTypes, tickets, compute
<1>12. Shape(l)'
  <2>1. Shape(l)
    BY DEF IInv, Placed, PlacedOn
  <2> QED BY <1>1, <1>2, <1>4, <1>9, <2>1 DEF Shape, AtWork, Own
<1>13. Computed'
  <2>1. WorkKept(l)
    BY DEF IInv, Computed
  <2>2. \A m \in Lanes : WorkKept(m)'
    BY <1>1, <1>4, <1>7, <1>9, <2>1 DEF IInv, Computed, WorkKept
  <2>3. \A t \in Tasks, m \in Lanes : OnLane(t, m)' <=> OnLane(t, m)
    <3>1. \A t \in Tasks : OnLane(t, l) <=> t \in Range(n.work)
      BY <1>1, <1>2 DEF OnLane, AtWork
    <3>2. \A t \in Tasks : OnLane(t, l)' <=> t \in Range(q) \/ t = h
      BY <1>9 DEF OnLane, AtWork
    <3>3. \A t \in Tasks, m \in Lanes \ {l} : OnLane(t, m)' <=> OnLane(t, m)
      BY <1>7 DEF OnLane
    <3> QED BY <1>4, <3>1, <3>2, <3>3
  <2>4. \A m \in Lanes : lane'[m].pc = "wake" =>
           lane[m].pc = "wake" /\ lane'[m].task = lane[m].task
    BY <1>7, <1>9
  <2>5. \A u \in Tasks : SameTask(u)
    BY <1>10 DEF SameTask, records
  <2> QED BY <1>10, <2>2, <2>3, <2>4, <2>5, ComputedMoves DEF IInv, records, compute
<1>14. lane[l].pc \notin Own /\ lane'[l].pc \notin Own
  BY <1>1, <1>2, <1>9 DEF Own
<1> QED BY <1>7, <1>9, <1>10, <1>11, <1>12, <1>13, <1>14, WorkerMoves DEF readyVars, rootVars

LEMMA RunWorkKeeps ==
    ASSUME IInv, NEW l \in Lanes, RunWork(l)
    PROVE  IInv'
<1>1. PICK n \in LaneRec : n = lane[l]
  BY LaneFields DEF IInv
<1>6. lane \in [Lanes -> LaneRec]
  BY DEF IInv, Types, LaneTypes
<1>7. /\ lane'[l] = [n EXCEPT !.pc = "released"] /\ n.pc = "work"
      /\ \A m \in Lanes \ {l} : lane'[m] = lane[m]
  BY <1>1, <1>6 DEF RunWork
<1>8. lane'[l] \in LaneRec
  BY <1>7 DEF LaneRec, AtWork
<1>9. /\ lane'[l].pc = "released" /\ lane'[l].kind = lane[l].kind
      /\ lane'[l].task = lane[l].task /\ lane'[l].ticket = lane[l].ticket
      /\ lane'[l].work = lane[l].work /\ lane'[l].job = lane[l].job
      /\ lane'[l].jobTicket = lane[l].jobTicket /\ lane'[l].done = lane[l].done
      /\ lane'[l].mail = lane[l].mail /\ lane'[l].ext = lane[l].ext
      /\ lane'[l].direct = lane[l].direct
  BY <1>1, <1>7 DEF LaneRec
<1>10. UNCHANGED <<records, readyVars, tickets, laneStop, inFlight, compute,
                   pool, stop, io, rootVars>>
  BY DEF RunWork
<1>11. Types'
  <2>1. lane' \in [Lanes -> LaneRec]
    BY <1>6, <1>8 DEF RunWork
  <2> QED BY <2>1, <1>10, LaneStepTypes DEF IInv, Types, LaneTypes, ComputeTypes, tickets, compute
<1>12. Shape(l)'
  <2>1. Shape(l)
    BY DEF IInv, Placed, PlacedOn
  <2> QED BY <1>1, <1>7, <1>9, <2>1 DEF Shape, AtWork, Own
<1>13. Computed'
  <2>1. \A m \in Lanes : SameWork(m)
    BY <1>1, <1>7, <1>9 DEF SameWork, AtWork
  <2>2. \A u \in Tasks : SameTask(u)
    BY <1>10 DEF SameTask, records
  <2> QED BY <1>10, <2>1, <2>2, ComputedStays DEF IInv, records, compute
<1>14. lane[l].pc \notin Own /\ lane'[l].pc \notin Own
  BY <1>1, <1>7, <1>9 DEF Own
<1> QED BY <1>7, <1>9, <1>10, <1>11, <1>12, <1>13, <1>14, WorkerMoves DEF readyVars, rootVars

\* A task with a pass or a device operation under way is a coordinator that
\* awaits it.
LEMMA Coordinator ==
    ASSUME IInv, NEW t \in Tasks, pass[t] # 0 \/ device[t] = "busy"
    PROVE  /\ Computes(t) /\ token[t] = 0 /\ PhaseKept(t)
           /\ at[t] \in {"submitted", "park", "count", "commit", "reset"}
           /\ phase[t] # Done /\ device[t] # "wake"
           /\ phase[t] = Parked => at[t] = "reset"
           /\ \A m \in Lanes : lane[m].pc = "wake" => lane[m].task # t
<1>1. PhaseKept(t) /\ Wakers
  BY DEF IInv, Computed
<1>2. TokenKept(t)
  BY DEF IInv, Slotted
<1>3. at[t] \in {"next", "submitted", "park", "count", "commit", "queue", "complete",
                 "reset", "end"}
  BY DEF IInv, Types, TaskTypes
<1>4. Computes(t) /\ phase[t] # Done /\ at[t] \notin {"next", "end"}
  BY <1>1 DEF PhaseKept
<1>5. token[t] = 0 /\ at[t] \notin {"queue", "complete"}
  BY <1>2, <1>4 DEF TokenKept
<1>6. phase[t] = Parked => at[t] = "reset"
  BY <1>1, <1>3, <1>4, <1>5 DEF PhaseKept, Parked, Pending, Parking, Done
<1>7. ~Waked(t)
  BY <1>4 DEF Waked
<1> QED BY <1>1, <1>3, <1>4, <1>5, <1>6, <1>7 DEF Wakers

LEMMA FinishWorkerKeeps ==
    ASSUME IInv, NEW l \in Lanes, FinishWorker(l)
    PROVE  IInv'
<1>1. PICK n \in LaneRec : n = lane[l]
  BY LaneFields DEF IInv
<1>2. PICK t : t = n.task
  OBVIOUS
<1>3. lane \in [Lanes -> LaneRec] /\ pass \in [Tasks -> Nat] /\ phase \in [Tasks -> 0..3]
  BY DEF IInv, Types, LaneTypes, ComputeTypes
<1>4. n.pc = "released" /\ Shape(l) /\ WorkKept(l)
  BY <1>1 DEF FinishWorker, IInv, Placed, PlacedOn, Computed
<1>5. t \in Tasks /\ n.kind = "Work" /\ t \notin Range(n.work)
  BY <1>1, <1>2, <1>4 DEF Shape, WorkKept, AtWork
<1>6. PICK last \in BOOLEAN : last <=> (pass[t] = 1)
  OBVIOUS
<1>7. PICK w \in BOOLEAN : w <=> last /\ phase[t] = Parked
  OBVIOUS
<1>8. /\ pass' = [pass EXCEPT ![t] = pass[t] - 1]
      /\ phase' = IF last THEN [phase EXCEPT ![t] = Done] ELSE phase
      /\ lane' = [lane EXCEPT ![l] =
            IF w THEN [n EXCEPT !.pc = "wake"]
                 ELSE [n EXCEPT !.pc = "idle", !.task = 0, !.ticket = 0, !.kind = "None"]]
      /\ device' = device
  BY <1>1, <1>2, <1>6, <1>7 DEF FinishWorker, LastWorker, Resting
<1>9. UNCHANGED <<records, readyVars, tickets, laneStop, inFlight, pool, stop, io, rootVars>>
  BY DEF FinishWorker
<1>10. /\ \A m \in Lanes \ {l} : lane'[m] = lane[m]
       /\ lane'[l] \in LaneRec
       /\ w => lane'[l].pc = "wake" /\ lane'[l].task = t /\ lane'[l].kind = "Work"
       /\ ~w => /\ lane'[l].pc = "idle" /\ lane'[l].task = 0
                /\ lane'[l].ticket = 0 /\ lane'[l].kind = "None"
       /\ lane'[l].work = n.work /\ lane'[l].job = n.job
       /\ lane'[l].jobTicket = n.jobTicket /\ lane'[l].done = n.done
       /\ lane'[l].mail = n.mail /\ lane'[l].ext = n.ext /\ lane'[l].direct = n.direct
  <2>1. CASE w
    BY <1>3, <1>8, <1>5, <1>2, <2>1 DEF LaneRec
  <2>2. CASE ~w
    BY <1>3, <1>8, <2>2, Sizes DEF LaneRec
  <2> QED BY <2>1, <2>2
\* The pass loses the unit of this lane.
<1>11. /\ WorkLanes(t)' = WorkLanes(t) \ {l} /\ l \in WorkLanes(t)
       /\ \A u \in Tasks \ {t} : WorkLanes(u)' = WorkLanes(u)
  <2>1. \A u \in Tasks : OnLane(u, l) <=> (u \in Range(n.work) \/ u = t)
    BY <1>1, <1>2, <1>4 DEF OnLane, AtWork
  <2>2. \A u \in Tasks : OnLane(u, l)' <=> u \in Range(n.work)
    BY <1>10 DEF OnLane, AtWork
  <2>3. \A u \in Tasks, m \in Lanes \ {l} : OnLane(u, m)' <=> OnLane(u, m)
    BY <1>10 DEF OnLane
  <2> QED BY <1>5, <2>1, <2>2, <2>3 DEF WorkLanes
<1>12. /\ pass[t] = Cardinality(WorkLanes(t)) + Units(t)
       /\ IsFiniteSet(WorkLanes(t)) /\ Cardinality(WorkLanes(t)) \in Nat
       /\ Cardinality(WorkLanes(t)) >= 1
       /\ Cardinality(WorkLanes(t))' = Cardinality(WorkLanes(t)) - 1
  <2>1. WorkLanes(t) \subseteq Lanes
    BY DEF WorkLanes
  <2>2. IsFiniteSet(WorkLanes(t))
    BY <2>1, Finite, FS_Subset
  <2> QED BY <1>5, <1>11, <2>2, CountOne DEF IInv, Computed, Passes
<1>13. pass[t] \in Nat /\ pass[t] >= 1 /\ (last => at[t] # "submitted" /\ Units(t) = 0)
  BY <1>5, <1>3, <1>6, <1>12 DEF Units
<1>14. /\ Computes(t) /\ token[t] = 0 /\ PhaseKept(t)
       /\ at[t] \in {"submitted", "park", "count", "commit", "reset"}
       /\ phase[t] # Done /\ device[t] # "wake"
       /\ phase[t] = Parked => at[t] = "reset"
       /\ \A m \in Lanes : lane[m].pc = "wake" => lane[m].task # t
  BY <1>5, <1>13, Coordinator
<1>15. /\ pass'[t] = pass[t] - 1 /\ phase'[t] = IF last THEN Done ELSE phase[t]
       /\ \A u \in Tasks \ {t} : pass'[u] = pass[u] /\ phase'[u] = phase[u]
       /\ pass' \in [Tasks -> Nat] /\ phase' \in [Tasks -> 0..3]
  BY <1>3, <1>5, <1>8, <1>13 DEF Done
<1>16. Types'
  <2>1. lane' \in [Lanes -> LaneRec]
    BY <1>3, <1>8, <1>10
  <2>2. LaneTypes'
    BY <2>1, <1>9 DEF IInv, Types, LaneTypes, tickets
  <2>3. ComputeTypes'
    BY <1>8, <1>15 DEF IInv, Types, ComputeTypes
  <2> QED BY <2>2, <2>3, <1>9, LaneStepTypes DEF IInv
<1>17. Shape(l)'
  BY <1>1, <1>4, <1>5, <1>10 DEF Shape, AtWork, Own
<1>18. UNCHANGED <<script, state, wakeTicket, at, token>>
  BY <1>9 DEF records
<1>19. PhaseKept(t)'
  BY <1>5, <1>6, <1>8, <1>13, <1>14, <1>15, <1>18 DEF PhaseKept, Computes, Done, Parked
<1>20. \A u \in Tasks \ {t} : PhaseKept(u)'
  BY <1>8, <1>15, <1>18 DEF IInv, Computed, PhaseKept, Computes
<1>21. \A m \in Lanes : WorkKept(m)'
  BY <1>1, <1>4, <1>10 DEF IInv, Computed, WorkKept, AtWork
<1>22. Wakers'
  <2>1. Wakers
    BY DEF IInv, Computed
  <2>2. \A u \in Tasks \ {t} : Waked(u) => Waked(u)'
    BY <1>15, <1>18 DEF Waked
  <2>3. w => Waked(t)'
    BY <1>5, <1>7, <1>14, <1>15, <1>18 DEF Waked, PhaseKept
  <2>4. \A u \in Tasks : device'[u] = "wake" => Waked(u)'
    BY <1>8, <1>14, <2>1, <2>2 DEF Wakers
  <2>5. \A m \in Lanes : lane'[m].pc = "wake" =>
           \/ m = l /\ w /\ lane'[m].task = t
           \/ m # l /\ lane[m].pc = "wake" /\ lane'[m].task = lane[m].task
              /\ lane[m].task # t /\ Waked(lane[m].task) /\ device[lane[m].task] # "wake"
    BY <1>10, <1>14, <2>1 DEF Wakers
  <2>6. ASSUME NEW m \in Lanes, lane'[m].pc = "wake"
        PROVE  (Waked(lane[m].task) /\ device[lane[m].task] # "wake")'
    <3>1. CASE m = l
      BY <1>8, <1>14, <2>3, <2>5, <2>6, <3>1
    <3>2. CASE m # l
      <4>1. PICK u : u = lane[m].task
        OBVIOUS
      <4>2. u \in Tasks \ {t} /\ Waked(u) /\ device[u] # "wake" /\ lane'[m].task = u
        BY <2>5, <2>6, <3>2, <4>1 DEF Waked
      <4>3. Waked(u)' /\ device'[u] # "wake"
        BY <1>8, <2>2, <4>2
      <4> QED BY <4>2, <4>3 DEF Waked
    <3> QED BY <3>1, <3>2
  <2>7. \A i, m \in Lanes :
          /\ lane'[i].pc = "wake" /\ lane'[m].pc = "wake"
          /\ lane'[i].task = lane'[m].task
          => i = m
    BY <2>1, <2>5 DEF Wakers
  <2> QED BY <2>4, <2>6, <2>7 DEF Wakers
<1>23. ASSUME NEW u \in Tasks PROVE pass'[u] = Cardinality(WorkLanes(u))' + Units(u)'
  <2>1. CASE u = t
    BY <1>12, <1>15, <1>18, <2>1 DEF Units
  <2>2. CASE u # t
    BY <1>11, <1>15, <1>18, <2>2 DEF Units, IInv, Computed, Passes
  <2> QED BY <2>1, <2>2
<1>24. Computed'
  BY <1>19, <1>20, <1>21, <1>22, <1>23 DEF Computed, Passes
<1>25. lane[l].pc \notin Own /\ lane'[l].pc \notin Own
  BY <1>1, <1>4, <1>10 DEF Own
<1> QED BY <1>1, <1>9, <1>10, <1>16, <1>17, <1>24, <1>25, WorkerMoves DEF readyVars, rootVars

-----------------------------------------------------------------------------
(* Wakes.                                                                  *)

\* The frame of a lane is as before, or its worker returned from a wake.
FrameRests(m) ==
    \/ /\ lane'[m].pc = lane[m].pc /\ lane'[m].task = lane[m].task
       /\ lane'[m].ticket = lane[m].ticket /\ lane'[m].kind = lane[m].kind
    \/ /\ lane[m].pc = "wake" /\ lane'[m].pc = "idle" /\ lane'[m].task = 0
       /\ lane'[m].ticket = 0 /\ lane'[m].kind = "None"

\* EnqueueExternalWake of task t, seen from the lanes.
Enqueued(t) ==
    /\ wakeTicket' = [wakeTicket EXCEPT ![t] = toIssue]
    /\ toIssue' = toIssue + 1
    /\ \A m \in Lanes :
          /\ FrameRests(m)
          /\ lane'[m].job = lane[m].job /\ lane'[m].jobTicket = lane[m].jobTicket
          /\ lane'[m].done = lane[m].done /\ lane'[m].mail = lane[m].mail
          /\ lane'[m].direct = lane[m].direct /\ lane'[m].work = lane[m].work
          /\ lane'[m].ext = IF m = Home(t) THEN Append(lane[m].ext, t) ELSE lane[m].ext

\* A suspended task gets the next ticket and a place on its home lane.
LEMMA WakeLands ==
    ASSUME IInv, Types', NEW t \in Tasks,
           state[t] = "ExternalBlocked", wakeTicket[t] = 0, at[t] \in {"reset", "complete"},
           Enqueued(t),
           UNCHANGED <<script, state, at, token, ready, joinWaits, next, laneStop,
                       inFlight, slot, reserved, subs, stop, root, collects>>,
           root = "joining" => UNCHANGED io
    PROVE  /\ Queued' /\ Placed' /\ Tickets' /\ Counted' /\ Rooted'
           /\ \A u \in Tasks : Runs(u)' <=> Runs(u)
           /\ ~Runs(t)
<1>1. /\ wakeTicket \in [Tasks -> Nat] /\ toIssue \in Nat /\ toIssue # 0
      /\ wakeTicket'[t] = toIssue
      /\ \A u \in Tasks \ {t} : SameTask(u)
  BY DEF IInv, Types, TaskTypes, LaneTypes, Enqueued, SameTask
<1>2. Home(t) \in Lanes
  BY Sizes
<1>3. \A u \in Tasks : Runs(u)' <=> Runs(u)
  <2>1. \A m \in Lanes : (lane'[m].pc = "run" <=> lane[m].pc = "run")
                      /\ (lane[m].pc = "run" => lane'[m].task = lane[m].task)
    BY DEF Enqueued, FrameRests
  <2> QED BY <2>1, Sizes DEF Runs
<1>4. ~Runs(t)
  <2>1. Framed(Home(t))
    BY <1>2 DEF IInv, Placed, PlacedOn
  <2> QED BY <2>1 DEF Framed, Runs
<1>5. Queued'
  BY DEF IInv, Queued, InState, Once
<1>6. Placed'
  <2> SUFFICES ASSUME NEW m \in Lanes PROVE PlacedOn(m)'
    BY DEF Placed
  <2>1. /\ Shape(m) /\ Listed(m) /\ Framed(m)
        /\ \A u \in Tasks : Home(u) = m => Rests(u)
    BY DEF IInv, Placed, PlacedOn
  <2>2. /\ lane[m].job \in Tasks \cup {0} /\ lane[m].ext \in Seq(Tasks)
        /\ Range(lane[m].ext) \subseteq Tasks /\ Range(lane[m].direct) \subseteq Tasks
    BY LaneFields DEF IInv
  <2>3. /\ FrameRests(m)
        /\ lane'[m].job = lane[m].job /\ lane'[m].jobTicket = lane[m].jobTicket
        /\ lane'[m].mail = lane[m].mail /\ lane'[m].direct = lane[m].direct
        /\ lane'[m].ext = IF m = Home(t) THEN Append(lane[m].ext, t) ELSE lane[m].ext
    BY DEF Enqueued
  <2>4. /\ t \notin Range(lane[m].ext) /\ t \notin Range(lane[m].direct)
        /\ lane[m].job # t /\ (lane[m].mail.st = 1 => lane[m].mail.task # t)
        /\ lane[m].pc \in {"turn", "run"} => lane[m].task # t
    <3>1. t \notin Range(lane[m].ext) /\ t \notin Range(lane[m].direct)
      BY <2>1 DEF Listed, Woken
    <3>2. lane[m].job # t
      BY <2>1, Sizes DEF Listed, Fresh
    <3>3. lane[m].mail.st = 1 => lane[m].mail.task # t
      BY <2>1 DEF Listed, Fresh
    <3>4. lane[m].pc \in {"turn", "run"} => lane[m].task # t
      BY <2>1 DEF Framed, Fresh, Woken
    <3> QED BY <3>1, <3>2, <3>3, <3>4
  <2>5. /\ IsInjective(lane'[m].ext) /\ \A u \in Range(lane'[m].ext) : Home(u) = m
        /\ \A u \in Range(lane'[m].ext) : u \in Range(lane[m].ext) \/ u = t
    <3>1. IsInjective(lane[m].ext) /\ \A u \in Range(lane[m].ext) : Home(u) = m
      BY <2>1 DEF Shape
    <3>2. /\ Range(Append(lane[m].ext, t)) = Range(lane[m].ext) \cup {t}
          /\ IsInjective(Append(lane[m].ext, t))
      BY <2>2, <2>4, <3>1, AppendOnce
    <3> QED BY <2>3, <3>1, <3>2
  <2>6. Shape(m)'
    BY <2>1, <2>3, <2>5 DEF Shape, FrameRests, Own, AtWork
  <2>7. Woken(t)' /\ \A u \in Tasks \ {t} : Woken(u) => Woken(u)'
    BY <1>1 DEF Woken, SameTask
  <2>8. \A u \in Tasks \ {t} : Fresh(u) => Fresh(u)'
    BY <1>1 DEF Fresh, SameTask
  <2>9. Listed(m)'
    <3>1. lane[m].mail.st = 1 => lane[m].mail.task \in Tasks \ {t}
      BY <2>1, <2>4 DEF Shape
    <3>2. \A u \in Range(lane[m].direct) : u \in Tasks \ {t} /\ SameTask(u)
      BY <1>1, <2>2, <2>4
    <3> QED BY <2>1, <2>2, <2>3, <2>4, <2>5, <2>7, <2>8, <3>1, <3>2 DEF Listed, SameTask
  <2>10. Framed(m)'
    <3>1. lane[m].pc \in {"turn", "run"} => /\ lane[m].task \in Tasks \ {t}
                                            /\ SameTask(lane[m].task)
      BY <1>1, <2>1, <2>4 DEF Shape, Own
    <3>2. lane[m].pc \in {"turn", "run"} \/ lane'[m].pc \in {"turn", "run"} =>
             /\ lane'[m].pc = lane[m].pc /\ lane'[m].task = lane[m].task
             /\ lane'[m].kind = lane[m].kind
      BY <2>3 DEF FrameRests
    <3>3. lane'[m].pc = "turn" /\ lane'[m].kind = "External" =>
             (Woken(lane[m].task) /\ lane[m].task \notin Range(lane[m].ext))'
      BY <2>1, <2>5, <2>7, <3>1, <3>2 DEF Framed
    <3>4. lane'[m].pc = "turn" /\ lane'[m].kind # "External" => Fresh(lane[m].task)'
      BY <2>1, <2>8, <3>1, <3>2 DEF Framed
    <3> QED BY <2>1, <2>3, <3>1, <3>2, <3>3, <3>4 DEF Framed, SameTask
  <2>11. \A u \in Tasks : Home(u) = m => Rests(u)'
    BY <1>1, <1>3, <2>1 DEF Rests, SameTask
  <2> QED BY <2>6, <2>9, <2>10, <2>11 DEF PlacedOn
<1>7. Tickets'
  <2>1. \A m \in Lanes, x \in Numbers :
           Holds(m, x)' => Holds(m, x) \/ (m = Home(t) /\ x = toIssue)
    <3> SUFFICES ASSUME NEW m \in Lanes, NEW x \in Numbers, Holds(m, x)'
                 PROVE  Holds(m, x) \/ (m = Home(t) /\ x = toIssue)
      OBVIOUS
    <3>1. (lane'[m].job # 0 /\ lane'[m].jobTicket = x) \/
          (lane'[m].mail.st = 1 /\ lane'[m].mail.ticket = x) \/
          (lane'[m].pc \in InTurn /\ lane'[m].ticket = x) => Holds(m, x)
      BY DEF Holds, Enqueued, FrameRests, InTurn
    <3>2. ASSUME NEW u \in Tasks, Home(u) = m, wakeTicket'[u] = x
          PROVE  Holds(m, x) \/ (m = Home(t) /\ x = toIssue)
      BY <1>1, <3>2 DEF Holds, SameTask
    <3> QED BY <3>1, <3>2 DEF Holds
  <2>2. \A m \in Lanes : lane'[m].pc \in {"run", "finish"} => lane'[m].ticket = next
    BY DEF IInv, Tickets, Enqueued, FrameRests
  <2>3. toIssue' = toIssue + 1
    BY DEF Enqueued
  <2> QED BY <1>2, <2>1, <2>2, <2>3, TicketIssued DEF IInv
<1>8. Counted'
  <2>1. \A m \in Lanes : m \in DirectFrames' <=> m \in DirectFrames
    BY DEF DirectFrames, Enqueued, FrameRests, Own
  <2>2. \A u \in Tasks : Parks(u)' <=> Parks(u)
    BY Sizes DEF Parks, Enqueued, FrameRests
  <2>3. DirectFrames' = DirectFrames /\ ParkedTasks' = ParkedTasks
    BY <2>1, <2>2 DEF DirectFrames, ParkedTasks
  <2> QED BY <2>3, FlightsStay, PoolCountsStay DEF IInv, Counted
<1>9. Rooted'
  <2>1. \A m \in Lanes : SameRegular(m)
    BY DEF SameRegular, RegularFrame, Enqueued, FrameRests, Own
  <2> QED BY <2>1, RootedStays DEF IInv
<1> QED BY <1>3, <1>4, <1>5, <1>6, <1>7, <1>8, <1>9

\* The wake of a coordinator: its waker is gone, the others wake others.
LEMMA CoordinatorWakes ==
    ASSUME IInv, Types', NEW t \in Tasks, Waked(t), Enqueued(t),
           UNCHANGED <<script, state, step, at, token, readyVars, next, laneStop,
                       inFlight, phase, pass, pool, stop, io, rootVars>>,
           \A u \in Tasks : device'[u] = device[u] \/ device'[u] = "idle",
           device'[t] # "wake",
           \A m \in Lanes : lane'[m].pc = "wake" =>
              lane[m].pc = "wake" /\ lane'[m].task = lane[m].task /\ lane[m].task # t
    PROVE  IInv'
<1>1. UNCHANGED <<script, state, step, at, token, ready, joinWaits, next, laneStop,
                  inFlight, phase, pass, slot, free, queue, nextSub, nextExec, subs,
                  reserved, stop, io, root, collects>>
  BY DEF records, readyVars, pool, rootVars
<1>2. /\ Queued' /\ Placed' /\ Tickets' /\ Counted' /\ Rooted'
      /\ \A u \in Tasks : Runs(u)' <=> Runs(u)
  BY <1>1, WakeLands DEF Waked
<1>3. /\ wakeTicket'[t] # 0
      /\ \A u \in Tasks \ {t} : SameTask(u)
  BY <1>1 DEF IInv, Types, TaskTypes, LaneTypes, Enqueued, SameTask
<1>4. Slotted'
  <2>1. token[t] = 0
    BY DEF IInv, Slotted, TokenKept, Waked, Admission
  <2>2. \A u \in Tasks : token[u] # 0 => SameFor(u)
    BY <1>2, <1>3, <2>1 DEF SameFor
  <2>3. \A u \in Tasks : token[u] = 0 => at'[u] \notin {"queue", "complete"}
    BY <1>1 DEF IInv, Slotted, TokenKept
  <2> QED BY <1>1, <2>2, <2>3, SlottedStays DEF IInv
<1>5. Computed'
  <2>1. \A u \in Tasks : PhaseKept(u)
    BY DEF IInv, Computed
  <2>2. \A u \in Tasks \ {t} : PhaseKept(u)'
    BY <1>1, <1>3, <2>1 DEF PhaseKept, Computes, SameTask
  <2>3. PhaseKept(t)'
    BY <1>1, <2>1 DEF PhaseKept, Computes, Waked, Done, Parked
  <2>4. \A m \in Lanes : lane'[m].work = lane[m].work /\ FrameRests(m)
    BY DEF Enqueued
  <2>5. \A m \in Lanes : WorkKept(m)'
    BY <2>4 DEF IInv, Computed, WorkKept, FrameRests, AtWork
  <2>6. \A u \in Tasks, m \in Lanes : OnLane(u, m)' <=> OnLane(u, m)
    BY <2>4 DEF OnLane, FrameRests, AtWork
  <2>7. \A u \in Tasks \ {t} : Waked(u) => Waked(u)'
    BY <1>1, <1>3 DEF Waked, SameTask
  <2>8. Wakers'
    <3>1. Wakers
      BY DEF IInv, Computed
    <3>2. \A u \in Tasks : device'[u] = "wake" => Waked(u)'
      BY <2>7, <3>1 DEF Wakers
    <3>3. ASSUME NEW m \in Lanes, lane'[m].pc = "wake"
          PROVE  (Waked(lane[m].task) /\ device[lane[m].task] # "wake")'
      <4>1. PICK u : u = lane[m].task
        OBVIOUS
      <4>2. u \in Tasks \ {t} /\ Waked(u) /\ device[u] # "wake" /\ lane'[m].task = u
        BY <3>1, <3>3, <4>1 DEF Waked, Wakers
      <4>3. Waked(u)' /\ device'[u] # "wake"
        BY <2>7, <4>2
      <4> QED BY <4>2, <4>3 DEF Waked
    <3>4. \A i, m \in Lanes :
            /\ lane'[i].pc = "wake" /\ lane'[m].pc = "wake"
            /\ lane'[i].task = lane'[m].task
            => i = m
      BY <3>1 DEF Wakers
    <3> QED BY <3>2, <3>3, <3>4 DEF Wakers
  <2>9. \A u \in Tasks : pass'[u] = Cardinality(WorkLanes(u))' + Units(u)'
    <3>1. \A u \in Tasks : WorkLanes(u)' = WorkLanes(u)
      BY <2>6 DEF WorkLanes
    <3> QED BY <1>1, <3>1 DEF Units, IInv, Computed, Passes
  <2> QED BY <2>2, <2>3, <2>5, <2>8, <2>9 DEF Computed, Passes
<1> QED BY <1>2, <1>4, <1>5 DEF IInv

\* A wake of a suspended task is never refused.
LEMMA WakeIsAccepted ==
    ASSUME IInv, NEW t \in Tasks, state[t] = "ExternalBlocked", wakeTicket[t] = 0
    PROVE  WakeAccepted(t)
<1>1. root \notin Over
  BY OverIsQuiet
<1>2. ~laneStop
  BY <1>1 DEF IInv, Rooted, Over
<1> QED BY <1>2 DEF WakeAccepted

\* Lane m, its worker back from a wake if it made one.
Back(m, r) == r = lane[m] \/ (lane[m].pc = "wake" /\ r = Resting(lane[m]))

\* The wake list of the home lane of t, on lanes n whose other lists are
\* those of lane.
LEMMA EnqueueLands ==
    ASSUME IInv, NEW t \in Tasks, NEW n, EnqueueExternalWake(n, t), n \in [Lanes -> LaneRec],
           \A m \in Lanes : Back(m, n[m])
    PROVE  /\ Enqueued(t) /\ lane' \in [Lanes -> LaneRec]
           /\ \A m \in Lanes : lane'[m].pc = n[m].pc /\ lane'[m].task = n[m].task
<1>1. Home(t) \in Lanes
  BY Sizes
<1>2. PICK h \in Lanes : h = Home(t)
  BY <1>1
<1>3. lane' = [n EXCEPT ![h] = [n[h] EXCEPT !.ext = Append(n[h].ext, t)]]
  BY <1>2 DEF EnqueueExternalWake
<1>4. n[h] \in LaneRec
  OBVIOUS
<1>5. n[h].ext \in Seq(Tasks)
  BY <1>4 DEF LaneRec
<1>6. PICK q \in Seq(Tasks) : q = Append(n[h].ext, t)
  <2>1. Append(n[h].ext, t) \in Seq(Tasks)
    BY <1>5, AppendOnce
  <2> QED BY <2>1
<1>7. [n[h] EXCEPT !.ext = q] \in LaneRec
  BY <1>4, <1>6 DEF LaneRec
<1>8. /\ lane' \in [Lanes -> LaneRec] /\ lane'[h] = [n[h] EXCEPT !.ext = q]
      /\ \A m \in Lanes \ {h} : lane'[m] = n[m]
  BY <1>3, <1>6, <1>7
<1>9. \A m \in Lanes :
        /\ lane'[m].pc = n[m].pc /\ lane'[m].task = n[m].task
        /\ lane'[m].ticket = n[m].ticket /\ lane'[m].kind = n[m].kind
        /\ lane'[m].job = n[m].job /\ lane'[m].jobTicket = n[m].jobTicket
        /\ lane'[m].done = n[m].done /\ lane'[m].mail = n[m].mail
        /\ lane'[m].direct = n[m].direct /\ lane'[m].work = n[m].work
        /\ lane'[m].ext = IF m = h THEN q ELSE n[m].ext
  <2>1. /\ lane'[h].pc = n[h].pc /\ lane'[h].task = n[h].task
        /\ lane'[h].ticket = n[h].ticket /\ lane'[h].kind = n[h].kind
        /\ lane'[h].job = n[h].job /\ lane'[h].jobTicket = n[h].jobTicket
        /\ lane'[h].done = n[h].done /\ lane'[h].mail = n[h].mail
        /\ lane'[h].direct = n[h].direct /\ lane'[h].work = n[h].work
        /\ lane'[h].ext = q
    BY <1>4, <1>8 DEF LaneRec
  <2> QED BY <1>8, <2>1
<1>10. ASSUME NEW m \in Lanes
       PROVE  /\ n[m].job = lane[m].job /\ n[m].jobTicket = lane[m].jobTicket
              /\ n[m].done = lane[m].done /\ n[m].mail = lane[m].mail
              /\ n[m].direct = lane[m].direct /\ n[m].work = lane[m].work
              /\ n[m].ext = lane[m].ext
              /\ \/ /\ n[m].pc = lane[m].pc /\ n[m].task = lane[m].task
                    /\ n[m].ticket = lane[m].ticket /\ n[m].kind = lane[m].kind
                 \/ /\ lane[m].pc = "wake" /\ n[m].pc = "idle" /\ n[m].task = 0
                    /\ n[m].ticket = 0 /\ n[m].kind = "None"
  <2>1. PICK r \in LaneRec : r = lane[m]
    BY LaneFields DEF IInv
  <2>2. CASE n[m] = r
    BY <2>1, <2>2
  <2>3. CASE r.pc = "wake" /\ n[m] = [r EXCEPT !.pc = "idle", !.task = 0, !.ticket = 0,
                                              !.kind = "None"]
    BY <2>1, <2>3 DEF LaneRec
  <2> QED BY <2>1, <2>2, <2>3 DEF Back, Resting
<1>11. \A m \in Lanes : FrameRests(m)
  BY ONLY <1>9, <1>10 DEF FrameRests
<1>12. \A m \in Lanes :
          /\ lane'[m].job = lane[m].job /\ lane'[m].jobTicket = lane[m].jobTicket
          /\ lane'[m].done = lane[m].done /\ lane'[m].mail = lane[m].mail
          /\ lane'[m].direct = lane[m].direct /\ lane'[m].work = lane[m].work
          /\ lane'[m].ext = IF m = Home(t) THEN Append(lane[m].ext, t) ELSE lane[m].ext
  BY ONLY <1>2, <1>6, <1>9, <1>10
<1>13. Enqueued(t)
  BY <1>11, <1>12 DEF Enqueued, EnqueueExternalWake
<1> QED BY <1>8, <1>9, <1>13

LEMMA LaneWakesKeeps ==
    ASSUME IInv, NEW l \in Lanes, LaneWakes(l)
    PROVE  IInv'
<1>1. PICK t : t = lane[l].task
  OBVIOUS
<1>2. lane[l].pc = "wake"
  BY DEF LaneWakes
<1>3. /\ t \in Tasks /\ Waked(t) /\ device[t] # "wake"
      /\ \A m \in Lanes : lane[m].pc = "wake" /\ lane[m].task = t => m = l
  BY <1>1, <1>2 DEF IInv, Computed, Wakers, Waked
<1>4. WakeAccepted(t)
  BY <1>3, WakeIsAccepted DEF Waked
<1>5. PICK n : n = [lane EXCEPT ![l] = Resting(lane[l])]
  OBVIOUS
<1>6. EnqueueExternalWake(n, t)
  BY <1>1, <1>4, <1>5 DEF LaneWakes, WakeExternal
<1>7. lane[l] \in LaneRec /\ lane \in [Lanes -> LaneRec]
  BY LaneFields DEF IInv, Types, LaneTypes
<1>8. Resting(lane[l]) \in LaneRec
  BY <1>7, Sizes DEF Resting, LaneRec
<1>9. n \in [Lanes -> LaneRec] /\ n[l] = Resting(lane[l])
      /\ \A m \in Lanes \ {l} : n[m] = lane[m]
  BY <1>5, <1>7, <1>8
<1>10. \A m \in Lanes : Back(m, n[m])
  BY <1>2, <1>9 DEF Back
<1>11. /\ Enqueued(t) /\ lane' \in [Lanes -> LaneRec]
       /\ \A m \in Lanes : lane'[m].pc = n[m].pc /\ lane'[m].task = n[m].task
  BY <1>3, <1>6, <1>9, <1>10, EnqueueLands
<1>12. UNCHANGED <<script, state, step, at, token, readyVars, next, laneStop, inFlight,
                   compute, pool, stop, io, rootVars>>
  BY DEF LaneWakes
<1>13. Types'
  <2>1. toIssue' = toIssue + 1 /\ wakeTicket' \in [Tasks -> Nat]
    BY <1>3, <1>11 DEF Enqueued, IInv, Types, TaskTypes, LaneTypes
  <2> QED BY <1>11, <1>12, <2>1 DEF IInv, Types, TaskTypes, ReadyTypes, LaneTypes,
          ComputeTypes, PoolTypes, RootTypes, readyVars, compute, pool, rootVars
<1>14. \A m \in Lanes : lane'[m].pc = "wake" =>
          lane[m].pc = "wake" /\ lane'[m].task = lane[m].task /\ lane[m].task # t
  <2>1. n[l].pc = "idle"
    BY <1>7, <1>9 DEF Resting, LaneRec
  <2> QED BY <1>3, <1>9, <1>11, <2>1
<1> QED BY <1>3, <1>11, <1>12, <1>13, <1>14, CoordinatorWakes DEF compute

LEMMA DeviceWakesKeeps ==
    ASSUME IInv, NEW t \in Tasks, DeviceWakes(t)
    PROVE  IInv'
<1>1. /\ Waked(t)
      /\ \A m \in Lanes : lane[m].pc = "wake" => lane[m].task # t
  BY DEF DeviceWakes, IInv, Computed, Wakers
<1>2. WakeAccepted(t)
  BY <1>1, WakeIsAccepted DEF Waked
<1>3. EnqueueExternalWake(lane, t) /\ lane \in [Lanes -> LaneRec]
  BY <1>2 DEF DeviceWakes, WakeExternal, IInv, Types, LaneTypes
<1>4. /\ Enqueued(t) /\ lane' \in [Lanes -> LaneRec]
      /\ \A m \in Lanes : lane'[m].pc = lane[m].pc /\ lane'[m].task = lane[m].task
  <2>1. \A m \in Lanes : Back(m, lane[m])
    BY DEF Back
  <2> QED BY <1>3, <2>1, EnqueueLands
<1>5. UNCHANGED <<script, state, step, at, token, readyVars, next, laneStop, inFlight,
                  phase, pass, pool, stop, io, rootVars>>
  BY DEF DeviceWakes
<1>6. /\ device' \in [Tasks -> {"idle", "busy", "wake"}] /\ device'[t] = "idle"
      /\ \A u \in Tasks : device'[u] = device[u] \/ device'[u] = "idle"
  BY DEF DeviceWakes, IInv, Types, ComputeTypes
<1>7. Types'
  <2>1. toIssue' = toIssue + 1 /\ wakeTicket' \in [Tasks -> Nat]
    BY <1>4 DEF Enqueued, IInv, Types, TaskTypes, LaneTypes
  <2> QED BY <1>4, <1>5, <1>6, <2>1 DEF IInv, Types, TaskTypes, ReadyTypes, LaneTypes,
          ComputeTypes, PoolTypes, RootTypes, readyVars, pool, rootVars
<1> QED BY <1>1, <1>4, <1>5, <1>6, <1>7, CoordinatorWakes

LEMMA DeviceCompletesKeeps ==
    ASSUME IInv, NEW t \in Tasks, DeviceCompletes(t)
    PROVE  IInv'
<1>1. device[t] = "busy"
  BY DEF DeviceCompletes
<1>2. UNCHANGED <<records, readyVars, tickets, lane, laneStop, inFlight, pass,
                  pool, stop, io, rootVars>>
  BY DEF DeviceCompletes
<1>3. /\ phase'[t] = Done /\ device'[t] = IF phase[t] = Parked THEN "wake" ELSE "idle"
      /\ phase' \in [Tasks -> 0..3] /\ device' \in [Tasks -> {"idle", "busy", "wake"}]
      /\ \A u \in Tasks \ {t} : phase'[u] = phase[u] /\ device'[u] = device[u]
  BY DEF DeviceCompletes, IInv, Types, ComputeTypes, Done
<1>4. /\ Computes(t) /\ token[t] = 0 /\ PhaseKept(t)
      /\ at[t] \in {"submitted", "park", "count", "commit", "reset"}
      /\ phase[t] # Done
      /\ phase[t] = Parked => at[t] = "reset"
      /\ \A m \in Lanes : lane[m].pc = "wake" => lane[m].task # t
  BY <1>1, Coordinator
<1>5. UNCHANGED <<script, state, wakeTicket, at, token>>
  BY <1>2 DEF records
<1>6. pass[t] = 0 /\ at[t] # "submitted"
  BY <1>1, <1>4 DEF PhaseKept
<1>7. PhaseKept(t)'
  BY <1>2, <1>3, <1>4, <1>5, <1>6 DEF PhaseKept, Computes, Done, Parked
<1>8. \A u \in Tasks \ {t} : PhaseKept(u)'
  BY <1>2, <1>3, <1>5 DEF IInv, Computed, PhaseKept, Computes
<1>9. Wakers'
  <2>1. Wakers
    BY DEF IInv, Computed
  <2>2. \A u \in Tasks \ {t} : Waked(u) => Waked(u)'
    BY <1>3, <1>5 DEF Waked
  <2>3. phase[t] = Parked => Waked(t)'
    BY <1>3, <1>4, <1>5 DEF Waked, PhaseKept
  <2>4. \A u \in Tasks : device'[u] = "wake" => Waked(u)'
    BY <1>3, <2>1, <2>2, <2>3 DEF Wakers
  <2>5. ASSUME NEW m \in Lanes, lane[m].pc = "wake"
        PROVE  Waked(lane[m].task)' /\ device'[lane[m].task] # "wake"
    BY <1>2, <1>3, <1>4, <2>1, <2>2, <2>5 DEF Wakers, Waked
  <2> QED BY <1>2, <2>1, <2>4, <2>5 DEF Wakers
<1>10. Computed'
  <2>1. \A u \in Tasks : WorkLanes(u)' = WorkLanes(u) /\ Units(u)' = Units(u)
    BY <1>2, <1>5 DEF WorkLanes, OnLane, Units
  <2>2. Passes'
    BY <1>2, <2>1 DEF IInv, Computed, Passes
  <2>3. \A m \in Lanes : WorkKept(m)'
    BY <1>2 DEF IInv, Computed, WorkKept
  <2> QED BY <1>7, <1>8, <1>9, <2>2, <2>3 DEF Computed
<1>11. Types'
  <2>1. ComputeTypes' /\ LaneTypes'
    BY <1>2, <1>3 DEF IInv, Types, ComputeTypes, LaneTypes, tickets
  <2> QED BY <1>2, <2>1, LaneStepTypes DEF IInv
<1>12. \A m \in Lanes : SameJobs(m) /\ SameRegular(m)
  BY <1>2 DEF SameJobs, SameRegular, RegularFrame
<1>13. \A u \in Tasks : SameTask(u) /\ SameFor(u)
  BY <1>2, <1>5 DEF SameTask, SameFor, Runs
<1>14. Queued'
  BY <1>2, <1>5 DEF IInv, Queued, InState, Once, readyVars
<1>15. Placed' /\ Tickets'
  BY <1>2, <1>5, <1>11, <1>12, <1>13, PlacedStays, TicketsStay DEF IInv, tickets
<1>16. Slotted'
  <2>1. \A u \in Tasks : token[u] = 0 => at'[u] \notin {"queue", "complete"}
    BY <1>5 DEF IInv, Slotted, TokenKept
  <2> QED BY <1>2, <1>5, <1>13, <2>1, SlottedStays DEF IInv, pool
<1>17. Counted'
  BY <1>2, <1>5, <1>12, <1>13, CountedStays DEF IInv, pool
<1>18. Rooted'
  BY <1>2, <1>12, RootedStays DEF IInv, rootVars
<1> QED BY <1>10, <1>11, <1>14, <1>15, <1>16, <1>17, <1>18 DEF IInv

-----------------------------------------------------------------------------
(* A lane takes a job.                                                     *)

\* Job j is pending on the lane record n: where it comes from.
LEMMA JobSources ==
    ASSUME NEW n, NEW j \in PendingJobs(n)
    PROVE  /\ j.task # 0
           /\ \/ j.kind = "Regular" /\ j.task = n.job /\ j.ticket = n.jobTicket
              \/ /\ j.kind = "External" /\ n.ext # <<>> /\ j.task = Head(n.ext)
                 /\ j.ticket = wakeTicket[j.task]
              \/ /\ j.kind = "Direct" /\ n.direct # <<>> /\ j.task = Head(n.direct)
                 /\ j.ticket = wakeTicket[j.task]
              \/ /\ j.kind = "Mailbox" /\ n.mail.st = 1 /\ j.task = n.mail.task
                 /\ j.ticket = n.mail.ticket
BY DEF PendingJobs, JobOf, First

\* What the worker leaves of lane record n when it takes j.
LEMMA LoadedFields ==
    ASSUME NEW n \in LaneRec, NEW j, j.task \in Tasks, j.ticket \in Nat,
           j.kind \in JobKinds,
           j.kind = "External" => n.ext # <<>>, j.kind = "Direct" => n.direct # <<>>
    PROVE  LET k == Loaded(n, j) IN
           /\ k \in LaneRec /\ k.pc = "turn" /\ k.task = j.task
           /\ k.ticket = j.ticket /\ k.kind = j.kind
           /\ k.job = (IF j.kind = "Regular" THEN 0 ELSE n.job)
           /\ k.jobTicket = (IF j.kind = "Regular" THEN 0 ELSE n.jobTicket)
           /\ k.ext = (IF j.kind = "External" THEN Tail(n.ext) ELSE n.ext)
           /\ k.direct = (IF j.kind = "Direct" THEN Tail(n.direct) ELSE n.direct)
           /\ k.mail.st = (IF j.kind = "Mailbox" THEN 2 ELSE n.mail.st)
           /\ k.mail.task = n.mail.task /\ k.mail.ticket = n.mail.ticket
           /\ j.kind # "Mailbox" => k.mail = n.mail
           /\ k.work = n.work /\ k.done = n.done
<1>1. PICK e, d : /\ e = (IF j.kind = "External" THEN Tail(n.ext) ELSE n.ext)
                  /\ d = (IF j.kind = "Direct" THEN Tail(n.direct) ELSE n.direct)
  OBVIOUS
<1>2. n.ext \in Seq(Tasks) /\ n.direct \in Seq(Tasks) /\ n.mail \in MailRec
  BY DEF LaneRec
<1>3. e \in Seq(Tasks) /\ d \in Seq(Tasks)
  BY <1>1, <1>2, TailOnce
<1>4. PICK c : c = [n.mail EXCEPT !.st = IF j.kind = "Mailbox" THEN 2 ELSE n.mail.st]
  OBVIOUS
<1>5. /\ c \in MailRec /\ c.st = (IF j.kind = "Mailbox" THEN 2 ELSE n.mail.st)
      /\ c.task = n.mail.task /\ c.ticket = n.mail.ticket
      /\ j.kind # "Mailbox" => c = n.mail
  BY <1>2, <1>4 DEF MailRec
<1>6. PICK b, v : /\ b = (IF j.kind = "Regular" THEN 0 ELSE n.job)
                  /\ v = (IF j.kind = "Regular" THEN 0 ELSE n.jobTicket)
  OBVIOUS
<1>7. b \in 0..TaskCount /\ v \in Nat /\ j.task \in 0..TaskCount
  BY <1>6, Sizes DEF LaneRec
<1>8. Loaded(n, j) =
         [n EXCEPT !.pc = "turn", !.task = j.task, !.ticket = j.ticket, !.kind = j.kind,
                   !.job = b, !.jobTicket = v, !.ext = e, !.direct = d, !.mail = c]
  BY <1>1, <1>4, <1>6 DEF Loaded, LaneRec
<1>9. Loaded(n, j) \in LaneRec
  BY ONLY <1>3, <1>5, <1>7, <1>8, n \in LaneRec, j.ticket \in Nat, j.kind \in JobKinds
  DEF LaneRec, Own
<1> QED BY <1>1, <1>5, <1>6, <1>8, <1>9 DEF LaneRec

\* The job a lane takes: its task is at home and has the state of its source.
LEMMA JobIsPlaced ==
    ASSUME IInv, NEW l \in Lanes, lane[l].pc = "idle", NEW j \in PendingJobs(lane[l])
    PROVE  LET t == j.task IN
           /\ t \in Tasks /\ Home(t) = l /\ j.ticket \in Nat /\ j.kind \in JobKinds
           /\ j.ticket # 0 => Holds(l, j.ticket)
           /\ ~Runs(t) /\ ~Waked(t)
           /\ j.kind = "External" => Woken(t)
           /\ j.kind = "Direct" => state[t] = "Running" /\ wakeTicket[t] # 0 /\ at[t] = "next"
           /\ j.kind \in {"Regular", "Mailbox"} => Fresh(t)
           /\ (j.kind = "External") <=> (t \in Range(lane[l].ext))
           /\ (j.kind = "Direct") <=> (t \in Range(lane[l].direct))
           /\ (j.kind = "Regular") <=> (t = lane[l].job)
           /\ (j.kind = "Mailbox") <=> (lane[l].mail.st = 1 /\ t = lane[l].mail.task)
<1>1. PICK n \in LaneRec : n = lane[l]
  BY LaneFields DEF IInv
<1>2. PICK t : t = j.task
  OBVIOUS
<1>3. /\ t # 0
      /\ \/ j.kind = "Regular" /\ t = n.job /\ j.ticket = n.jobTicket
         \/ j.kind = "External" /\ n.ext # <<>> /\ t = Head(n.ext) /\ j.ticket = wakeTicket[t]
         \/ j.kind = "Direct" /\ n.direct # <<>> /\ t = Head(n.direct) /\ j.ticket = wakeTicket[t]
         \/ j.kind = "Mailbox" /\ n.mail.st = 1 /\ t = n.mail.task /\ j.ticket = n.mail.ticket
  BY <1>1, <1>2, JobSources
<1>4. Shape(l) /\ Listed(l) /\ n.pc = "idle"
  BY <1>1 DEF IInv, Placed, PlacedOn
<1>5. /\ n.job \in Tasks \cup {0} /\ n.jobTicket \in Nat /\ n.mail.ticket \in Nat
      /\ n.ext \in Seq(Tasks) /\ n.direct \in Seq(Tasks)
      /\ wakeTicket \in [Tasks -> Nat]
  BY Sizes DEF LaneRec, MailRec, IInv, Types, TaskTypes
<1>6. /\ n.ext # <<>> => Head(n.ext) \in Tasks /\ Head(n.ext) \in Range(n.ext)
      /\ n.direct # <<>> => Head(n.direct) \in Tasks /\ Head(n.direct) \in Range(n.direct)
  BY <1>5, TailOnce
<1>7. t \in Tasks /\ Home(t) = l /\ j.ticket \in Nat /\ j.kind \in JobKinds
  BY <1>1, <1>3, <1>4, <1>5, <1>6 DEF Shape, JobKinds
<1>8. j.ticket # 0 => Holds(l, j.ticket)
  BY <1>1, <1>3, <1>7 DEF Holds
<1>9. /\ t \in Range(n.ext) => Woken(t)
      /\ t \in Range(n.direct) => state[t] = "Running" /\ wakeTicket[t] # 0 /\ at[t] = "next"
      /\ t = n.job => Fresh(t)
      /\ n.mail.st = 1 /\ t = n.mail.task => Fresh(t)
      /\ t = n.job => ~(n.mail.st = 1 /\ t = n.mail.task)
  BY <1>1, <1>3, <1>4 DEF Listed
<1>10. /\ j.kind = "External" => t \in Range(n.ext)
       /\ j.kind = "Direct" => t \in Range(n.direct)
       /\ j.kind = "Regular" => t = n.job
       /\ j.kind = "Mailbox" => n.mail.st = 1 /\ t = n.mail.task
  BY <1>3, <1>6
<1>11. ~Runs(t)
  BY <1>1, <1>4, <1>7 DEF Runs
<1>12. ~Waked(t)
  BY <1>3, <1>9, <1>10 DEF Waked, Woken, Fresh
<1>13. /\ t \in Range(n.ext) => ~(t \in Range(n.direct)) /\ t # n.job
                                /\ ~(n.mail.st = 1 /\ t = n.mail.task)
       /\ t \in Range(n.direct) => t # n.job /\ ~(n.mail.st = 1 /\ t = n.mail.task)
  BY <1>9 DEF Fresh, Woken
<1> QED BY <1>1, <1>2, <1>3, <1>7, <1>8, <1>9, <1>10, <1>11, <1>12, <1>13 DEF JobKinds

LEMMA ClaimJobKeeps ==
    ASSUME IInv, NEW l \in Lanes, ClaimJob(l)
    PROVE  IInv'
<1>1. PICK n \in LaneRec : n = lane[l]
  BY LaneFields DEF IInv
<1>2. PICK j \in PendingJobs(lane[l]) :
         /\ lane' = [lane EXCEPT ![l] = Loaded(lane[l], j)]
         /\ wakeTicket' = IF j.kind = "Direct" THEN [wakeTicket EXCEPT ![j.task] = 0]
                          ELSE wakeTicket
  BY DEF ClaimJob
<1>3. PICK t, x : t = j.task /\ x = j.ticket
  OBVIOUS
<1>4. n.pc = "idle" /\ Shape(l) /\ Listed(l) /\ \A u \in Tasks : Home(u) = l => Rests(u)
  BY <1>1 DEF ClaimJob, IInv, Placed, PlacedOn
<1>5. /\ t \in Tasks /\ Home(t) = l /\ x \in Nat /\ j.kind \in JobKinds
      /\ x # 0 => Holds(l, x)
      /\ ~Runs(t) /\ ~Waked(t)
      /\ j.kind = "External" => Woken(t)
      /\ j.kind = "Direct" => state[t] = "Running" /\ wakeTicket[t] # 0 /\ at[t] = "next"
      /\ j.kind \in {"Regular", "Mailbox"} => Fresh(t)
      /\ (j.kind = "External") <=> (t \in Range(n.ext))
      /\ (j.kind = "Direct") <=> (t \in Range(n.direct))
      /\ (j.kind = "Regular") <=> (t = n.job)
      /\ (j.kind = "Mailbox") <=> (n.mail.st = 1 /\ t = n.mail.task)
  BY <1>1, <1>3, <1>4, JobIsPlaced
<1>6. PICK k : k = Loaded(n, j)
  OBVIOUS
<1>7. /\ j.kind = "External" => n.ext # <<>> /\ t = Head(n.ext)
      /\ j.kind = "Direct" => n.direct # <<>> /\ t = Head(n.direct)
  BY <1>1, <1>3, JobSources
<1>8. /\ k \in LaneRec /\ k.pc = "turn" /\ k.task = t /\ k.ticket = x /\ k.kind = j.kind
      /\ k.job = (IF j.kind = "Regular" THEN 0 ELSE n.job)
      /\ k.jobTicket = (IF j.kind = "Regular" THEN 0 ELSE n.jobTicket)
      /\ k.ext = (IF j.kind = "External" THEN Tail(n.ext) ELSE n.ext)
      /\ k.direct = (IF j.kind = "Direct" THEN Tail(n.direct) ELSE n.direct)
      /\ k.mail.st = (IF j.kind = "Mailbox" THEN 2 ELSE n.mail.st)
      /\ k.mail.task = n.mail.task /\ k.mail.ticket = n.mail.ticket
      /\ j.kind # "Mailbox" => k.mail = n.mail
      /\ k.work = n.work /\ k.done = n.done
  BY <1>3, <1>5, <1>6, <1>7, LoadedFields
<1>9. lane \in [Lanes -> LaneRec] /\ wakeTicket \in [Tasks -> Nat]
  BY DEF IInv, Types, LaneTypes, TaskTypes
<1>10. /\ lane'[l] = k /\ \A m \in Lanes \ {l} : lane'[m] = lane[m]
       /\ lane' \in [Lanes -> LaneRec]
  BY <1>1, <1>2, <1>6, <1>8, <1>9
<1>11. UNCHANGED <<script, state, step, at, token, readyVars, tickets, laneStop, inFlight,
                   compute, pool, stop, io, rootVars>>
  BY DEF ClaimJob
<1>12. /\ wakeTicket' \in [Tasks -> Nat]
       /\ wakeTicket'[t] = (IF j.kind = "Direct" THEN 0 ELSE wakeTicket[t])
       /\ \A u \in Tasks \ {t} : SameTask(u)
  BY <1>2, <1>3, <1>5, <1>9, <1>11 DEF SameTask
<1>13. Types'
  BY <1>10, <1>11, <1>12 DEF IInv, Types, TaskTypes, ReadyTypes, LaneTypes,
     ComputeTypes, PoolTypes, RootTypes, readyVars, tickets, compute, pool, rootVars
<1>14. Queued'
  BY <1>11 DEF IInv, Queued, InState, Once, readyVars
\* The lists after the claim: t is on none of them.
<1>15. /\ IsInjective(n.ext) /\ IsInjective(n.direct)
       /\ n.ext \in Seq(Tasks) /\ n.direct \in Seq(Tasks)
  BY <1>1, <1>4 DEF Shape, LaneRec
<1>16. /\ IsInjective(k.ext) /\ Range(k.ext) = Range(n.ext) \ {t}
       /\ IsInjective(k.direct) /\ Range(k.direct) = Range(n.direct) \ {t}
  <2>1. n.ext # <<>> => /\ Range(n.ext) = Range(Tail(n.ext)) \cup {Head(n.ext)}
                        /\ IsInjective(Tail(n.ext)) /\ Head(n.ext) \notin Range(Tail(n.ext))
    BY <1>15, TailOnce
  <2>2. n.direct # <<>> =>
           /\ Range(n.direct) = Range(Tail(n.direct)) \cup {Head(n.direct)}
           /\ IsInjective(Tail(n.direct)) /\ Head(n.direct) \notin Range(Tail(n.direct))
    BY <1>15, TailOnce
  <2> QED BY <1>5, <1>7, <1>8, <1>15, <2>1, <2>2
<1>17. Range(n.ext) \subseteq Tasks /\ Range(n.direct) \subseteq Tasks
  BY <1>15 DEF Range
<1>18. PlacedOn(l)'
  <2>1. Shape(l)'
    <3>1. n.mail.st # 2 /\ n.kind = "None"
      BY <1>1, <1>4 DEF Shape
    <3>2. (k.mail.st = 2) <=> (k.kind = "Mailbox")
      BY <1>8, <3>1
    <3>3. /\ k.mail.st = 0 => k.mail = NoMail
          /\ k.mail.st # 0 => k.mail.task \in Tasks /\ Home(k.mail.task) = l
      BY <1>1, <1>4, <1>5, <1>8 DEF Shape
    <3>4. (k.job # 0 => Home(k.job) = l) /\ (k.job = 0 => k.jobTicket = 0)
      BY <1>1, <1>4, <1>8 DEF Shape
    <3>5. /\ \A u \in Range(k.ext) : Home(u) = l
          /\ \A u \in Range(k.direct) : Home(u) = l
      BY <1>1, <1>4, <1>16 DEF Shape
    <3> QED BY <1>5, <1>8, <1>10, <1>16, <3>2, <3>3, <3>4, <3>5 DEF Shape, Own, AtWork
  <2>2. \A u \in Tasks \ {t} : (Fresh(u) => Fresh(u)') /\ (Woken(u) => Woken(u)')
    BY <1>12 DEF Fresh, Woken, SameTask
  <2>3. /\ k.job # 0 => k.job = n.job /\ k.job # t /\ k.job \in Tasks
        /\ k.mail.st = 1 => n.mail.st = 1 /\ k.mail.task # t /\ k.mail.task \in Tasks
    BY <1>1, <1>4, <1>5, <1>8, Sizes DEF Shape, LaneRec
  <2>4. Listed(l)'
    <3>1. /\ n.job # 0 => Fresh(n.job)
          /\ n.mail.st = 1 => Fresh(n.mail.task)
          /\ \A u \in Range(n.ext) : Woken(u)
          /\ \A u \in Range(n.direct) :
                state[u] = "Running" /\ wakeTicket[u] # 0 /\ at[u] = "next"
          /\ n.job # 0 /\ n.mail.st = 1 => n.job # n.mail.task
      BY <1>1, <1>4 DEF Listed
    <3>2. /\ k.job # 0 => Fresh(k.job)'
          /\ k.mail.st = 1 => Fresh(k.mail.task)'
          /\ k.job # 0 /\ k.mail.st = 1 => k.job # k.mail.task
      BY <1>8, <2>2, <2>3, <3>1
    <3>3. \A u \in Range(k.ext) : Woken(u)'
      BY <1>16, <1>17, <2>2, <3>1
    <3>4. \A u \in Range(k.direct) :
             state'[u] = "Running" /\ wakeTicket'[u] # 0 /\ at'[u] = "next"
      BY <1>12, <1>16, <1>17, <3>1 DEF SameTask
    <3> QED BY <1>10, <3>2, <3>3, <3>4 DEF Listed, Fresh
  <2>5. Framed(l)'
    <3>1. j.kind = "External" => Woken(t)' /\ t \notin Range(k.ext)
      BY <1>5, <1>11, <1>12, <1>16 DEF Woken
    <3>2. j.kind # "External" => Fresh(t)'
      BY <1>5, <1>11, <1>12 DEF Fresh, JobKinds
    <3>3. k.job # t /\ (k.mail.st = 1 => k.mail.task # t)
      BY <1>5, <2>3, Sizes
    <3> QED BY <1>8, <1>10, <3>1, <3>2, <3>3 DEF Framed
  <2>6. \A u \in Tasks : Home(u) = l => Rests(u)'
    <3>1. \A u \in Tasks : Home(u) = l => ~Runs(u) /\ ~Runs(u)'
      BY <1>1, <1>4, <1>8, <1>10 DEF Runs
    <3> QED BY <1>4, <1>5, <1>11, <1>12, <3>1 DEF Rests, SameTask
  <2> QED BY <2>1, <2>4, <2>5, <2>6 DEF PlacedOn
<1>19. \A u \in Tasks : Home(u) # l => SameTask(u)
  BY <1>5, <1>12
<1>20. /\ \A m \in Lanes \ {l} : SameJobs(m) /\ SameWork(m) /\ SameRegular(m)
       /\ \A m \in Lanes \ {l}, y \in Numbers : Holds(m, y)' => Holds(m, y)
       /\ \A m \in Lanes \ {l} : m \in DirectFrames' <=> m \in DirectFrames
       /\ \A u \in Tasks : Home(u) # l => (Runs(u)' <=> Runs(u)) /\ (Parks(u)' <=> Parks(u))
  BY <1>10, <1>19, Elsewhere
<1>21. Placed'
  BY <1>18, <1>19, <1>20, PlacedThere DEF IInv
<1>22. Tickets'
  <2>1. \A y \in Numbers : Holds(l, y)' => Holds(l, y)
    <3> SUFFICES ASSUME NEW y \in Numbers, Holds(l, y)' PROVE Holds(l, y)
      OBVIOUS
    <3>1. \/ k.job # 0 /\ k.jobTicket = y
          \/ k.mail.st = 1 /\ k.mail.ticket = y
          \/ k.ticket = y
          \/ \E u \in Tasks : Home(u) = l /\ wakeTicket'[u] = y
      BY <1>10 DEF Holds
    <3>2. CASE k.job # 0 /\ k.jobTicket = y
      BY <1>1, <1>8, <3>2 DEF Holds
    <3>3. CASE k.mail.st = 1 /\ k.mail.ticket = y
      BY <1>1, <1>8, <3>3 DEF Holds
    <3>4. CASE k.ticket = y
      BY <1>5, <1>8, <3>4 DEF Numbers
    <3>5. ASSUME NEW u \in Tasks, Home(u) = l, wakeTicket'[u] = y PROVE Holds(l, y)
      <4>1. wakeTicket[u] = y
        BY <1>12, <3>5 DEF SameTask, Numbers
      <4> QED BY <3>5, <4>1 DEF Holds
    <3> QED BY <3>1, <3>2, <3>3, <3>4, <3>5
  <2>2. \A m \in Lanes : lane'[m].pc \in {"run", "finish"} => lane'[m].ticket = next
    BY <1>8, <1>10 DEF IInv, Tickets
  <2> QED BY <1>11, <1>13, <1>20, <2>1, <2>2, TicketsMove DEF IInv, tickets
<1>23. \A u \in Tasks : Runs(u)' <=> Runs(u)
  <2>1. ~Runs(t)'
    BY <1>8, <1>10, <1>5 DEF Runs
  <2>2. \A u \in Tasks : Home(u) = l => ~Runs(u) /\ ~Runs(u)'
    BY <1>1, <1>4, <1>8, <1>10 DEF Runs
  <2> QED BY <1>20, <2>2
<1>24. Slotted'
  <2>1. \A u \in Tasks : token[u] = 0 => at'[u] \notin {"queue", "complete"}
    BY <1>11 DEF IInv, Slotted, TokenKept
  <2>2. j.kind = "Direct" => token[t] = 0
    BY <1>5 DEF IInv, Slotted, TokenKept, Admission
  <2>3. \A u \in Tasks : token[u] # 0 => SameFor(u)
    BY <1>11, <1>12, <1>23, <2>2 DEF SameFor, SameTask
  <2> QED BY <1>11, <2>1, <2>3, SlottedStays DEF IInv, pool
<1>25. Computed'
  <2>1. SameWork(l)
    BY <1>1, <1>4, <1>8, <1>10 DEF SameWork, AtWork
  <2>2. \A m \in Lanes : SameWork(m)
    BY <1>20, <2>1
  <2>3. PhaseKept(t) /\ device[t] # "wake"
    BY <1>5 DEF IInv, Computed, Wakers
  <2>4. PhaseKept(t)'
    BY <1>5, <1>11, <1>12, <2>3 DEF PhaseKept, Computes, compute
  <2>5. Units(t)' = Units(t) /\ pass'[t] = pass[t] /\ pass'[t] \in Int
    BY <1>5, <1>11, <1>13 DEF Units, compute, Types, ComputeTypes
  <2>6. \A u \in Tasks \ {t} :
              /\ SameTask(u) /\ token'[u] = token[u] /\ phase'[u] = phase[u]
              /\ pass'[u] = pass[u] /\ device'[u] = device[u]
    BY <1>11, <1>12 DEF compute
  <2>7. UNCHANGED script /\ device'[t] # "wake"
    BY <1>11, <2>3 DEF compute
  <2> QED BY <1>5, <2>2, <2>4, <2>5, <2>6, <2>7, ComputedOf DEF IInv
<1>26. Counted'
  <2>1. l \notin DirectFrames /\ (l \in DirectFrames' <=> j.kind # "Regular")
    BY <1>1, <1>4, <1>8, <1>10 DEF DirectFrames, Own
  <2>2. Parks(t) <=> j.kind # "Regular"
    BY <1>1, <1>4, <1>5 DEF Parks, JobKinds, Fresh, Woken
  <2>3. ~Parks(t)'
    BY <1>5, <1>8, <1>10, <1>11, <1>16 DEF Parks
  <2>4. \A u \in Tasks \ {t} : Parks(u)' <=> Parks(u)
    <3>1. \A u \in Tasks \ {t} : Home(u) = l => (Parks(u)' <=> Parks(u))
      BY <1>1, <1>4, <1>5, <1>8, <1>10, <1>11, <1>16 DEF Parks
    <3> QED BY <1>20, <3>1
  <2>5. /\ (l \in DirectFrames' <=> l \in DirectFrames) => DirectFrames' = DirectFrames
        /\ l \in DirectFrames' => DirectFrames' = DirectFrames \cup {l}
        /\ (Parks(t)' <=> Parks(t)) => ParkedTasks' = ParkedTasks
        /\ ~Parks(t)' => ParkedTasks' = ParkedTasks \ {t}
    BY <1>5, <1>20, <2>4, SetsElsewhere
  <2>6. FlightsCounted /\ inFlight' = inFlight
    BY <1>11 DEF IInv, Counted
  <2>7. CASE j.kind = "Regular"
    BY <2>1, <2>2, <2>3, <2>5, <2>6, <2>7, FlightsStay, PoolCountsStay, <1>11
    DEF IInv, Counted, pool
  <2>8. CASE j.kind # "Regular"
    <3>1. t \in ParkedTasks
      BY <1>5, <2>2, <2>8 DEF ParkedTasks
    <3>2. FlightsCounted'
      BY <2>1, <2>3, <2>5, <2>6, <2>8, <3>1, FlightTaken
    <3> QED BY <1>11, <3>2, PoolCountsStay DEF IInv, Counted, pool
  <2> QED BY <2>7, <2>8
<1>27. Rooted'
  <2>1. Regular(l) /\ ~RegularFrame(l)
    BY <1>1, <1>4 DEF IInv, Rooted, RegularFrame, Own
  <2>2. Regular(l)'
    BY <1>1, <1>5, <1>8, <1>10, <1>11, <2>1, Sizes DEF Regular, RegularFrame, rootVars
  <2>3. \A m \in Lanes \ {l} : Regular(m)'
    BY <1>11, <1>20 DEF IInv, Rooted, Regular, SameRegular, rootVars
  <2> QED BY <1>11, <2>2, <2>3 DEF IInv, Rooted, rootVars
<1> QED BY <1>13, <1>14, <1>21, <1>22, <1>24, <1>25, <1>26, <1>27 DEF IInv

-----------------------------------------------------------------------------
(* A quantum begins and ends.                                              *)

\* The task of a complete slot goes on.
LEMMA SlottedResumes ==
    ASSUME Types, Slotted, UNCHANGED <<slot, free, queue, nextSub, io, token, script, at>>,
           NEW t \in Tasks, \A u \in Tasks \ {t} : SameFor(u),
           Woken(t)
    PROVE  Slotted'
<1>1. token[t] # 0 => slot[token[t]].st = "Complete"
  <2> SUFFICES ASSUME token[t] # 0 PROVE slot[token[t]].st = "Complete"
    OBVIOUS
  <2>1. TokenKept(t) /\ token[t] \in Slots
    BY Sizes DEF Slotted, Types, TaskTypes
  <2>2. slot[token[t]].task = t /\ slot[token[t]].st \notin {"Free", "Admitting"}
    BY <2>1 DEF TokenKept, Woken, Admission
  <2>3. SlotKept(token[t]) /\ slot[token[t]] \in SlotRec
    BY <2>1 DEF Slotted, Types, PoolTypes
  <2>4. slot[token[t]].st \notin {"Queued", "Running"}
    BY <2>2, <2>3 DEF SlotKept, Asleep, Woken
  <2> QED BY <2>2, <2>3, <2>4 DEF SlotRec
<1>2. Lists'
  BY DEF Slotted, Lists, Once, Ascends, Distinct
<1>3. ASSUME NEW s \in Slots PROVE SlotKept(s)'
  <2>1. SlotKept(s)
    BY DEF Slotted
  <2>2. slot[s].st # "Free" => slot[s].task \in Tasks /\ token[slot[s].task] = s
    BY <2>1 DEF SlotKept, Held
  <2>3. CASE slot[s].st # "Free" /\ slot[s].task = t
    <3>1. slot[s].st = "Complete"
      BY <1>1, <2>2, <2>3, Sizes
    <3> QED BY <2>1, <2>2, <3>1 DEF SlotKept, Held
  <2>4. CASE slot[s].st # "Free" /\ slot[s].task # t
    <3>1. SameFor(slot[s].task)
      BY <2>2, <2>4
    <3> QED BY <2>1, <2>2, <3>1 DEF SlotKept, Held, Asleep, SameFor, SameTask
  <2>5. CASE slot[s].st = "Free"
    BY <2>1, <2>5 DEF SlotKept
  <2> QED BY <2>3, <2>4, <2>5
<1>4. WorkerKept'
  <2>1. WorkerKept
    BY DEF Slotted
  <2>2. io.pc = "wake" => slot[io.slot].task \in Tasks \ {t} /\ SameFor(slot[io.slot].task)
    BY <2>1 DEF WorkerKept, Asleep, Held, Woken
  <2> QED BY <2>1, <2>2 DEF WorkerKept, Asleep, Held, SameFor, SameTask
<1>5. ASSUME NEW u \in Tasks PROVE TokenKept(u)'
  BY DEF Slotted, TokenKept, Computes
<1> QED BY <1>2, <1>3, <1>4, <1>5 DEF Slotted

LEMMA BeginQuantumKeeps ==
    ASSUME IInv, NEW l \in Lanes, BeginQuantum(l)
    PROVE  IInv'
<1>1. PICK n \in LaneRec : n = lane[l]
  BY LaneFields DEF IInv
<1>2. PICK t : t = n.task
  OBVIOUS
<1>3. n.pc = "turn" /\ n.ticket = next /\ Shape(l) /\ Listed(l) /\ Framed(l)
      /\ \A u \in Tasks : Home(u) = l => Rests(u)
  BY <1>1 DEF BeginQuantum, IInv, Placed, PlacedOn
<1>4. t \in Tasks /\ Home(t) = l /\ n.kind \in JobKinds
  BY <1>1, <1>2, <1>3 DEF Shape, Own
<1>5. /\ n.kind = "External" => Woken(t) /\ t \notin Range(n.ext)
      /\ n.kind # "External" => Fresh(t)
      /\ n.job # t /\ (n.mail.st = 1 => n.mail.task # t)
  BY <1>1, <1>2, <1>3 DEF Framed
<1>6. lane \in [Lanes -> LaneRec] /\ wakeTicket \in [Tasks -> Nat]
      /\ state \in [Tasks -> {"Ready", "Running", "JoinBlocked",
                              "ExternalBlocked"} \cup Terminal]
  BY DEF IInv, Types, LaneTypes, TaskTypes
<1>7. PICK k : k = [n EXCEPT !.pc = "run"]
  OBVIOUS
<1>8. /\ k \in LaneRec /\ k.pc = "run" /\ k.task = t /\ k.ticket = n.ticket
      /\ k.kind = n.kind /\ k.job = n.job /\ k.jobTicket = n.jobTicket
      /\ k.ext = n.ext /\ k.direct = n.direct /\ k.mail = n.mail
      /\ k.work = n.work /\ k.done = n.done
  BY <1>2, <1>7 DEF LaneRec, Own
<1>9. /\ lane'[l] = k /\ \A m \in Lanes \ {l} : lane'[m] = lane[m]
      /\ lane' \in [Lanes -> LaneRec]
  BY <1>1, <1>6, <1>7, <1>8 DEF BeginQuantum
<1>10. UNCHANGED <<script, step, at, token, readyVars, tickets, laneStop, inFlight,
                   compute, pool, stop, io, rootVars>>
  BY DEF BeginQuantum
<1>11. /\ state'[t] = "Running" /\ wakeTicket'[t] = 0
       /\ \A u \in Tasks \ {t} : SameTask(u)
       /\ wakeTicket' \in [Tasks -> Nat]
       /\ state' \in [Tasks -> {"Ready", "Running", "JoinBlocked",
                                "ExternalBlocked"} \cup Terminal]
       /\ (n.kind # "External" => state' = state /\ wakeTicket' = wakeTicket)
  <2>1. CASE n.kind = "External"
    <3>1. /\ state' = [state EXCEPT ![t] = "Running"]
          /\ wakeTicket' = [wakeTicket EXCEPT ![t] = 0]
      BY <1>1, <1>2, <1>5, <2>1 DEF BeginQuantum, Woken
    <3> QED BY <1>4, <1>6, <1>10, <2>1, <3>1 DEF SameTask
  <2>2. CASE n.kind # "External"
    <3>1. state' = state /\ wakeTicket' = wakeTicket
      BY <1>1, <1>2, <1>5, <2>2 DEF BeginQuantum, Fresh
    <3> QED BY <1>5, <1>6, <1>10, <2>2, <3>1 DEF SameTask, Fresh
  <2> QED BY <2>1, <2>2
<1>12. Types'
  BY <1>9, <1>10, <1>11 DEF IInv, Types, TaskTypes, ReadyTypes, LaneTypes,
     ComputeTypes, PoolTypes, RootTypes, readyVars, tickets, compute, pool, rootVars
<1>13. state[t] \in {"Running", "ExternalBlocked"} /\ at[t] \in {"next", "reset", "complete"}
  BY <1>5 DEF Woken, Fresh
<1>14. Queued'
  <2>1. InState("Ready")' = InState("Ready") /\ InState("JoinBlocked")' = InState("JoinBlocked")
    BY <1>11, <1>13 DEF InState, SameTask
  <2> QED BY <1>10, <2>1 DEF IInv, Queued, Once, readyVars
<1>15. /\ t \notin Range(n.ext) /\ t \notin Range(n.direct)
       /\ Range(n.ext) \subseteq Tasks /\ Range(n.direct) \subseteq Tasks
  <2>1. Range(n.ext) \subseteq Tasks /\ Range(n.direct) \subseteq Tasks
    BY <1>1, LaneFields DEF IInv
  <2> QED BY <1>1, <1>3, <1>5, <2>1 DEF Listed, Fresh, Woken
<1>16. PlacedOn(l)'
  <2>1. Shape(l)'
    BY <1>1, <1>2, <1>3, <1>8, <1>9 DEF Shape, Own, AtWork
  <2>2. \A u \in Tasks \ {t} : (Fresh(u) => Fresh(u)') /\ (Woken(u) => Woken(u)')
    BY <1>11 DEF Fresh, Woken, SameTask
  <2>3. Listed(l)'
    <3>1. /\ n.job # 0 => Fresh(n.job) /\ n.job \in Tasks \ {t}
          /\ n.mail.st = 1 => Fresh(n.mail.task) /\ n.mail.task \in Tasks \ {t}
          /\ \A u \in Range(n.ext) : Woken(u) /\ u \in Tasks \ {t}
          /\ \A u \in Range(n.direct) : /\ u \in Tasks \ {t}
                /\ state[u] = "Running" /\ wakeTicket[u] # 0 /\ at[u] = "next"
          /\ n.job # 0 /\ n.mail.st = 1 => n.job # n.mail.task
      BY <1>1, <1>3, <1>5, <1>15, Sizes DEF Listed, Shape, LaneRec
    <3>2. \A u \in Range(k.direct) :
             state'[u] = "Running" /\ wakeTicket'[u] # 0 /\ at'[u] = "next"
      BY <1>8, <1>11, <3>1 DEF SameTask
    <3>3. \A u \in Range(k.ext) : Woken(u)'
      BY <1>8, <2>2, <3>1
    <3>4. /\ k.job # 0 => Fresh(k.job)'
          /\ k.mail.st = 1 => Fresh(k.mail.task)'
          /\ k.job # 0 /\ k.mail.st = 1 => k.job # k.mail.task
      BY <1>8, <2>2, <3>1
    <3> QED BY <1>9, <3>2, <3>3, <3>4 DEF Listed
  <2>4. Framed(l)'
    BY <1>5, <1>8, <1>9, <1>10, <1>11, <1>13 DEF Framed
  <2>5. \A u \in Tasks : Home(u) = l => Rests(u)'
    <3>1. Runs(t)' /\ \A u \in Tasks \ {t} : Home(u) = l => ~Runs(u)
      BY <1>1, <1>2, <1>3, <1>4, <1>8, <1>9 DEF Runs
    <3> QED BY <1>3, <1>11, <3>1 DEF Rests, SameTask
  <2> QED BY <2>1, <2>3, <2>4, <2>5 DEF PlacedOn
<1>17. \A u \in Tasks : Home(u) # l => SameTask(u)
  BY <1>4, <1>11
<1>18. /\ \A m \in Lanes \ {l} : SameJobs(m) /\ SameWork(m) /\ SameRegular(m)
       /\ \A m \in Lanes \ {l}, y \in Numbers : Holds(m, y)' => Holds(m, y)
       /\ \A m \in Lanes \ {l} : m \in DirectFrames' <=> m \in DirectFrames
       /\ \A u \in Tasks : Home(u) # l => (Runs(u)' <=> Runs(u)) /\ (Parks(u)' <=> Parks(u))
  BY <1>9, <1>17, Elsewhere
<1>19. Placed'
  BY <1>16, <1>17, <1>18, PlacedThere DEF IInv
<1>20. Tickets'
  <2>1. \A y \in Numbers : Holds(l, y)' => Holds(l, y)
    <3>1. \A u \in Tasks : wakeTicket'[u] = wakeTicket[u] \/ wakeTicket'[u] = 0
      BY <1>11 DEF SameTask
    <3> QED BY <1>1, <1>3, <1>8, <1>9, <3>1 DEF Holds, InTurn, Numbers
  <2>2. \A m \in Lanes : lane'[m].pc \in {"run", "finish"} => lane'[m].ticket = next
    BY <1>3, <1>8, <1>9 DEF IInv, Tickets
  <2> QED BY <1>10, <1>12, <1>18, <2>1, <2>2, TicketsMove DEF IInv, tickets
<1>21. \A u \in Tasks \ {t} : SameFor(u)
  <2>1. \A u \in Tasks \ {t} : Home(u) = l => ~Runs(u) /\ ~Runs(u)'
    BY <1>1, <1>2, <1>3, <1>8, <1>9 DEF Runs
  <2> QED BY <1>11, <1>18, <2>1 DEF SameFor
<1>22. Slotted'
  <2>1. CASE n.kind = "External"
    BY <1>4, <1>5, <1>10, <1>21, <2>1, SlottedResumes DEF IInv, pool
  <2>2. CASE n.kind # "External"
    <3>1. token[t] = 0
      BY <1>4, <1>5, <2>2 DEF IInv, Slotted, TokenKept, Fresh, Admission
    <3>2. \A u \in Tasks : token[u] = 0 => at'[u] \notin {"queue", "complete"}
      BY <1>10 DEF IInv, Slotted, TokenKept
    <3> QED BY <1>10, <1>21, <3>1, <3>2, SlottedStays DEF IInv, pool
  <2> QED BY <2>1, <2>2
<1>23. Computed'
  <2>1. SameWork(l)
    BY <1>1, <1>3, <1>8, <1>9 DEF SameWork, AtWork
  <2>2. \A m \in Lanes : SameWork(m)
    BY <1>18, <2>1
  <2>3. ~Waked(t)
    BY <1>5 DEF Waked, Woken, Fresh
  <2>4. PhaseKept(t) /\ device[t] # "wake"
    BY <1>4, <2>3 DEF IInv, Computed, Wakers
  <2>5. at[t] = "reset" => phase[t] # Parked
    BY <1>5, <2>4 DEF PhaseKept, Woken, Fresh
  <2>6. PhaseKept(t)'
    BY <1>10, <1>11, <2>4, <2>5 DEF PhaseKept, Computes, compute
  <2>7. Units(t)' = Units(t) /\ pass'[t] = pass[t] /\ pass'[t] \in Int
    BY <1>4, <1>10, <1>12 DEF Units, compute, Types, ComputeTypes
  <2>8. \A u \in Tasks \ {t} :
              /\ SameTask(u) /\ token'[u] = token[u] /\ phase'[u] = phase[u]
              /\ pass'[u] = pass[u] /\ device'[u] = device[u]
    BY <1>10, <1>11 DEF compute
  <2>9. UNCHANGED script /\ device'[t] # "wake"
    BY <1>10, <2>4 DEF compute
  <2> QED BY <1>4, <2>2, <2>3, <2>6, <2>7, <2>8, <2>9, ComputedOf DEF IInv
<1>24. Counted'
  <2>1. l \in DirectFrames' <=> l \in DirectFrames
    BY <1>1, <1>3, <1>8, <1>9 DEF DirectFrames, Own
  <2>2. ~Parks(t) /\ ~Parks(t)'
    BY <1>1, <1>2, <1>3, <1>4, <1>5, <1>8, <1>9, <1>11, <1>15 DEF Parks
  <2>3. \A u \in Tasks \ {t} : Parks(u)' <=> Parks(u)
    <3>1. \A u \in Tasks \ {t} : Home(u) = l => (Parks(u)' <=> Parks(u))
      BY <1>1, <1>2, <1>3, <1>8, <1>9, <1>11 DEF Parks, SameTask
    <3> QED BY <1>18, <3>1
  <2>4. DirectFrames' = DirectFrames /\ ParkedTasks' = ParkedTasks
    BY <1>4, <1>18, <2>1, <2>2, <2>3, SetsElsewhere
  <2> QED BY <1>10, <2>4, FlightsStay, PoolCountsStay DEF IInv, Counted, pool
<1>25. Rooted'
  <2>1. SameRegular(l)
    BY <1>1, <1>3, <1>8, <1>9 DEF SameRegular, RegularFrame, Own
  <2> QED BY <1>10, <1>18, <2>1, RootedStays DEF IInv, rootVars
<1> QED BY <1>12, <1>14, <1>19, <1>20, <1>22, <1>23, <1>24, <1>25 DEF IInv

\* After its quantum the frame of a lane holds no task any more.
LEMMA FrameEnds ==
    ASSUME IInv, NEW l \in Lanes, Types', \A m \in Lanes \ {l} : lane'[m] = lane[m],
           UNCHANGED <<records, readyVars, compute, pool, io>>,
           lane[l].pc \in {"finish", "publish", "release"},
           lane'[l].pc \in {"publish", "release", "idle"},
           lane'[l].job = lane[l].job, lane'[l].jobTicket = lane[l].jobTicket,
           lane'[l].ext = lane[l].ext, lane'[l].direct = lane[l].direct,
           lane'[l].work = lane[l].work,
           lane'[l].mail = lane[l].mail \/ (lane[l].mail.st # 1 /\ lane'[l].mail.st # 1),
           Shape(l)'
    PROVE  /\ Queued' /\ Placed' /\ Slotted' /\ Computed'
           /\ BytesCounted' /\ AdmissionsCounted' /\ ParkedTasks' = ParkedTasks
<1> USE DEF records
<1>1. \A u \in Tasks : SameTask(u)
  BY DEF SameTask
<1>2. /\ \A m \in Lanes \ {l} : SameJobs(m) /\ SameWork(m)
      /\ \A u \in Tasks : Home(u) # l => (Runs(u)' <=> Runs(u)) /\ (Parks(u)' <=> Parks(u))
  BY <1>1, Elsewhere
<1>3. \A u \in Tasks : Home(u) = l => ~Runs(u) /\ ~Runs(u)'
  BY DEF Runs
<1>4. Queued'
  BY DEF IInv, Queued, InState, Once, readyVars
<1>5. Placed'
  <2>1. Listed(l) /\ \A u \in Tasks : Home(u) = l => Rests(u)
    BY DEF IInv, Placed, PlacedOn
  <2>2. Listed(l)'
    BY <2>1 DEF Listed, Fresh, Woken
  <2>3. Framed(l)'
    BY DEF Framed
  <2>4. \A u \in Tasks : Home(u) = l => Rests(u)'
    BY <1>3, <2>1 DEF Rests
  <2>5. PlacedOn(l)'
    BY <2>2, <2>3, <2>4 DEF PlacedOn
  <2> QED BY <1>1, <1>2, <2>5, PlacedThere DEF IInv
<1>6. Slotted'
  <2>1. \A u \in Tasks : token[u] = 0 => at'[u] \notin {"queue", "complete"}
    BY DEF IInv, Slotted, TokenKept
  <2>2. \A u \in Tasks : SameFor(u)
    BY <1>1, <1>2, <1>3 DEF SameFor
  <2> QED BY <2>1, <2>2, SlottedStays DEF IInv, pool
<1>7. Computed'
  <2>1. SameWork(l)
    BY DEF SameWork, AtWork
  <2>2. \A m \in Lanes : SameWork(m)
    BY <1>2, <2>1
  <2> QED BY <1>1, <2>2, ComputedStays DEF IInv, compute
<1>8. ParkedTasks' = ParkedTasks
  <2>1. \A u \in Tasks : Home(u) = l => (Parks(u)' <=> Parks(u))
    BY DEF Parks
  <2> QED BY <1>2, <2>1 DEF ParkedTasks
<1>9. BytesCounted' /\ AdmissionsCounted'
  BY PoolCountsStay DEF IInv, Counted, pool
<1> QED BY <1>4, <1>5, <1>6, <1>7, <1>8, <1>9

LEMMA EndQuantumKeeps ==
    ASSUME IInv, NEW l \in Lanes, EndQuantum(l)
    PROVE  IInv'
<1>1. PICK n \in LaneRec : n = lane[l]
  BY LaneFields DEF IInv
<1>2. lane \in [Lanes -> LaneRec] /\ next \in 1..toIssue /\ toIssue \in Nat
  BY DEF IInv, Types, LaneTypes
<1>3. n.pc = "finish" /\ n.ticket = next /\ Shape(l)
  BY <1>1 DEF EndQuantum, IInv, Tickets, Placed, PlacedOn
<1>4. PICK k : k = [n EXCEPT !.pc = "publish"]
  OBVIOUS
<1>5. /\ k \in LaneRec /\ k.pc = "publish" /\ k.task = n.task /\ k.ticket = n.ticket
      /\ k.kind = n.kind /\ k.job = n.job /\ k.jobTicket = n.jobTicket
      /\ k.ext = n.ext /\ k.direct = n.direct /\ k.mail = n.mail
      /\ k.work = n.work /\ k.done = n.done
  BY <1>4 DEF LaneRec, Own
<1>6. /\ lane'[l] = k /\ \A m \in Lanes \ {l} : lane'[m] = lane[m]
      /\ lane' \in [Lanes -> LaneRec]
  BY <1>1, <1>2, <1>4, <1>5 DEF EndQuantum
<1>7. next' = next + 1
  BY <1>1, <1>3 DEF EndQuantum
<1>8. UNCHANGED <<records, readyVars, toIssue, laneStop, inFlight, compute, pool, stop, io,
                  rootVars>>
  BY DEF EndQuantum
\* The ticket of this quantum is no longer held.
<1>9. Holds(l, next) /\ next < toIssue
  <2>1. next \in Numbers /\ Holds(l, next)
    BY <1>1, <1>2, <1>3 DEF Holds, InTurn, Numbers
  <2> QED BY <2>1 DEF IInv, Tickets
<1>10. Types'
  <2>1. next' \in 1..toIssue'
    BY <1>2, <1>7, <1>8, <1>9
  <2> QED BY <1>6, <1>8, <2>1 DEF IInv, Types, TaskTypes, ReadyTypes, LaneTypes,
          ComputeTypes, PoolTypes, RootTypes, records, readyVars, compute, pool, rootVars
<1>11. Shape(l)'
  BY <1>1, <1>3, <1>5, <1>6 DEF Shape, Own, AtWork
<1>12. /\ Queued' /\ Placed' /\ Slotted' /\ Computed'
       /\ BytesCounted' /\ AdmissionsCounted' /\ ParkedTasks' = ParkedTasks
  BY <1>1, <1>3, <1>5, <1>6, <1>8, <1>10, <1>11, FrameEnds
<1>13. \A u \in Tasks : SameTask(u)
  BY <1>8 DEF SameTask, records
<1>14. /\ \A m \in Lanes \ {l} : SameRegular(m)
       /\ \A m \in Lanes \ {l}, y \in Numbers : Holds(m, y)' => Holds(m, y)
       /\ \A m \in Lanes \ {l} : m \in DirectFrames' <=> m \in DirectFrames
  BY <1>6, <1>13, Elsewhere
<1>15. Tickets'
  <2>1. \A y \in Numbers : Holds(l, y)' => Holds(l, y)
    BY <1>1, <1>5, <1>6, <1>8 DEF Holds, InTurn, records
  <2>2. \A m \in Lanes, y \in Numbers : Holds(m, y)' => Holds(m, y)
    BY <1>14, <2>1
  <2>3. \A m \in Lanes : lane[m].pc \in {"run", "finish"} => m = l
    <3>1. next \in Numbers
      BY <1>2 DEF Numbers
    <3>2. \A m \in Lanes : lane[m].pc \in {"run", "finish"} => Holds(m, next)
      BY DEF IInv, Tickets, Holds, InTurn
    <3> QED BY <1>9, <3>1, <3>2 DEF IInv, Tickets
  <2>4. \A m \in Lanes : lane'[m].pc \notin {"run", "finish"}
    BY <1>5, <1>6, <2>3
  <2> QED BY <1>8, <2>2, <2>4 DEF IInv, Tickets
<1>16. Counted'
  <2>1. DirectFrames' = DirectFrames
    BY <1>1, <1>3, <1>5, <1>6, <1>14 DEF DirectFrames, Own
  <2> QED BY <1>8, <1>12, <2>1, FlightsStay DEF IInv, Counted
<1>17. Rooted'
  <2>1. SameRegular(l)
    BY <1>1, <1>3, <1>5, <1>6 DEF SameRegular, RegularFrame, Own
  <2> QED BY <1>8, <1>14, <2>1, RootedStays DEF IInv, rootVars
<1> QED BY <1>10, <1>12, <1>15, <1>16, <1>17 DEF IInv

LEMMA PublishJobKeeps ==
    ASSUME IInv, NEW l \in Lanes, PublishJob(l)
    PROVE  IInv'
<1>1. PICK n \in LaneRec : n = lane[l]
  BY LaneFields DEF IInv
<1>2. lane \in [Lanes -> LaneRec]
  BY DEF IInv, Types, LaneTypes
<1>3. n.pc = "publish" /\ Shape(l)
  BY <1>1 DEF PublishJob, IInv, Placed, PlacedOn
<1>4. PICK r \in BOOLEAN : r <=> (n.kind = "Regular")
  OBVIOUS
<1>5. PICK k : k = IF r THEN [n EXCEPT !.pc = "idle", !.task = 0, !.ticket = 0,
                                       !.kind = "None", !.done = TRUE]
                        ELSE [n EXCEPT !.pc = "release"]
  OBVIOUS
<1>6. /\ k \in LaneRec /\ k.job = n.job /\ k.jobTicket = n.jobTicket
      /\ k.ext = n.ext /\ k.direct = n.direct /\ k.mail = n.mail /\ k.work = n.work
      /\ r => /\ k.pc = "idle" /\ k.task = 0 /\ k.ticket = 0
              /\ k.kind = "None" /\ k.done = TRUE
      /\ ~r => /\ k.pc = "release" /\ k.task = n.task /\ k.ticket = n.ticket
               /\ k.kind = n.kind /\ k.done = n.done
  <2>1. CASE r
    BY <1>5, <2>1, Sizes DEF LaneRec
  <2>2. CASE ~r
    BY <1>5, <2>2 DEF LaneRec, Own
  <2> QED BY <2>1, <2>2
<1>7. lane' = [lane EXCEPT ![l] = k]
  <2>1. CASE r
    <3>1. k = [Resting(n) EXCEPT !.done = TRUE]
      BY <1>5, <2>1 DEF Resting, LaneRec
    <3> QED BY <1>1, <1>4, <2>1, <3>1 DEF PublishJob
  <2>2. CASE ~r
    BY <1>1, <1>4, <1>5, <2>2 DEF PublishJob
  <2> QED BY <2>1, <2>2
<1>8. /\ lane'[l] = k /\ \A m \in Lanes \ {l} : lane'[m] = lane[m]
      /\ lane' \in [Lanes -> LaneRec]
  BY <1>2, <1>6, <1>7
<1>9. UNCHANGED <<records, readyVars, tickets, laneStop, inFlight, compute, pool, stop, io,
                  rootVars>>
  BY DEF PublishJob
<1>10. Types'
  <2>1. LaneTypes' /\ ComputeTypes'
    BY <1>8, <1>9 DEF IInv, Types, LaneTypes, ComputeTypes, tickets, compute
  <2> QED BY <1>9, <2>1, LaneStepTypes DEF IInv
<1>11. Shape(l)'
  BY <1>1, <1>3, <1>4, <1>6, <1>8 DEF Shape, Own, AtWork
<1>12. /\ Queued' /\ Placed' /\ Slotted' /\ Computed'
       /\ BytesCounted' /\ AdmissionsCounted' /\ ParkedTasks' = ParkedTasks
  BY <1>1, <1>3, <1>6, <1>8, <1>9, <1>10, <1>11, FrameEnds
<1>13. \A u \in Tasks : SameTask(u)
  BY <1>9 DEF SameTask, records
<1>14. /\ \A m \in Lanes \ {l} : SameRegular(m)
       /\ \A m \in Lanes \ {l}, y \in Numbers : Holds(m, y)' => Holds(m, y)
       /\ \A m \in Lanes \ {l} : m \in DirectFrames' <=> m \in DirectFrames
  BY <1>8, <1>13, Elsewhere
<1>15. Tickets'
  <2>1. \A y \in Numbers : Holds(l, y)' => Holds(l, y)
    BY <1>1, <1>6, <1>8, <1>9 DEF Holds, InTurn, records
  <2>2. \A m \in Lanes : lane'[m].pc \in {"run", "finish"} => lane'[m].ticket = next
    BY <1>6, <1>8 DEF IInv, Tickets
  <2> QED BY <1>9, <1>10, <1>14, <2>1, <2>2, TicketsMove DEF IInv, tickets
<1>16. Counted'
  <2>1. DirectFrames' = DirectFrames
    BY <1>1, <1>3, <1>4, <1>6, <1>8, <1>14 DEF DirectFrames, Own
  <2> QED BY <1>9, <1>12, <2>1, FlightsStay DEF IInv, Counted
<1>17. Rooted'
  <2>1. Regular(l)
    BY DEF IInv, Rooted
  <2>2. Regular(l)'
    BY <1>1, <1>3, <1>4, <1>6, <1>8, <1>9, <2>1 DEF Regular, RegularFrame, Own, rootVars
  <2>3. \A m \in Lanes \ {l} : Regular(m)'
    BY <1>9, <1>14 DEF IInv, Rooted, Regular, SameRegular, rootVars
  <2> QED BY <1>9, <2>2, <2>3 DEF IInv, Rooted, rootVars
<1> QED BY <1>10, <1>12, <1>15, <1>16, <1>17 DEF IInv

LEMMA ReleaseDirectJobKeeps ==
    ASSUME IInv, NEW l \in Lanes, ReleaseDirectJob(l)
    PROVE  IInv'
<1>1. PICK n \in LaneRec : n = lane[l]
  BY LaneFields DEF IInv
<1>2. lane \in [Lanes -> LaneRec] /\ inFlight \in Nat
  BY DEF IInv, Types, LaneTypes
<1>3. n.pc = "release" /\ Shape(l)
  BY <1>1 DEF ReleaseDirectJob, IInv, Placed, PlacedOn
<1>4. PICK c : c = IF n.kind = "Mailbox" THEN NoMail ELSE n.mail
  OBVIOUS
<1>5. c \in MailRec
  BY <1>4, Sizes DEF LaneRec, MailRec, NoMail
<1>6. PICK k : k = [n EXCEPT !.pc = "idle", !.task = 0, !.ticket = 0, !.kind = "None",
                             !.mail = c]
  OBVIOUS
<1>7. /\ k \in LaneRec /\ k.job = n.job /\ k.jobTicket = n.jobTicket
      /\ k.ext = n.ext /\ k.direct = n.direct /\ k.mail = c /\ k.work = n.work
      /\ k.pc = "idle" /\ k.task = 0 /\ k.ticket = 0 /\ k.kind = "None" /\ k.done = n.done
  BY <1>5, <1>6, Sizes DEF LaneRec
<1>8. lane' = [lane EXCEPT ![l] = k]
  <2>1. k = [Resting(n) EXCEPT !.mail = c]
    BY <1>6 DEF Resting, LaneRec
  <2>2. lane' = [lane EXCEPT ![l] = [Resting(n) EXCEPT
                    !.mail = IF n.kind = "Mailbox" THEN NoMail ELSE n.mail]]
    BY <1>1 DEF ReleaseDirectJob
  <2> QED BY <1>4, <2>1, <2>2
<1>9. /\ lane'[l] = k /\ \A m \in Lanes \ {l} : lane'[m] = lane[m]
      /\ lane' \in [Lanes -> LaneRec]
  BY <1>2, <1>7, <1>8
<1>10. /\ UNCHANGED <<records, readyVars, tickets, laneStop, compute, pool, stop, io,
                      rootVars>>
       /\ inFlight' = IF inFlight > 0 THEN inFlight - 1 ELSE 0
  BY DEF ReleaseDirectJob
<1>11. Types'
  <2>1. inFlight' \in Nat
    BY <1>2, <1>10
  <2>2. LaneTypes'
    BY <1>9, <1>10, <2>1 DEF IInv, Types, LaneTypes, tickets
  <2> QED BY <1>10, <2>2 DEF IInv, Types, TaskTypes, ReadyTypes, ComputeTypes,
          PoolTypes, RootTypes, records, readyVars, compute, pool, rootVars
<1>12. /\ n.kind = "Mailbox" => n.mail.st = 2 /\ c = NoMail
       /\ n.kind # "Mailbox" => n.mail.st # 2 /\ c = n.mail
       /\ NoMail.st = 0
  BY <1>1, <1>3, <1>4 DEF Shape, NoMail
<1>13. Shape(l)'
  BY <1>1, <1>3, <1>7, <1>9, <1>12 DEF Shape, Own, AtWork
<1>14. lane'[l].mail = lane[l].mail \/ (lane[l].mail.st # 1 /\ lane'[l].mail.st # 1)
  BY <1>1, <1>7, <1>9, <1>12
<1>15. /\ Queued' /\ Placed' /\ Slotted' /\ Computed'
       /\ BytesCounted' /\ AdmissionsCounted' /\ ParkedTasks' = ParkedTasks
  BY <1>1, <1>3, <1>7, <1>9, <1>10, <1>11, <1>13, <1>14, FrameEnds
<1>16. \A u \in Tasks : SameTask(u)
  BY <1>10 DEF SameTask, records
<1>17. /\ \A m \in Lanes \ {l} : SameRegular(m)
       /\ \A m \in Lanes \ {l}, y \in Numbers : Holds(m, y)' => Holds(m, y)
       /\ \A m \in Lanes \ {l} : m \in DirectFrames' <=> m \in DirectFrames
  BY <1>9, <1>16, Elsewhere
<1>18. Tickets'
  <2>1. \A y \in Numbers : Holds(l, y)' => Holds(l, y)
    BY <1>1, <1>7, <1>9, <1>10, <1>12 DEF Holds, InTurn, records
  <2>2. \A m \in Lanes : lane'[m].pc \in {"run", "finish"} => lane'[m].ticket = next
    BY <1>7, <1>9 DEF IInv, Tickets
  <2> QED BY <1>10, <1>11, <1>17, <2>1, <2>2, TicketsMove DEF IInv, tickets
<1>19. l \in DirectFrames /\ DirectFrames' = DirectFrames \ {l}
  BY <1>1, <1>3, <1>7, <1>9, <1>17 DEF DirectFrames, Own, Shape
<1>20. Counted'
  BY <1>10, <1>15, <1>19, FlightEnds DEF IInv, Counted
<1>21. Rooted'
  <2>1. root \notin Over
    BY <1>19, OverIsQuiet
  <2>2. SameRegular(l)
    BY <1>1, <1>3, <1>7, <1>9 DEF SameRegular, RegularFrame, Own, Shape
  <2> QED BY <1>10, <1>17, <2>1, <2>2, RootedStays DEF IInv, rootVars
<1> QED BY <1>11, <1>15, <1>18, <1>20, <1>21 DEF IInv

-----------------------------------------------------------------------------
(* Steps of the coroutine inside its quantum.                              *)

\* The lists and the frame of a lane are as before, its worker may move on.
SameLists(m) ==
    /\ lane'[m].job = lane[m].job /\ lane'[m].jobTicket = lane[m].jobTicket
    /\ lane'[m].done = lane[m].done /\ lane'[m].mail = lane[m].mail
    /\ lane'[m].ext = lane[m].ext /\ lane'[m].direct = lane[m].direct
    /\ lane'[m].task = lane[m].task /\ lane'[m].ticket = lane[m].ticket
    /\ lane'[m].kind = lane[m].kind

\* Another task: nothing happens to it, or the task it joined is done.
Aside(u) ==
    /\ at'[u] = at[u] /\ wakeTicket'[u] = wakeTicket[u]
    /\ state'[u] = state[u] \/ (state[u] = "JoinBlocked" /\ state'[u] = "Ready")

\* Where a coroutine is while its quantum goes on, and where it is left.
RunPlace(t) ==
    \/ state[t] = "Running" /\ at[t] \in {"next", "submitted", "park", "reset", "complete"}
    \/ state[t] = "Failed" /\ at[t] \in {"next", "park"}
    \/ state[t] = "ExternalBlocked" /\ at[t] \in {"count", "commit", "queue"}

EndPlace(t) ==
    /\ at[t] \in {"next", "reset", "complete", "end"}
    /\ (at[t] \in {"reset", "complete"}) <=> (state[t] = "ExternalBlocked")
    /\ (at[t] = "end") <=> (state[t] \in Terminal)

\* The task is counted as a job that waits for no root.
Suspended(t) ==
    state[t] = "ExternalBlocked" /\ at[t] \in {"commit", "queue", "reset", "complete"}

LEMMA QuantumSteps ==
    ASSUME IInv, Types', NEW l \in Lanes, NEW t, t = lane[l].task, lane[l].pc = "run",
           UNCHANGED <<wakeTicket, toIssue, next, root, collects, laneStop, stop>>,
           \A m \in Lanes : SameLists(m),
           \A m \in Lanes \ {l} : lane'[m].pc = lane[m].pc,
           lane'[l].pc \in {"run", "finish"},
           \A u \in Tasks \ {t} : Aside(u),
           lane'[l].pc = "run" => RunPlace(t)',
           lane'[l].pc = "finish" => EndPlace(t)'
    PROVE  /\ Placed' /\ Tickets' /\ Rooted' /\ DirectFrames' = DirectFrames
           /\ \A u \in Tasks \ {t} : (Runs(u)' <=> Runs(u)) /\ (Parks(u)' <=> Parks(u))
           /\ Parks(t)' <=> Suspended(t)'
           /\ Parks(t) <=> Suspended(t)
           /\ Runs(t)' <=> lane'[l].pc = "run"
<1>1. /\ t \in Tasks /\ Home(t) = l /\ Runs(t) /\ wakeTicket[t] = 0
      /\ root \notin Over
      /\ t \notin Range(lane[l].ext) /\ t \notin Range(lane[l].direct)
      /\ lane[l].job # t /\ (lane[l].mail.st = 1 => lane[l].mail.task # t)
  BY InQuantum
<1>2. \A u \in Tasks \ {t} : (Runs(u)' <=> Runs(u)) /\ (Parks(u)' <=> Parks(u))
  <2>1. ASSUME NEW u \in Tasks \ {t} PROVE (Runs(u)' <=> Runs(u)) /\ (Parks(u)' <=> Parks(u))
    <3>1. Home(u) \in Lanes /\ SameLists(Home(u)) /\ Aside(u)
      BY Sizes
    <3>2. CASE Home(u) = l
      BY <1>1, <3>1, <3>2 DEF Runs, Parks, SameLists, Aside
    <3>3. CASE Home(u) # l
      BY <3>1, <3>3 DEF Runs, Parks, SameLists, Aside
    <3> QED BY <3>2, <3>3
  <2> QED BY <2>1
<1>3. /\ Parks(t)' <=> Suspended(t)'
      /\ Parks(t) <=> Suspended(t)
      /\ Runs(t)' <=> lane'[l].pc = "run"
  BY <1>1 DEF Parks, Suspended, Runs, SameLists
<1>4. ASSUME NEW m \in Lanes PROVE PlacedOn(m)'
  <2>1. /\ Shape(m) /\ Listed(m) /\ Framed(m)
        /\ \A u \in Tasks : Home(u) = m => Rests(u)
    BY DEF IInv, Placed, PlacedOn
  <2>2. SameLists(m)
    OBVIOUS
  <2>3. /\ lane[m].job \in Tasks \cup {0} /\ Range(lane[m].ext) \subseteq Tasks
        /\ Range(lane[m].direct) \subseteq Tasks
    BY LaneFields DEF IInv
  <2>4. Shape(m)'
    <3>1. CASE m = l
      BY <2>1, <2>2, <3>1 DEF Shape, SameLists, Own, AtWork
    <3>2. CASE m # l
      BY <2>1, <2>2, <3>2 DEF Shape, SameLists
    <3> QED BY <3>1, <3>2
  <2>5. /\ t \notin Range(lane[m].ext) /\ t \notin Range(lane[m].direct)
        /\ lane[m].job # t /\ (lane[m].mail.st = 1 => lane[m].mail.task # t)
        /\ m # l /\ lane[m].pc \in {"turn", "run"} => lane[m].task # t
    <3>1. CASE m = l
      BY <1>1, <3>1
    <3>2. CASE m # l
      BY <1>1, <2>1, <3>2, Sizes DEF Shape, Own
    <3> QED BY <3>1, <3>2
  <2>6. \A u \in Tasks \ {t} : (Fresh(u) => Fresh(u)') /\ (Woken(u) => Woken(u)')
    BY DEF Fresh, Woken, Aside
  <2>7. Listed(m)'
    <3>1. /\ lane[m].job # 0 => Fresh(lane[m].job) /\ lane[m].job \in Tasks \ {t}
          /\ lane[m].mail.st = 1 => /\ Fresh(lane[m].mail.task)
                                    /\ lane[m].mail.task \in Tasks \ {t}
          /\ \A u \in Range(lane[m].ext) : Woken(u) /\ u \in Tasks \ {t}
          /\ \A u \in Range(lane[m].direct) : /\ u \in Tasks \ {t}
                /\ state[u] = "Running" /\ wakeTicket[u] # 0 /\ at[u] = "next"
          /\ lane[m].job # 0 /\ lane[m].mail.st = 1 => lane[m].job # lane[m].mail.task
      BY <2>1, <2>3, <2>5 DEF Listed, Shape
    <3>2. \A u \in Range(lane[m].direct) :
             state'[u] = "Running" /\ wakeTicket'[u] # 0 /\ at'[u] = "next"
      BY <3>1 DEF Aside
    <3> QED BY <2>2, <2>6, <3>1, <3>2 DEF Listed, SameLists
  <2>8. Framed(m)'
    <3>1. CASE m = l
      BY <1>1, <2>2, <3>1 DEF Framed, SameLists, RunPlace
    <3>2. CASE m # l
      <4>1. PICK v : v = lane[m].task
        OBVIOUS
      <4>2. lane'[m].pc = lane[m].pc /\ lane'[m].task = v /\ lane'[m].kind = lane[m].kind
            /\ lane'[m].ext = lane[m].ext /\ lane'[m].job = lane[m].job
            /\ lane'[m].mail = lane[m].mail
        BY <2>2, <3>2, <4>1 DEF SameLists
      <4>3. lane[m].pc \in {"turn", "run"} => v \in Tasks \ {t} /\ Aside(v)
        BY <2>1, <2>5, <3>2, <4>1 DEF Shape, Own
      <4>4. lane[m].pc \in {"turn", "run"} => SameTask(v)
        BY <2>1, <4>1, <4>3 DEF Framed, Fresh, Woken, Aside, SameTask
      <4> QED BY <2>1, <2>6, <4>1, <4>2, <4>3, <4>4 DEF Framed, SameTask
    <3> QED BY <3>1, <3>2
  <2>9. ASSUME NEW u \in Tasks, Home(u) = m PROVE Rests(u)'
    <3>1. CASE u = t
      BY <1>1, <1>3, <3>1 DEF Rests, EndPlace
    <3>2. CASE u # t
      <4>1. Rests(u) /\ Aside(u) /\ (Runs(u)' <=> Runs(u))
        BY <1>2, <2>1, <2>9, <3>2
      <4>2. state'[u] = state[u] => Rests(u)'
        BY <4>1 DEF Rests, Aside
      <4>3. state'[u] # state[u] => Rests(u)'
        BY <4>1 DEF Rests, Aside, Terminal
      <4> QED BY <4>2, <4>3
    <3> QED BY <3>1, <3>2
  <2> QED BY <2>4, <2>7, <2>8, <2>9 DEF PlacedOn
<1>5. Tickets'
  <2>1. \A m \in Lanes, x \in Numbers : Holds(m, x)' => Holds(m, x)
    <3> SUFFICES ASSUME NEW m \in Lanes, NEW x \in Numbers, Holds(m, x)' PROVE Holds(m, x)
      OBVIOUS
    <3>1. SameLists(m)
      OBVIOUS
    <3>2. lane'[m].pc \in InTurn => lane[m].pc \in InTurn
      BY DEF InTurn
    <3> QED BY <3>1, <3>2 DEF Holds, SameLists
  <2>2. \A m \in Lanes : lane'[m].pc \in {"run", "finish"} => lane[m].pc \in {"run", "finish"}
    OBVIOUS
  <2>3. \A m \in Lanes : lane'[m].pc \in {"run", "finish"} => lane'[m].ticket = next
    BY <2>2 DEF IInv, Tickets, SameLists
  <2> QED BY <2>1, <2>3, TicketsMove DEF IInv
<1>6. DirectFrames' = DirectFrames
  <2>1. \A m \in Lanes : lane'[m].pc \in Own <=> lane[m].pc \in Own
    BY DEF Own
  <2> QED BY <2>1 DEF DirectFrames, SameLists
<1>7. Rooted'
  <2>1. \A m \in Lanes : lane'[m].pc \in Own <=> lane[m].pc \in Own
    BY DEF Own
  <2>2. \A m \in Lanes : SameRegular(m)
    BY <2>1 DEF SameRegular, RegularFrame, SameLists
  <2>3. root # "joining"
    BY <1>1 DEF Over
  <2> QED BY <1>1, <2>2, <2>3, RootedStays DEF IInv
<1> QED BY <1>2, <1>3, <1>4, <1>5, <1>6, <1>7 DEF Placed

\* ComputedOf, when other tasks may become ready.
LEMMA ComputedAround ==
    ASSUME Types, Computed, NEW t \in Tasks, UNCHANGED <<script, phase, pass, device>>,
           \A m \in Lanes : SameWork(m),
           \A u \in Tasks \ {t} : Aside(u) /\ token'[u] = token[u],
           ~Waked(t), PhaseKept(t)', Units(t)' = Units(t)
    PROVE  Computed'
<1>1. \A m \in Lanes : WorkKept(m)'
  BY WorkStays
<1>2. \A u \in Tasks \ {t} : PhaseKept(u)'
  BY DEF Computed, PhaseKept, Aside, Computes
<1>3. \A u \in Tasks \ {t} : Waked(u) => Waked(u)'
  BY DEF Waked, Aside
<1>4. Wakers'
  <2>1. Wakers
    BY DEF Computed
  <2>2. \A u \in Tasks : device'[u] = "wake" => Waked(u)'
    BY <1>3, <2>1 DEF Wakers
  <2>3. \A m \in Lanes : lane'[m].pc = "wake" =>
          /\ lane[m].pc = "wake" /\ lane'[m].task = lane[m].task
          /\ lane[m].task \in Tasks \ {t} /\ Waked(lane[m].task)
          /\ device[lane[m].task] # "wake"
    BY <2>1 DEF Wakers, SameWork, Waked
  <2>4. ASSUME NEW m \in Lanes, lane'[m].pc = "wake"
        PROVE  (Waked(lane[m].task) /\ device[lane[m].task] # "wake")'
    <3>1. PICK u : u = lane[m].task
      OBVIOUS
    <3>2. u \in Tasks \ {t} /\ Waked(u) /\ device[u] # "wake" /\ lane'[m].task = u
      BY <2>3, <2>4, <3>1
    <3>3. Waked(u)' /\ device'[u] # "wake"
      BY <1>3, <3>2
    <3> QED BY <3>2, <3>3 DEF Waked
  <2>5. \A i, m \in Lanes :
          /\ lane'[i].pc = "wake" /\ lane'[m].pc = "wake"
          /\ lane'[i].task = lane'[m].task
          => i = m
    BY <2>1, <2>3 DEF Wakers
  <2> QED BY <2>2, <2>4, <2>5 DEF Wakers
<1>5. ASSUME NEW u \in Tasks PROVE pass'[u] = Cardinality(WorkLanes(u))' + Units(u)'
  <2>1. WorkLanes(u)' = WorkLanes(u)
    BY WorkStays
  <2>2. pass[u] = Cardinality(WorkLanes(u)) + Units(u)
    BY DEF Computed, Passes
  <2>3. CASE u = t
    BY <2>1, <2>2, <2>3
  <2>4. CASE u # t
    BY <2>1, <2>2, <2>4 DEF Units, Aside
  <2> QED BY <2>3, <2>4
<1> QED BY <1>1, <1>2, <1>4, <1>5 DEF Computed, Passes

\* The worker stays with the coroutine or its quantum ends.
LEMMA QuantumFrame ==
    ASSUME Types, NEW l \in Lanes, lane[l].pc = "run", NEW ends \in BOOLEAN,
           lane' = IF ends THEN [lane EXCEPT ![l].pc = "finish"] ELSE lane
    PROVE  /\ lane' \in [Lanes -> LaneRec]
           /\ \A m \in Lanes : SameLists(m) /\ SameWork(m)
           /\ \A m \in Lanes \ {l} : lane'[m].pc = lane[m].pc
           /\ lane'[l].pc = IF ends THEN "finish" ELSE "run"
<1>1. lane \in [Lanes -> LaneRec]
  BY DEF Types, LaneTypes
<1>2. CASE ~ends
  BY <1>1, <1>2 DEF SameLists, SameWork
<1>3. CASE ends
  <2>1. PICK n \in LaneRec : n = lane[l]
    BY <1>1
  <2>2. PICK k : k = [n EXCEPT !.pc = "finish"]
    OBVIOUS
  <2>3. /\ k \in LaneRec /\ k.pc = "finish" /\ k.task = n.task /\ k.ticket = n.ticket
        /\ k.kind = n.kind /\ k.job = n.job /\ k.jobTicket = n.jobTicket
        /\ k.ext = n.ext /\ k.direct = n.direct /\ k.mail = n.mail
        /\ k.work = n.work /\ k.done = n.done
    BY <2>2 DEF LaneRec, Own
  <2>4. lane' = [lane EXCEPT ![l] = k]
    BY <1>3, <2>1, <2>2
  <2>5. /\ lane'[l] = k /\ \A m \in Lanes \ {l} : lane'[m] = lane[m]
        /\ lane' \in [Lanes -> LaneRec]
    BY <1>1, <2>3, <2>4
  <2>6. SameLists(l) /\ SameWork(l)
    BY <2>1, <2>3, <2>5 DEF SameLists, SameWork, AtWork
  <2>7. \A m \in Lanes \ {l} : SameLists(m) /\ SameWork(m)
    BY <2>5 DEF SameLists, SameWork
  <2> QED BY <1>3, <2>3, <2>5, <2>6, <2>7
<1> QED BY <1>2, <1>3

\* A coroutine between two awaits holds no slot and awaits nothing.
LEMMA BetweenAwaits ==
    ASSUME IInv, NEW l \in Lanes, At(l, "next"), NEW t, t = lane[l].task
    PROVE  /\ lane[l].pc = "run" /\ t \in Tasks /\ at[t] = "next" /\ token[t] = 0
           /\ state[t] \in {"Running", "Failed"}
           /\ phase[t] = Pending /\ pass[t] = 0 /\ device[t] = "idle"
           /\ ~Waked(t) /\ ~Suspended(t)
           /\ Computes(t) => state[t] = "Running"
<1>1. lane[l].pc = "run" /\ at[t] = "next"
  BY DEF At
<1>2. t \in Tasks /\ ~Waked(t)
  BY <1>1, InQuantum
<1>3. Framed(l) /\ TokenKept(t) /\ PhaseKept(t) /\ Wakers
  BY <1>2 DEF IInv, Placed, PlacedOn, Slotted, Computed
<1>4. token[t] = 0
  BY <1>1, <1>3 DEF TokenKept, Admission
<1>5. state[t] \in {"Running", "Failed"}
  BY <1>1, <1>3 DEF Framed
<1>6. phase[t] = Pending /\ pass[t] = 0 /\ device[t] # "busy" /\ device[t] # "wake"
  BY <1>1, <1>2, <1>3 DEF PhaseKept, Wakers
<1>7. device[t] = "idle"
  BY <1>2, <1>6 DEF IInv, Types, ComputeTypes
<1> QED BY <1>1, <1>2, <1>3, <1>4, <1>5, <1>6, <1>7 DEF Suspended, PhaseKept

\* Other tasks with a slot sleep, and no step inside t's quantum reaches them.
LEMMA OthersSleep ==
    ASSUME IInv, NEW l \in Lanes, lane[l].pc = "run", NEW t, t = lane[l].task,
           \A u \in Tasks \ {t} : Aside(u) /\ (Runs(u)' <=> Runs(u))
    PROVE  \A u \in Tasks \ {t} : token[u] # 0 =>
              SameFor(u) /\ at[u] = "complete" /\ state[u] = "ExternalBlocked"
<1> SUFFICES ASSUME NEW u \in Tasks \ {t}, token[u] # 0
             PROVE  SameFor(u) /\ at[u] = "complete" /\ state[u] = "ExternalBlocked"
  OBVIOUS
<1>1. ~Runs(u)
  BY InQuantum
<1>2. TokenKept(u) /\ Rests(u)
  BY Sizes DEF IInv, Slotted, Placed, PlacedOn
<1>3. at[u] = "complete" /\ state[u] = "ExternalBlocked"
  BY <1>1, <1>2 DEF TokenKept, Rests, Admission
<1> QED BY <1>3 DEF SameFor, SameTask, Aside

\* The queues when nobody waits and nobody is ready anew.
LEMMA QueuedStays ==
    ASSUME Queued, UNCHANGED <<ready, joinWaits>>,
           \A u \in Tasks : /\ state'[u] = "Ready" <=> state[u] = "Ready"
                            /\ state'[u] = "JoinBlocked" <=> state[u] = "JoinBlocked"
    PROVE  Queued'
<1>1. InState("Ready")' = InState("Ready") /\ InState("JoinBlocked")' = InState("JoinBlocked")
  BY DEF InState
<1> QED BY <1>1 DEF Queued, Once

LEMMA FinishesKeeps ==
    ASSUME IInv, NEW l \in Lanes, Finishes(l)
    PROVE  IInv'
<1>1. PICK t : t = lane[l].task
  OBVIOUS
<1>2. /\ lane[l].pc = "run" /\ t \in Tasks /\ at[t] = "next" /\ token[t] = 0
      /\ state[t] \in {"Running", "Failed"}
      /\ phase[t] = Pending /\ pass[t] = 0 /\ device[t] = "idle"
      /\ ~Waked(t) /\ ~Suspended(t)
      /\ Computes(t) => state[t] = "Running"
  BY <1>1, BetweenAwaits DEF Finishes
<1>3. /\ UNCHANGED <<script, wakeTicket, step, token, consumed, tickets,
                     laneStop, inFlight, compute, pool, stop, io, rootVars>>
      /\ lane' = [lane EXCEPT ![l].pc = "finish"] /\ at' = [at EXCEPT ![t] = "end"]
      /\ WakeJoinWaiters(t)
  BY <1>1 DEF Finishes, Suspends
<1>4. PICK w \in BOOLEAN : w <=> t = JoinTarget
  OBVIOUS
<1>5. state' = [v \in Tasks |->
          CASE v = t -> IF state[t] = "Failed" THEN "Failed" ELSE "Completed"
            [] v # t /\ t = JoinTarget /\ state[v] = "JoinBlocked" -> "Ready"
            [] OTHER -> state[v]]
  BY <1>1 DEF Finishes
<1>6. /\ state'[t] = IF state[t] = "Failed" THEN "Failed" ELSE "Completed"
      /\ \A u \in Tasks \ {t} :
            state'[u] = IF w /\ state[u] = "JoinBlocked" THEN "Ready" ELSE state[u]
      /\ state' \in [Tasks -> {"Ready", "Running", "JoinBlocked",
                               "ExternalBlocked"} \cup Terminal]
  <2>1. state \in [Tasks -> {"Ready", "Running", "JoinBlocked",
                             "ExternalBlocked"} \cup Terminal]
    BY DEF IInv, Types, TaskTypes
  <2>2. state'[t] = IF state[t] = "Failed" THEN "Failed" ELSE "Completed"
    BY <1>2, <1>5
  <2>3. \A u \in Tasks \ {t} :
            state'[u] = IF w /\ state[u] = "JoinBlocked" THEN "Ready" ELSE state[u]
    BY <1>2, <1>4, <1>5
  <2>4. \A u \in Tasks : state'[u] \in {"Ready", "Running", "JoinBlocked",
                                        "ExternalBlocked"} \cup Terminal
    BY <2>1, <2>2, <2>3 DEF Terminal
  <2>5. state' = [u \in Tasks |-> state'[u]]
    BY <1>5
  <2> QED BY <2>2, <2>3, <2>4, <2>5
<1>7. /\ at'[t] = "end" /\ \A u \in Tasks \ {t} : at'[u] = at[u]
      /\ at' \in [Tasks -> {"next", "submitted", "park", "count", "commit",
                            "queue", "complete", "reset", "end"}]
  BY <1>2, <1>3 DEF IInv, Types, TaskTypes
<1>8. \A u \in Tasks \ {t} : Aside(u)
  BY <1>3, <1>6, <1>7 DEF Aside
<1>9. /\ lane' \in [Lanes -> LaneRec]
      /\ \A m \in Lanes : SameLists(m) /\ SameWork(m)
      /\ \A m \in Lanes \ {l} : lane'[m].pc = lane[m].pc
      /\ lane'[l].pc = "finish"
  <2>1. PICK ends \in BOOLEAN : ends = TRUE
    OBVIOUS
  <2>2. lane' = IF ends THEN [lane EXCEPT ![l].pc = "finish"] ELSE lane
    BY <1>3, <2>1
  <2>3. /\ lane' \in [Lanes -> LaneRec]
        /\ \A m \in Lanes : SameLists(m) /\ SameWork(m)
        /\ \A m \in Lanes \ {l} : lane'[m].pc = lane[m].pc
        /\ lane'[l].pc = IF ends THEN "finish" ELSE "run"
    BY <1>2, <2>2, QuantumFrame DEF IInv
  <2> QED BY <2>1, <2>3
<1>10. /\ ready \in Seq(Tasks) /\ joinWaits \in Seq(Tasks) /\ epoch \in Nat
       /\ consumed \in 0..epoch
  BY DEF IInv, Types, ReadyTypes
<1>11. /\ ready' \in Seq(Tasks) /\ joinWaits' \in Seq(Tasks) /\ epoch' \in Nat
       /\ consumed' \in 0..epoch' /\ Queued'
  <2>1. /\ Once(ready, InState("Ready")) /\ Once(joinWaits, InState("JoinBlocked"))
    BY DEF IInv, Queued
  <2>2. CASE w
    <3>1. ready' = ready \o joinWaits /\ joinWaits' = <<>> /\ epoch' = epoch + Len(joinWaits)
      BY <1>3, <1>4, <2>2 DEF WakeJoinWaiters
    <3>2. /\ ready \o joinWaits \in Seq(Tasks)
          /\ Range(ready \o joinWaits) = Range(ready) \cup Range(joinWaits)
          /\ IsInjective(ready) /\ IsInjective(joinWaits) /\ Range(ready) \cap Range(joinWaits) = {}
                => IsInjective(ready \o joinWaits)
      BY <1>10, ConcatOnce
    <3>3. /\ InState("Ready") \cap InState("JoinBlocked") = {}
          /\ InState("Ready")' = InState("Ready") \cup InState("JoinBlocked")
          /\ InState("JoinBlocked")' = {}
      BY <1>2, <1>6, <2>2 DEF InState
    <3>4. Once(ready, InState("Ready"))'
      BY <2>1, <3>1, <3>2, <3>3 DEF Once
    <3>5. Once(<<>>, {})
      BY DEF Once, IsInjective, Range
    <3>6. Len(joinWaits) \in Nat
      BY <1>10
    <3>7. Once(joinWaits, InState("JoinBlocked"))'
      BY <3>1, <3>3, <3>5 DEF Once
    <3>8. Queued'
      BY <3>4, <3>7 DEF Queued
    <3>9. epoch' \in Nat /\ consumed' \in 0..epoch'
      BY <1>3, <1>10, <3>1, <3>6
    <3> QED BY <3>1, <3>2, <3>8, <3>9
  <2>3. CASE ~w
    <3>1. UNCHANGED <<ready, joinWaits, epoch>>
      BY <1>3, <1>4, <2>3 DEF WakeJoinWaiters
    <3>2. \A u \in Tasks : /\ state'[u] = "Ready" <=> state[u] = "Ready"
                           /\ state'[u] = "JoinBlocked" <=> state[u] = "JoinBlocked"
      BY <1>2, <1>6, <2>3
    <3> QED BY <1>3, <1>10, <3>1, <3>2, QueuedStays DEF IInv
  <2> QED BY <2>2, <2>3
<1>12. Types'
  <2>1. TaskTypes'
    BY <1>3, <1>6, <1>7 DEF IInv, Types, TaskTypes
  <2>2. ReadyTypes' /\ LaneTypes'
    BY <1>3, <1>9, <1>11 DEF IInv, Types, ReadyTypes, LaneTypes, tickets
  <2>3. ComputeTypes' /\ PoolTypes' /\ RootTypes'
    BY <1>3 DEF IInv, Types, ComputeTypes, PoolTypes, RootTypes, compute, pool, rootVars
  <2> QED BY <2>1, <2>2, <2>3 DEF Types
<1>13. EndPlace(t)' /\ ~Suspended(t)'
  BY <1>2, <1>6, <1>7 DEF EndPlace, Suspended, Terminal
<1>14. /\ Placed' /\ Tickets' /\ Rooted' /\ DirectFrames' = DirectFrames
       /\ \A u \in Tasks \ {t} : (Runs(u)' <=> Runs(u)) /\ (Parks(u)' <=> Parks(u))
       /\ Parks(t)' <=> Suspended(t)'
       /\ Parks(t) <=> Suspended(t)
  BY <1>1, <1>2, <1>3, <1>8, <1>9, <1>12, <1>13, QuantumSteps DEF tickets, rootVars
<1>15. Slotted'
  <2>1. \A u \in Tasks \ {t} : token[u] # 0 => SameFor(u)
    BY <1>1, <1>2, <1>8, <1>14, OthersSleep
  <2>2. \A u \in Tasks : token[u] = 0 => at'[u] \notin {"queue", "complete"}
    BY <1>7 DEF IInv, Slotted, TokenKept
  <2> QED BY <1>2, <1>3, <2>1, <2>2, SlottedStays DEF IInv, pool
<1>16. Computed'
  <2>1. PhaseKept(t)'
    BY <1>2, <1>3, <1>6, <1>7 DEF PhaseKept, Computes, compute, Pending, Parked, Done
  <2>2. Units(t)' = Units(t)
    BY <1>2, <1>7 DEF Units
  <2> QED BY <1>2, <1>3, <1>8, <1>9, <2>1, <2>2, ComputedAround DEF IInv, compute
<1>17. Counted'
  <2>1. ParkedTasks' = ParkedTasks
    BY <1>2, <1>13, <1>14 DEF ParkedTasks
  <2> QED BY <1>3, <1>14, <2>1, FlightsStay, PoolCountsStay DEF IInv, Counted, pool
<1> QED BY <1>11, <1>12, <1>14, <1>15, <1>16, <1>17 DEF IInv

\* A running coroutine gives its lane up between two awaits, or goes on.
LEMMA PauseKeeps ==
    ASSUME IInv, NEW l \in Lanes, At(l, "next"), NEW t, t = lane[l].task,
           NEW ends \in BOOLEAN, ends => state[t] = "Running",
           NEW s \in {"Ready", "JoinBlocked"},
           lane' = IF ends THEN [lane EXCEPT ![l].pc = "finish"] ELSE lane,
           state' = IF ends THEN [state EXCEPT ![t] = s] ELSE state,
           step' = [step EXCEPT ![t] = step[t] + 1],
           ready' \in Seq(Tasks), joinWaits' \in Seq(Tasks), Queued',
           UNCHANGED <<script, wakeTicket, at, token, epoch, consumed, tickets, laneStop,
                       inFlight, compute, pool, stop, io, rootVars>>
    PROVE  IInv'
<1>2. /\ lane[l].pc = "run" /\ t \in Tasks /\ at[t] = "next" /\ token[t] = 0
      /\ state[t] \in {"Running", "Failed"}
      /\ phase[t] = Pending /\ pass[t] = 0 /\ device[t] = "idle"
      /\ ~Waked(t) /\ ~Suspended(t)
      /\ Computes(t) => state[t] = "Running"
  BY BetweenAwaits
<1>3. /\ state'[t] = IF ends THEN s ELSE state[t]
      /\ \A u \in Tasks \ {t} : state'[u] = state[u]
      /\ state' \in [Tasks -> {"Ready", "Running", "JoinBlocked",
                               "ExternalBlocked"} \cup Terminal]
  BY <1>2 DEF IInv, Types, TaskTypes
<1>4. step' \in [Tasks -> Nat \ {0}]
  BY <1>2 DEF IInv, Types, TaskTypes
<1>5. \A u \in Tasks \ {t} : Aside(u) /\ SameTask(u)
  BY <1>3 DEF Aside, SameTask
<1>6. /\ lane' \in [Lanes -> LaneRec]
      /\ \A m \in Lanes : SameLists(m) /\ SameWork(m)
      /\ \A m \in Lanes \ {l} : lane'[m].pc = lane[m].pc
      /\ lane'[l].pc = IF ends THEN "finish" ELSE "run"
  BY <1>2, QuantumFrame DEF IInv
<1>7. Types'
  <2>1. TaskTypes'
    BY <1>3, <1>4 DEF IInv, Types, TaskTypes
  <2>2. ReadyTypes' /\ LaneTypes'
    BY <1>6 DEF IInv, Types, ReadyTypes, LaneTypes, tickets
  <2>3. ComputeTypes' /\ PoolTypes' /\ RootTypes'
    BY DEF IInv, Types, ComputeTypes, PoolTypes, RootTypes, compute, pool, rootVars
  <2> QED BY <2>1, <2>2, <2>3 DEF Types
<1>8. /\ lane'[l].pc = "run" => RunPlace(t)'
      /\ lane'[l].pc = "finish" => EndPlace(t)'
      /\ ~Suspended(t)'
  BY <1>2, <1>3, <1>6 DEF RunPlace, EndPlace, Suspended, Terminal
<1>9. /\ Placed' /\ Tickets' /\ Rooted' /\ DirectFrames' = DirectFrames
      /\ \A u \in Tasks \ {t} : (Runs(u)' <=> Runs(u)) /\ (Parks(u)' <=> Parks(u))
      /\ Parks(t)' <=> Suspended(t)'
      /\ Parks(t) <=> Suspended(t)
  BY <1>2, <1>5, <1>6, <1>7, <1>8, QuantumSteps DEF tickets, rootVars
<1>10. Slotted'
  <2>1. \A u \in Tasks \ {t} : token[u] # 0 => SameFor(u)
    BY <1>5, <1>9 DEF SameFor
  <2>2. \A u \in Tasks : token[u] = 0 => at'[u] \notin {"queue", "complete"}
    BY DEF IInv, Slotted, TokenKept
  <2> QED BY <1>2, <2>1, <2>2, SlottedStays DEF IInv, pool
<1>11. Computed'
  <2>1. PhaseKept(t)'
    BY <1>2, <1>3 DEF PhaseKept, Computes, compute, Pending, Parked, Done
  <2>2. Units(t)' = Units(t)
    BY DEF Units
  <2> QED BY <1>2, <1>5, <1>6, <2>1, <2>2, ComputedAround DEF IInv, compute
<1>12. Counted'
  <2>1. ParkedTasks' = ParkedTasks
    BY <1>2, <1>8, <1>9 DEF ParkedTasks
  <2> QED BY <1>9, <2>1, FlightsStay, PoolCountsStay DEF IInv, Counted, pool
<1> QED BY <1>7, <1>9, <1>10, <1>11, <1>12 DEF IInv

\* The queue of state s gets task t.
LEMMA OnceMore ==
    ASSUME NEW q \in Seq(Tasks), NEW t \in Tasks, NEW s, Once(q, InState(s)),
           state[t] # s, state'[t] = s, \A u \in Tasks \ {t} : state'[u] = state[u]
    PROVE  Append(q, t) \in Seq(Tasks) /\ Once(Append(q, t), InState(s)')
<1>1. InState(s)' = InState(s) \cup {t} /\ t \notin InState(s)
  BY DEF InState
<1>2. /\ Append(q, t) \in Seq(Tasks)
      /\ Range(Append(q, t)) = Range(q) \cup {t}
      /\ IsInjective(q) /\ t \notin Range(q) => IsInjective(Append(q, t))
  BY AppendOnce
<1> QED BY <1>1, <1>2 DEF Once

LEMMA YieldsKeeps ==
    ASSUME IInv, NEW l \in Lanes, Yields(l)
    PROVE  IInv'
<1>1. PICK t : t = lane[l].task
  OBVIOUS
<1>2. At(l, "next") /\ t \in Tasks
  BY <1>1, BetweenAwaits DEF Yields
<1>3. PICK ends \in BOOLEAN : ends <=> (state[t] = "Running")
  OBVIOUS
<1>4. /\ lane' = IF ends THEN [lane EXCEPT ![l].pc = "finish"] ELSE lane
      /\ state' = IF ends THEN [state EXCEPT ![t] = "Ready"] ELSE state
      /\ ready' = IF ends THEN Append(ready, t) ELSE ready
      /\ step' = [step EXCEPT ![t] = step[t] + 1]
      /\ UNCHANGED <<script, wakeTicket, at, token, epoch, consumed, joinWaits, tickets,
                     laneStop, inFlight, compute, pool, stop, io, rootVars>>
  <2>1. CASE ends
    BY <1>1, <1>3, <2>1 DEF Yields
  <2>2. CASE ~ends
    BY <1>1, <1>3, <2>2 DEF Yields
  <2> QED BY <2>1, <2>2
<1>5. ready' \in Seq(Tasks) /\ joinWaits' \in Seq(Tasks) /\ Queued'
  <2>1. /\ ready \in Seq(Tasks) /\ joinWaits \in Seq(Tasks)
        /\ Once(ready, InState("Ready")) /\ Once(joinWaits, InState("JoinBlocked"))
        /\ state \in [Tasks -> {"Ready", "Running", "JoinBlocked",
                                "ExternalBlocked"} \cup Terminal]
    BY DEF IInv, Types, ReadyTypes, TaskTypes, Queued
  <2>2. CASE ends
    <3>1. state'[t] = "Ready" /\ state[t] = "Running"
          /\ \A u \in Tasks \ {t} : state'[u] = state[u]
      BY <1>2, <1>3, <1>4, <2>1, <2>2
    <3>2. Append(ready, t) \in Seq(Tasks) /\ Once(Append(ready, t), InState("Ready")')
      BY <1>2, <2>1, <3>1, OnceMore
    <3>3. InState("JoinBlocked")' = InState("JoinBlocked")
      BY <3>1 DEF InState
    <3> QED BY <1>4, <2>1, <2>2, <3>2, <3>3 DEF Queued, Once
  <2>3. CASE ~ends
    BY <1>4, <2>1, <2>3, QueuedStays DEF IInv
  <2> QED BY <2>2, <2>3
<1>6. "Ready" \in {"Ready", "JoinBlocked"}
  OBVIOUS
<1> QED BY <1>1, <1>2, <1>3, <1>4, <1>5, <1>6, PauseKeeps

LEMMA JoinsKeeps ==
    ASSUME IInv, NEW l \in Lanes, Joins(l)
    PROVE  IInv'
<1>1. PICK t : t = lane[l].task
  OBVIOUS
<1>2. At(l, "next") /\ t \in Tasks
  BY <1>1, BetweenAwaits DEF Joins
<1>3. PICK ends \in BOOLEAN :
         ends <=> state[t] = "Running" /\ state[JoinTarget] \notin Terminal
  OBVIOUS
<1>4. /\ lane' = IF ends THEN [lane EXCEPT ![l].pc = "finish"] ELSE lane
      /\ state' = IF ends THEN [state EXCEPT ![t] = "JoinBlocked"] ELSE state
      /\ joinWaits' = IF ends THEN Append(joinWaits, t) ELSE joinWaits
      /\ step' = [step EXCEPT ![t] = step[t] + 1]
      /\ UNCHANGED <<script, wakeTicket, at, token, ready, epoch, consumed, tickets,
                     laneStop, inFlight, compute, pool, stop, io, rootVars>>
  <2>1. CASE ends
    BY <1>1, <1>3, <2>1 DEF Joins
  <2>2. CASE ~ends
    BY <1>1, <1>3, <2>2 DEF Joins
  <2> QED BY <2>1, <2>2
<1>5. ready' \in Seq(Tasks) /\ joinWaits' \in Seq(Tasks) /\ Queued'
  <2>1. /\ ready \in Seq(Tasks) /\ joinWaits \in Seq(Tasks)
        /\ Once(ready, InState("Ready")) /\ Once(joinWaits, InState("JoinBlocked"))
        /\ state \in [Tasks -> {"Ready", "Running", "JoinBlocked",
                                "ExternalBlocked"} \cup Terminal]
    BY DEF IInv, Types, ReadyTypes, TaskTypes, Queued
  <2>2. CASE ends
    <3>1. state'[t] = "JoinBlocked" /\ state[t] = "Running"
          /\ \A u \in Tasks \ {t} : state'[u] = state[u]
      BY <1>2, <1>3, <1>4, <2>1, <2>2
    <3>2. /\ Append(joinWaits, t) \in Seq(Tasks)
          /\ Once(Append(joinWaits, t), InState("JoinBlocked")')
      BY <1>2, <2>1, <3>1, OnceMore
    <3>3. InState("Ready")' = InState("Ready")
      BY <3>1 DEF InState
    <3> QED BY <1>4, <2>1, <2>2, <3>2, <3>3 DEF Queued, Once
  <2>3. CASE ~ends
    BY <1>4, <2>1, <2>3, QueuedStays DEF IInv
  <2> QED BY <2>2, <2>3
<1>6. "JoinBlocked" \in {"Ready", "JoinBlocked"} /\ (ends => state[t] = "Running")
  BY <1>3
<1> QED BY <1>1, <1>2, <1>4, <1>5, <1>6, PauseKeeps

LEMMA QuantumRuns ==
    ASSUME IInv, NEW l \in Lanes, NEW t, t = lane[l].task, lane[l].pc = "run",
           \A m \in Lanes : SameLists(m),
           \A m \in Lanes \ {l} : lane'[m].pc = lane[m].pc,
           lane'[l].pc \in {"run", "finish"}
    PROVE  /\ \A u \in Tasks \ {t} : Runs(u)' <=> Runs(u)
           /\ Runs(t)' <=> lane'[l].pc = "run"
<1>1. t \in Tasks /\ Home(t) = l
  BY InQuantum
<1>2. ASSUME NEW u \in Tasks \ {t} PROVE Runs(u)' <=> Runs(u)
  <2>1. Home(u) \in Lanes /\ SameLists(Home(u))
    BY Sizes
  <2>2. CASE Home(u) = l
    BY <1>1, <2>1, <2>2 DEF Runs, SameLists
  <2>3. CASE Home(u) # l
    BY <2>1, <2>3 DEF Runs, SameLists
  <2> QED BY <2>2, <2>3
<1>3. Runs(t)' <=> lane'[l].pc = "run"
  BY <1>1 DEF Runs, SameLists
<1> QED BY <1>2, <1>3

\* What t counts as a job in flight.
Flights(t) == IF Suspended(t) THEN 1 ELSE 0

\* A step inside an await of t.
LEMMA AwaitStep ==
    ASSUME IInv, Types', NEW l \in Lanes, NEW t, t = lane[l].task, lane[l].pc = "run",
           UNCHANGED <<wakeTicket, ready, joinWaits, toIssue, next, laneStop, stop,
                       root, collects>>,
           \A u \in Tasks \ {t} : SameTask(u),
           \A m \in Lanes : SameLists(m),
           \A m \in Lanes \ {l} : lane'[m].pc = lane[m].pc,
           lane'[l].pc \in {"run", "finish"},
           lane'[l].pc = "run" => RunPlace(t)',
           lane'[l].pc = "finish" => EndPlace(t)',
           state'[t] \in {"Running", "Failed", "ExternalBlocked"},
           inFlight' = inFlight + Flights(t)' - Flights(t),
           Slotted', Computed', BytesCounted', AdmissionsCounted'
    PROVE  IInv'
<1>1. \A u \in Tasks \ {t} : Aside(u)
  BY DEF SameTask, Aside
<1>2. /\ Placed' /\ Tickets' /\ Rooted' /\ DirectFrames' = DirectFrames
      /\ \A u \in Tasks \ {t} : Parks(u)' <=> Parks(u)
      /\ Parks(t)' <=> Suspended(t)'
      /\ Parks(t) <=> Suspended(t)
  BY <1>1, QuantumSteps
<1>3. t \in Tasks /\ Framed(l)
  BY InQuantum DEF IInv, Placed, PlacedOn
<1>4. state[t] \in {"Running", "Failed", "ExternalBlocked"}
  BY <1>3 DEF Framed
<1>5. Queued'
  <2>1. \A u \in Tasks : /\ state'[u] = "Ready" <=> state[u] = "Ready"
                         /\ state'[u] = "JoinBlocked" <=> state[u] = "JoinBlocked"
    BY <1>4 DEF SameTask
  <2> QED BY <2>1, QueuedStays DEF IInv
<1>6. FlightsCounted'
  <2>0. FlightsCounted /\ inFlight \in Nat
    BY DEF IInv, Counted, Types, LaneTypes
  <2>1. CASE Suspended(t)' <=> Suspended(t)
    <3>1. ParkedTasks' = ParkedTasks
      BY <1>2, <2>1 DEF ParkedTasks
    <3>2. inFlight' = inFlight
      BY <2>0, <2>1 DEF Flights
    <3> QED BY <1>2, <2>0, <3>1, <3>2, FlightsStay
  <2>2. CASE Suspended(t)' /\ ~Suspended(t)
    <3>1. t \notin ParkedTasks /\ ParkedTasks' = ParkedTasks \cup {t}
      BY <1>2, <1>3, <2>2 DEF ParkedTasks
    <3>2. inFlight' = inFlight + 1
      BY <2>0, <2>2 DEF Flights
    <3> QED BY <1>2, <2>0, <3>1, <3>2, FlightParks
  <2>3. CASE ~Suspended(t)' /\ Suspended(t)
    <3>1. t \in ParkedTasks /\ ParkedTasks' = ParkedTasks \ {t}
      BY <1>2, <1>3, <2>3 DEF ParkedTasks
    <3>2. inFlight' = inFlight - 1
      BY <2>0, <2>3 DEF Flights
    <3> QED BY <1>2, <2>0, <3>1, <3>2, FlightUnparks
  <2> QED BY <2>1, <2>2, <2>3
<1> QED BY <1>2, <1>5, <1>6 DEF IInv, Counted

\* The pool in a step of a coroutine that holds no slot.
LEMMA PoolRests ==
    ASSUME IInv, NEW l \in Lanes, NEW t, t = lane[l].task, lane[l].pc = "run", token[t] = 0,
           UNCHANGED <<script, token, pool, io>>,
           \A u \in Tasks \ {t} : SameTask(u),
           \A m \in Lanes : SameLists(m),
           \A m \in Lanes \ {l} : lane'[m].pc = lane[m].pc,
           lane'[l].pc \in {"run", "finish"},
           at'[t] \notin {"queue", "complete"}
    PROVE  Slotted' /\ BytesCounted' /\ AdmissionsCounted'
<1>1. \A u \in Tasks \ {t} : Runs(u)' <=> Runs(u)
  BY QuantumRuns
<1>2. \A u \in Tasks : token[u] # 0 => SameFor(u)
  BY <1>1 DEF SameFor
<1>3. \A u \in Tasks : token[u] = 0 => at'[u] \notin {"queue", "complete"}
  BY DEF IInv, Slotted, TokenKept, SameTask
<1> QED BY <1>2, <1>3, SlottedStays, PoolCountsStay DEF IInv, Counted, pool

LEMMA SubmitsKeeps ==
    ASSUME IInv, NEW l \in Lanes, Submits(l)
    PROVE  IInv'
<1>1. PICK t : t = lane[l].task
  OBVIOUS
<1>2. /\ lane[l].pc = "run" /\ t \in Tasks /\ at[t] = "next" /\ token[t] = 0
      /\ state[t] \in {"Running", "Failed"}
      /\ phase[t] = Pending /\ pass[t] = 0 /\ device[t] = "idle"
      /\ ~Waked(t) /\ ~Suspended(t)
      /\ Computes(t) => state[t] = "Running"
  BY <1>1, BetweenAwaits DEF Submits
<1>3. Computes(t) /\ state[t] = "Running"
  BY <1>1, <1>2, OpKinds DEF Submits, IInv, Types, ComputeOps
<1>4. UNCHANGED <<script, state, wakeTicket, step, token, readyVars, tickets, laneStop,
                  inFlight, phase, pool, stop, io, rootVars>>
  BY DEF Submits
<1>5. PICK place \in {"submitted", "park"} :
         /\ at' = [at EXCEPT ![t] = place]
         /\ (place = "submitted") <=> (Op(t) = "cpu")
  BY <1>1 DEF Submits
<1>6. /\ at'[t] = place /\ \A u \in Tasks \ {t} : at'[u] = at[u] /\ SameTask(u)
      /\ at' \in [Tasks -> {"next", "submitted", "park", "count", "commit",
                            "queue", "complete", "reset", "end"}]
  BY <1>2, <1>4, <1>5 DEF IInv, Types, TaskTypes, SameTask
<1>7. /\ lane \in [Lanes -> LaneRec] /\ pass \in [Tasks -> Nat] /\ phase \in [Tasks -> 0..3]
      /\ device \in [Tasks -> {"idle", "busy", "wake"}]
      /\ LaneCount \in Nat
  BY SizeAssumption DEF IInv, Types, LaneTypes, ComputeTypes
<1>8. RunPlace(t)' /\ ~Suspended(t)'
  BY <1>3, <1>4, <1>6 DEF RunPlace, Suspended
<1>9. TaskTypes' /\ ReadyTypes' /\ PoolTypes' /\ RootTypes'
  BY <1>4, <1>6 DEF IInv, Types, TaskTypes, ReadyTypes, PoolTypes, RootTypes,
     readyVars, pool, rootVars
<1>10. Flights(t)' = 0 /\ Flights(t) = 0
  BY <1>2, <1>8 DEF Flights
<1>11. ASSUME Types', \A m \in Lanes : SameLists(m),
              \A m \in Lanes : lane'[m].pc = lane[m].pc, Computed'
       PROVE  IInv'
  <2>1. Slotted' /\ BytesCounted' /\ AdmissionsCounted'
    BY <1>1, <1>2, <1>4, <1>6, <1>11, PoolRests
  <2>2. inFlight' = inFlight + Flights(t)' - Flights(t)
    BY <1>4, <1>10 DEF IInv, Types, LaneTypes
  <2> QED BY <1>1, <1>2, <1>3, <1>4, <1>6, <1>8, <1>11, <2>1, <2>2, AwaitStep
          DEF readyVars, tickets, rootVars
<1>12. CASE place = "park"
  <2>1. device' = [device EXCEPT ![t] = "busy"] /\ UNCHANGED <<pass, lane>>
    BY <1>1, <1>5, <1>12 DEF Submits
  <2>2. Types'
    BY <1>4, <1>7, <1>9, <2>1 DEF IInv, Types, LaneTypes, ComputeTypes, tickets
  <2>3. \A m \in Lanes : SameLists(m) /\ SameWork(m) /\ lane'[m].pc = lane[m].pc
    BY <2>1 DEF SameLists, SameWork
  <2>4. device'[t] = "busy" /\ \A u \in Tasks \ {t} : device'[u] = device[u]
    BY <1>2, <1>7, <2>1
  <2>5. PhaseKept(t)'
    BY <1>2, <1>3, <1>4, <1>6, <1>12, <2>1, <2>4
       DEF PhaseKept, Computes, Pending, Parking, Parked, Done
  <2>6. \A u \in Tasks \ {t} :
              /\ SameTask(u) /\ token'[u] = token[u] /\ phase'[u] = phase[u]
              /\ pass'[u] = pass[u] /\ device'[u] = device[u]
    BY <1>4, <1>6, <2>1, <2>4
  <2>7. pass'[t] - Units(t)' = pass[t] - Units(t) /\ pass'[t] \in Int
    BY <1>2, <1>6, <1>12, <2>1 DEF Units
  <2>8. Computed'
    BY <1>2, <1>4, <2>3, <2>4, <2>5, <2>6, <2>7, ComputedOf DEF IInv
  <2> QED BY <1>11, <2>2, <2>3, <2>8
<1>13. CASE place = "submitted"
  <2>1. /\ pass' = [pass EXCEPT ![t] = LaneCount + 1] /\ UNCHANGED device
        /\ lane' = [m \in Lanes |-> [lane[m] EXCEPT !.work = Append(lane[m].work, t)]]
    BY <1>1, <1>5, <1>13 DEF Submits
  <2>2. WorkLanes(t) = {}
    <3>1. pass[t] = Cardinality(WorkLanes(t)) + Units(t) /\ Units(t) = 0
      BY <1>2 DEF IInv, Computed, Passes, Units
    <3>2. IsFiniteSet(WorkLanes(t))
      BY Finite, FS_Subset DEF WorkLanes
    <3>3. Cardinality(WorkLanes(t)) = 0
      BY <1>2, <3>1, <3>2, FS_CardinalityType
    <3> QED BY <3>2, <3>3, FS_EmptySet
  <2>3. ASSUME NEW m \in Lanes
        PROVE  /\ lane'[m] \in LaneRec /\ SameLists(m) /\ lane'[m].pc = lane[m].pc
               /\ WorkKept(m)' /\ lane'[m].task = lane[m].task
               /\ \A u : OnLane(u, m)' <=> (OnLane(u, m) \/ u = t)
    <3>1. PICK n \in LaneRec : n = lane[m]
      BY <1>7
    <3>2. PICK q : q = Append(n.work, t)
      OBVIOUS
    <3>3. n.work \in Seq(Tasks)
      BY DEF LaneRec
    <3>4. /\ q \in Seq(Tasks) /\ Range(q) = Range(n.work) \cup {t}
          /\ IsInjective(n.work) /\ t \notin Range(n.work) => IsInjective(q)
      BY <1>2, <3>2, <3>3, AppendOnce
    <3>5. PICK k : k = [n EXCEPT !.work = q]
      OBVIOUS
    <3>6. /\ k \in LaneRec /\ k.pc = n.pc /\ k.task = n.task /\ k.ticket = n.ticket
          /\ k.kind = n.kind /\ k.job = n.job /\ k.jobTicket = n.jobTicket
          /\ k.ext = n.ext /\ k.direct = n.direct /\ k.mail = n.mail
          /\ k.work = q /\ k.done = n.done
      BY <3>4, <3>5 DEF LaneRec
    <3>7. lane'[m] = k
      BY <2>1, <3>1, <3>2, <3>5
    <3>8. ~OnLane(t, m) /\ WorkKept(m)
      BY <2>2 DEF WorkLanes, IInv, Computed
    <3>9. WorkKept(m)'
      BY <3>1, <3>4, <3>6, <3>7, <3>8 DEF WorkKept, OnLane
    <3>10. \A u : OnLane(u, m)' <=> (OnLane(u, m) \/ u = t)
      BY <3>1, <3>4, <3>6, <3>7 DEF OnLane
    <3>11. SameLists(m)
      BY <3>1, <3>6, <3>7 DEF SameLists
    <3> QED BY <3>1, <3>6, <3>7, <3>9, <3>10, <3>11
  <2>4. /\ pass'[t] = LaneCount + 1 /\ \A u \in Tasks \ {t} : pass'[u] = pass[u]
        /\ pass' \in [Tasks -> Nat]
    BY <1>2, <1>7, <2>1
  <2>5. Types'
    <3>1. lane' \in [Lanes -> LaneRec]
      BY <2>1, <2>3
    <3> QED BY <1>4, <1>7, <1>9, <2>1, <2>4, <3>1 DEF IInv, Types, LaneTypes, ComputeTypes, tickets
  <2>6. PhaseKept(t)'
    BY <1>2, <1>3, <1>4, <1>6, <1>13, <2>1, <2>4
       DEF PhaseKept, Computes, Pending, Parking, Parked, Done
  <2>7. \A u \in Tasks \ {t} : PhaseKept(u)'
    BY <1>4, <1>6, <2>1, <2>4 DEF IInv, Computed, PhaseKept, Computes, SameTask
  <2>8. Wakers'
    <3>1. Wakers
      BY DEF IInv, Computed
    <3>2. \A u \in Tasks : Waked(u) => Waked(u)'
      BY <1>2, <1>4, <1>6 DEF Waked, SameTask
    <3>3. \A m \in Lanes : lane'[m].pc = "wake" =>
             /\ lane[m].pc = "wake" /\ lane'[m].task = lane[m].task
             /\ lane[m].task \in Tasks /\ Waked(lane[m].task)
             /\ device[lane[m].task] # "wake"
      BY <2>3, <3>1 DEF Wakers, Waked
    <3>4. ASSUME NEW m \in Lanes, lane'[m].pc = "wake"
          PROVE  (Waked(lane[m].task) /\ device[lane[m].task] # "wake")'
      <4>1. PICK u : u = lane[m].task
        OBVIOUS
      <4>2. u \in Tasks /\ Waked(u) /\ device[u] # "wake" /\ lane'[m].task = u
        BY <3>3, <3>4, <4>1
      <4>3. Waked(u)' /\ device'[u] # "wake"
        BY <2>1, <3>2, <4>2
      <4> QED BY <4>2, <4>3 DEF Waked
    <3>5. \A i, m \in Lanes :
            /\ lane'[i].pc = "wake" /\ lane'[m].pc = "wake"
            /\ lane'[i].task = lane'[m].task
            => i = m
      BY <3>1, <3>3 DEF Wakers
    <3> QED BY <2>1, <3>1, <3>2, <3>4, <3>5 DEF Wakers
  <2>9. ASSUME NEW u \in Tasks PROVE pass'[u] = Cardinality(WorkLanes(u))' + Units(u)'
    <3>1. CASE u = t
      <4>1. WorkLanes(t)' = Lanes
        BY <2>3 DEF WorkLanes
      <4>2. Units(t)' = 1
        BY <1>6, <1>13 DEF Units
      <4> QED BY <2>4, <3>1, <4>1, <4>2, Finite
    <3>2. CASE u # t
      <4>1. WorkLanes(u)' = WorkLanes(u)
        BY <2>3, <3>2 DEF WorkLanes
      <4>2. Units(u)' = Units(u)
        BY <1>6, <3>2 DEF Units
      <4> QED BY <2>4, <3>2, <4>1, <4>2 DEF IInv, Computed, Passes
    <3> QED BY <3>1, <3>2
  <2>10. Computed'
    BY <2>3, <2>6, <2>7, <2>8, <2>9 DEF Computed, Passes
  <2> QED BY <1>11, <2>3, <2>5, <2>10
<1> QED BY <1>12, <1>13

States == {"Ready", "Running", "JoinBlocked", "ExternalBlocked"} \cup Terminal
Places == {"next", "submitted", "park", "count", "commit", "queue", "complete", "reset", "end"}

\* A coordinator that holds no slot goes to another place of its await.
LEMMA CoordinatorStep ==
    ASSUME IInv, NEW l \in Lanes, NEW t, t = lane[l].task, lane[l].pc = "run", token[t] = 0,
           NEW ends \in BOOLEAN,
           lane' = IF ends THEN [lane EXCEPT ![l].pc = "finish"] ELSE lane,
           NEW p \in Places \ {"queue", "complete"}, at' = [at EXCEPT ![t] = p],
           NEW s \in {"Running", "Failed", "ExternalBlocked"}, state' = [state EXCEPT ![t] = s],
           step' \in [Tasks -> Nat \ {0}],
           UNCHANGED <<script, wakeTicket, token, readyVars, tickets, laneStop, pool,
                       stop, io, rootVars>>,
           ComputeTypes',
           \A u \in Tasks \ {t} :
              phase'[u] = phase[u] /\ pass'[u] = pass[u] /\ device'[u] = device[u],
           device'[t] # "wake", PhaseKept(t)',
           pass'[t] - Units(t)' = pass[t] - Units(t),
           inFlight' = inFlight + Flights(t)' - Flights(t), inFlight' \in Nat,
           ends => EndPlace(t)', ~ends => RunPlace(t)'
    PROVE  IInv'
<1>1. t \in Tasks /\ ~Waked(t)
  BY InQuantum
<1>2. /\ at'[t] = p /\ state'[t] = s
      /\ \A u \in Tasks \ {t} : SameTask(u)
      /\ at' \in [Tasks -> Places] /\ state' \in [Tasks -> States]
  <2>1. at \in [Tasks -> Places] /\ state \in [Tasks -> States]
    BY DEF IInv, Types, TaskTypes, Places, States
  <2>2. p \in Places /\ s \in States
    BY DEF States, Terminal
  <2>3. at'[t] = p /\ at' \in [Tasks -> Places] /\ \A u \in Tasks \ {t} : at'[u] = at[u]
    BY <1>1, <2>1, <2>2
  <2>4. state'[t] = s /\ state' \in [Tasks -> States]
        /\ \A u \in Tasks \ {t} : state'[u] = state[u]
    BY <1>1, <2>1, <2>2
  <2> QED BY <2>3, <2>4 DEF SameTask
<1>3. /\ lane' \in [Lanes -> LaneRec]
      /\ \A m \in Lanes : SameLists(m) /\ SameWork(m)
      /\ \A m \in Lanes \ {l} : lane'[m].pc = lane[m].pc
      /\ lane'[l].pc = IF ends THEN "finish" ELSE "run"
  BY QuantumFrame DEF IInv
<1>4. Types'
  <2>1. TaskTypes'
    BY <1>2 DEF IInv, Types, TaskTypes, Places, States
  <2>2. LaneTypes'
    BY <1>3 DEF IInv, Types, LaneTypes, tickets
  <2>3. ReadyTypes' /\ PoolTypes' /\ RootTypes'
    BY DEF IInv, Types, ReadyTypes, PoolTypes, RootTypes, readyVars, pool, rootVars
  <2> QED BY <2>1, <2>2, <2>3 DEF Types
<1>5. lane'[l].pc \in {"run", "finish"} /\ (lane'[l].pc = "run" => RunPlace(t)')
      /\ (lane'[l].pc = "finish" => EndPlace(t)')
  BY <1>3
<1>6. Slotted' /\ BytesCounted' /\ AdmissionsCounted'
  BY <1>2, <1>3, <1>5, PoolRests
<1>7. Computed'
  <2>1. pass'[t] \in Int
    BY <1>1 DEF ComputeTypes
  <2>2. \A u \in Tasks \ {t} :
              /\ SameTask(u) /\ token'[u] = token[u] /\ phase'[u] = phase[u]
              /\ pass'[u] = pass[u] /\ device'[u] = device[u]
    BY <1>2
  <2> QED BY <1>1, <1>3, <2>1, <2>2, ComputedOf DEF IInv
<1> QED BY <1>2, <1>3, <1>4, <1>5, <1>6, <1>7, AwaitStep DEF readyVars, tickets, rootVars

\* A coroutine inside an await without a slot is a coordinator.
LEMMA Awaits ==
    ASSUME IInv, NEW l \in Lanes, lane[l].pc = "run", NEW t, t = lane[l].task
    PROVE  /\ t \in Tasks /\ RunPlace(t) /\ PhaseKept(t) /\ TokenKept(t) /\ device[t] # "wake"
           /\ at[t] \in {"submitted", "reset"} => token[t] = 0
           /\ token[t] = 0 /\ at[t] # "next" => Computes(t) /\ state[t] # "Failed"
           /\ phase[t] \in 0..3 /\ pass[t] \in Nat /\ inFlight \in Nat
           /\ device[t] \in {"idle", "busy", "wake"} /\ step[t] \in Nat \ {0}
           /\ state \in [Tasks -> States] /\ at \in [Tasks -> Places]
           /\ phase \in [Tasks -> 0..3] /\ pass \in [Tasks -> Nat]
           /\ step \in [Tasks -> Nat \ {0}]
<1>1. t \in Tasks /\ ~Waked(t)
  BY InQuantum
<1>2. Framed(l) /\ TokenKept(t) /\ PhaseKept(t) /\ Wakers
  BY <1>1 DEF IInv, Placed, PlacedOn, Slotted, Computed
<1>3. RunPlace(t) /\ device[t] # "wake"
  BY <1>1, <1>2 DEF Framed, RunPlace, Wakers
<1>4. at[t] \in {"submitted", "reset"} => token[t] = 0
  BY <1>2 DEF TokenKept, Admission
<1>5. token[t] = 0 /\ at[t] # "next" => Computes(t) /\ state[t] # "Failed"
  BY <1>2, <1>3 DEF PhaseKept, RunPlace
<1>6. /\ state \in [Tasks -> States] /\ at \in [Tasks -> Places]
      /\ phase \in [Tasks -> 0..3] /\ pass \in [Tasks -> Nat] /\ inFlight \in Nat
      /\ device \in [Tasks -> {"idle", "busy", "wake"}] /\ step \in [Tasks -> Nat \ {0}]
  BY DEF IInv, Types, TaskTypes, LaneTypes, ComputeTypes, States, Places
<1> QED BY <1>1, <1>2, <1>3, <1>4, <1>5, <1>6

LEMMA SubmitReturnsKeeps ==
    ASSUME IInv, NEW l \in Lanes, SubmitReturns(l)
    PROVE  IInv'
<1>1. PICK t : t = lane[l].task
  OBVIOUS
<1>2. lane[l].pc = "run" /\ at[t] = "submitted"
  BY <1>1 DEF SubmitReturns, At
<1>3. /\ t \in Tasks /\ RunPlace(t) /\ PhaseKept(t) /\ device[t] # "wake"
      /\ token[t] = 0 /\ Computes(t) /\ state[t] = "Running"
      /\ phase \in [Tasks -> 0..3] /\ pass \in [Tasks -> Nat] /\ inFlight \in Nat
      /\ step \in [Tasks -> Nat \ {0}] /\ state \in [Tasks -> States]
  <2>1. /\ t \in Tasks /\ RunPlace(t) /\ PhaseKept(t) /\ device[t] # "wake"
        /\ token[t] = 0 /\ Computes(t)
        /\ phase \in [Tasks -> 0..3] /\ pass \in [Tasks -> Nat] /\ inFlight \in Nat
        /\ step \in [Tasks -> Nat \ {0}] /\ state \in [Tasks -> States]
    BY <1>1, <1>2, Awaits
  <2> QED BY <1>2, <2>1 DEF RunPlace
<1>4. /\ pass' = [pass EXCEPT ![t] = pass[t] - 1]
      /\ phase' = IF pass[t] = 1 THEN [phase EXCEPT ![t] = Done] ELSE phase
      /\ at' = [at EXCEPT ![t] = "park"]
      /\ UNCHANGED <<script, state, wakeTicket, step, token, readyVars, tickets, lane,
                     laneStop, inFlight, device, pool, stop, io, rootVars>>
  BY <1>1 DEF SubmitReturns, LastWorker
<1>5. pass[t] \in Nat /\ pass[t] >= 1 /\ Units(t) = 1
  <2>1. pass[t] = Cardinality(WorkLanes(t)) + Units(t)
    BY <1>3 DEF IInv, Computed, Passes
  <2>2. Cardinality(WorkLanes(t)) \in Nat
    BY Finite, FS_Subset, FS_CardinalityType DEF WorkLanes
  <2>3. Units(t) = 1
    BY <1>2 DEF Units
  <2> QED BY <1>3, <2>1, <2>2, <2>3
<1>6. /\ pass'[t] = pass[t] - 1 /\ phase'[t] = IF pass[t] = 1 THEN Done ELSE phase[t]
      /\ \A u \in Tasks \ {t} : pass'[u] = pass[u] /\ phase'[u] = phase[u]
      /\ pass' \in [Tasks -> Nat] /\ phase' \in [Tasks -> 0..3]
  BY <1>3, <1>4, <1>5 DEF Done
<1>7. at'[t] = "park"
  BY <1>3, <1>4, Awaits DEF IInv, Types, TaskTypes
<1>8. PhaseKept(t)'
  BY <1>2, <1>3, <1>4, <1>5, <1>6, <1>7 DEF PhaseKept, Computes, Pending, Parking, Parked, Done
<1>9. ComputeTypes'
  BY <1>4, <1>6 DEF IInv, Types, ComputeTypes
<1>10. /\ pass'[t] - Units(t)' = pass[t] - Units(t)
       /\ Flights(t)' = 0 /\ Flights(t) = 0
  BY <1>2, <1>3, <1>4, <1>5, <1>6, <1>7 DEF Units, Flights, Suspended
<1>11. inFlight' = inFlight + Flights(t)' - Flights(t) /\ inFlight' \in Nat
  BY <1>3, <1>4, <1>10
<1>12. PICK ends \in BOOLEAN, p \in Places \ {"queue", "complete"},
            s \in {"Running", "Failed", "ExternalBlocked"} :
          ends = FALSE /\ p = "park" /\ s = "Running"
  BY DEF Places
<1>13. /\ lane' = IF ends THEN [lane EXCEPT ![l].pc = "finish"] ELSE lane
       /\ at' = [at EXCEPT ![t] = p] /\ state' = [state EXCEPT ![t] = s]
       /\ (ends => EndPlace(t)') /\ (~ends => RunPlace(t)')
  BY <1>3, <1>4, <1>7, <1>12 DEF RunPlace
<1>14. device'[t] # "wake" /\ step' \in [Tasks -> Nat \ {0}]
       /\ \A u \in Tasks \ {t} :
              phase'[u] = phase[u] /\ pass'[u] = pass[u] /\ device'[u] = device[u]
  BY <1>3, <1>4, <1>6
<1> QED BY <1>1, <1>2, <1>3, <1>4, <1>8, <1>9, <1>10, <1>11, <1>13, <1>14, CoordinatorStep

LEMMA RearmsKeeps ==
    ASSUME IInv, NEW l \in Lanes, Rearms(l)
    PROVE  IInv'
<1>1. PICK t : t = lane[l].task
  OBVIOUS
<1>2. lane[l].pc = "run" /\ at[t] = "reset"
  BY <1>1 DEF Rearms, At
<1>3. /\ t \in Tasks /\ RunPlace(t) /\ PhaseKept(t) /\ device[t] # "wake"
      /\ token[t] = 0 /\ Computes(t) /\ state[t] = "Running"
      /\ phase \in [Tasks -> 0..3] /\ pass \in [Tasks -> Nat] /\ inFlight \in Nat
      /\ step \in [Tasks -> Nat \ {0}] /\ state \in [Tasks -> States]
      /\ at \in [Tasks -> Places]
  <2>1. /\ t \in Tasks /\ RunPlace(t) /\ PhaseKept(t) /\ device[t] # "wake"
        /\ token[t] = 0 /\ Computes(t)
        /\ phase \in [Tasks -> 0..3] /\ pass \in [Tasks -> Nat] /\ inFlight \in Nat
        /\ step \in [Tasks -> Nat \ {0}] /\ state \in [Tasks -> States]
        /\ at \in [Tasks -> Places]
    BY <1>1, <1>2, Awaits
  <2> QED BY <1>2, <2>1 DEF RunPlace
<1>4. /\ phase' = [phase EXCEPT ![t] = Pending]
      /\ at' = [at EXCEPT ![t] = "next"] /\ step' = [step EXCEPT ![t] = step[t] + 1]
      /\ UNCHANGED <<script, state, wakeTicket, token, readyVars, tickets, lane, laneStop,
                     inFlight, pass, device, pool, stop, io, rootVars>>
  BY <1>1 DEF Rearms, Returns
<1>5. phase[t] = Done /\ pass[t] = 0 /\ device[t] # "busy"
  BY <1>2, <1>3 DEF PhaseKept
<1>6. /\ phase'[t] = Pending /\ at'[t] = "next"
      /\ \A u \in Tasks \ {t} : phase'[u] = phase[u]
      /\ phase' \in [Tasks -> 0..3] /\ step' \in [Tasks -> Nat \ {0}]
  BY <1>3, <1>4 DEF Pending
<1>7. PhaseKept(t)'
  BY <1>3, <1>4, <1>5, <1>6 DEF PhaseKept, Computes, Pending, Parking, Parked, Done
<1>8. ComputeTypes'
  BY <1>4, <1>6 DEF IInv, Types, ComputeTypes
<1>9. /\ pass'[t] - Units(t)' = pass[t] - Units(t)
      /\ Flights(t)' = 0 /\ Flights(t) = 0
  BY <1>2, <1>3, <1>4, <1>6 DEF Units, Flights, Suspended
<1>10. inFlight' = inFlight + Flights(t)' - Flights(t) /\ inFlight' \in Nat
  BY <1>3, <1>4, <1>9
<1>11. PICK ends \in BOOLEAN, p \in Places \ {"queue", "complete"},
            s \in {"Running", "Failed", "ExternalBlocked"} :
          ends = FALSE /\ p = "next" /\ s = "Running"
  BY DEF Places
<1>12. /\ lane' = IF ends THEN [lane EXCEPT ![l].pc = "finish"] ELSE lane
       /\ at' = [at EXCEPT ![t] = p] /\ state' = [state EXCEPT ![t] = s]
       /\ (ends => EndPlace(t)') /\ (~ends => RunPlace(t)')
  BY <1>3, <1>4, <1>6, <1>11 DEF RunPlace
<1>13. device'[t] # "wake"
       /\ \A u \in Tasks \ {t} :
              phase'[u] = phase[u] /\ pass'[u] = pass[u] /\ device'[u] = device[u]
  BY <1>3, <1>4, <1>6
<1> QED BY <1>1, <1>2, <1>3, <1>4, <1>6, <1>7, <1>8, <1>9, <1>10, <1>12, <1>13, CoordinatorStep

\* The phase a slot has while its operation is admitted.
AdmitPhase(t, s) ==
    \/ at[t] = "park" /\ slot[s].phase = Pending
    \/ at[t] \in {"count", "commit"} /\ slot[s].phase = Parking
    \/ at[t] = "queue" /\ slot[s].phase = Parked

\* The slot of an operation that is being admitted.
LEMMA SlotOf ==
    ASSUME IInv, NEW l \in Lanes, lane[l].pc = "run", NEW t, t = lane[l].task,
           token[t] # 0, at[t] \in {"park", "count", "commit", "queue"}
    PROVE  /\ token[t] \in Slots /\ slot[token[t]].task = t
           /\ slot[token[t]].st = "Admitting" /\ ~Computes(t) /\ AdmitPhase(t, token[t])
           /\ slot[token[t]].seq + 1 = nextSub
           /\ \A u \in Tasks \ {t} : token[u] # token[t]
           /\ \A x \in Slots : slot[x].st = "Admitting" => x = token[t]
<1>1. t \in Tasks /\ TokenKept(t)
  BY Awaits
<1>2. token[t] \in Slots
  BY <1>1, Sizes DEF IInv, Types, TaskTypes
<1>3. slot[token[t]].task = t /\ slot[token[t]].st = "Admitting" /\ ~Computes(t)
  BY <1>1 DEF TokenKept
<1>4. SlotKept(token[t])
  BY <1>2 DEF IInv, Slotted
<1>5. \A u \in Tasks \ {t} : token[u] # token[t]
  <2>1. \A u \in Tasks : TokenKept(u)
    BY DEF IInv, Slotted
  <2> QED BY <1>3, <2>1 DEF TokenKept
<1>6. \A x \in Slots : slot[x].st = "Admitting" => x = token[t]
  <2>1. \A x \in Slots : SlotKept(x)
    BY DEF IInv, Slotted
  <2>2. \A u \in Tasks : Runs(u) => u = t
    BY InQuantum
  <2> QED BY <2>1, <2>2 DEF SlotKept, Held
<1> QED BY <1>2, <1>3, <1>4, <1>5, <1>6 DEF SlotKept, AdmitPhase

\* A step inside the admission.
LEMMA SlotAdmits ==
    ASSUME IInv, NEW l \in Lanes, lane[l].pc = "run", NEW t, t = lane[l].task,
           token[t] # 0, at[t] \in {"park", "count", "commit"}, NEW s, s = token[t],
           UNCHANGED <<script, token, free, queue, nextSub, subs, reserved, io>>,
           \A u \in Tasks \ {t} : SameTask(u),
           \A m \in Lanes : SameLists(m),
           \A m \in Lanes : lane'[m].pc = lane[m].pc,
           \A x \in Slots \ {s} : slot'[x] = slot[x],
           slot'[s].st = "Admitting", slot'[s].seq = slot[s].seq,
           slot'[s].task = slot[s].task, slot'[s].released = slot[s].released,
           at'[t] \in Admission,
           AdmitPhase(t, s)'
    PROVE  Slotted' /\ BytesCounted' /\ AdmissionsCounted'
<1>1. /\ s \in Slots /\ slot[s].task = t
      /\ slot[s].st = "Admitting" /\ ~Computes(t)
      /\ \A u \in Tasks \ {t} : token[u] # s
  BY SlotOf
<1>2. t \in Tasks
  BY Awaits
<1>3. /\ \A u \in Tasks \ {t} : (Runs(u)' <=> Runs(u)) /\ SameFor(u)
      /\ Runs(t) /\ Runs(t)'
  <2>1. /\ \A u \in Tasks \ {t} : Runs(u)' <=> Runs(u)
        /\ Runs(t)' <=> lane'[l].pc = "run"
    BY QuantumRuns
  <2>2. Runs(t)
    BY InQuantum
  <2> QED BY <2>1, <2>2 DEF SameFor
<1>4. \A x \in Slots : slot'[x].st = slot[x].st /\ slot'[x].seq = slot[x].seq
  BY <1>1
<1>5. Lists'
  <2>1. Lists /\ queue \in Seq(Slots)
    BY DEF IInv, Slotted, Types, PoolTypes
  <2>2. \A i \in DOMAIN queue : queue[i] \in Slots
    BY <2>1
  <2>3. Ascends'
    BY <1>4, <2>1, <2>2 DEF Lists, Ascends
  <2>4. /\ {x \in Slots : slot'[x].st = "Free"} = {x \in Slots : slot[x].st = "Free"}
        /\ {x \in Slots : slot'[x].st = "Queued"} = {x \in Slots : slot[x].st = "Queued"}
    BY <1>4
  <2>5. Distinct'
    BY <1>4, <2>1 DEF Lists, Distinct
  <2> QED BY <2>1, <2>3, <2>4, <2>5 DEF Lists, Once
<1>6. ASSUME NEW x \in Slots PROVE SlotKept(x)'
  <2>1. SlotKept(x)
    BY DEF IInv, Slotted
  <2>2. CASE x = s
    BY <1>1, <1>2, <1>3, <2>1, <2>2 DEF SlotKept, Held, AdmitPhase
  <2>3. CASE x # s
    <3>1. slot'[x] = slot[x]
      BY <2>3
    <3>2. slot[x].st # "Free" => slot[x].task \in Tasks \ {t} /\ SameFor(slot[x].task)
                                /\ token[slot[x].task] = x
      BY <1>1, <1>3, <2>1, <2>3 DEF SlotKept, Held
    <3> QED BY <2>1, <3>1, <3>2 DEF SlotKept, Held, Asleep, SameFor, SameTask
  <2> QED BY <2>2, <2>3
<1>7. WorkerKept'
  <2>1. WorkerKept
    BY DEF IInv, Slotted
  <2>2. io.pc \in {"native", "publish", "wake"} => io.slot \in Slots \ {s}
    BY <1>1, <2>1 DEF WorkerKept
  <2>3. io.pc = "wake" => slot[io.slot].task \in Tasks \ {t} /\ SameFor(slot[io.slot].task)
    BY <1>1, <1>3, <2>1, <2>2 DEF WorkerKept, Asleep, Held
  <2> QED BY <2>1, <2>2, <2>3 DEF WorkerKept, Asleep, Held, SameFor, SameTask
<1>8. ASSUME NEW u \in Tasks PROVE TokenKept(u)'
  <2>1. TokenKept(u)
    BY DEF IInv, Slotted
  <2>2. CASE u = t
    BY <1>1, <2>1, <2>2 DEF TokenKept, Computes, Admission
  <2>3. CASE u # t
    <3>1. token[u] # 0 => token[u] \in Slots \ {s}
      BY <1>1, <2>3, Sizes DEF IInv, Types, TaskTypes
    <3> QED BY <2>1, <2>3, <3>1 DEF TokenKept, Computes, SameTask
  <2> QED BY <2>2, <2>3
<1>9. BytesCounted' /\ AdmissionsCounted'
  <2>1. Admits' <=> Admits
    BY <1>4 DEF Admits
  <2>2. TokenTasks' = TokenTasks
    BY DEF TokenTasks
  <2> QED BY <2>1, <2>2 DEF IInv, Counted, BytesCounted, AdmissionsCounted
<1> QED BY <1>5, <1>6, <1>7, <1>8, <1>9 DEF Slotted

\* The step of a coroutine inside the admission of its operation.
LEMMA AdmissionStep ==
    ASSUME IInv, NEW l \in Lanes, lane[l].pc = "run", NEW t, t = lane[l].task,
           token[t] # 0, at[t] \in {"park", "count", "commit"}, NEW s, s = token[t],
           UNCHANGED <<script, wakeTicket, step, token, readyVars, tickets, lane, laneStop,
                       compute, free, queue, nextSub, nextExec, subs, reserved, stop, io,
                       rootVars>>,
           NEW p \in Admission, at' = [at EXCEPT ![t] = p],
           NEW c \in {"Running", "Failed", "ExternalBlocked"}, state' = [state EXCEPT ![t] = c],
           NEW v \in 0..3, slot' = [slot EXCEPT ![s] = [slot[s] EXCEPT !.phase = v]],
           \/ p = "park" /\ v = Pending
           \/ p \in {"count", "commit"} /\ v = Parking
           \/ p = "queue" /\ v = Parked,
           inFlight' = inFlight + Flights(t)' - Flights(t), inFlight' \in Nat,
           RunPlace(t)'
    PROVE  IInv'
<1>1. /\ s \in Slots /\ slot[s].task = t
      /\ slot[s].st = "Admitting" /\ ~Computes(t)
  BY SlotOf
<1>2. /\ t \in Tasks /\ PhaseKept(t) /\ device[t] # "wake" /\ ~Waked(t)
      /\ state \in [Tasks -> States] /\ at \in [Tasks -> Places]
  BY Awaits, InQuantum
<1>3. p \in Places /\ c \in States
  BY DEF Places, States, Terminal, Admission
<1>4. at'[t] = p /\ at' \in [Tasks -> Places] /\ \A u \in Tasks \ {t} : at'[u] = at[u]
  BY <1>2, <1>3
<1>5. /\ state'[t] = c /\ state' \in [Tasks -> States]
      /\ \A u \in Tasks \ {t} : state'[u] = state[u]
  BY <1>2, <1>3
<1>6. \A u \in Tasks \ {t} : SameTask(u)
  BY <1>4, <1>5 DEF SameTask
<1>7. /\ slot' \in [Slots -> SlotRec] /\ \A x \in Slots \ {s} : slot'[x] = slot[x]
      /\ slot'[s].st = "Admitting" /\ slot'[s].seq = slot[s].seq
      /\ slot'[s].task = slot[s].task /\ slot'[s].released = slot[s].released
      /\ slot'[s].phase = v
  <2>1. PICK x \in SlotRec : x = slot[s]
    BY <1>1 DEF IInv, Types, PoolTypes
  <2>2. PICK y : y = [x EXCEPT !.phase = v]
    OBVIOUS
  <2>3. y \in SlotRec /\ y.st = x.st /\ y.seq = x.seq /\ y.task = x.task
        /\ y.released = x.released /\ y.phase = v
    BY <2>2 DEF SlotRec
  <2>4. slot' = [slot EXCEPT ![s] = y] /\ slot \in [Slots -> SlotRec]
    BY <2>1, <2>2 DEF IInv, Types, PoolTypes
  <2> QED BY <1>1, <2>1, <2>3, <2>4
<1>8. Types'
  <2>1. TaskTypes'
    BY <1>4, <1>5 DEF IInv, Types, TaskTypes, Places, States
  <2>2. LaneTypes'
    BY DEF IInv, Types, LaneTypes, tickets
  <2>3. PoolTypes'
    BY <1>7 DEF IInv, Types, PoolTypes
  <2>4. ReadyTypes' /\ ComputeTypes' /\ RootTypes'
    BY DEF IInv, Types, ReadyTypes, ComputeTypes, RootTypes, readyVars, compute, rootVars
  <2> QED BY <2>1, <2>2, <2>3, <2>4 DEF Types
<1>9. /\ \A m \in Lanes : SameLists(m) /\ SameWork(m)
      /\ \A m \in Lanes : lane'[m].pc = lane[m].pc
      /\ lane'[l].pc = "run"
  BY DEF SameLists, SameWork
<1>10. at'[t] \in Admission /\ AdmitPhase(t, s)'
  BY <1>1, <1>4, <1>7 DEF AdmitPhase
<1>11. Slotted' /\ BytesCounted' /\ AdmissionsCounted'
  BY <1>6, <1>7, <1>9, <1>10, SlotAdmits
<1>12. Computed'
  <2>1. PhaseKept(t)'
    BY <1>1, <1>2, <1>4 DEF PhaseKept, Computes, Admission, compute, Pending, Parked, Done
  <2>2. Units(t)' = Units(t)
    BY <1>4 DEF Units, Admission
  <2>3. \A u \in Tasks \ {t} : Aside(u) /\ token'[u] = token[u]
    BY <1>6 DEF Aside, SameTask
  <2> QED BY <1>2, <1>9, <2>1, <2>2, <2>3, ComputedAround DEF IInv, compute
<1> QED BY <1>2, <1>5, <1>6, <1>8, <1>9, <1>11, <1>12, AwaitStep DEF readyVars, tickets, rootVars

LEMMA ParkBeginsKeeps ==
    ASSUME IInv, NEW l \in Lanes, ParkBegins(l)
    PROVE  IInv'
<1>1. PICK t : t = lane[l].task
  OBVIOUS
<1>2. /\ lane[l].pc = "run" /\ at[t] = "park" /\ state[t] = "Running" /\ PhaseOf(t) = Pending
  BY <1>1 DEF ParkBegins, At
<1>3. /\ t \in Tasks /\ PhaseKept(t) /\ device[t] # "wake" /\ wakeTicket[t] = 0
      /\ (token[t] = 0 => Computes(t))
      /\ phase \in [Tasks -> 0..3] /\ pass \in [Tasks -> Nat] /\ inFlight \in Nat
      /\ state \in [Tasks -> States] /\ at \in [Tasks -> Places]
      /\ step \in [Tasks -> Nat \ {0}]
  BY <1>1, <1>2, Awaits, InQuantum
<1>4. /\ SetPhase(t, Parking) /\ state' = [state EXCEPT ![t] = "ExternalBlocked"]
      /\ wakeTicket' = [wakeTicket EXCEPT ![t] = 0] /\ at' = [at EXCEPT ![t] = "count"]
      /\ UNCHANGED <<script, step, token, readyVars, tickets, lane, laneStop, inFlight, pass,
                     device, free, queue, nextSub, nextExec, subs, reserved, stop, io, rootVars>>
  BY <1>1 DEF ParkBegins
<1>5. wakeTicket' = wakeTicket
  BY <1>3, <1>4 DEF IInv, Types, TaskTypes
<1>6. at'[t] = "count" /\ state'[t] = "ExternalBlocked"
  BY <1>3, <1>4
<1>7. RunPlace(t)' /\ Flights(t)' = 0 /\ Flights(t) = 0
  BY <1>2, <1>6 DEF RunPlace, Flights, Suspended
<1>8. inFlight' = inFlight + Flights(t)' - Flights(t) /\ inFlight' \in Nat
  BY <1>3, <1>4, <1>7
<1>9. CASE token[t] = 0
  <2>1. phase' = [phase EXCEPT ![t] = Parking] /\ slot' = slot /\ phase[t] = Pending
    BY <1>2, <1>4, <1>9 DEF SetPhase, PhaseOf
  <2>2. /\ phase'[t] = Parking /\ \A u \in Tasks \ {t} : phase'[u] = phase[u]
        /\ phase' \in [Tasks -> 0..3]
    BY <1>3, <2>1 DEF Parking
  <2>3. PhaseKept(t)'
    BY <1>2, <1>3, <1>4, <1>6, <1>9, <2>2
       DEF PhaseKept, Computes, Pending, Parking, Parked, Done
  <2>4. ComputeTypes' /\ device'[t] # "wake"
    BY <1>3, <1>4, <2>2 DEF IInv, Types, ComputeTypes
  <2>5. pass'[t] - Units(t)' = pass[t] - Units(t)
    BY <1>2, <1>4, <1>6 DEF Units
  <2>6. PICK ends \in BOOLEAN, p \in Places \ {"queue", "complete"},
             s \in {"Running", "Failed", "ExternalBlocked"} :
          ends = FALSE /\ p = "count" /\ s = "ExternalBlocked"
    BY DEF Places
  <2>7. /\ lane' = IF ends THEN [lane EXCEPT ![l].pc = "finish"] ELSE lane
        /\ at' = [at EXCEPT ![t] = p] /\ state' = [state EXCEPT ![t] = s]
        /\ (ends => EndPlace(t)') /\ (~ends => RunPlace(t)')
    BY <1>4, <1>7, <2>6
  <2>8. \A u \in Tasks \ {t} :
              phase'[u] = phase[u] /\ pass'[u] = pass[u] /\ device'[u] = device[u]
    BY <1>4, <2>2
  <2>9. UNCHANGED <<script, wakeTicket, token, readyVars, tickets, laneStop, pool, stop, io,
                    rootVars>> /\ step' \in [Tasks -> Nat \ {0}]
    BY <1>3, <1>4, <1>5, <2>1 DEF pool
  <2> QED BY <1>1, <1>2, <1>8, <1>9, <2>3, <2>4, <2>5, <2>7, <2>8, <2>9, CoordinatorStep
<1>10. CASE token[t] # 0
  <2>1. PICK s : s = token[t]
    OBVIOUS
  <2>2. slot' = [slot EXCEPT ![s] = [slot[s] EXCEPT !.phase = Parking]] /\ phase' = phase
    BY <1>4, <1>10, <2>1 DEF SetPhase
  <2>3. PICK p \in Admission, c \in {"Running", "Failed", "ExternalBlocked"}, v \in 0..3 :
          p = "count" /\ c = "ExternalBlocked" /\ v = Parking
    BY DEF Admission, Parking
  <2>4. /\ at' = [at EXCEPT ![t] = p] /\ state' = [state EXCEPT ![t] = c]
        /\ slot' = [slot EXCEPT ![s] = [slot[s] EXCEPT !.phase = v]]
        /\ \/ p = "park" /\ v = Pending
           \/ p \in {"count", "commit"} /\ v = Parking
           \/ p = "queue" /\ v = Parked
    BY <1>4, <2>2, <2>3
  <2>5. UNCHANGED <<script, wakeTicket, step, token, readyVars, tickets, lane, laneStop,
                    compute, free, queue, nextSub, nextExec, subs, reserved, stop, io,
                    rootVars>>
    BY <1>4, <1>5, <2>2 DEF compute
  <2> QED BY <1>1, <1>2, <1>7, <1>8, <1>10, <2>1, <2>4, <2>5, AdmissionStep
<1> QED BY <1>9, <1>10

LEMMA ParkCountsKeeps ==
    ASSUME IInv, NEW l \in Lanes, ParkCounts(l)
    PROVE  IInv'
<1>1. PICK t : t = lane[l].task
  OBVIOUS
<1>2. /\ lane[l].pc = "run" /\ at[t] = "count"
  BY <1>1 DEF ParkCounts, At
<1>3. /\ t \in Tasks /\ PhaseKept(t) /\ device[t] # "wake" /\ RunPlace(t)
      /\ (token[t] = 0 => Computes(t))
      /\ inFlight \in Nat /\ pass \in [Tasks -> Nat]
      /\ state \in [Tasks -> States] /\ at \in [Tasks -> Places]
      /\ step \in [Tasks -> Nat \ {0}]
  BY <1>1, <1>2, Awaits
<1>4. /\ inFlight' = inFlight + 1 /\ at' = [at EXCEPT ![t] = "commit"]
      /\ UNCHANGED <<script, state, wakeTicket, step, token, readyVars, tickets, lane,
                     laneStop, compute, pool, stop, io, rootVars>>
  BY <1>1 DEF ParkCounts
<1>5. state[t] = "ExternalBlocked" /\ at'[t] = "commit" /\ state'[t] = "ExternalBlocked"
      /\ state' = [state EXCEPT ![t] = "ExternalBlocked"]
  BY <1>2, <1>3, <1>4 DEF RunPlace
<1>6. RunPlace(t)' /\ Flights(t)' = 1 /\ Flights(t) = 0
  BY <1>2, <1>5 DEF RunPlace, Flights, Suspended
<1>7. inFlight' = inFlight + Flights(t)' - Flights(t) /\ inFlight' \in Nat
  BY <1>3, <1>4, <1>6
<1>8. CASE token[t] = 0
  <2>1. PhaseKept(t)'
    BY <1>2, <1>3, <1>4, <1>5, <1>8
       DEF PhaseKept, Computes, compute, Pending, Parking, Parked, Done
  <2>2. ComputeTypes' /\ device'[t] # "wake"
    BY <1>3, <1>4 DEF IInv, Types, ComputeTypes, compute
  <2>3. pass'[t] - Units(t)' = pass[t] - Units(t)
    BY <1>2, <1>4, <1>5 DEF Units, compute
  <2>4. PICK ends \in BOOLEAN, p \in Places \ {"queue", "complete"},
             s \in {"Running", "Failed", "ExternalBlocked"} :
          ends = FALSE /\ p = "commit" /\ s = "ExternalBlocked"
    BY DEF Places
  <2>5. /\ lane' = IF ends THEN [lane EXCEPT ![l].pc = "finish"] ELSE lane
        /\ at' = [at EXCEPT ![t] = p] /\ state' = [state EXCEPT ![t] = s]
        /\ (ends => EndPlace(t)') /\ (~ends => RunPlace(t)')
    BY <1>4, <1>5, <1>6, <2>4
  <2>6. /\ \A u \in Tasks \ {t} :
              phase'[u] = phase[u] /\ pass'[u] = pass[u] /\ device'[u] = device[u]
        /\ step' \in [Tasks -> Nat \ {0}]
    BY <1>3, <1>4 DEF compute
  <2> QED BY <1>1, <1>2, <1>4, <1>7, <1>8, <2>1, <2>2, <2>3, <2>5, <2>6, CoordinatorStep
<1>9. CASE token[t] # 0
  <2>1. PICK s : s = token[t]
    OBVIOUS
  <2>2. s \in Slots /\ slot[s].phase = Parking /\ slot \in [Slots -> SlotRec]
    BY <1>1, <1>2, <1>9, <2>1, SlotOf DEF AdmitPhase, IInv, Types, PoolTypes
  <2>3. PICK p \in Admission, c \in {"Running", "Failed", "ExternalBlocked"}, v \in 0..3 :
          p = "commit" /\ c = "ExternalBlocked" /\ v = Parking
    BY DEF Admission, Parking
  <2>4. /\ at' = [at EXCEPT ![t] = p] /\ state' = [state EXCEPT ![t] = c]
        /\ \/ p = "park" /\ v = Pending
           \/ p \in {"count", "commit"} /\ v = Parking
           \/ p = "queue" /\ v = Parked
    BY <1>4, <1>5, <2>3
  <2>5. slot' = [slot EXCEPT ![s] = [slot[s] EXCEPT !.phase = v]]
    <3>1. PICK x \in SlotRec : x = slot[s]
      BY <2>2
    <3>2. [x EXCEPT !.phase = v] = x
      BY <2>2, <2>3, <3>1 DEF SlotRec
    <3>3. [slot EXCEPT ![s] = x] = slot
      BY <2>2, <3>1
    <3> QED BY <1>4, <3>1, <3>2, <3>3 DEF pool
  <2>6. UNCHANGED <<script, wakeTicket, step, token, readyVars, tickets, lane, laneStop,
                    compute, free, queue, nextSub, nextExec, subs, reserved, stop, io,
                    rootVars>>
    BY <1>4 DEF pool
  <2> QED BY <1>1, <1>2, <1>6, <1>7, <1>9, <2>1, <2>4, <2>5, <2>6, AdmissionStep
<1> QED BY <1>8, <1>9

\* A suspended task is counted.
LEMMA SuspendedCounts ==
    ASSUME IInv, NEW l \in Lanes, lane[l].pc = "run", NEW t, t = lane[l].task, Suspended(t)
    PROVE  inFlight >= 1
<1>1. t \in Tasks /\ Home(t) = l
  BY InQuantum
<1>2. t \in ParkedTasks
  BY <1>1 DEF Suspended, ParkedTasks, Parks
<1>3. Cardinality(ParkedTasks) >= 1
  BY <1>2, CountedFinite, CountOne
<1> QED BY <1>3, CountedFinite DEF IInv, Counted, FlightsCounted

LEMMA ParkCommitsKeeps ==
    ASSUME IInv, NEW l \in Lanes, ParkCommits(l)
    PROVE  IInv'
<1>1. PICK t : t = lane[l].task
  OBVIOUS
<1>2. lane[l].pc = "run" /\ at[t] = "commit"
  BY <1>1 DEF ParkCommits, At
<1>3. /\ t \in Tasks /\ PhaseKept(t) /\ device[t] # "wake" /\ RunPlace(t)
      /\ (token[t] = 0 => Computes(t)) /\ wakeTicket[t] = 0
      /\ inFlight \in Nat /\ pass \in [Tasks -> Nat] /\ phase \in [Tasks -> 0..3]
      /\ state \in [Tasks -> States] /\ at \in [Tasks -> Places]
      /\ step \in [Tasks -> Nat \ {0}]
  BY <1>1, <1>2, Awaits, InQuantum
<1>4. UNCHANGED <<script, wakeTicket, step, token, readyVars, tickets, laneStop, pass, device,
                  free, queue, nextSub, nextExec, subs, reserved, stop, io, rootVars>>
  BY DEF ParkCommits
<1>5. state[t] = "ExternalBlocked" /\ Flights(t) = 1 /\ inFlight >= 1
      /\ state = [state EXCEPT ![t] = "ExternalBlocked"]
  <2>1. state[t] = "ExternalBlocked"
    BY <1>2, <1>3 DEF RunPlace
  <2>2. Suspended(t)
    BY <1>2, <2>1 DEF Suspended
  <2> QED BY <1>1, <1>2, <1>3, <2>1, <2>2, SuspendedCounts DEF Flights
<1>6. CASE token[t] # 0
  <2>1. PICK s : s = token[t]
    OBVIOUS
  <2>2. s \in Slots /\ slot[s].phase = Parking
    BY <1>1, <1>2, <1>6, <2>1, SlotOf DEF AdmitPhase
  <2>3. /\ slot' = [slot EXCEPT ![s] = [slot[s] EXCEPT !.phase = Parked]] /\ phase' = phase
        /\ at' = [at EXCEPT ![t] = "queue"]
        /\ UNCHANGED <<lane, state, inFlight>>
    BY <1>1, <1>6, <2>1, <2>2 DEF ParkCommits, SetPhase, PhaseOf
  <2>4. PICK p \in Admission, c \in {"Running", "Failed", "ExternalBlocked"}, v \in 0..3 :
          p = "queue" /\ c = "ExternalBlocked" /\ v = Parked
    BY DEF Admission, Parked
  <2>5. /\ at' = [at EXCEPT ![t] = p] /\ state' = [state EXCEPT ![t] = c]
        /\ slot' = [slot EXCEPT ![s] = [slot[s] EXCEPT !.phase = v]]
        /\ \/ p = "park" /\ v = Pending
           \/ p \in {"count", "commit"} /\ v = Parking
           \/ p = "queue" /\ v = Parked
    BY <1>5, <2>3, <2>4
  <2>6. UNCHANGED <<script, wakeTicket, step, token, readyVars, tickets, lane, laneStop,
                    compute, free, queue, nextSub, nextExec, subs, reserved, stop, io,
                    rootVars>>
    BY <1>4, <2>3 DEF compute
  <2>7. at'[t] = "queue" /\ state'[t] = "ExternalBlocked"
    BY <1>3, <1>5, <2>3
  <2>8. RunPlace(t)' /\ Flights(t)' = 1
    BY <2>7 DEF RunPlace, Flights, Suspended
  <2>9. inFlight' = inFlight + Flights(t)' - Flights(t) /\ inFlight' \in Nat
    BY <1>3, <1>5, <2>3, <2>8
  <2> QED BY <1>1, <1>2, <1>6, <2>1, <2>5, <2>6, <2>8, <2>9, AdmissionStep
<1>7. CASE token[t] = 0 /\ phase[t] = Parking
  <2>1. /\ phase' = [phase EXCEPT ![t] = Parked] /\ slot' = slot
        /\ at' = [at EXCEPT ![t] = "reset"] /\ lane' = [lane EXCEPT ![l].pc = "finish"]
        /\ UNCHANGED <<state, inFlight>>
    BY <1>1, <1>7 DEF ParkCommits, SetPhase, PhaseOf, Suspends
  <2>2. /\ phase'[t] = Parked /\ \A u \in Tasks \ {t} : phase'[u] = phase[u]
        /\ phase' \in [Tasks -> 0..3] /\ at'[t] = "reset" /\ state'[t] = "ExternalBlocked"
    BY <1>3, <1>5, <2>1 DEF Parked
  <2>3. PhaseKept(t)'
    BY <1>2, <1>3, <1>4, <1>7, <2>1, <2>2
       DEF PhaseKept, Computes, Pending, Parking, Parked, Done
  <2>4. ComputeTypes' /\ device'[t] # "wake"
    BY <1>3, <1>4, <2>2 DEF IInv, Types, ComputeTypes
  <2>5. pass'[t] - Units(t)' = pass[t] - Units(t)
    BY <1>2, <1>4, <2>2 DEF Units
  <2>6. EndPlace(t)' /\ Flights(t)' = 1
    BY <2>2 DEF EndPlace, Flights, Suspended, Terminal
  <2>7. inFlight' = inFlight + Flights(t)' - Flights(t) /\ inFlight' \in Nat
    BY <1>3, <1>5, <2>1, <2>6
  <2>8. PICK ends \in BOOLEAN, p \in Places \ {"queue", "complete"},
             s \in {"Running", "Failed", "ExternalBlocked"} :
          ends = TRUE /\ p = "reset" /\ s = "ExternalBlocked"
    BY DEF Places
  <2>9. /\ lane' = IF ends THEN [lane EXCEPT ![l].pc = "finish"] ELSE lane
        /\ at' = [at EXCEPT ![t] = p] /\ state' = [state EXCEPT ![t] = s]
        /\ (ends => EndPlace(t)') /\ (~ends => RunPlace(t)')
    BY <1>5, <2>1, <2>6, <2>8
  <2>10. /\ \A u \in Tasks \ {t} :
              phase'[u] = phase[u] /\ pass'[u] = pass[u] /\ device'[u] = device[u]
         /\ UNCHANGED <<script, wakeTicket, token, readyVars, tickets, laneStop, pool, stop,
                        io, rootVars>>
         /\ step' \in [Tasks -> Nat \ {0}]
    BY <1>3, <1>4, <2>1, <2>2 DEF pool
  <2> QED BY <1>1, <1>2, <1>7, <2>3, <2>4, <2>5, <2>7, <2>9, <2>10, CoordinatorStep
<1>8. CASE token[t] = 0 /\ phase[t] # Parking
  <2>1. /\ inFlight' = inFlight - 1 /\ state' = [state EXCEPT ![t] = "Running"]
        /\ at' = [at EXCEPT ![t] = "reset"] /\ UNCHANGED <<lane, phase, slot>>
    BY <1>1, <1>8 DEF ParkCommits, PhaseOf
  <2>2. phase[t] = Done /\ at'[t] = "reset" /\ state'[t] = "Running"
    BY <1>2, <1>3, <1>8, <2>1 DEF PhaseKept
  <2>3. PhaseKept(t)'
    BY <1>2, <1>3, <1>4, <1>8, <2>1, <2>2
       DEF PhaseKept, Computes, Pending, Parking, Parked, Done
  <2>4. ComputeTypes' /\ device'[t] # "wake"
    BY <1>3, <1>4, <2>1 DEF IInv, Types, ComputeTypes
  <2>5. pass'[t] - Units(t)' = pass[t] - Units(t)
    BY <1>2, <1>4, <2>2 DEF Units
  <2>6. RunPlace(t)' /\ Flights(t)' = 0
    BY <2>2 DEF RunPlace, Flights, Suspended
  <2>7. inFlight' = inFlight + Flights(t)' - Flights(t) /\ inFlight' \in Nat
    BY <1>3, <1>5, <2>1, <2>6
  <2>8. PICK ends \in BOOLEAN, p \in Places \ {"queue", "complete"},
             s \in {"Running", "Failed", "ExternalBlocked"} :
          ends = FALSE /\ p = "reset" /\ s = "Running"
    BY DEF Places
  <2>9. /\ lane' = IF ends THEN [lane EXCEPT ![l].pc = "finish"] ELSE lane
        /\ at' = [at EXCEPT ![t] = p] /\ state' = [state EXCEPT ![t] = s]
        /\ (ends => EndPlace(t)') /\ (~ends => RunPlace(t)')
    BY <2>1, <2>6, <2>8
  <2>10. /\ \A u \in Tasks \ {t} :
              phase'[u] = phase[u] /\ pass'[u] = pass[u] /\ device'[u] = device[u]
         /\ UNCHANGED <<script, wakeTicket, token, readyVars, tickets, laneStop, pool, stop,
                        io, rootVars>>
         /\ step' \in [Tasks -> Nat \ {0}]
    BY <1>3, <1>4, <2>1 DEF pool
  <2> QED BY <1>1, <1>2, <1>8, <2>3, <2>4, <2>5, <2>7, <2>9, <2>10, CoordinatorStep
<1> QED BY <1>6, <1>7, <1>8

-----------------------------------------------------------------------------
(* Slots in a quantum: admitted, queued, released.                         *)

\* The I/O worker does nothing, or its thread is started.
IoRests ==
    /\ io'.slot = io.slot /\ io'.seq = io.seq /\ io'.prior = io.prior
    /\ io'.pc = io.pc \/ (io.pc = "none" /\ io'.pc = "wait")

\* What holds of slot x is kept, when neither it nor its task changes and the
\* submission sequence only grows.
LEMMA SlotElsewhere ==
    ASSUME IInv, NEW x \in Slots, slot'[x] = slot[x], IoRests,
           nextSub \in Nat, nextSub' \in Nat, nextSub' >= nextSub,
           slot[x].st = "Admitting" => nextSub' = nextSub,
           slot[x].st # "Free" => /\ token'[slot[x].task] = token[slot[x].task]
                                  /\ SameFor(slot[x].task)
    PROVE  SlotKept(x)'
<1>1. SlotKept(x)
  BY DEF IInv, Slotted
<1>2. slot[x] \in SlotRec
  BY DEF IInv, Types, PoolTypes
<1>3. slot[x].seq \in Nat /\ slot[x].released \in Nat
  BY <1>2 DEF SlotRec
<1> QED BY <1>1, <1>3 DEF SlotKept, Held, Asleep, SameFor, SameTask, IoRests

\* The task of slot x in the quantum of t, which does not hold x.
LEMMA SlotTasks ==
    ASSUME IInv, NEW t, NEW x \in Slots, x # token[t], slot[x].st # "Free"
    PROVE  slot[x].task \in Tasks \ {t} /\ token[slot[x].task] = x
<1>1. SlotKept(x)
  BY DEF IInv, Slotted
<1> QED BY <1>1 DEF SlotKept, Held

\* A token is taken from t alone.
LEMMA TokensApart ==
    ASSUME IInv, NEW t \in Tasks, token[t] # 0
    PROVE  /\ token[t] \in Slots /\ slot[token[t]].task = t /\ slot[token[t]].st # "Free"
           /\ \A u \in Tasks \ {t} : token[u] # token[t]
           /\ \A u \in Tasks : token[u] # 0 => token[u] \in Slots
<1>1. \A u \in Tasks : TokenKept(u)
  BY DEF IInv, Slotted
<1>2. \A u \in Tasks : token[u] # 0 => token[u] \in Slots
  BY Sizes DEF IInv, Types, TaskTypes
<1> QED BY <1>1, <1>2 DEF TokenKept

\* The release of the slot of t at the end of its await.
LEMMA SlotReleased ==
    ASSUME IInv, NEW l \in Lanes, lane[l].pc = "run", NEW t, t = lane[l].task,
           token[t] # 0, NEW s, s = token[t], slot[s].st \in {"Admitting", "Complete"},
           state[t] # "ExternalBlocked",
           UNCHANGED <<script, queue, nextSub, nextExec, io>>,
           ReleaseSlot(s), token' = [token EXCEPT ![t] = 0], reserved' = reserved - 1,
           \A u \in Tasks \ {t} : SameTask(u), at'[t] = "next",
           \A m \in Lanes : SameLists(m),
           \A m \in Lanes : lane'[m].pc = lane[m].pc
    PROVE  /\ Slotted' /\ BytesCounted' /\ AdmissionsCounted'
           /\ slot' \in [Slots -> SlotRec] /\ free' \in Seq(Slots) /\ subs' \in Nat
           /\ reserved' \in 0..PayloadCapacity /\ token' \in [Tasks -> 0..SlotCount]
<1>1. t \in Tasks
  BY InQuantum
<1>2. /\ s \in Slots /\ slot[s].task = t
      /\ \A u \in Tasks \ {t} : token[u] # s
      /\ \A u \in Tasks : token[u] # 0 => token[u] \in Slots
  BY <1>1, TokensApart
<1>3. /\ slot \in [Slots -> SlotRec] /\ free \in Seq(Slots) /\ queue \in Seq(Slots)
      /\ subs \in Nat /\ reserved \in 0..PayloadCapacity /\ token \in [Tasks -> 0..SlotCount]
      /\ nextSub \in Nat /\ PayloadCapacity \in Nat
  BY SizeAssumption DEF IInv, Types, TaskTypes, PoolTypes
<1>4. PICK x \in SlotRec : x = slot[s]
  BY <1>2, <1>3
<1>5. PICK y : y = Released(x)
  OBVIOUS
<1>6. y \in SlotRec /\ y.st = "Free" /\ y.phase = Pending /\ y.released = x.seq
  BY <1>5, Sizes DEF Released, FreeSlot, SlotRec, Pending
<1>7. /\ slot'[s] = y /\ \A z \in Slots \ {s} : slot'[z] = slot[z]
      /\ slot' \in [Slots -> SlotRec]
  BY <1>2, <1>3, <1>4, <1>5, <1>6 DEF ReleaseSlot
<1>8. token'[t] = 0 /\ token' \in [Tasks -> 0..SlotCount]
      /\ \A u \in Tasks \ {t} : token'[u] = token[u]
  BY <1>1, <1>3, SizeAssumption
<1>9. SlotKept(s) /\ Lists
  BY <1>2 DEF IInv, Slotted
<1>10. \A u \in Tasks \ {t} : SameFor(u)
  <2>1. \A u \in Tasks \ {t} : Runs(u)' <=> Runs(u)
    BY QuantumRuns
  <2> QED BY <2>1 DEF SameFor
<1>11. free' \in Seq(Slots) /\ Once(free, {z \in Slots : slot[z].st = "Free"})'
  <2>1. PICK a : a = <<s>>
    OBVIOUS
  <2>2. a \in Seq(Slots) /\ Range(a) = {s} /\ IsInjective(a)
    BY <1>2, <2>1 DEF Range, IsInjective
  <2>3. Once(free, {z \in Slots : slot[z].st = "Free"}) /\ s \notin Range(free)
    BY <1>9 DEF Lists, Once
  <2>4. /\ a \o free \in Seq(Slots)
        /\ Range(a \o free) = Range(a) \cup Range(free)
        /\ IsInjective(a) /\ IsInjective(free) /\ Range(a) \cap Range(free) = {}
              => IsInjective(a \o free)
    BY <1>3, <2>2, ConcatOnce
  <2>5. {z \in Slots : slot'[z].st = "Free"} = {z \in Slots : slot[z].st = "Free"} \cup {s}
    BY <1>2, <1>6, <1>7
  <2>6. free' = a \o free
    BY <2>1 DEF ReleaseSlot
  <2> QED BY <2>2, <2>3, <2>4, <2>5, <2>6 DEF Once
<1>12. Lists'
  <2>1. {z \in Slots : slot'[z].st = "Queued"} = {z \in Slots : slot[z].st = "Queued"}
    BY <1>2, <1>6, <1>7
  <2>2. Once(queue, {z \in Slots : slot[z].st = "Queued"})'
    BY <1>9, <2>1 DEF Lists, Once
  <2>3. \A i \in DOMAIN queue : queue[i] \in Slots \ {s}
    BY <1>3, <1>9 DEF Lists, Once, Range
  <2>4. Ascends'
    BY <1>7, <1>9, <2>3 DEF Lists, Ascends
  <2>5. Distinct'
    BY <1>6, <1>7, <1>9 DEF Lists, Distinct
  <2> QED BY <1>11, <2>2, <2>4, <2>5 DEF Lists
<1>13. ASSUME NEW z \in Slots PROVE SlotKept(z)'
  <2>1. CASE z = s
    <3>1. x.seq < nextSub
      <4>1. x.seq \in Nat /\ slot[s].st # "Free"
        BY <1>4 DEF SlotRec
      <4>2. x.seq \in 1..(nextSub - 1)
        BY <1>4, <1>9, <4>1 DEF SlotKept
      <4> QED BY <1>3, <4>1, <4>2
    <3> QED BY <1>6, <1>7, <2>1, <3>1 DEF SlotKept
  <2>2. CASE z # s
    <3>1. slot[z].st # "Free" => slot[z].task \in Tasks \ {t}
      BY <2>2, SlotTasks
    <3>2. slot[z].st # "Free" => /\ token'[slot[z].task] = token[slot[z].task]
                                 /\ SameFor(slot[z].task)
      BY <1>8, <1>10, <3>1
    <3>3. /\ slot'[z] = slot[z] /\ IoRests /\ nextSub' = nextSub
          /\ nextSub' \in Nat /\ nextSub' >= nextSub
      BY <1>3, <1>7, <2>2 DEF IoRests
    <3> QED BY <1>3, <3>2, <3>3, SlotElsewhere
  <2> QED BY <2>1, <2>2
<1>14. WorkerKept'
  <2>1. WorkerKept
    BY DEF IInv, Slotted
  <2>2. io.pc \in {"native", "publish", "wake"} => io.slot \in Slots \ {s}
    BY <1>2, <2>1 DEF WorkerKept, Asleep
  <2>3. io.pc = "wake" => /\ slot[io.slot].task \in Tasks \ {t} /\ SameFor(slot[io.slot].task)
                          /\ token'[slot[io.slot].task] = token[slot[io.slot].task]
    BY <1>2, <1>8, <1>10, <2>1, <2>2 DEF WorkerKept, Asleep, Held
  <2> QED BY <1>7, <2>1, <2>2, <2>3 DEF WorkerKept, Asleep, Held, SameFor, SameTask
<1>15. ASSUME NEW u \in Tasks PROVE TokenKept(u)'
  <2>1. TokenKept(u)
    BY DEF IInv, Slotted
  <2>2. CASE u = t
    BY <1>8, <2>2 DEF TokenKept
  <2>3. CASE u # t
    <3>1. token[u] # 0 => token[u] \in Slots \ {s}
      BY <1>2, <2>3
    <3> QED BY <1>7, <1>8, <2>1, <2>3, <3>1 DEF TokenKept, Computes, SameTask
  <2> QED BY <2>2, <2>3
<1>16. BytesCounted' /\ reserved' \in 0..PayloadCapacity
  <2>1. t \in TokenTasks /\ TokenTasks' = TokenTasks \ {t}
    BY <1>1, <1>8 DEF TokenTasks
  <2>2. /\ Cardinality(TokenTasks)' = Cardinality(TokenTasks) - 1
        /\ Cardinality(TokenTasks) >= 1 /\ Cardinality(TokenTasks) \in Nat
    BY <2>1, CountedFinite, CountOne
  <2> QED BY <1>3, <2>2 DEF IInv, Counted, BytesCounted
<1>17. AdmissionsCounted' /\ subs' \in Nat
  <2>0. AdmissionsCounted
    BY DEF IInv, Counted
  <2>1. CASE slot[s].st = "Admitting"
    <3>1. Admits /\ subs = 1
      BY <1>2, <2>0, <2>1 DEF Admits, AdmissionsCounted
    <3>2. subs' = 0
      BY <2>1, <3>1 DEF ReleaseSlot, AdmissionEnds
    <3>3. \A u \in Tasks : Runs(u) => u = t
      BY InQuantum
    <3>4. ~Admits'
      <4>1. \A z \in Slots \ {s} : slot[z].st # "Admitting"
        <5>1. \A z \in Slots : SlotKept(z)
          BY DEF IInv, Slotted
        <5> QED BY <3>3, <5>1 DEF SlotKept, Held
      <4> QED BY <1>6, <1>7, <4>1 DEF Admits
    <3> QED BY <3>2, <3>4 DEF AdmissionsCounted
  <2>2. CASE slot[s].st = "Complete"
    <3>1. subs' = subs
      BY <2>2 DEF ReleaseSlot
    <3>2. Admits' <=> Admits
      BY <1>2, <1>6, <1>7, <2>2 DEF Admits
    <3> QED BY <1>3, <2>0, <3>1, <3>2 DEF AdmissionsCounted
  <2> QED BY <2>1, <2>2
<1> QED BY <1>7, <1>8, <1>11, <1>12, <1>13, <1>14, <1>15, <1>16, <1>17 DEF Slotted

\* An await of a host operation that returns and releases its slot.
LEMMA HostReturns ==
    ASSUME IInv, NEW l \in Lanes, lane[l].pc = "run", NEW t, t = lane[l].task,
           token[t] # 0, at[t] \in {"park", "complete"},
           slot[token[t]].st \in {"Admitting", "Complete"},
           Returns(t), ReleaseSlot(token[t]),
           token' = [token EXCEPT ![t] = 0], reserved' = reserved - 1,
           UNCHANGED <<script, state, wakeTicket, readyVars, tickets, lane, laneStop, inFlight,
                       compute, queue, nextSub, nextExec, stop, io, rootVars>>
    PROVE  IInv'
<1>1. /\ t \in Tasks /\ PhaseKept(t) /\ RunPlace(t) /\ TokenKept(t) /\ ~Waked(t)
      /\ state \in [Tasks -> States] /\ at \in [Tasks -> Places]
      /\ step \in [Tasks -> Nat \ {0}] /\ inFlight \in Nat
  BY Awaits, InQuantum
<1>2. state[t] \in {"Running", "Failed"}
  BY <1>1 DEF RunPlace
<1>3. /\ at' = [at EXCEPT ![t] = "next"] /\ step' = [step EXCEPT ![t] = step[t] + 1]
  BY DEF Returns
<1>4. /\ at'[t] = "next" /\ \A u \in Tasks \ {t} : at'[u] = at[u] /\ SameTask(u)
      /\ at' \in [Tasks -> Places] /\ step' \in [Tasks -> Nat \ {0}]
  BY <1>1, <1>3 DEF SameTask, Places
<1>5. /\ \A m \in Lanes : SameLists(m) /\ SameWork(m)
      /\ \A m \in Lanes : lane'[m].pc = lane[m].pc
      /\ lane'[l].pc = "run"
  BY DEF SameLists, SameWork
<1>6. /\ Slotted' /\ BytesCounted' /\ AdmissionsCounted'
      /\ slot' \in [Slots -> SlotRec] /\ free' \in Seq(Slots) /\ subs' \in Nat
      /\ reserved' \in 0..PayloadCapacity /\ token' \in [Tasks -> 0..SlotCount]
  BY <1>2, <1>4, <1>5, SlotReleased
<1>7. Types'
  <2>1. TaskTypes'
    BY <1>4, <1>6 DEF IInv, Types, TaskTypes, Places
  <2>2. PoolTypes'
    BY <1>6 DEF IInv, Types, PoolTypes
  <2>3. ReadyTypes' /\ LaneTypes' /\ ComputeTypes' /\ RootTypes'
    BY DEF IInv, Types, ReadyTypes, LaneTypes, ComputeTypes, RootTypes, readyVars, tickets,
       compute, rootVars
  <2> QED BY <2>1, <2>2, <2>3 DEF Types
<1>8. RunPlace(t)' /\ Flights(t)' = 0 /\ Flights(t) = 0
  BY <1>2, <1>4 DEF RunPlace, Flights, Suspended
<1>9. inFlight' = inFlight + Flights(t)' - Flights(t)
  BY <1>1, <1>8
<1>10. Computed'
  <2>1. ~Computes(t)
    BY <1>1 DEF TokenKept
  <2>2. PhaseKept(t)'
    BY <1>1, <1>4, <2>1 DEF PhaseKept, Computes, compute, Pending, Parked, Done
  <2>3. Units(t)' = Units(t)
    BY <1>4 DEF Units
  <2>4. \A u \in Tasks \ {t} : Aside(u) /\ token'[u] = token[u]
    BY <1>4 DEF Aside, SameTask, IInv, Types, TaskTypes
  <2> QED BY <1>1, <1>5, <2>2, <2>3, <2>4, ComputedAround DEF IInv, compute
<1> QED BY <1>2, <1>4, <1>5, <1>6, <1>7, <1>8, <1>9, <1>10, AwaitStep DEF readyVars, tickets, rootVars

LEMMA CompleteHostIoKeeps ==
    ASSUME IInv, NEW l \in Lanes, CompleteHostIo(l)
    PROVE  IInv'
<1>1. PICK t : t = lane[l].task
  OBVIOUS
<1>2. lane[l].pc = "run" /\ at[t] = "complete"
  BY <1>1 DEF CompleteHostIo, At
<1>3. t \in Tasks /\ TokenKept(t) /\ RunPlace(t)
  BY <1>1, <1>2, Awaits
<1>4. token[t] # 0 /\ state[t] = "Running"
  BY <1>2, <1>3 DEF TokenKept, RunPlace
<1>5. slot[token[t]].st = "Complete"
  <2>1. /\ token[t] \in Slots /\ slot[token[t]].task = t
        /\ slot[token[t]].st \notin {"Free", "Admitting"}
    BY <1>2, <1>3, <1>4, TokensApart DEF TokenKept
  <2>2. SlotKept(token[t]) /\ slot[token[t]] \in SlotRec
    BY <2>1 DEF IInv, Slotted, Types, PoolTypes
  <2>3. slot[token[t]].st \notin {"Queued", "Running"}
    BY <1>4, <2>1, <2>2 DEF SlotKept, Asleep
  <2> QED BY <2>1, <2>2, <2>3 DEF SlotRec
<1>6. /\ Returns(t) /\ ReleaseSlot(token[t]) /\ reserved' = reserved - 1
      /\ token' = [token EXCEPT ![t] = 0]
      /\ UNCHANGED <<script, state, wakeTicket, readyVars, tickets, lane, laneStop, inFlight,
                     compute, queue, nextSub, nextExec, stop, io, rootVars>>
  BY <1>1, <1>5 DEF CompleteHostIo
<1> QED BY <1>1, <1>2, <1>4, <1>5, <1>6, HostReturns

LEMMA ParkRefusedKeeps ==
    ASSUME IInv, NEW l \in Lanes, ParkRefused(l)
    PROVE  IInv'
<1>1. PICK t : t = lane[l].task
  OBVIOUS
<1>2. /\ lane[l].pc = "run" /\ at[t] = "park"
      /\ state[t] # "Running" \/ PhaseOf(t) # Pending
  BY <1>1 DEF ParkRefused, At
<1>3. /\ t \in Tasks /\ PhaseKept(t) /\ device[t] # "wake" /\ RunPlace(t)
      /\ (token[t] = 0 => Computes(t) /\ state[t] # "Failed")
      /\ inFlight \in Nat /\ pass \in [Tasks -> Nat]
      /\ state \in [Tasks -> States] /\ at \in [Tasks -> Places]
      /\ step \in [Tasks -> Nat \ {0}]
  BY <1>1, <1>2, Awaits
<1>4. UNCHANGED <<script, state, wakeTicket, readyVars, tickets, lane, laneStop, inFlight,
                  compute, queue, nextSub, nextExec, stop, io, rootVars>>
  BY DEF ParkRefused
<1>5. CASE token[t] = 0
  <2>1. /\ at' = [at EXCEPT ![t] = "reset"]
        /\ UNCHANGED <<step, token, slot, free, subs, reserved>>
    BY <1>1, <1>5 DEF ParkRefused
  <2>2. state[t] = "Running" /\ phase[t] = Done
    BY <1>2, <1>3, <1>5 DEF RunPlace, PhaseOf, PhaseKept
  <2>3. at'[t] = "reset" /\ state' = [state EXCEPT ![t] = "Running"] /\ state'[t] = "Running"
    BY <1>3, <1>4, <2>1, <2>2
  <2>4. RunPlace(t)' /\ Flights(t)' = 0 /\ Flights(t) = 0
    BY <2>2, <2>3 DEF RunPlace, Flights, Suspended
  <2>5. inFlight' = inFlight + Flights(t)' - Flights(t) /\ inFlight' \in Nat
    BY <1>3, <1>4, <2>4
  <2>6. PhaseKept(t)'
    BY <1>2, <1>3, <1>4, <1>5, <2>1, <2>2, <2>3
       DEF PhaseKept, Computes, compute, Pending, Parking, Parked, Done
  <2>7. ComputeTypes' /\ device'[t] # "wake"
    BY <1>3, <1>4 DEF IInv, Types, ComputeTypes, compute
  <2>8. pass'[t] - Units(t)' = pass[t] - Units(t)
    BY <1>2, <1>4, <2>3 DEF Units, compute
  <2>9. PICK ends \in BOOLEAN, p \in Places \ {"queue", "complete"},
             s \in {"Running", "Failed", "ExternalBlocked"} :
          ends = FALSE /\ p = "reset" /\ s = "Running"
    BY DEF Places
  <2>10. /\ lane' = IF ends THEN [lane EXCEPT ![l].pc = "finish"] ELSE lane
         /\ at' = [at EXCEPT ![t] = p] /\ state' = [state EXCEPT ![t] = s]
         /\ (ends => EndPlace(t)') /\ (~ends => RunPlace(t)')
    BY <1>4, <2>1, <2>3, <2>4, <2>9
  <2>11. /\ \A u \in Tasks \ {t} :
               phase'[u] = phase[u] /\ pass'[u] = pass[u] /\ device'[u] = device[u]
         /\ step' \in [Tasks -> Nat \ {0}]
    BY <1>3, <1>4, <2>1 DEF compute
  <2>12. UNCHANGED <<script, wakeTicket, token, readyVars, tickets, laneStop, pool,
                     stop, io, rootVars>>
    BY <1>4, <2>1 DEF pool
  <2> QED BY <1>1, <1>2, <1>5, <2>5, <2>6, <2>7, <2>8, <2>10, <2>11, <2>12, CoordinatorStep
<1>6. CASE token[t] # 0
  <2>1. /\ Returns(t) /\ ReleaseSlot(token[t])
        /\ token' = [token EXCEPT ![t] = 0] /\ reserved' = reserved - 1
    BY <1>1, <1>6 DEF ParkRefused
  <2>2. slot[token[t]].st = "Admitting"
    BY <1>1, <1>2, <1>6, SlotOf
  <2> QED BY <1>1, <1>2, <1>4, <1>6, <2>1, <2>2, HostReturns
<1> QED BY <1>5, <1>6

-----------------------------------------------------------------------------
(* A host operation is admitted or refused.                                *)

\* The start of the worker thread.
LEMMA IoStarts ==
    ASSUME IInv, io' = io \/ io' = Started
    PROVE  IoRests /\ io' \in IoRec
<1>1. PICK w \in IoRec : w = io
  BY DEF IInv, Types, PoolTypes
<1>2. PICK v : v = [w EXCEPT !.pc = "wait"]
  OBVIOUS
<1>3. v \in IoRec /\ v.pc = "wait" /\ v.slot = w.slot /\ v.seq = w.seq /\ v.prior = w.prior
  BY <1>2 DEF IoRec
<1>4. io' = w \/ (w.pc = "none" /\ io' = v)
  BY <1>1, <1>2 DEF Started
<1> QED BY <1>1, <1>3, <1>4 DEF IoRests

\* What the I/O worker is at, if neither its slot nor the task changes.
LEMMA WorkerElsewhere ==
    ASSUME IInv, IoRests, io' \in IoRec,
           io.pc \in {"native", "publish", "wake"} => slot'[io.slot] = slot[io.slot],
           io.pc = "wake" => /\ SameFor(slot[io.slot].task)
                             /\ token'[slot[io.slot].task] = token[slot[io.slot].task]
    PROVE  WorkerKept'
<1>1. WorkerKept
  BY DEF IInv, Slotted
<1> QED BY <1>1 DEF WorkerKept, Asleep, Held, SameFor, SameTask, IoRests

\* The pool is as it was, but the worker thread may have been started.
LEMMA PoolStarts ==
    ASSUME IInv, NEW l \in Lanes, NEW t, t = lane[l].task, lane[l].pc = "run", token[t] = 0,
           UNCHANGED <<script, token, pool>>, IoRests, io' \in IoRec,
           \A u \in Tasks \ {t} : SameTask(u),
           \A m \in Lanes : SameLists(m),
           \A m \in Lanes \ {l} : lane'[m].pc = lane[m].pc,
           lane'[l].pc \in {"run", "finish"},
           at'[t] \notin {"queue", "complete"}
    PROVE  Slotted' /\ BytesCounted' /\ AdmissionsCounted'
<1>0. UNCHANGED <<slot, free, queue, nextSub, subs, reserved>> /\ nextSub \in Nat
  BY DEF pool, IInv, Types, PoolTypes
<1>1. \A u \in Tasks \ {t} : Runs(u)' <=> Runs(u)
  BY QuantumRuns
<1>2. \A u \in Tasks : token[u] # 0 => SameFor(u) /\ token'[u] = token[u]
  BY <1>1 DEF SameFor
<1>3. Lists'
  BY <1>0 DEF IInv, Slotted, Lists, Once, Ascends, Distinct
<1>4. ASSUME NEW x \in Slots PROVE SlotKept(x)'
  <2>1. slot[x].st # "Free" => slot[x].task \in Tasks /\ token[slot[x].task] = x
    BY DEF IInv, Slotted, SlotKept, Held
  <2>2. slot[x].st # "Free" => /\ token'[slot[x].task] = token[slot[x].task]
                               /\ SameFor(slot[x].task)
    BY <1>2, <2>1, Sizes
  <2>3. slot'[x] = slot[x] /\ nextSub' = nextSub /\ nextSub' >= nextSub /\ nextSub' \in Nat
    BY <1>0
  <2> QED BY <1>0, <2>2, <2>3, SlotElsewhere
<1>5. WorkerKept'
  <2>1. io.pc = "wake" => slot[io.slot].task \in Tasks /\ token[slot[io.slot].task] # 0
    BY Sizes DEF IInv, Slotted, WorkerKept, Asleep, Held
  <2>2. io.pc = "wake" => /\ SameFor(slot[io.slot].task)
                          /\ token'[slot[io.slot].task] = token[slot[io.slot].task]
    BY <1>2, <2>1
  <2> QED BY <1>0, <2>2, WorkerElsewhere
<1>6. ASSUME NEW u \in Tasks PROVE TokenKept(u)'
  <2>1. TokenKept(u)
    BY DEF IInv, Slotted
  <2>2. CASE u = t
    BY <2>2 DEF TokenKept
  <2>3. CASE u # t
    BY <1>0, <2>1, <2>3 DEF TokenKept, Computes, SameTask
  <2> QED BY <2>2, <2>3
<1> QED BY <1>0, <1>3, <1>4, <1>5, <1>6, PoolCountsStay DEF IInv, Slotted, Counted

\* Claim: the head of the free list is admitted for t.
LEMMA SlotClaimed ==
    ASSUME IInv, NEW l \in Lanes, NEW t, t = lane[l].task, lane[l].pc = "run", at[t] = "next",
           token[t] = 0, ~Computes(t), reserved + 1 <= PayloadCapacity,
           free # <<>>, NEW s, s = Head(free), free' = Tail(free),
           slot' = [slot EXCEPT ![s] = [@ EXCEPT !.st = "Admitting", !.seq = nextSub,
                                                 !.task = t, !.outcome = "Pending"]],
           nextSub' = nextSub + 1, subs' = subs + 1, reserved' = reserved + 1,
           token' = [token EXCEPT ![t] = s], at'[t] = "park",
           UNCHANGED <<script, queue, nextExec, lane>>, IoRests, io' \in IoRec,
           \A u \in Tasks \ {t} : SameTask(u)
    PROVE  /\ Slotted' /\ BytesCounted' /\ AdmissionsCounted'
           /\ slot' \in [Slots -> SlotRec] /\ free' \in Seq(Slots) /\ subs' \in Nat
           /\ reserved' \in 0..PayloadCapacity /\ token' \in [Tasks -> 0..SlotCount]
           /\ nextSub' \in Nat /\ nextExec' \in 1..nextSub'
           /\ token'[t] # 0 /\ \A u \in Tasks \ {t} : token'[u] = token[u]
<1>1. t \in Tasks /\ Runs(t) /\ \A u \in Tasks : Runs(u) => u = t
  BY InQuantum
<1>2. /\ slot \in [Slots -> SlotRec] /\ free \in Seq(Slots) /\ queue \in Seq(Slots)
      /\ subs \in Nat /\ reserved \in 0..PayloadCapacity /\ token \in [Tasks -> 0..SlotCount]
      /\ nextSub \in Nat /\ nextExec \in 1..nextSub /\ PayloadCapacity \in Nat
  BY SizeAssumption DEF IInv, Types, TaskTypes, PoolTypes
<1>3. Lists
  BY DEF IInv, Slotted
<1>4. /\ s \in Slots /\ free' \in Seq(Slots) /\ s \in Range(free)
      /\ Range(free) = Range(free') \cup {s}
      /\ IsInjective(free') /\ s \notin Range(free')
  BY <1>2, <1>3, TailOnce DEF Lists, Once
<1>5. slot[s].st = "Free"
  BY <1>3, <1>4 DEF Lists, Once
<1>6. PICK x \in SlotRec : x = slot[s]
  BY <1>2, <1>4
<1>7. PICK y : y = [x EXCEPT !.st = "Admitting", !.seq = nextSub, !.task = t,
                             !.outcome = "Pending"]
  OBVIOUS
<1>8. /\ y \in SlotRec /\ y.st = "Admitting" /\ y.seq = nextSub /\ y.task = t
      /\ y.phase = x.phase /\ y.released = x.released
  BY <1>1, <1>2, <1>7, Sizes DEF SlotRec
<1>9. /\ slot'[s] = y /\ \A z \in Slots \ {s} : slot'[z] = slot[z]
      /\ slot' \in [Slots -> SlotRec]
  BY <1>2, <1>4, <1>6, <1>7, <1>8
<1>10. /\ token'[t] = s /\ token' \in [Tasks -> 0..SlotCount] /\ s # 0
       /\ \A u \in Tasks \ {t} : token'[u] = token[u]
  BY <1>1, <1>2, <1>4, Sizes
<1>11. \A u \in Tasks : SameTask(u) => SameFor(u)
  BY DEF SameFor, Runs
<1>12. /\ \A z \in Slots : slot[z].st # "Admitting"
       /\ \A z \in Slots : slot[z].st # "Free" =>
             slot[z].task \in Tasks \ {t} /\ slot[z].seq < nextSub /\ slot[z].seq \in Nat
  <2>1. ASSUME NEW z \in Slots, slot[z].st # "Free"
        PROVE  /\ slot[z].st # "Admitting" /\ slot[z].task \in Tasks \ {t}
               /\ slot[z].seq < nextSub /\ slot[z].seq \in Nat
    <3>1. slot[z].task \in Tasks \ {t}
      BY <2>1, SlotTasks, Sizes
    <3>2. SlotKept(z) /\ slot[z] \in SlotRec
      BY <1>2 DEF IInv, Slotted
    <3>3. slot[z].seq \in Nat /\ slot[z].seq \in 1..(nextSub - 1)
      BY <2>1, <3>2 DEF SlotKept, SlotRec
    <3>4. slot[z].st # "Admitting"
      BY <1>1, <3>1, <3>2 DEF SlotKept
    <3>5. slot[z].seq < nextSub
      <4>1. PICK i \in Nat : i = slot[z].seq
        BY <3>3
      <4>2. i \in 1..(nextSub - 1)
        BY <3>3, <4>1
      <4>3. i < nextSub
        BY <1>2, <4>2
      <4> QED BY <4>1, <4>3
    <3> QED BY <3>1, <3>3, <3>4, <3>5
  <2> QED BY <2>1
<1>13. Lists'
  <2>1. {z \in Slots : slot'[z].st = "Queued"} = {z \in Slots : slot[z].st = "Queued"}
    BY <1>4, <1>5, <1>8, <1>9
  <2>2. {z \in Slots : slot'[z].st = "Free"} = {z \in Slots : slot[z].st = "Free"} \ {s}
    BY <1>4, <1>8, <1>9
  <2>3. Once(queue, {z \in Slots : slot[z].st = "Queued"})'
    BY <1>3, <2>1 DEF Lists, Once
  <2>4. Once(free, {z \in Slots : slot[z].st = "Free"})'
    BY <1>3, <1>4, <2>2 DEF Lists, Once
  <2>5. \A i \in DOMAIN queue : queue[i] \in Slots \ {s}
    BY <1>2, <1>3, <1>5 DEF Lists, Once, Range
  <2>6. Ascends'
    BY <1>3, <1>9, <2>5 DEF Lists, Ascends
  <2>7. Distinct'
    BY <1>2, <1>3, <1>8, <1>9, <1>12 DEF Lists, Distinct
  <2> QED BY <2>3, <2>4, <2>6, <2>7 DEF Lists
<1>14. ASSUME NEW z \in Slots PROVE SlotKept(z)'
  <2>1. CASE z = s
    <3>1. SlotKept(s)
      BY <1>4 DEF IInv, Slotted
    <3>2. x.phase = Pending /\ x.released < nextSub
      BY <1>5, <1>6, <3>1 DEF SlotKept
    <3>3. y.seq \in 1..(nextSub' - 1) /\ y.released < y.seq /\ y.seq + 1 = nextSub'
      BY <1>2, <1>8, <3>2
    <3>4. Runs(t)'
      BY <1>1 DEF Runs
    <3>5. Held(s)'
      BY <1>1, <1>8, <1>9, <1>10 DEF Held
    <3> QED BY <1>8, <1>9, <2>1, <3>2, <3>3, <3>4, <3>5 DEF SlotKept
  <2>2. CASE z # s
    <3>1. slot[z].st # "Free" => /\ token'[slot[z].task] = token[slot[z].task]
                                 /\ SameFor(slot[z].task)
      BY <1>10, <1>11, <1>12
    <3>2. /\ slot'[z] = slot[z] /\ slot[z].st # "Admitting"
          /\ nextSub' \in Nat /\ nextSub' >= nextSub
      BY <1>2, <1>9, <1>12, <2>2
    <3> QED BY <1>2, <3>1, <3>2, SlotElsewhere
  <2> QED BY <2>1, <2>2
<1>15. WorkerKept'
  <2>1. WorkerKept
    BY DEF IInv, Slotted
  <2>2. io.pc \in {"native", "publish", "wake"} => io.slot \in Slots \ {s}
    BY <1>5, <2>1 DEF WorkerKept
  <2>3. io.pc = "wake" => slot[io.slot].task \in Tasks \ {t}
    BY <2>1 DEF WorkerKept, Asleep, Held
  <2>4. io.pc = "wake" => /\ SameFor(slot[io.slot].task)
                          /\ token'[slot[io.slot].task] = token[slot[io.slot].task]
    BY <1>10, <1>11, <2>3
  <2>5. io.pc \in {"native", "publish", "wake"} => slot'[io.slot] = slot[io.slot]
    BY <1>9, <2>2
  <2> QED BY <2>4, <2>5, WorkerElsewhere
<1>16. ASSUME NEW u \in Tasks PROVE TokenKept(u)'
  <2>1. TokenKept(u)
    BY DEF IInv, Slotted
  <2>2. CASE u = t
    BY <1>8, <1>9, <1>10, <2>2 DEF TokenKept, Computes, Admission
  <2>3. CASE u # t
    <3>1. token[u] # 0 => token[u] \in Slots \ {s}
      BY <1>2, <1>5, <2>1, Sizes DEF TokenKept
    <3> QED BY <1>9, <1>10, <2>1, <2>3, <3>1 DEF TokenKept, Computes, SameTask
  <2> QED BY <2>2, <2>3
<1>17. BytesCounted' /\ reserved' \in 0..PayloadCapacity
  <2>1. t \notin TokenTasks /\ TokenTasks' = TokenTasks \cup {t}
    BY <1>1, <1>10 DEF TokenTasks
  <2>2. /\ Cardinality(TokenTasks)' = Cardinality(TokenTasks) + 1
        /\ Cardinality(TokenTasks) \in Nat
    BY <2>1, CountedFinite, CountOne
  <2> QED BY <1>2, <2>2 DEF IInv, Counted, BytesCounted
<1>18. AdmissionsCounted' /\ subs' \in Nat
  <2>1. subs = 0
    BY <1>12 DEF IInv, Counted, AdmissionsCounted, Admits
  <2>2. Admits'
    BY <1>4, <1>8, <1>9 DEF Admits
  <2> QED BY <2>1, <2>2 DEF AdmissionsCounted
<1>19. nextSub' \in Nat /\ nextExec' \in 1..nextSub'
  BY <1>2
<1> QED BY <1>4, <1>9, <1>10, <1>13, <1>14, <1>15, <1>16, <1>17, <1>18, <1>19 DEF Slotted

LEMMA SuspendHostIoKeeps ==
    ASSUME IInv, NEW l \in Lanes, SuspendHostIo(l)
    PROVE  IInv'
<1>1. PICK t : t = lane[l].task
  OBVIOUS
<1>2. At(l, "next") /\ Op(t) \in {"io", "big"}
  BY <1>1 DEF SuspendHostIo
<1>3. /\ lane[l].pc = "run" /\ t \in Tasks /\ at[t] = "next" /\ token[t] = 0
      /\ state[t] \in {"Running", "Failed"} /\ ~Waked(t) /\ ~Suspended(t)
  BY <1>1, <1>2, BetweenAwaits
<1>4. /\ PhaseKept(t) /\ inFlight \in Nat
      /\ state \in [Tasks -> States] /\ at \in [Tasks -> Places]
      /\ step \in [Tasks -> Nat \ {0}]
  BY <1>1, <1>3, Awaits
<1>5. ~Computes(t)
  BY <1>2, <1>3, OpKinds DEF Ops, ComputeOps, IInv, Types
<1>6. UNCHANGED <<script, wakeTicket, readyVars, tickets, lane, laneStop, inFlight, compute,
                  queue, nextExec, stop, rootVars>>
  BY DEF SuspendHostIo
<1>7. IoRests /\ io' \in IoRec
  <2>1. io' = io \/ io' = Started
    BY DEF SuspendHostIo
  <2> QED BY <2>1, IoStarts
<1>8. /\ \A m \in Lanes : SameLists(m) /\ SameWork(m)
      /\ \A m \in Lanes : lane'[m].pc = lane[m].pc
      /\ lane'[l].pc = "run"
  BY <1>3, <1>6 DEF SameLists, SameWork
<1>9. CASE Fits(t) /\ ~stop /\ First(free) # 0
  <2>1. PICK s : s = Head(free)
    OBVIOUS
  <2>2. free # <<>> /\ s = First(free)
    BY <1>9, <2>1 DEF First
  <2>3. /\ free' = Tail(free)
        /\ slot' = [slot EXCEPT ![s] = [@ EXCEPT !.st = "Admitting", !.seq = nextSub,
                                                 !.task = t, !.outcome = "Pending"]]
        /\ nextSub' = nextSub + 1 /\ subs' = subs + 1 /\ reserved' = reserved + 1
        /\ token' = [token EXCEPT ![t] = s] /\ at' = [at EXCEPT ![t] = "park"]
        /\ UNCHANGED <<state, step>>
    BY <1>1, <1>9, <2>2 DEF SuspendHostIo
  <2>4. /\ at'[t] = "park" /\ at' \in [Tasks -> Places]
        /\ \A u \in Tasks \ {t} : SameTask(u)
    BY <1>3, <1>4, <1>6, <2>3 DEF SameTask, Places
  <2>5. /\ Slotted' /\ BytesCounted' /\ AdmissionsCounted'
        /\ slot' \in [Slots -> SlotRec] /\ free' \in Seq(Slots) /\ subs' \in Nat
        /\ reserved' \in 0..PayloadCapacity /\ token' \in [Tasks -> 0..SlotCount]
        /\ nextSub' \in Nat /\ nextExec' \in 1..nextSub'
        /\ token'[t] # 0 /\ \A u \in Tasks \ {t} : token'[u] = token[u]
    <3>1. reserved + 1 <= PayloadCapacity
      BY <1>9 DEF Fits
    <3>2. UNCHANGED <<script, queue, nextExec, lane>>
      BY <1>6
    <3> QED BY <1>1, <1>3, <1>5, <1>7, <2>1, <2>2, <2>3, <2>4, <3>1, <3>2, SlotClaimed, Zenon
  <2>6. Types'
    <3>1. TaskTypes'
      BY <1>6, <2>3, <2>4, <2>5 DEF IInv, Types, TaskTypes, Places
    <3>2. PoolTypes'
      BY <1>6, <1>7, <2>5 DEF IInv, Types, PoolTypes
    <3>3. ReadyTypes' /\ LaneTypes' /\ ComputeTypes' /\ RootTypes'
      BY <1>6 DEF IInv, Types, ReadyTypes, LaneTypes, ComputeTypes, RootTypes, readyVars,
         tickets, compute, rootVars
    <3> QED BY <3>1, <3>2, <3>3 DEF Types
  <2>7. RunPlace(t)' /\ Flights(t)' = 0 /\ Flights(t) = 0
    BY <1>3, <2>3, <2>4 DEF RunPlace, Flights, Suspended
  <2>8. inFlight' = inFlight + Flights(t)' - Flights(t)
    BY <1>4, <1>6, <2>7
  <2>9. Computed'
    <3>1. PhaseKept(t)'
      BY <1>4, <1>5, <1>6, <2>3, <2>4, <2>5
         DEF PhaseKept, Computes, compute, Pending, Parked, Done
    <3>2. Units(t)' = Units(t)
      BY <1>3, <2>4 DEF Units
    <3>3. \A u \in Tasks \ {t} : Aside(u) /\ token'[u] = token[u]
      BY <2>4, <2>5 DEF Aside, SameTask
    <3> QED BY <1>3, <1>6, <1>8, <3>1, <3>2, <3>3, ComputedAround DEF IInv, compute
  <2>10. state'[t] \in {"Running", "Failed", "ExternalBlocked"}
    BY <1>3, <2>3
  <2> QED BY <1>1, <1>3, <1>6, <1>8, <2>4, <2>5, <2>6, <2>7, <2>8, <2>9, <2>10, AwaitStep
          DEF readyVars, tickets, rootVars
<1>10. CASE ~(Fits(t) /\ ~stop /\ First(free) # 0)
  <2>1. /\ state' = [state EXCEPT ![t] = "Failed"] /\ Returns(t)
        /\ UNCHANGED <<free, slot, nextSub, subs, reserved, token>>
    BY <1>1, <1>10 DEF SuspendHostIo
  <2>2. /\ at' = [at EXCEPT ![t] = "next"] /\ step' = [step EXCEPT ![t] = step[t] + 1]
    BY <2>1 DEF Returns
  <2>3. /\ at'[t] = "next" /\ at' \in [Tasks -> Places] /\ step' \in [Tasks -> Nat \ {0}]
        /\ \A u \in Tasks \ {t} : at'[u] = at[u]
    BY <1>3, <1>4, <2>2 DEF Places
  <2>4. /\ state'[t] = "Failed" /\ state' \in [Tasks -> States]
        /\ \A u \in Tasks \ {t} : state'[u] = state[u]
    <3>1. "Failed" \in States
      BY DEF States, Terminal
    <3> QED BY <1>3, <1>4, <2>1, <3>1
  <2>5. \A u \in Tasks \ {t} : SameTask(u)
    BY <1>6, <2>3, <2>4 DEF SameTask
  <2>6. Slotted' /\ BytesCounted' /\ AdmissionsCounted'
    <3>1. UNCHANGED <<script, token, pool>>
      BY <1>6, <2>1 DEF pool
    <3>2. at'[t] \notin {"queue", "complete"}
      BY <2>3
    <3> QED BY <1>1, <1>3, <1>7, <1>8, <2>5, <3>1, <3>2, PoolStarts
  <2>7. Types'
    <3>1. TaskTypes'
      BY <1>6, <2>1, <2>3, <2>4 DEF IInv, Types, TaskTypes, Places, States
    <3>2. PoolTypes'
      BY <1>6, <1>7, <2>1 DEF IInv, Types, PoolTypes
    <3>3. ReadyTypes' /\ LaneTypes' /\ ComputeTypes' /\ RootTypes'
      BY <1>6 DEF IInv, Types, ReadyTypes, LaneTypes, ComputeTypes, RootTypes, readyVars,
         tickets, compute, rootVars
    <3> QED BY <3>1, <3>2, <3>3 DEF Types
  <2>8. RunPlace(t)' /\ Flights(t)' = 0 /\ Flights(t) = 0
    BY <1>3, <2>3, <2>4 DEF RunPlace, Flights, Suspended
  <2>9. inFlight' = inFlight + Flights(t)' - Flights(t)
    BY <1>4, <1>6, <2>8
  <2>10. Computed'
    <3>1. PhaseKept(t)'
      BY <1>3, <1>4, <1>5, <1>6, <2>1, <2>3
         DEF PhaseKept, Computes, compute, Pending, Parked, Done
    <3>2. Units(t)' = Units(t)
      BY <1>3, <2>3 DEF Units
    <3>3. \A u \in Tasks \ {t} : Aside(u) /\ token'[u] = token[u]
      BY <2>1, <2>5 DEF Aside, SameTask
    <3> QED BY <1>3, <1>6, <1>8, <3>1, <3>2, <3>3, ComputedAround DEF IInv, compute
  <2> QED BY <1>1, <1>3, <1>6, <1>8, <2>4, <2>5, <2>6, <2>7, <2>8, <2>9, <2>10, AwaitStep
          DEF readyVars, tickets, rootVars
<1> QED BY <1>9, <1>10

\* The operation that is being admitted is the last one submitted.
LEMMA LastSubmitted ==
    ASSUME IInv, NEW s \in Slots, slot[s].st = "Admitting"
    PROVE  \A z \in Slots \ {s} : slot[z].st # "Free" => slot[z].seq < slot[s].seq
<1>1. nextSub \in Nat /\ slot \in [Slots -> SlotRec] /\ Distinct
  BY DEF IInv, Types, PoolTypes, Slotted, Lists
<1>2. \A z \in Slots : slot[z].seq \in Nat
  BY <1>1 DEF SlotRec
<1>3. slot[s].seq + 1 = nextSub
  BY DEF IInv, Slotted, SlotKept
<1>4. ASSUME NEW z \in Slots \ {s}, slot[z].st # "Free"
      PROVE  slot[z].seq < slot[s].seq
  <2>1. PICK i \in Nat, j \in Nat : i = slot[z].seq /\ j = slot[s].seq
    BY <1>2
  <2>2. i \in 1..(nextSub - 1)
    BY <1>4, <2>1 DEF IInv, Slotted, SlotKept
  <2>3. i # j /\ j + 1 = nextSub
    BY <1>1, <1>3, <1>4, <2>1 DEF Distinct
  <2>4. i < j
    BY <1>1, <2>2, <2>3
  <2> QED BY <2>1, <2>4
<1> QED BY <1>4

\* Queue: the admitted slot of t goes to the end of the FIFO.
LEMMA SlotQueued ==
    ASSUME IInv, NEW l \in Lanes, lane[l].pc = "run", NEW t, t = lane[l].task,
           at[t] = "queue", NEW s, s = token[t],
           slot' = [slot EXCEPT ![s].st = "Queued"], queue' = Append(queue, s),
           subs' = AdmissionEnds,
           UNCHANGED <<script, token, state, wakeTicket, free, nextSub, reserved, io>>,
           at'[t] = "complete", \A u \in Tasks \ {t} : SameTask(u),
           \A m \in Lanes : SameLists(m),
           \A m \in Lanes \ {l} : lane'[m].pc = lane[m].pc,
           lane'[l].pc = "finish"
    PROVE  /\ Slotted' /\ BytesCounted' /\ AdmissionsCounted'
           /\ slot' \in [Slots -> SlotRec] /\ queue' \in Seq(Slots) /\ subs' \in Nat
           /\ token[t] # 0
<1>1. /\ t \in Tasks /\ RunPlace(t) /\ TokenKept(t) /\ wakeTicket[t] = 0
  BY Awaits, InQuantum
<1>2. token[t] # 0 /\ state[t] = "ExternalBlocked"
  BY <1>1 DEF TokenKept, RunPlace
<1>3. /\ s \in Slots /\ slot[s].task = t /\ slot[s].st = "Admitting" /\ ~Computes(t)
      /\ slot[s].phase = Parked
      /\ \A u \in Tasks \ {t} : token[u] # s
      /\ \A x \in Slots : slot[x].st = "Admitting" => x = s
  BY <1>2, SlotOf DEF AdmitPhase
<1>4. /\ slot \in [Slots -> SlotRec] /\ queue \in Seq(Slots) /\ nextSub \in Nat
  BY DEF IInv, Types, PoolTypes
<1>5. PICK x \in SlotRec : x = slot[s]
  BY <1>3, <1>4
<1>6. PICK y : y = [x EXCEPT !.st = "Queued"]
  OBVIOUS
<1>7. /\ y \in SlotRec /\ y.st = "Queued" /\ y.seq = x.seq /\ y.task = x.task
      /\ y.phase = x.phase /\ y.released = x.released
  BY <1>6 DEF SlotRec
<1>8. /\ slot'[s] = y /\ \A z \in Slots \ {s} : slot'[z] = slot[z]
      /\ slot' \in [Slots -> SlotRec]
  BY <1>3, <1>4, <1>5, <1>6, <1>7
<1>9. \A z \in Slots \ {s} : slot[z].st # "Free" => slot[z].seq < slot[s].seq
  BY <1>3, LastSubmitted
<1>10. Lists /\ SlotKept(s) /\ WorkerKept
  BY <1>3 DEF IInv, Slotted
<1>11. \A u \in Tasks \ {t} : SameFor(u)
  <2>1. \A u \in Tasks \ {t} : Runs(u)' <=> Runs(u)
    BY QuantumRuns
  <2> QED BY <2>1 DEF SameFor
<1>12. queue' \in Seq(Slots) /\ Once(queue, {z \in Slots : slot[z].st = "Queued"})'
  <2>1. Once(queue, {z \in Slots : slot[z].st = "Queued"}) /\ s \notin Range(queue)
    BY <1>3, <1>10 DEF Lists, Once
  <2>2. {z \in Slots : slot'[z].st = "Queued"} = {z \in Slots : slot[z].st = "Queued"} \cup {s}
    BY <1>3, <1>7, <1>8
  <2>3. /\ queue' \in Seq(Slots) /\ Range(queue') = Range(queue) \cup {s}
        /\ IsInjective(queue')
    BY <1>3, <1>4, <2>1, AppendOnce DEF Once
  <2> QED BY <2>1, <2>2, <2>3 DEF Once
<1>13. Ascends'
  <2>1. /\ Len(queue) \in Nat /\ DOMAIN queue = 1..Len(queue)
        /\ DOMAIN queue' = 1..(Len(queue) + 1)
        /\ queue'[Len(queue) + 1] = s
        /\ \A i \in 1..Len(queue) : queue'[i] = queue[i]
    BY <1>3, <1>4
  <2>2. \A i \in 1..Len(queue) : queue[i] \in Slots \ {s} /\ slot[queue[i]].st = "Queued"
    BY <1>3, <1>10, <2>1 DEF Lists, Once, Range
  <2>3. ASSUME NEW i \in DOMAIN queue', NEW j \in DOMAIN queue', i < j
        PROVE  slot'[queue'[i]].seq < slot'[queue'[j]].seq
    <3>1. i \in 1..Len(queue) /\ (j \in 1..Len(queue) \/ j = Len(queue) + 1)
      BY <2>1, <2>3
    <3>2. slot'[queue'[i]].seq = slot[queue[i]].seq
      BY <1>8, <2>1, <2>2, <3>1
    <3>3. CASE j = Len(queue) + 1
      <4>1. slot'[queue'[j]].seq = slot[s].seq
        BY <1>5, <1>7, <1>8, <2>1, <3>3
      <4>2. slot[queue[i]].seq < slot[s].seq
        BY <1>9, <2>2, <3>1
      <4> QED BY <3>2, <4>1, <4>2
    <3>4. CASE j \in 1..Len(queue)
      <4>1. slot'[queue'[j]].seq = slot[queue[j]].seq
        BY <1>8, <2>1, <2>2, <3>4
      <4>2. slot[queue[i]].seq < slot[queue[j]].seq
        BY <1>10, <2>1, <2>3, <3>1, <3>4 DEF Lists, Ascends
      <4> QED BY <3>2, <4>1, <4>2
    <3> QED BY <3>1, <3>3, <3>4
  <2> QED BY <2>3 DEF Ascends
<1>14. Lists'
  <2>1. {z \in Slots : slot'[z].st = "Free"} = {z \in Slots : slot[z].st = "Free"}
    BY <1>3, <1>7, <1>8
  <2>2. Once(free, {z \in Slots : slot[z].st = "Free"})'
    BY <1>10, <2>1 DEF Lists, Once
  <2>3. \A z \in Slots : slot'[z].seq = slot[z].seq /\ (slot'[z].st = "Free" <=> slot[z].st = "Free")
    BY <1>3, <1>5, <1>7, <1>8
  <2>4. Distinct'
    BY <1>10, <2>3 DEF Lists, Distinct
  <2> QED BY <1>12, <1>13, <2>2, <2>4 DEF Lists
<1>15. ASSUME NEW z \in Slots PROVE SlotKept(z)'
  <2>1. CASE z = s
    <3>1. x.seq \in 1..(nextSub - 1) /\ x.released < x.seq /\ Held(s)
      BY <1>3, <1>5, <1>10 DEF SlotKept
    <3>2. io.pc \in {"native", "publish"} => io.seq < x.seq
      <4>1. io.pc \in {"native", "publish"} =>
              io.slot \in Slots \ {s} /\ slot[io.slot].st = "Running"
        BY <1>3, <1>10 DEF WorkerKept
      <4>2. io.pc \in {"native", "publish"} => slot[io.slot].seq = io.seq
        BY <4>1 DEF IInv, Slotted, SlotKept
      <4> QED BY <1>5, <1>9, <4>1, <4>2
    <3>3. Held(s)' /\ Asleep(s)'
      BY <1>1, <1>2, <1>3, <1>5, <1>7, <1>8 DEF Held, Asleep
    <3> QED BY <1>3, <1>5, <1>7, <1>8, <2>1, <3>1, <3>2, <3>3 DEF SlotKept
  <2>2. CASE z # s
    <3>1. slot[z].st # "Free" => slot[z].task \in Tasks \ {t}
      BY <2>2, SlotTasks
    <3>2. slot[z].st # "Free" => /\ token'[slot[z].task] = token[slot[z].task]
                                 /\ SameFor(slot[z].task)
      BY <1>11, <3>1
    <3>3. /\ slot'[z] = slot[z] /\ IoRests /\ nextSub' = nextSub
          /\ nextSub' \in Nat /\ nextSub' >= nextSub
      BY <1>4, <1>8, <2>2 DEF IoRests
    <3> QED BY <1>4, <3>2, <3>3, SlotElsewhere
  <2> QED BY <2>1, <2>2
<1>16. WorkerKept'
  <2>1. io.pc \in {"native", "publish", "wake"} => io.slot \in Slots \ {s}
    BY <1>3, <1>10 DEF WorkerKept
  <2>2. io.pc = "wake" => slot[io.slot].task \in Tasks \ {t}
    BY <1>3, <1>10, <2>1 DEF WorkerKept, Asleep, Held
  <2>3. io.pc = "wake" => /\ SameFor(slot[io.slot].task)
                          /\ token'[slot[io.slot].task] = token[slot[io.slot].task]
    BY <1>11, <2>2
  <2>4. io.pc \in {"native", "publish", "wake"} => slot'[io.slot] = slot[io.slot]
    BY <1>8, <2>1
  <2>5. IoRests /\ io' \in IoRec
    BY DEF IoRests, IInv, Types, PoolTypes
  <2> QED BY <2>3, <2>4, <2>5, WorkerElsewhere
<1>17. ASSUME NEW u \in Tasks PROVE TokenKept(u)'
  <2>1. TokenKept(u)
    BY DEF IInv, Slotted
  <2>2. CASE u = t
    <3>1. /\ token'[t] = s /\ slot'[s].task = t /\ slot'[s].st = "Queued"
          /\ ~Computes(t)'
      BY <1>3, <1>5, <1>7, <1>8 DEF Computes
    <3> QED BY <1>2, <2>2, <3>1 DEF TokenKept
  <2>3. CASE u # t
    <3>1. token[u] # 0 => token[u] \in Slots \ {s}
      BY <1>3, <2>3, Sizes DEF IInv, Types, TaskTypes
    <3> QED BY <1>8, <2>1, <2>3, <3>1 DEF TokenKept, Computes, SameTask
  <2> QED BY <2>2, <2>3
<1>18. BytesCounted'
  BY DEF IInv, Counted, BytesCounted, TokenTasks
<1>19. AdmissionsCounted' /\ subs' \in Nat
  <2>1. Admits /\ subs = 1
    BY <1>3 DEF Admits, IInv, Counted, AdmissionsCounted
  <2>2. subs' = 0
    BY <2>1 DEF AdmissionEnds
  <2>3. ~Admits'
    BY <1>3, <1>7, <1>8 DEF Admits
  <2> QED BY <2>2, <2>3 DEF AdmissionsCounted
<1> QED BY <1>2, <1>8, <1>12, <1>14, <1>15, <1>16, <1>17, <1>18, <1>19 DEF Slotted

LEMMA QueuesSlotKeeps ==
    ASSUME IInv, NEW l \in Lanes, QueuesSlot(l)
    PROVE  IInv'
<1>1. PICK t : t = lane[l].task
  OBVIOUS
<1>2. PICK s : s = token[t]
  OBVIOUS
<1>3. /\ lane[l].pc = "run" /\ at[t] = "queue"
      /\ slot' = [slot EXCEPT ![s].st = "Queued"] /\ queue' = Append(queue, s)
      /\ subs' = AdmissionEnds
      /\ at' = [at EXCEPT ![t] = "complete"] /\ lane' = [lane EXCEPT ![l].pc = "finish"]
      /\ UNCHANGED <<script, state, wakeTicket, step, token, readyVars, tickets, laneStop,
                     inFlight, compute, free, nextSub, nextExec, reserved, stop, io, rootVars>>
  BY <1>1, <1>2 DEF QueuesSlot, At, Suspends
<1>4. /\ t \in Tasks /\ RunPlace(t) /\ PhaseKept(t) /\ TokenKept(t) /\ inFlight \in Nat
      /\ at \in [Tasks -> Places] /\ ~Waked(t)
  BY <1>1, <1>3, Awaits, InQuantum
<1>5. state[t] = "ExternalBlocked" /\ token[t] # 0 /\ ~Computes(t)
  BY <1>3, <1>4 DEF RunPlace, TokenKept
<1>6. /\ at'[t] = "complete" /\ at' \in [Tasks -> Places]
      /\ \A u \in Tasks \ {t} : SameTask(u)
  BY <1>3, <1>4 DEF SameTask, Places
<1>7. PICK ends \in BOOLEAN : ends = TRUE
  OBVIOUS
<1>8. /\ lane' \in [Lanes -> LaneRec]
      /\ \A m \in Lanes : SameLists(m) /\ SameWork(m)
      /\ \A m \in Lanes \ {l} : lane'[m].pc = lane[m].pc
      /\ lane'[l].pc = "finish"
  <2>1. lane' = IF ends THEN [lane EXCEPT ![l].pc = "finish"] ELSE lane
    BY <1>3, <1>7
  <2>2. lane'[l].pc = IF ends THEN "finish" ELSE "run"
    BY <1>3, <2>1, QuantumFrame DEF IInv
  <2> QED BY <1>3, <1>7, <2>1, <2>2, QuantumFrame DEF IInv
<1>9. /\ Slotted' /\ BytesCounted' /\ AdmissionsCounted'
      /\ slot' \in [Slots -> SlotRec] /\ queue' \in Seq(Slots) /\ subs' \in Nat
  <2>1. UNCHANGED <<script, token, state, wakeTicket, free, nextSub, reserved, io>>
    BY <1>3
  <2>2. /\ lane[l].pc = "run" /\ at[t] = "queue" /\ at'[t] = "complete"
        /\ slot' = [slot EXCEPT ![s].st = "Queued"] /\ queue' = Append(queue, s)
        /\ subs' = AdmissionEnds
    BY <1>3, <1>6
  <2>3. \A m \in Lanes : SameLists(m)
    BY <1>8
  <2> QED BY <1>1, <1>2, <1>6, <1>8, <2>1, <2>2, <2>3, SlotQueued, ZenonT(60)
<1>10. Types'
  <2>1. TaskTypes'
    BY <1>3, <1>6 DEF IInv, Types, TaskTypes, Places
  <2>2. PoolTypes'
    BY <1>3, <1>9 DEF IInv, Types, PoolTypes
  <2>3. ReadyTypes' /\ LaneTypes' /\ ComputeTypes' /\ RootTypes'
    BY <1>3, <1>8 DEF IInv, Types, ReadyTypes, LaneTypes, ComputeTypes, RootTypes, readyVars,
       tickets, compute, rootVars
  <2> QED BY <2>1, <2>2, <2>3 DEF Types
<1>11. EndPlace(t)' /\ Flights(t)' = 1 /\ Flights(t) = 1
  BY <1>3, <1>5, <1>6 DEF EndPlace, Flights, Suspended, Terminal
<1>12. inFlight' = inFlight + Flights(t)' - Flights(t)
  BY <1>3, <1>4, <1>11
<1>13. Computed'
  <2>1. PhaseKept(t)'
    BY <1>3, <1>4, <1>5, <1>6 DEF PhaseKept, Computes, compute, Pending, Parked, Done
  <2>2. Units(t)' = Units(t)
    BY <1>3, <1>6 DEF Units
  <2>3. \A u \in Tasks \ {t} : Aside(u) /\ token'[u] = token[u]
    BY <1>3, <1>6 DEF Aside, SameTask
  <2> QED BY <1>3, <1>4, <1>8, <2>1, <2>2, <2>3, ComputedAround DEF IInv, compute
<1>14. state'[t] \in {"Running", "Failed", "ExternalBlocked"}
  BY <1>3, <1>5
<1> QED BY <1>1, <1>3, <1>6, <1>8, <1>9, <1>10, <1>11, <1>12, <1>13, <1>14, AwaitStep
        DEF readyVars, tickets, rootVars

-----------------------------------------------------------------------------
(* The I/O worker.                                                         *)

\* A step of the I/O worker that leaves everything but the slots and their
\* FIFO.
LEMMA IoMoves ==
    ASSUME IInv, io.pc # "none",
           UNCHANGED <<records, readyVars, tickets, lane, laneStop, inFlight, compute,
                       free, nextSub, subs, reserved, stop, rootVars>>,
           slot' \in [Slots -> SlotRec], queue' \in Seq(Slots), nextExec' \in 1..nextSub,
           io' \in IoRec, Slotted', Admits' <=> Admits
    PROVE  IInv'
<1>1. UNCHANGED <<script, state, wakeTicket, step, at, token, ready, epoch, consumed, joinWaits,
                  toIssue, next, phase, pass, device, root, collects, verdict, scopes>>
  BY DEF records, readyVars, tickets, compute, rootVars
<1>2. Types'
  BY <1>1 DEF IInv, Types, TaskTypes, ReadyTypes, LaneTypes, ComputeTypes, PoolTypes, RootTypes
<1>3. /\ \A m \in Lanes : SameJobs(m) /\ SameWork(m) /\ SameRegular(m)
      /\ \A t \in Tasks : SameTask(t)
  BY <1>1 DEF SameJobs, SameWork, SameRegular, SameTask, RegularFrame
<1>4. Queued'
  BY <1>1 DEF IInv, Queued, InState, Once
<1>5. Placed' /\ Tickets' /\ Computed'
  BY <1>1, <1>2, <1>3, PlacedStays, TicketsStay, ComputedStays DEF IInv
<1>6. Counted'
  <2>1. FlightsCounted'
    BY <1>3, FlightSets, FlightsStay DEF IInv, Counted
  <2>2. BytesCounted'
    BY <1>1 DEF IInv, Counted, BytesCounted, TokenTasks
  <2>3. AdmissionsCounted'
    BY DEF IInv, Counted, AdmissionsCounted
  <2> QED BY <2>1, <2>2, <2>3 DEF Counted
<1>7. Rooted'
  <2>1. root # "joining"
    BY DEF IInv, Rooted, NoIo
  <2> QED BY <1>1, <1>3, <2>1, RootedStays DEF IInv
<1> QED BY <1>2, <1>4, <1>5, <1>6, <1>7 DEF IInv

\* Only a worker that is between operations has no slot it executes.
LEMMA NothingTaken ==
    ASSUME IInv, io.pc \in {"none", "wait", "exited"}, NEW x \in Slots
    PROVE  slot[x].st \notin {"Running", "Complete"}
BY DEF IInv, Slotted, SlotKept

\* The worker stops waiting for a release, or exits.
LEMMA WorkerReturns ==
    ASSUME IInv, io.pc # "none", \A x \in Slots : slot[x].st \notin {"Running", "Complete"},
           io' \in IoRec, io'.pc \in {"wait", "exited"},
           UNCHANGED <<records, readyVars, tickets, lane, laneStop, inFlight, compute,
                       pool, stop, rootVars>>
    PROVE  IInv'
<1>1. UNCHANGED <<slot, free, queue, nextSub, nextExec, subs, reserved, token, script, at, state,
                  wakeTicket>>
  BY DEF pool, records
<1>2. Lists'
  BY <1>1 DEF IInv, Slotted, Lists, Once, Ascends, Distinct
<1>3. WorkerKept'
  BY DEF WorkerKept
<1>4. ASSUME NEW x \in Slots PROVE SlotKept(x)'
  <2>1. SlotKept(x)
    BY DEF IInv, Slotted
  <2>2. \A t : Runs(t)' <=> Runs(t)
    BY DEF Runs
  <2>3. (Held(x)' <=> Held(x)) /\ (Asleep(x)' <=> Asleep(x))
    BY <1>1 DEF Held, Asleep
  <2> QED BY <1>1, <2>1, <2>2, <2>3 DEF SlotKept
<1>5. \A t \in Tasks : TokenKept(t)'
  BY <1>1 DEF IInv, Slotted, TokenKept, Computes
<1>6. Slotted'
  BY <1>2, <1>3, <1>4, <1>5 DEF Slotted
<1>7. Admits' <=> Admits
  BY <1>1 DEF Admits
<1>8. slot' \in [Slots -> SlotRec] /\ queue' \in Seq(Slots) /\ nextExec' \in 1..nextSub
  BY <1>1 DEF IInv, Types, PoolTypes
<1> QED BY <1>1, <1>6, <1>7, <1>8, IoMoves

LEMMA AwaitsReleaseKeeps == IInv /\ AwaitsRelease => IInv'
<1> SUFFICES ASSUME IInv, AwaitsRelease PROVE IInv'
  OBVIOUS
<1>1. /\ io.pc = "await" /\ slot[io.slot].released = io.seq
      /\ io' = [NoIo EXCEPT !.pc = "wait"]
      /\ UNCHANGED <<records, readyVars, tickets, lane, laneStop, inFlight, compute, pool, stop,
                     rootVars>>
  BY DEF AwaitsRelease, Taken
<1>2. io' \in IoRec /\ io'.pc = "wait"
  BY <1>1, SizeAssumption DEF NoIo, IoRec, Pending
<1>3. ASSUME NEW x \in Slots PROVE slot[x].st \notin {"Running", "Complete"}
  <2>1. SlotKept(x) /\ slot[x] \in SlotRec
    BY DEF IInv, Slotted, Types, PoolTypes
  <2>2. PICK a \in Nat, b \in Nat : a = slot[x].released /\ b = slot[x].seq
    BY <2>1 DEF SlotRec
  <2>3. slot[x].st = "Complete" => a < b /\ a = b
    BY <1>1, <2>1, <2>2 DEF SlotKept
  <2>4. slot[x].st # "Running"
    BY <1>1, <2>1 DEF SlotKept
  <2> QED BY <2>3, <2>4
<1> QED BY <1>1, <1>2, <1>3, WorkerReturns

LEMMA WorkerExitsKeeps == IInv /\ WorkerExits => IInv'
<1> SUFFICES ASSUME IInv, WorkerExits PROVE IInv'
  OBVIOUS
<1>1. /\ io.pc = "wait" /\ io' = [io EXCEPT !.pc = "exited"]
      /\ UNCHANGED <<records, readyVars, tickets, lane, laneStop, inFlight, compute, pool, stop,
                     rootVars>>
  BY DEF WorkerExits
<1>2. io' \in IoRec /\ io'.pc = "exited"
  <2>1. io \in IoRec
    BY DEF IInv, Types, PoolTypes
  <2> QED BY <1>1, <2>1 DEF IoRec
<1>3. \A x \in Slots : slot[x].st \notin {"Running", "Complete"}
  BY <1>1, NothingTaken
<1> QED BY <1>1, <1>2, <1>3, WorkerReturns

\* The slot the worker executes goes on: its state, its phase and its outcome
\* may change, and so may the worker.
LEMMA SlotGoesOn ==
    ASSUME IInv, NEW s \in Slots, io.slot = s, slot[s].st = "Running", NEW y \in SlotRec,
           slot' = [slot EXCEPT ![s] = y],
           y.seq = slot[s].seq, y.task = slot[s].task, y.released = slot[s].released,
           \/ y.st = "Running" /\ y.phase = slot[s].phase /\ io'.pc = "publish"
           \/ y.st = "Complete" /\ io'.pc = "wake" /\ io'.prior = Parked,
           io' \in IoRec, io'.slot = s, io'.seq = io.seq,
           UNCHANGED <<records, readyVars, tickets, lane, laneStop, inFlight, compute,
                       free, queue, nextSub, nextExec, subs, reserved, stop, rootVars>>
    PROVE  IInv'
<1>1. UNCHANGED <<token, script, at, state, wakeTicket>>
  BY DEF records
<1>2. /\ slot \in [Slots -> SlotRec] /\ queue \in Seq(Slots) /\ nextExec \in 1..nextSub
      /\ Lists
  BY DEF IInv, Types, PoolTypes, Slotted
<1>3. /\ slot'[s] = y /\ \A z \in Slots \ {s} : slot'[z] = slot[z]
      /\ slot' \in [Slots -> SlotRec]
  BY <1>2
<1>4. \A z \in Slots : /\ slot'[z].seq = slot[z].seq
                       /\ slot'[z].task = slot[z].task
                       /\ slot'[z].released = slot[z].released
                       /\ slot'[z].st = "Free" <=> slot[z].st = "Free"
                       /\ slot'[z].st = "Queued" <=> slot[z].st = "Queued"
                       /\ slot'[z].st = "Admitting" <=> slot[z].st = "Admitting"
  BY <1>3
<1>5. Lists'
  <2>1. \A i \in DOMAIN queue : queue[i] \in Slots
    BY <1>2
  <2>2. Ascends'
    BY <1>2, <1>4, <2>1 DEF Lists, Ascends
  <2>3. Distinct'
    BY <1>2, <1>4 DEF Lists, Distinct
  <2>4. /\ {x \in Slots : slot'[x].st = "Free"} = {x \in Slots : slot[x].st = "Free"}
        /\ {x \in Slots : slot'[x].st = "Queued"} = {x \in Slots : slot[x].st = "Queued"}
    BY <1>4
  <2> QED BY <1>2, <2>2, <2>3, <2>4 DEF Lists, Once
<1>6. \A z \in Slots : (Held(z)' <=> Held(z)) /\ (Asleep(z)' <=> Asleep(z))
  BY <1>1, <1>4 DEF Held, Asleep
<1>7. SlotKept(s) /\ Asleep(s) /\ slot[s].phase = Parked /\ io.pc \in {"native", "publish"}
  BY DEF IInv, Slotted, SlotKept
<1>8. ASSUME NEW z \in Slots PROVE SlotKept(z)'
  <2>1. SlotKept(z)
    BY DEF IInv, Slotted
  <2>2. \A t : Runs(t)' <=> Runs(t)
    BY DEF Runs
  <2>3. CASE z = s
    BY <1>1, <1>3, <1>6, <1>7, <2>1, <2>3 DEF SlotKept, Asleep, Held
  <2>4. CASE z # s
    <3>1. slot'[z] = slot[z] /\ slot[z].st \notin {"Running", "Complete"}
      BY <1>3, <1>7, <2>1, <2>4 DEF SlotKept
    <3> QED BY <1>1, <1>6, <1>7, <2>1, <2>2, <3>1 DEF SlotKept
  <2> QED BY <2>3, <2>4
<1>9. WorkerKept'
  BY <1>3, <1>6, <1>7 DEF WorkerKept
<1>10. ASSUME NEW u \in Tasks PROVE TokenKept(u)'
  <2>1. TokenKept(u) /\ (token[u] # 0 => token[u] \in Slots)
    BY Sizes DEF IInv, Slotted, Types, TaskTypes
  <2> QED BY <1>1, <1>4, <2>1 DEF TokenKept, Computes
<1>11. Slotted'
  BY <1>5, <1>8, <1>9, <1>10 DEF Slotted
<1>12. Admits' <=> Admits
  BY <1>4 DEF Admits
<1>13. io.pc # "none"
  BY <1>7
<1> QED BY <1>2, <1>3, <1>11, <1>12, <1>13, IoMoves

LEMMA NativeReturnsKeeps == IInv /\ NativeReturns => IInv'
<1> SUFFICES ASSUME IInv, NativeReturns PROVE IInv'
  OBVIOUS
<1>1. PICK s : s = io.slot
  OBVIOUS
<1>2. /\ io.pc = "native" /\ slot' = [slot EXCEPT ![s].outcome = "Native"]
      /\ io' = [io EXCEPT !.pc = "publish"]
      /\ UNCHANGED <<records, readyVars, tickets, lane, laneStop, inFlight, compute,
                     free, queue, nextSub, nextExec, subs, reserved, stop, rootVars>>
  BY <1>1 DEF NativeReturns
<1>3. s \in Slots /\ slot[s].st = "Running" /\ slot \in [Slots -> SlotRec] /\ io \in IoRec
  BY <1>1, <1>2 DEF IInv, Slotted, WorkerKept, Types, PoolTypes
<1>4. PICK x \in SlotRec : x = slot[s]
  BY <1>3
<1>5. PICK y : y = [x EXCEPT !.outcome = "Native"]
  OBVIOUS
<1>6. /\ y \in SlotRec /\ y.seq = x.seq /\ y.task = x.task /\ y.released = x.released
      /\ y.st = x.st /\ y.phase = x.phase
  BY <1>5 DEF SlotRec
<1>7. slot' = [slot EXCEPT ![s] = y]
  BY <1>2, <1>4, <1>5
<1>8. io' \in IoRec /\ io'.pc = "publish" /\ io'.slot = s /\ io'.seq = io.seq
  BY <1>1, <1>2, <1>3 DEF IoRec
<1>9. \/ y.st = "Running" /\ y.phase = slot[s].phase /\ io'.pc = "publish"
      \/ y.st = "Complete" /\ io'.pc = "wake" /\ io'.prior = Parked
  BY <1>3, <1>4, <1>6, <1>8
<1> QED BY <1>1, <1>2, <1>3, <1>4, <1>6, <1>7, <1>8, <1>9, SlotGoesOn

LEMMA CompletesSlotKeeps == IInv /\ CompletesSlot => IInv'
<1> SUFFICES ASSUME IInv, CompletesSlot PROVE IInv'
  OBVIOUS
<1>1. PICK s : s = io.slot
  OBVIOUS
<1>2. /\ io.pc = "publish"
      /\ slot' = [slot EXCEPT ![s] = [[slot[s] EXCEPT !.st = "Complete"] EXCEPT !.phase = Done]]
      /\ io' = [io EXCEPT !.pc = "wake", !.prior = slot[s].phase]
      /\ UNCHANGED <<records, readyVars, tickets, lane, laneStop, inFlight, compute,
                     free, queue, nextSub, nextExec, subs, reserved, stop, rootVars>>
  BY <1>1 DEF CompletesSlot
<1>3. s \in Slots /\ slot[s].st = "Running" /\ slot \in [Slots -> SlotRec] /\ io \in IoRec
  BY <1>1, <1>2 DEF IInv, Slotted, WorkerKept, Types, PoolTypes
<1>4. PICK x \in SlotRec : x = slot[s]
  BY <1>3
<1>5. PICK y : y = [[x EXCEPT !.st = "Complete"] EXCEPT !.phase = Done]
  OBVIOUS
<1>6. /\ y \in SlotRec /\ y.seq = x.seq /\ y.task = x.task /\ y.released = x.released
      /\ y.st = "Complete"
  <2>1. PICK v \in 0..3 : v = Done
    BY DEF Done
  <2>2. PICK z : z = [x EXCEPT !.st = "Complete"]
    OBVIOUS
  <2>3. /\ z \in SlotRec /\ z.seq = x.seq /\ z.task = x.task /\ z.released = x.released
        /\ z.st = "Complete"
    BY <2>2 DEF SlotRec
  <2>4. y = [z EXCEPT !.phase = v]
    BY <1>5, <2>1, <2>2
  <2>5. /\ y \in SlotRec /\ y.seq = z.seq /\ y.task = z.task /\ y.released = z.released
        /\ y.st = z.st
    BY <2>3, <2>4 DEF SlotRec
  <2> QED BY <2>3, <2>5
<1>7. slot' = [slot EXCEPT ![s] = y]
  BY <1>2, <1>4, <1>5
<1>8. slot[s].phase = Parked
  BY <1>3 DEF IInv, Slotted, SlotKept
<1>9. /\ io' \in IoRec /\ io'.pc = "wake" /\ io'.slot = s /\ io'.seq = io.seq
      /\ io'.prior = Parked
  <2>1. PICK v \in 0..3 : v = slot[s].phase
    BY <1>8 DEF Parked
  <2>2. PICK w : w = [io EXCEPT !.pc = "wake"]
    OBVIOUS
  <2>3. w \in IoRec /\ w.pc = "wake" /\ w.slot = io.slot /\ w.seq = io.seq
    BY <1>3, <2>2 DEF IoRec
  <2>4. io' = [w EXCEPT !.prior = v]
    BY <1>2, <2>1, <2>2
  <2>5. /\ io' \in IoRec /\ io'.pc = w.pc /\ io'.slot = w.slot /\ io'.seq = w.seq
        /\ io'.prior = v
    BY <2>3, <2>4 DEF IoRec
  <2> QED BY <1>1, <1>8, <2>1, <2>3, <2>5
<1> QED BY <1>1, <1>2, <1>3, <1>4, <1>6, <1>7, <1>9, SlotGoesOn

\* The effect of TakeSlot on the slot s and on the worker.
LEMMA TakeFields ==
    ASSUME IInv, TakeSlot, NEW s, s = Head(queue), s \in Slots
    PROVE  /\ slot' \in [Slots -> SlotRec] /\ \A z \in Slots \ {s} : slot'[z] = slot[z]
           /\ slot'[s].st = "Running" /\ slot'[s].seq = slot[s].seq
           /\ slot'[s].task = slot[s].task /\ slot'[s].phase = slot[s].phase
           /\ slot'[s].released = slot[s].released
           /\ io' \in IoRec /\ io'.pc \in {"native", "publish"} /\ io'.slot = s
           /\ io'.seq = slot[s].seq
<1>1. slot \in [Slots -> SlotRec] /\ io \in IoRec
  BY DEF IInv, Types, PoolTypes
<1>2. PICK x \in SlotRec : x = slot[s]
  BY <1>1
<1>3. PICK i \in Nat : i = x.seq
  BY DEF SlotRec
<1>4. PICK o \in {"Pending", "Native", "Invalid"} :
         o = IF slot[s].seq = nextExec THEN x.outcome ELSE "Invalid"
  <2>1. x.outcome \in {"Pending", "Native", "Invalid"}
    BY DEF SlotRec
  <2> QED BY <2>1
<1>5. PICK p \in {"native", "publish"} :
         p = IF slot[s].seq = nextExec THEN "native" ELSE "publish"
  OBVIOUS
<1>6. PICK a : a = [x EXCEPT !.st = "Running"]
  OBVIOUS
<1>7. /\ a \in SlotRec /\ a.st = "Running" /\ a.seq = x.seq /\ a.task = x.task
      /\ a.phase = x.phase /\ a.released = x.released /\ a.outcome = x.outcome
  BY <1>6 DEF SlotRec
<1>8. PICK b : b = [a EXCEPT !.outcome = o]
  OBVIOUS
<1>9. /\ b \in SlotRec /\ b.st = "Running" /\ b.seq = x.seq /\ b.task = x.task
      /\ b.phase = x.phase /\ b.released = x.released
  BY <1>7, <1>8 DEF SlotRec
<1>10. PICK f : f = [slot EXCEPT ![s] = a]
  OBVIOUS
<1>11. f \in [Slots -> SlotRec] /\ f[s] = a /\ \A z \in Slots \ {s} : f[z] = slot[z]
  BY <1>1, <1>7, <1>10
<1>12. slot' = [f EXCEPT ![s] = b]
  <2>1. [slot EXCEPT ![s].st = "Running"] = f
    BY <1>2, <1>6, <1>10
  <2>2. slot' = [f EXCEPT ![s].outcome =
                    IF slot[s].seq = nextExec THEN f[s].outcome ELSE "Invalid"]
    BY <2>1 DEF TakeSlot
  <2>3. (IF slot[s].seq = nextExec THEN f[s].outcome ELSE "Invalid") = o
    BY <1>4, <1>7, <1>11
  <2> QED BY <1>8, <1>11, <2>2, <2>3
<1>13. /\ slot' \in [Slots -> SlotRec] /\ slot'[s] = b
       /\ \A z \in Slots \ {s} : slot'[z] = slot[z]
  BY <1>9, <1>11, <1>12
<1>14. io' = [io EXCEPT !.pc = p, !.slot = s, !.seq = i]
  BY <1>2, <1>3, <1>5 DEF TakeSlot
<1>15. io' \in IoRec /\ io'.pc = p /\ io'.slot = s /\ io'.seq = i
  <2>1. s \in 0..SlotCount
    BY Sizes
  <2> QED BY <1>1, <1>14, <2>1 DEF IoRec
<1> QED BY <1>2, <1>3, <1>9, <1>13, <1>15

LEMMA TakeSlotKeeps == IInv /\ TakeSlot => IInv'
<1> SUFFICES ASSUME IInv, TakeSlot PROVE IInv'
  OBVIOUS
<1>1. PICK s : s = Head(queue)
  OBVIOUS
<1>2. /\ io.pc = "wait" /\ queue # <<>> /\ queue' = Tail(queue)
      /\ nextExec' = IF slot[s].seq = nextExec THEN nextExec + 1 ELSE nextExec
      /\ UNCHANGED <<records, readyVars, tickets, lane, laneStop, inFlight, compute, free,
                     nextSub, subs, reserved, stop, rootVars>>
  BY <1>1 DEF TakeSlot
<1>3. /\ slot \in [Slots -> SlotRec] /\ queue \in Seq(Slots) /\ nextSub \in Nat
      /\ nextExec \in 1..nextSub /\ Lists
  BY DEF IInv, Types, PoolTypes, Slotted
<1>4. /\ s \in Slots /\ queue' \in Seq(Slots) /\ s \in Range(queue)
      /\ Range(queue) = Range(queue') \cup {s}
      /\ IsInjective(queue') /\ s \notin Range(queue')
  BY <1>1, <1>2, <1>3, TailOnce DEF Lists, Once
<1>5. slot[s].st = "Queued"
  BY <1>3, <1>4 DEF Lists, Once
<1>6. /\ slot' \in [Slots -> SlotRec] /\ \A z \in Slots \ {s} : slot'[z] = slot[z]
      /\ slot'[s].st = "Running" /\ slot'[s].seq = slot[s].seq
      /\ slot'[s].task = slot[s].task /\ slot'[s].phase = slot[s].phase
      /\ slot'[s].released = slot[s].released
      /\ io' \in IoRec /\ io'.pc \in {"native", "publish"} /\ io'.slot = s
      /\ io'.seq = slot[s].seq
  BY <1>1, <1>4, TakeFields
<1>7. UNCHANGED <<token, script, at, state, wakeTicket>>
  BY <1>2 DEF records
<1>8. /\ SlotKept(s) /\ Asleep(s) /\ slot[s].phase = Parked
  BY <1>4, <1>5 DEF IInv, Slotted, SlotKept
<1>9. nextExec' \in 1..nextSub
  <2>1. PICK i \in Nat : i = slot[s].seq
    BY <1>3, <1>4 DEF SlotRec
  <2>2. i \in 1..(nextSub - 1)
    BY <1>5, <1>8, <2>1 DEF SlotKept
  <2>3. nextExec' = IF i = nextExec THEN nextExec + 1 ELSE nextExec
    BY <1>2, <2>1
  <2> QED BY <1>3, <2>2, <2>3
<1>10. /\ Len(queue) \in Nat \ {0} /\ DOMAIN queue = 1..Len(queue)
       /\ DOMAIN queue' = 1..(Len(queue) - 1) /\ queue[1] = s
       /\ \A i \in 1..(Len(queue) - 1) : queue'[i] = queue[i + 1]
  BY <1>1, <1>2, <1>3
<1>11. \A i \in DOMAIN queue' : i + 1 \in DOMAIN queue /\ 1 < i + 1 /\ queue'[i] \in Slots \ {s}
  BY <1>3, <1>4, <1>10 DEF Range
<1>12. Ascends'
  <2>1. ASSUME NEW i \in DOMAIN queue', NEW j \in DOMAIN queue', i < j
        PROVE  slot'[queue'[i]].seq < slot'[queue'[j]].seq
    <3>1. i + 1 \in DOMAIN queue /\ j + 1 \in DOMAIN queue /\ i + 1 < j + 1
      BY <1>10, <1>11, <2>1
    <3>2. slot[queue[i + 1]].seq < slot[queue[j + 1]].seq
      BY <1>3, <3>1 DEF Lists, Ascends
    <3>3. queue'[i] = queue[i + 1] /\ queue'[j] = queue[j + 1]
      BY <1>10
    <3>4. slot'[queue'[i]] = slot[queue'[i]] /\ slot'[queue'[j]] = slot[queue'[j]]
      BY <1>6, <1>11
    <3> QED BY <3>2, <3>3, <3>4
  <2> QED BY <2>1 DEF Ascends
<1>13. \A z \in Slots \ {s} : slot[z].st = "Queued" => slot[s].seq < slot[z].seq
  <2>1. ASSUME NEW z \in Slots \ {s}, slot[z].st = "Queued"
        PROVE  slot[s].seq < slot[z].seq
    <3>1. z \in Range(queue)
      BY <1>3, <2>1 DEF Lists, Once
    <3>2. PICK i \in DOMAIN queue : queue[i] = z
      BY <3>1 DEF Range
    <3>3. 1 \in DOMAIN queue /\ 1 < i
      BY <1>10, <3>2
    <3>4. slot[queue[1]].seq < slot[queue[i]].seq
      BY <1>3, <3>2, <3>3 DEF Lists, Ascends
    <3> QED BY <1>10, <3>2, <3>4
  <2> QED BY <2>1
<1>14. Lists'
  <2>1. /\ {x \in Slots : slot'[x].st = "Free"} = {x \in Slots : slot[x].st = "Free"}
        /\ {x \in Slots : slot'[x].st = "Queued"} = {x \in Slots : slot[x].st = "Queued"} \ {s}
    BY <1>4, <1>5, <1>6
  <2>2. Once(free, {x \in Slots : slot[x].st = "Free"})'
    BY <1>2, <1>3, <2>1 DEF Lists, Once
  <2>3. Once(queue, {x \in Slots : slot[x].st = "Queued"})'
    BY <1>3, <1>4, <2>1 DEF Lists, Once
  <2>4. \A z \in Slots : slot'[z].seq = slot[z].seq /\ (slot'[z].st = "Free" <=> slot[z].st = "Free")
    BY <1>5, <1>6
  <2>5. Distinct'
    BY <1>3, <2>4 DEF Lists, Distinct
  <2> QED BY <1>12, <2>2, <2>3, <2>5 DEF Lists
<1>15. \A z \in Slots : (Held(z)' <=> Held(z)) /\ (Asleep(z)' <=> Asleep(z))
  BY <1>6, <1>7 DEF Held, Asleep
<1>16. ASSUME NEW z \in Slots PROVE SlotKept(z)'
  <2>1. SlotKept(z) /\ slot[z].st \notin {"Running", "Complete"}
    BY <1>2, NothingTaken DEF IInv, Slotted
  <2>2. \A t : Runs(t)' <=> Runs(t)
    BY <1>2 DEF Runs
  <2>3. CASE z = s
    BY <1>2, <1>5, <1>6, <1>8, <1>15, <2>1, <2>3 DEF SlotKept
  <2>4. CASE z # s
    <3>1. slot'[z] = slot[z]
      BY <1>6, <2>4
    <3>2. slot[z].st = "Queued" => io'.seq < slot[z].seq
      BY <1>6, <1>13, <2>4
    <3> QED BY <1>2, <1>7, <1>15, <2>1, <2>2, <3>1, <3>2 DEF SlotKept
  <2> QED BY <2>3, <2>4
<1>17. WorkerKept'
  BY <1>4, <1>6 DEF WorkerKept
<1>18. ASSUME NEW u \in Tasks PROVE TokenKept(u)'
  <2>1. TokenKept(u) /\ (token[u] # 0 => token[u] \in Slots)
    BY Sizes DEF IInv, Slotted, Types, TaskTypes
  <2>2. \A z \in Slots : /\ slot'[z].task = slot[z].task
                         /\ slot'[z].st = "Free" <=> slot[z].st = "Free"
                         /\ slot'[z].st = "Admitting" <=> slot[z].st = "Admitting"
    BY <1>5, <1>6
  <2> QED BY <1>7, <2>1, <2>2 DEF TokenKept, Computes
<1>19. Slotted'
  BY <1>14, <1>16, <1>17, <1>18 DEF Slotted
<1>20. Admits' <=> Admits
  BY <1>5, <1>6 DEF Admits
<1>21. io.pc # "none"
  BY <1>2
<1> QED BY <1>2, <1>4, <1>6, <1>9, <1>19, <1>20, <1>21, IoMoves

\* The wake of a parked task; it is never refused.
LEMMA WakesTaskKeeps == IInv /\ WakesTask => IInv'
<1> SUFFICES ASSUME IInv, WakesTask PROVE IInv'
  OBVIOUS
<1>1. PICK s : s = io.slot
  OBVIOUS
<1>2. PICK t : t = slot[s].task
  OBVIOUS
<1>3. io.pc = "wake"
  BY DEF WakesTask
<1>4. /\ s \in Slots /\ slot[s].st = "Complete" /\ io.prior = Parked /\ Asleep(s)
  BY <1>1, <1>3 DEF IInv, Slotted, WorkerKept
<1>5. /\ t \in Tasks /\ token[t] = s /\ at[t] = "complete"
      /\ state[t] = "ExternalBlocked" /\ wakeTicket[t] = 0
  BY <1>2, <1>4 DEF Asleep, Held
<1>6. WakeAccepted(t)
  BY <1>5, WakeIsAccepted
<1>7. /\ EnqueueExternalWake(lane, t) /\ io' = [io EXCEPT !.pc = "await"]
      /\ UNCHANGED <<state, inFlight, slot, free, subs>>
      /\ UNCHANGED <<script, step, at, token, readyVars, next, laneStop, compute, queue, nextSub,
                     nextExec, reserved, stop, rootVars>>
  BY <1>1, <1>2, <1>4, <1>6 DEF WakesTask
<1>8. lane \in [Lanes -> LaneRec] /\ \A m \in Lanes : Back(m, lane[m])
  BY DEF IInv, Types, LaneTypes, Back
<1>9. /\ Enqueued(t) /\ lane' \in [Lanes -> LaneRec]
      /\ \A m \in Lanes : lane'[m].pc = lane[m].pc /\ lane'[m].task = lane[m].task
  BY <1>5, <1>7, <1>8, EnqueueLands
<1>10. /\ io' \in IoRec /\ io'.pc = "await" /\ io'.slot = io.slot /\ io'.seq = io.seq
  <2>1. io \in IoRec
    BY DEF IInv, Types, PoolTypes
  <2> QED BY <1>7, <2>1 DEF IoRec
<1>11. Types'
  <2>1. TaskTypes'
    BY <1>5, <1>7, <1>9 DEF IInv, Types, TaskTypes, LaneTypes, Enqueued
  <2>2. LaneTypes'
    BY <1>7, <1>9 DEF IInv, Types, LaneTypes, Enqueued
  <2>3. PoolTypes'
    BY <1>7, <1>10 DEF IInv, Types, PoolTypes
  <2>4. ReadyTypes' /\ ComputeTypes' /\ RootTypes'
    BY <1>7 DEF IInv, Types, ReadyTypes, ComputeTypes, RootTypes, readyVars, compute, rootVars
  <2> QED BY <2>1, <2>2, <2>3, <2>4 DEF Types
<1>12. UNCHANGED <<script, state, at, token, ready, joinWaits, next, laneStop, inFlight, slot,
                   free, queue, nextSub, reserved, subs, stop, root, collects, phase, pass, device>>
  BY <1>7 DEF readyVars, rootVars, compute
<1>13. root # "joining"
  BY <1>3 DEF IInv, Rooted, NoIo
<1>14. /\ Queued' /\ Placed' /\ Tickets' /\ Counted' /\ Rooted'
       /\ \A u \in Tasks : Runs(u)' <=> Runs(u)
  <2>1. at[t] \in {"reset", "complete"}
    BY <1>5
  <2> QED BY <1>5, <1>9, <1>11, <1>12, <1>13, <2>1, WakeLands
<1>15. \A u \in Tasks \ {t} : SameTask(u)
  BY <1>5, <1>9, <1>12 DEF IInv, Types, TaskTypes, Enqueued, SameTask
<1>16. Slotted'
  <2>1. Lists'
    BY <1>12 DEF IInv, Slotted, Lists, Once, Ascends, Distinct
  <2>2. ASSUME NEW x \in Slots PROVE SlotKept(x)'
    <3>1. SlotKept(x)
      BY DEF IInv, Slotted
    <3>2. slot[x].st # "Free" => slot[x].task \in Tasks /\ token[slot[x].task] = x
      BY <3>1 DEF SlotKept, Held
    <3>3. Held(x)' <=> Held(x)
      BY <1>12 DEF Held
    <3>4. CASE x = s
      BY <1>1, <1>2, <1>4, <1>5, <1>10, <1>12, <3>1, <3>3, <3>4 DEF SlotKept
    <3>5. CASE x # s
      <4>1. PICK u : u = slot[x].task /\ u = slot'[x].task
        BY <1>12
      <4>2. slot[x].st # "Free" => u \in Tasks \ {t}
        BY <1>5, <3>2, <3>5, <4>1
      <4>3. slot[x].st # "Free" => SameTask(u) /\ (Runs(u)' <=> Runs(u))
        BY <1>14, <1>15, <4>2
      <4>4. slot[x].st # "Free" => (Asleep(x)' <=> Asleep(x))
        BY <1>12, <3>3, <4>1, <4>3 DEF Asleep, SameTask
      <4>5. slot[x].st \notin {"Running", "Complete"}
        BY <1>1, <1>3, <3>1, <3>5 DEF SlotKept
      <4> QED BY <1>10, <1>12, <3>1, <3>3, <4>1, <4>3, <4>4, <4>5 DEF SlotKept, SameTask
    <3> QED BY <3>4, <3>5
  <2>3. WorkerKept'
    BY <1>1, <1>4, <1>10 DEF WorkerKept
  <2>4. \A u \in Tasks : TokenKept(u)'
    BY <1>12 DEF IInv, Slotted, TokenKept, Computes
  <2> QED BY <2>1, <2>2, <2>3, <2>4 DEF Slotted
<1>17. Computed'
  <2>1. TokenKept(t) /\ PhaseKept(t)
    BY <1>5 DEF IInv, Slotted, Computed
  <2>2. ~Computes(t) /\ device[t] = "idle" /\ pass[t] = 0
    BY <1>4, <1>5, <2>1, Sizes DEF TokenKept, PhaseKept
  <2>3. \A m \in Lanes : SameWork(m)
    BY <1>9 DEF SameWork, Enqueued
  <2>4. ~Waked(t)
    BY <1>5 DEF Waked
  <2>5. PhaseKept(t)'
    BY <1>5, <1>12, <2>1 DEF PhaseKept, Computes
  <2>6. Units(t)' = Units(t) /\ Units(t) \in Int /\ pass'[t] \in Int
    BY <1>12, <2>2 DEF Units
  <2>7. pass'[t] - Units(t)' = pass[t] - Units(t) /\ device'[t] # "wake"
    BY <1>12, <2>2, <2>6
  <2>8. \A u \in Tasks \ {t} :
               /\ SameTask(u) /\ token'[u] = token[u] /\ phase'[u] = phase[u]
               /\ pass'[u] = pass[u] /\ device'[u] = device[u]
    BY <1>12, <1>15
  <2> QED BY <1>5, <1>12, <2>3, <2>4, <2>5, <2>6, <2>7, <2>8, ComputedOf DEF IInv
<1> QED BY <1>11, <1>14, <1>16, <1>17 DEF IInv

-----------------------------------------------------------------------------
(* What is left when the root has seen no job in flight: nothing.          *)

\* No slot is taken and nobody holds a token.
LEMMA PoolIsFree ==
    ASSUME IInv, root \in Over
    PROVE  /\ \A s \in Slots : slot[s].st = "Free"
           /\ \A t \in Tasks : token[t] = 0
           /\ queue = <<>> /\ subs = 0 /\ reserved = 0
<1>1. \A t \in Tasks : state[t] # "ExternalBlocked" /\ ~Runs(t)
  BY OverIsQuiet
<1>2. \A t \in Tasks : at[t] # "complete"
  <2>1. \A t \in Tasks : Rests(t)
    BY Sizes DEF IInv, Placed, PlacedOn
  <2> QED BY <1>1, <2>1 DEF Rests
<1>3. ASSUME NEW s \in Slots PROVE slot[s].st = "Free"
  <2>1. SlotKept(s) /\ slot[s] \in SlotRec
    BY DEF IInv, Slotted, Types, PoolTypes
  <2>2. slot[s].st # "Free" => slot[s].task \in Tasks
    BY <2>1 DEF SlotKept, Held
  <2>3. slot[s].st \notin {"Admitting", "Queued", "Running", "Complete"}
    BY <1>1, <1>2, <2>1, <2>2 DEF SlotKept, Asleep
  <2> QED BY <2>1, <2>3 DEF SlotRec
<1>4. \A t \in Tasks : token[t] = 0
  <2>1. \A t \in Tasks : TokenKept(t) /\ token[t] \in Slots \cup {0}
    BY Sizes DEF IInv, Slotted, Types, TaskTypes
  <2> QED BY <1>3, <2>1 DEF TokenKept
<1>5. queue = <<>>
  <2>1. queue \in Seq(Slots) /\ Range(queue) = {s \in Slots : slot[s].st = "Queued"}
    BY DEF IInv, Slotted, Lists, Once, Types, PoolTypes
  <2>2. \A i \in DOMAIN queue : queue[i] \in Range(queue)
    BY DEF Range
  <2>3. 1 \notin DOMAIN queue
    BY <1>3, <2>1, <2>2
  <2> QED BY <2>1, <2>3
<1>6. subs = 0
  BY <1>3 DEF IInv, Counted, AdmissionsCounted, Admits
<1>7. reserved = 0
  <2>1. TokenTasks = {}
    BY <1>4 DEF TokenTasks
  <2> QED BY <2>1, FS_EmptySet DEF IInv, Counted, BytesCounted
<1> QED BY <1>3, <1>4, <1>5, <1>6, <1>7

\* No pass and no device operation is left, and no lane has anything to do.
LEMMA LanesAreIdle ==
    ASSUME IInv, root \in Over
    PROVE  /\ \A t \in Tasks : pass[t] = 0 /\ device[t] = "idle"
           /\ \A l \in Lanes : lane[l] = IdleLane
<1>1. /\ ParkedTasks = {}
      /\ \A l \in Lanes : lane[l].pc \notin Own /\ lane[l].job = 0 /\ ~lane[l].done
      /\ \A t \in Tasks : state[t] # "ExternalBlocked" /\ ~Runs(t)
  BY OverIsQuiet
<1>2. ASSUME NEW t \in Tasks PROVE pass[t] = 0 /\ device[t] = "idle" /\ ~Waked(t)
  <2>1. Rests(t)
    BY Sizes DEF IInv, Placed, PlacedOn
  <2>2. at[t] \in {"next", "end"}
    BY <1>1, <2>1 DEF Rests
  <2>3. pass[t] = 0 /\ device[t] # "busy"
    BY <2>2 DEF IInv, Computed, PhaseKept
  <2>4. ~Waked(t)
    BY <1>1 DEF Waked
  <2>5. device[t] # "wake"
    BY <2>4 DEF IInv, Computed, Wakers
  <2> QED BY <2>3, <2>4, <2>5 DEF IInv, Types, ComputeTypes
<1>3. ASSUME NEW l \in Lanes PROVE lane[l] = IdleLane
  <2>1. PICK n \in LaneRec : n = lane[l]
    BY LaneFields DEF IInv
  <2>2. /\ n.ext \in Seq(Tasks) /\ n.direct \in Seq(Tasks) /\ n.work \in Seq(Tasks)
        /\ n.mail \in MailRec /\ n.done \in BOOLEAN
    BY DEF LaneRec
  <2>3. Shape(l) /\ Listed(l)
    BY DEF IInv, Placed, PlacedOn
  <2>4. \A t \in Tasks : ~OnLane(t, l)
    <3>1. ASSUME NEW t \in Tasks PROVE ~OnLane(t, l)
      <4>1. IsFiniteSet(WorkLanes(t))
        BY Finite, FS_Subset DEF WorkLanes
      <4>2. Cardinality(WorkLanes(t)) \in Nat
        BY <4>1, FS_CardinalityType
      <4>3. Units(t) \in Nat /\ pass[t] = Cardinality(WorkLanes(t)) + Units(t)
        BY DEF Units, IInv, Computed, Passes
      <4>4. Cardinality(WorkLanes(t)) = 0
        BY <1>2, <4>2, <4>3
      <4>5. WorkLanes(t) = {}
        BY <4>1, <4>4, FS_EmptySet
      <4> QED BY <4>5 DEF WorkLanes
    <3> QED BY <3>1
  <2>5. n.work = <<>>
    <3>1. \A i \in DOMAIN n.work : n.work[i] \in Range(n.work) /\ n.work[i] \in Tasks
      BY <2>2 DEF Range
    <3>2. 1 \notin DOMAIN n.work
      BY <2>1, <2>4, <3>1 DEF OnLane
    <3> QED BY <2>2, <3>2
  <2>6. n.pc = "idle"
    <3>1. n.pc \in Own \cup AtWork \cup {"idle", "wake"}
      BY DEF LaneRec
    <3>2. n.pc \notin Own
      BY <1>1, <2>1
    <3>3. n.pc \in AtWork \cup {"wake"} => n.task \in Tasks
      BY <2>1, <2>3 DEF Shape
    <3>4. n.pc \notin AtWork
      BY <2>1, <2>4, <3>3 DEF OnLane
    <3>5. n.pc # "wake"
      BY <1>2, <2>1, <3>3 DEF IInv, Computed, Wakers
    <3> QED BY <3>1, <3>2, <3>4, <3>5
  <2>7. n.task = 0 /\ n.ticket = 0 /\ n.kind = "None" /\ n.job = 0 /\ n.jobTicket = 0
    BY <1>1, <2>1, <2>3, <2>6 DEF Shape
  <2>8. n.done = FALSE
    BY <1>1, <2>1, <2>2
  <2>9. n.ext = <<>>
    <3>1. \A i \in DOMAIN n.ext : n.ext[i] \in Range(n.ext) /\ n.ext[i] \in Tasks
      BY <2>2 DEF Range
    <3>2. 1 \notin DOMAIN n.ext
      BY <1>1, <2>1, <2>3, <3>1 DEF Listed, Woken
    <3> QED BY <2>2, <3>2
  <2>10. n.direct = <<>>
    <3>1. \A i \in DOMAIN n.direct :
            n.direct[i] \in Range(n.direct) /\ n.direct[i] \in Tasks
      BY <2>2 DEF Range
    <3>2. \A t \in Range(n.direct) : Home(t) = l
      BY <2>1, <2>3 DEF Shape
    <3>3. \A t \in Tasks : t \notin Range(n.direct)
      BY <1>1, <2>1, <3>2 DEF Parks, ParkedTasks
    <3>4. 1 \notin DOMAIN n.direct
      BY <3>1, <3>3
    <3> QED BY <2>2, <3>4
  <2>11. n.mail = NoMail
    <3>1. n.mail.st \in 0..2
      BY <2>2 DEF MailRec
    <3>2. n.mail.st # 2
      BY <2>1, <2>3, <2>7 DEF Shape
    <3>3. n.mail.st # 1
      <4>1. n.mail.st = 1 => n.mail.task \in Tasks /\ Home(n.mail.task) = l
        BY <2>1, <2>3 DEF Shape
      <4> QED BY <1>1, <2>1, <4>1 DEF Parks, ParkedTasks
    <3>4. n.mail.st = 0
      BY <3>1, <3>2, <3>3
    <3> QED BY <2>1, <2>3, <3>4 DEF Shape
  <2>12. n = [job |-> n.job, jobTicket |-> n.jobTicket, done |-> n.done, ext |-> n.ext,
              direct |-> n.direct, work |-> n.work, mail |-> n.mail,
              pc |-> n.pc, task |-> n.task, ticket |-> n.ticket, kind |-> n.kind]
    BY DEF LaneRec
  <2> QED BY <2>1, <2>5, <2>6, <2>7, <2>8, <2>9, <2>10, <2>11, <2>12 DEF IdleLane
<1> QED BY <1>2, <1>3

LEMMA CollectsKeeps == IInv /\ Collects => IInv'
<1> SUFFICES ASSUME IInv, Collects PROVE IInv'
  OBVIOUS
<1>1. PICK l \in Lanes : l = collects
  BY DEF IInv, Types, RootTypes
<1>2. /\ root = "collect" /\ lane[l].done /\ lane' = [lane EXCEPT ![l].done = FALSE]
      /\ root' = "drain"
      /\ UNCHANGED <<records, readyVars, tickets, laneStop, inFlight, compute, pool, stop, io,
                     collects, verdict, scopes>>
  BY <1>1 DEF Collects
<1>3. PICK n \in LaneRec : n = lane[l]
  BY LaneFields DEF IInv
<1>4. PICK k : k = [n EXCEPT !.done = FALSE]
  OBVIOUS
<1>5. /\ k \in LaneRec /\ k.done = FALSE /\ k.job = n.job /\ k.jobTicket = n.jobTicket
      /\ k.ext = n.ext /\ k.direct = n.direct /\ k.work = n.work /\ k.mail = n.mail
      /\ k.pc = n.pc /\ k.task = n.task /\ k.ticket = n.ticket /\ k.kind = n.kind
  BY <1>4 DEF LaneRec
<1>6. /\ lane'[l] = k /\ lane' \in [Lanes -> LaneRec]
      /\ \A m \in Lanes \ {l} : lane'[m] = lane[m]
  BY <1>2, <1>3, <1>4, <1>5 DEF IInv, Types, LaneTypes
<1>7. \A m \in Lanes : SameJobs(m) /\ SameWork(m)
  BY <1>3, <1>5, <1>6 DEF SameJobs, SameWork
<1>8. UNCHANGED <<script, state, wakeTicket, step, at, token, ready, epoch, consumed, joinWaits,
                  toIssue, next, phase, pass, device, slot, free, queue, nextSub, nextExec, subs,
                  reserved>>
  BY <1>2 DEF records, readyVars, tickets, compute, pool
<1>9. \A t \in Tasks : SameTask(t) /\ SameFor(t)
  <2>1. \A t \in Tasks : Runs(t)' <=> Runs(t)
    BY <1>7, Sizes DEF Runs, SameJobs
  <2> QED BY <1>8, <2>1 DEF SameTask, SameFor
<1>10. Types'
  BY <1>2, <1>6, <1>8 DEF IInv, Types, TaskTypes, ReadyTypes, LaneTypes, ComputeTypes, PoolTypes,
     RootTypes
<1>11. Queued'
  BY <1>8 DEF IInv, Queued, InState, Once
<1>12. Placed' /\ Tickets' /\ Computed' /\ Counted'
  BY <1>2, <1>7, <1>8, <1>9, <1>10, PlacedStays, TicketsStay, ComputedStays, CountedStays DEF IInv
<1>13. Slotted'
  <2>1. \A t \in Tasks : token[t] = 0 => at'[t] \notin {"queue", "complete"}
    BY <1>8 DEF IInv, Slotted, TokenKept
  <2> QED BY <1>2, <1>8, <1>9, <2>1, SlottedStays DEF IInv
<1>14. Rooted'
  <2>1. Rooted
    BY DEF IInv
  <2>2. ASSUME NEW m \in Lanes PROVE Regular(m)'
    <3>1. Regular(m) /\ (RegularFrame(m)' <=> RegularFrame(m))
      BY <1>7, <2>1 DEF Rooted, RegularFrame, SameJobs
    <3>2. CASE m = l
      BY <1>2, <1>3, <1>5, <1>6, <3>1, <3>2 DEF Regular
    <3>3. CASE m # l
      BY <1>1, <1>2, <1>6, <3>1, <3>3 DEF Regular
    <3> QED BY <3>2, <3>3
  <2> QED BY <1>2, <2>1, <2>2 DEF Rooted, Over
<1> QED BY <1>10, <1>11, <1>12, <1>13, <1>14 DEF IInv

\* StopHostIo finds nothing in the FIFO to clear and no admission open.
LEMMA JoinsWorkerKeeps == IInv /\ JoinsWorker => IInv'
<1> SUFFICES ASSUME IInv, JoinsWorker PROVE IInv'
  OBVIOUS
<1>1. /\ root = "stopping" /\ root' = "joining" /\ io' = NoIo /\ stop' = FALSE /\ laneStop' = TRUE
      /\ queue' = <<>> /\ subs' = 0
      /\ UNCHANGED <<records, readyVars, tickets, lane, inFlight, compute, slot, free, nextSub,
                     nextExec, reserved, collects, verdict, scopes>>
  BY DEF JoinsWorker
<1>2. /\ root \in Over /\ inFlight = 0
  BY <1>1 DEF Over, IInv, Rooted
<1>3. /\ \A s \in Slots : slot[s].st = "Free"
      /\ \A t \in Tasks : token[t] = 0
      /\ queue = <<>> /\ subs = 0
  BY <1>2, PoolIsFree
<1>4. UNCHANGED <<script, state, wakeTicket, step, at, token, ready, epoch, consumed, joinWaits,
                  toIssue, next, phase, pass, device, queue, subs>>
  BY <1>1, <1>3 DEF records, readyVars, tickets, compute
<1>5. /\ \A m \in Lanes : SameJobs(m) /\ SameWork(m)
      /\ \A t \in Tasks : SameTask(t)
  BY <1>1, <1>4 DEF SameJobs, SameWork, SameTask
<1>6. Types'
  <2>1. NoIo \in IoRec
    BY SizeAssumption DEF NoIo, IoRec, Pending
  <2>2. PoolTypes'
    BY <1>1, <1>4, <2>1 DEF IInv, Types, PoolTypes
  <2> QED BY <1>1, <1>4, <2>2 DEF IInv, Types, TaskTypes, ReadyTypes, LaneTypes, ComputeTypes,
             RootTypes
<1>7. Queued'
  BY <1>4 DEF IInv, Queued, InState, Once
<1>8. Placed' /\ Tickets' /\ Computed' /\ Counted'
  BY <1>1, <1>4, <1>5, <1>6, PlacedStays, TicketsStay, ComputedStays, CountedStays DEF IInv
<1>9. Slotted'
  <2>1. Lists'
    BY <1>1, <1>4 DEF IInv, Slotted, Lists, Once, Ascends, Distinct
  <2>2. WorkerKept'
    BY <1>1 DEF WorkerKept, NoIo
  <2>3. \A s \in Slots : SlotKept(s)'
    BY <1>1, <1>3 DEF IInv, Slotted, SlotKept
  <2>4. \A t \in Tasks : TokenKept(t)'
    BY <1>3, <1>4 DEF IInv, Slotted, TokenKept
  <2> QED BY <2>1, <2>2, <2>3, <2>4 DEF Slotted
<1>10. Rooted'
  <2>1. \A l \in Lanes : lane[l].pc \notin Own /\ lane[l].job = 0 /\ ~lane[l].done
    BY <1>2, OverIsQuiet
  <2>2. \A l \in Lanes : Regular(l)'
    BY <1>1, <2>1 DEF Regular, RegularFrame
  <2> QED BY <1>1, <1>2, <2>2 DEF Rooted, Over
<1> QED BY <1>6, <1>7, <1>8, <1>9, <1>10 DEF IInv

-----------------------------------------------------------------------------
(* A scope is opened, at first or by a reset.                              *)

\* The state Init and Reset leave, with what a reset keeps of the pool.
OpenedTasks ==
    /\ state = [t \in Tasks |-> "Ready"]
    /\ ready = [t \in Tasks |-> t]
    /\ lane = [l \in Lanes |-> IdleLane]
    /\ wakeTicket = [t \in Tasks |-> 0]
    /\ step = [t \in Tasks |-> 1]
    /\ at = [t \in Tasks |-> "next"]
    /\ token = [t \in Tasks |-> 0]
    /\ epoch = 0 /\ consumed = 0 /\ joinWaits = <<>>
    /\ toIssue = 1 /\ next = 1
    /\ laneStop = FALSE /\ inFlight = 0
    /\ phase = [t \in Tasks |-> Pending]
    /\ pass = [t \in Tasks |-> 0]
    /\ device = [t \in Tasks |-> "idle"]
    /\ reserved = 0 /\ collects = 0 /\ root = "open"

OpenedPool ==
    /\ slot \in [Slots -> SlotRec] /\ free \in Seq(Slots) /\ Once(free, Slots)
    /\ \A s \in Slots :
          slot[s].st = "Free" /\ slot[s].phase = Pending /\ slot[s].released < nextSub
    /\ queue = <<>> /\ subs = 0 /\ stop = FALSE /\ io = NoIo
    /\ nextSub \in Nat /\ nextExec \in 1..nextSub

Opened ==
    /\ OpenedTasks /\ OpenedPool
    /\ scopes \in 1..MaxScopes /\ script \in Scripts[scopes]

LEMMA OpenedHolds == Opened => IInv
<1> SUFFICES ASSUME Opened PROVE IInv
  OBVIOUS
<1>1. OpenedTasks /\ OpenedPool
  BY DEF Opened
<1>2. /\ IdleLane \in LaneRec /\ IdleLane.pc = "idle" /\ IdleLane.task = 0
      /\ IdleLane.ticket = 0 /\ IdleLane.kind = "None" /\ IdleLane.job = 0
      /\ IdleLane.jobTicket = 0 /\ IdleLane.done = FALSE /\ IdleLane.ext = <<>>
      /\ IdleLane.direct = <<>> /\ IdleLane.work = <<>> /\ IdleLane.mail = NoMail
      /\ NoMail.st = 0
  BY SizeAssumption DEF IdleLane, LaneRec, NoMail, MailRec
<1>3. /\ \A l \in Lanes : lane[l] = IdleLane
      /\ lane \in [Lanes -> LaneRec]
  BY <1>1, <1>2 DEF OpenedTasks
<1>4. \A t \in Tasks : /\ state[t] = "Ready" /\ wakeTicket[t] = 0 /\ at[t] = "next"
                       /\ token[t] = 0 /\ phase[t] = Pending /\ pass[t] = 0
                       /\ device[t] = "idle"
  BY <1>1 DEF OpenedTasks
<1>5. /\ Range(<<>>) = {} /\ IsInjective(<<>>)
  BY DEF Range, IsInjective
<1>6. ready \in Seq(Tasks) /\ Once(ready, Tasks)
  <2>1. Tasks = 1..TaskCount /\ TaskCount \in Nat
    BY SizeAssumption DEF Tasks
  <2>2. ready = [t \in 1..TaskCount |-> t]
    BY <1>1, <2>1 DEF OpenedTasks
  <2> QED BY <2>1, <2>2 DEF Once, Range, IsInjective
<1>7. Types
  <2>1. TaskTypes
    BY <1>1, SizeAssumption DEF OpenedTasks, TaskTypes
  <2>2. ReadyTypes
    BY <1>1, <1>6 DEF OpenedTasks, ReadyTypes
  <2>3. LaneTypes
    <3>1. toIssue = 1 /\ next = 1 /\ laneStop = FALSE /\ inFlight = 0
      BY <1>1 DEF OpenedTasks
    <3>2. laneStop \in BOOLEAN
      BY <3>1, Zenon
    <3>3. toIssue \in Nat /\ next \in 1..toIssue /\ inFlight \in Nat
      BY <3>1
    <3> QED BY <1>3, <3>2, <3>3 DEF LaneTypes
  <2>4. ComputeTypes
    BY <1>1 DEF OpenedTasks, ComputeTypes, Pending
  <2>5. NoIo \in IoRec
    BY SizeAssumption DEF NoIo, IoRec, Pending
  <2>6. PoolTypes
    <3>1. reserved = 0 /\ PayloadCapacity \in Nat
      BY <1>1, SizeAssumption DEF OpenedTasks
    <3>2. <<>> \in Seq(Slots)
      OBVIOUS
    <3>3. stop = FALSE
      BY <1>1 DEF OpenedPool
    <3>4. stop \in BOOLEAN
      BY <3>3, Zenon
    <3>5. reserved \in 0..PayloadCapacity /\ subs \in Nat /\ queue \in Seq(Slots) /\ io \in IoRec
      BY <1>1, <2>5, <3>1, <3>2 DEF OpenedPool
    <3> QED BY <1>1, <3>4, <3>5 DEF OpenedPool, PoolTypes
  <2>7. RootTypes
    BY <1>1, Sizes DEF Opened, OpenedTasks, RootTypes
  <2> QED BY <2>1, <2>2, <2>3, <2>4, <2>6, <2>7 DEF Types
<1>8. Queued
  <2>1. InState("Ready") = Tasks /\ InState("JoinBlocked") = {} /\ joinWaits = <<>>
    BY <1>1, <1>4 DEF InState, OpenedTasks
  <2> QED BY <1>5, <1>6, <2>1 DEF Queued, Once
<1>9. Placed
  <2>1. ASSUME NEW l \in Lanes PROVE PlacedOn(l)
    <3>1. PICK n : n = IdleLane /\ n = lane[l]
      BY <1>3
    <3>2. Shape(l)
      BY <1>2, <1>5, <3>1 DEF Shape, Own, AtWork
    <3>3. Listed(l)
      BY <1>2, <1>5, <3>1 DEF Listed
    <3>4. Framed(l)
      BY <1>2, <3>1 DEF Framed
    <3>5. \A t \in Tasks : Rests(t)
      BY <1>4 DEF Rests, Terminal
    <3> QED BY <3>2, <3>3, <3>4, <3>5 DEF PlacedOn
  <2> QED BY <2>1 DEF Placed
<1>10. Tickets
  <2>1. \A l \in Lanes, x \in Numbers : ~Holds(l, x)
    BY <1>2, <1>3, <1>4 DEF Holds, Numbers, InTurn
  <2> QED BY <1>2, <1>3, <2>1 DEF Tickets
<1>11. Slotted
  <2>1. Lists
    <3>1. /\ {s \in Slots : slot[s].st = "Free"} = Slots
          /\ {s \in Slots : slot[s].st = "Queued"} = {}
      BY <1>1 DEF OpenedPool
    <3>2. queue = <<>> /\ DOMAIN queue = {}
      BY <1>1 DEF OpenedPool
    <3>3. Distinct
      BY <1>1 DEF OpenedPool, Distinct
    <3>4. Ascends
      BY <3>2 DEF Ascends
    <3> QED BY <1>1, <1>5, <3>1, <3>2, <3>3, <3>4 DEF OpenedPool, Lists, Once
  <2>2. WorkerKept
    BY <1>1 DEF OpenedPool, WorkerKept, NoIo
  <2>3. \A s \in Slots : SlotKept(s)
    BY <1>1 DEF OpenedPool, SlotKept
  <2>4. \A t \in Tasks : TokenKept(t)
    BY <1>4 DEF TokenKept
  <2> QED BY <2>1, <2>2, <2>3, <2>4 DEF Slotted
<1>12. Computed
  <2>1. \A t \in Tasks : PhaseKept(t)
    BY <1>4 DEF PhaseKept, Pending, Parked, Done
  <2>2. \A l \in Lanes : WorkKept(l)
    BY <1>2, <1>3, <1>5 DEF WorkKept, AtWork
  <2>3. Wakers
    BY <1>2, <1>3, <1>4 DEF Wakers
  <2>4. Passes
    <3>1. \A t \in Tasks : WorkLanes(t) = {}
      BY <1>2, <1>3, <1>5 DEF WorkLanes, OnLane, AtWork
    <3>2. \A t \in Tasks : Units(t) = 0
      BY <1>4 DEF Units
    <3> QED BY <1>4, <3>1, <3>2, FS_EmptySet DEF Passes
  <2> QED BY <2>1, <2>2, <2>3, <2>4 DEF Computed
<1>13. Counted
  <2>1. DirectFrames = {}
    BY <1>2, <1>3 DEF DirectFrames, Own
  <2>2. ParkedTasks = {}
    <3>1. ASSUME NEW t \in Tasks PROVE ~Parks(t)
      <4>1. PICK n : n = IdleLane /\ n = lane[Home(t)]
        BY <1>3, Sizes
      <4>2. n.mail.st = 0 /\ Range(n.direct) = {}
        BY <1>2, <1>5, <4>1
      <4> QED BY <1>4, <4>1, <4>2 DEF Parks
    <3> QED BY <3>1 DEF ParkedTasks
  <2>3. TokenTasks = {}
    BY <1>4 DEF TokenTasks
  <2>4. ~Admits
    BY <1>1 DEF OpenedPool, Admits
  <2> QED BY <1>1, <2>1, <2>2, <2>3, <2>4, FS_EmptySet
          DEF Counted, FlightsCounted, BytesCounted, AdmissionsCounted, OpenedTasks, OpenedPool
<1>14. Rooted
  BY <1>1, <1>2, <1>3 DEF OpenedTasks, OpenedPool, Rooted, Regular, RegularFrame, Own, Over
<1> QED BY <1>7, <1>8, <1>9, <1>10, <1>11, <1>12, <1>13, <1>14 DEF IInv

LEMMA InitOpens == Init => IInv
<1> SUFFICES ASSUME Init PROVE IInv
  OBVIOUS
<1>1. OpenedTasks
  BY DEF Init, OpenedTasks
<1>2. OpenedPool
  <2>1. /\ FreeSlot \in SlotRec /\ FreeSlot.st = "Free" /\ FreeSlot.phase = Pending
        /\ FreeSlot.released = 0
    BY SizeAssumption DEF FreeSlot, SlotRec, Pending
  <2>2. slot = [s \in Slots |-> FreeSlot] /\ nextSub = 1 /\ nextExec = 1
    BY DEF Init
  <2>3. free \in Seq(Slots) /\ Once(free, Slots)
    <3>1. Slots = 1..SlotCount /\ SlotCount \in Nat
      BY SizeAssumption DEF Slots
    <3>2. free = [s \in 1..SlotCount |-> s]
      BY <3>1 DEF Init
    <3> QED BY <3>1, <3>2 DEF Once, Range, IsInjective
  <2> QED BY <2>1, <2>2, <2>3 DEF Init, OpenedPool
<1>3. scopes \in 1..MaxScopes /\ script \in Scripts[scopes]
  BY SizeAssumption DEF Init
<1> QED BY <1>1, <1>2, <1>3, OpenedHolds DEF Opened

\* What a reset keeps is fit for the next scope: every slot is free, under a
\* sequence that is over.
LEMMA ResetOpens == IInv /\ Reset => Opened'
<1> SUFFICES ASSUME IInv, Reset PROVE Opened'
  OBVIOUS
<1>1. OpenedTasks'
  BY DEF Reset, OpenedTasks
<1>2. root = "joining" /\ root \in Over
  BY DEF Reset, Over
<1>3. /\ \A s \in Slots : slot[s].st = "Free"
      /\ queue = <<>> /\ subs = 0
  BY <1>2, PoolIsFree
<1>4. UNCHANGED <<slot, free, queue, nextSub, nextExec, subs, stop, io>>
  BY DEF Reset
<1>5. stop = FALSE /\ io = NoIo
  BY <1>2 DEF IInv, Rooted, Types, PoolTypes
<1>6. /\ slot \in [Slots -> SlotRec] /\ free \in Seq(Slots)
      /\ nextSub \in Nat /\ nextExec \in 1..nextSub
  BY DEF IInv, Types, PoolTypes
<1>7. Once(free, Slots)
  <2>1. {s \in Slots : slot[s].st = "Free"} = Slots
    BY <1>3
  <2> QED BY <2>1 DEF IInv, Slotted, Lists
<1>8. \A s \in Slots : slot[s].phase = Pending /\ slot[s].released < nextSub
  BY <1>3 DEF IInv, Slotted, SlotKept
<1>9. OpenedPool'
  BY <1>3, <1>4, <1>5, <1>6, <1>7, <1>8 DEF OpenedPool, Once
<1>10. scopes' \in 1..MaxScopes /\ script' \in Scripts[scopes']
  <2>1. scopes \in 1..MaxScopes /\ scopes < MaxScopes /\ scopes' = scopes + 1
    BY DEF Reset, IInv, Types, RootTypes
  <2>2. scopes' \in 1..MaxScopes
    BY <2>1, SizeAssumption
  <2> QED BY <2>2 DEF Reset
<1> QED BY <1>1, <1>9, <1>10 DEF Opened

LEMMA ResetKeeps == IInv /\ Reset => IInv'
<1>1. Opened' => IInv'
  BY OpenedHolds, PTL
<1> QED BY <1>1, ResetOpens

-----------------------------------------------------------------------------
(* Ready tasks go to their lanes.                                          *)

\* A ready task is between awaits, holds nothing and is on no lane.
LEMMA ReadyIsFree ==
    ASSUME IInv, NEW t \in Tasks, state[t] = "Ready"
    PROVE  /\ at[t] = "next" /\ wakeTicket[t] = 0 /\ token[t] = 0
           /\ ~Runs(t) /\ ~Waked(t) /\ ~Parks(t)
           /\ LET n == lane[Home(t)] IN
              /\ n.job # t /\ (n.mail.st = 1 => n.mail.task # t)
              /\ t \notin Range(n.direct) /\ t \notin Range(n.ext)
              /\ n.pc \in {"turn", "run"} => n.task # t
<1>1. PICK l \in Lanes : l = Home(t)
  BY Sizes
<1>2. Shape(l) /\ Listed(l) /\ Framed(l) /\ Rests(t)
  BY <1>1 DEF IInv, Placed, PlacedOn
<1>3. lane[l].pc \in {"turn", "run"} => lane[l].task # t
  BY <1>2 DEF Framed, Fresh, Woken
<1>4. ~Runs(t)
  BY <1>1, <1>3 DEF Runs
<1>5. at[t] = "next" /\ wakeTicket[t] = 0
  BY <1>2, <1>4 DEF Rests, Terminal
<1>6. token[t] = 0
  BY <1>5 DEF IInv, Slotted, TokenKept, Admission
<1>7. /\ (lane[l].job = t => lane[l].job = 0)
      /\ (lane[l].mail.st = 1 => lane[l].mail.task # t)
      /\ t \notin Range(lane[l].direct) /\ t \notin Range(lane[l].ext)
  BY <1>2 DEF Listed, Fresh, Woken
<1>8. lane[l].job # t
  BY <1>7, Sizes
<1>9. ~Parks(t) /\ ~Waked(t)
  BY <1>1, <1>7 DEF Parks, Waked
<1> QED BY <1>1, <1>3, <1>4, <1>5, <1>6, <1>7, <1>8, <1>9

LEMMA RunReadyKeeps == IInv /\ RunReady => IInv'
<1> SUFFICES ASSUME IInv, RunReady PROVE IInv'
  OBVIOUS
<1>1. PICK t : t = Head(ready)
  OBVIOUS
<1>2. /\ root = "drain" /\ ready # <<>> /\ CanSubmitToLane(lane[Home(t)])
      /\ lane' = [lane EXCEPT ![Home(t)].job = t, ![Home(t)].jobTicket = toIssue]
      /\ state' = [state EXCEPT ![t] = "Running"]
      /\ toIssue' = toIssue + 1 /\ ready' = Tail(ready)
      /\ root' = "collect" /\ collects' = Home(t)
      /\ UNCHANGED <<script, wakeTicket, step, at, token, epoch, consumed, joinWaits, next,
                     laneStop, inFlight, compute, pool, stop, io, verdict, scopes>>
  BY <1>1 DEF RunReady
<1>3. ready \in Seq(Tasks) /\ Once(ready, InState("Ready"))
  BY DEF IInv, Types, ReadyTypes, Queued
<1>4. /\ t \in Tasks /\ ready' \in Seq(Tasks) /\ t \in Range(ready)
      /\ Range(ready) = Range(ready') \cup {t}
      /\ IsInjective(ready') /\ t \notin Range(ready')
  BY <1>1, <1>2, <1>3, TailOnce DEF Once
<1>5. state[t] = "Ready"
  BY <1>3, <1>4 DEF Once, InState
<1>6. PICK h \in Lanes : h = Home(t)
  BY <1>4, Sizes
<1>7. /\ at[t] = "next" /\ wakeTicket[t] = 0 /\ token[t] = 0
      /\ ~Runs(t) /\ ~Waked(t) /\ ~Parks(t)
      /\ lane[h].job # t /\ (lane[h].mail.st = 1 => lane[h].mail.task # t)
      /\ t \notin Range(lane[h].direct) /\ t \notin Range(lane[h].ext)
      /\ (lane[h].pc \in {"turn", "run"} => lane[h].task # t)
  BY <1>4, <1>5, <1>6, ReadyIsFree
<1>8. /\ ~laneStop /\ lane[h].job = 0 /\ ~lane[h].done
      /\ lane[h].pc \notin {"turn", "run", "finish", "publish", "work"}
  BY <1>2, <1>6 DEF CanSubmitToLane, IsRunning
<1>9. toIssue \in Nat /\ toIssue # 0
  BY DEF IInv, Types, LaneTypes
<1>10. PICK n \in LaneRec : n = lane[h]
  BY LaneFields DEF IInv
<1>11. PICK k : k = [n EXCEPT !.job = t, !.jobTicket = toIssue]
  OBVIOUS
<1>12. /\ k \in LaneRec /\ k.done = n.done /\ k.job = t /\ k.jobTicket = toIssue
       /\ k.ext = n.ext /\ k.direct = n.direct /\ k.work = n.work /\ k.mail = n.mail
       /\ k.pc = n.pc /\ k.task = n.task /\ k.ticket = n.ticket /\ k.kind = n.kind
  <2>1. t \in 0..TaskCount
    BY <1>4, Sizes
  <2> QED BY <1>9, <1>11, <2>1 DEF LaneRec
<1>13. /\ lane'[h] = k /\ lane' \in [Lanes -> LaneRec]
       /\ \A m \in Lanes \ {h} : lane'[m] = lane[m]
  BY <1>2, <1>6, <1>10, <1>11, <1>12 DEF IInv, Types, LaneTypes
<1>14. /\ state'[t] = "Running" /\ \A u \in Tasks \ {t} : state'[u] = state[u]
       /\ state \in [Tasks -> States] /\ state' \in [Tasks -> States]
  <2>1. state \in [Tasks -> States] /\ "Running" \in States
    BY DEF IInv, Types, TaskTypes, States
  <2> QED BY <1>2, <1>4, <2>1
<1>15. \A u \in Tasks \ {t} : SameTask(u) /\ Aside(u)
  BY <1>2, <1>14 DEF SameTask, Aside
<1>16. Types'
  <2>1. TaskTypes'
    BY <1>2, <1>14 DEF IInv, Types, TaskTypes, States
  <2>2. ReadyTypes'
    BY <1>2, <1>4 DEF IInv, Types, ReadyTypes
  <2>3. LaneTypes'
    BY <1>2, <1>9, <1>13 DEF IInv, Types, LaneTypes
  <2>4. ComputeTypes' /\ PoolTypes'
    BY <1>2 DEF IInv, Types, ComputeTypes, PoolTypes, compute, pool
  <2>5. RootTypes'
    BY <1>2, <1>6 DEF IInv, Types, RootTypes
  <2> QED BY <2>1, <2>2, <2>3, <2>4, <2>5 DEF Types
<1>17. Queued'
  <2>1. InState("Ready")' = InState("Ready") \ {t}
    BY <1>4, <1>14 DEF InState
  <2>2. InState("JoinBlocked")' = InState("JoinBlocked")
    BY <1>5, <1>14 DEF InState
  <2>3. Once(joinWaits, InState("JoinBlocked"))
    BY DEF IInv, Queued
  <2>4. Range(ready) = InState("Ready")
    BY <1>3 DEF Once
  <2>5. Range(ready') = InState("Ready")'
    BY <1>4, <2>1, <2>4
  <2>6. Once(ready, InState("Ready"))'
    BY <1>4, <2>5 DEF Once
  <2>7. Once(joinWaits, InState("JoinBlocked"))'
    BY <1>2, <2>2, <2>3 DEF Once
  <2> QED BY <2>6, <2>7 DEF Queued
<1>18. \A u \in Tasks : Runs(u)' <=> Runs(u)
  <2>1. \A m \in Lanes : lane'[m].pc = lane[m].pc /\ lane'[m].task = lane[m].task
    BY <1>10, <1>12, <1>13
  <2> QED BY <2>1, Sizes DEF Runs
<1>19. PlacedOn(h)
  BY DEF IInv, Placed
<1>20. Placed'
  <2>1. \A u \in Tasks : Home(u) # h => SameTask(u)
    BY <1>6, <1>15
  <2>2. \A m \in Lanes \ {h} : SameJobs(m)
    BY <1>13 DEF SameJobs
  <2>3. Shape(h)'
    BY <1>4, <1>6, <1>10, <1>12, <1>13, <1>19, Sizes DEF PlacedOn, Shape
  <2>4. Listed(h)'
    <3>1. Listed(h)
      BY <1>19 DEF PlacedOn
    <3>2. Range(n.direct) \subseteq Tasks \ {t} /\ Range(n.ext) \subseteq Tasks \ {t}
      BY <1>7, <1>10, LaneFields DEF IInv
    <3>3. n.mail.st = 1 => n.mail.task \in Tasks \ {t}
      BY <1>7, <1>10, <1>19 DEF PlacedOn, Shape
    <3>4. Fresh(t)'
      BY <1>2, <1>7, <1>14 DEF Fresh
    <3>5. \A u \in Tasks \ {t} : (Fresh(u) => Fresh(u)') /\ (Woken(u) => Woken(u)')
      BY <1>15 DEF Fresh, Woken, SameTask
    <3>6. (lane[h].job)' = t /\ (lane[h].mail)' = n.mail /\ (lane[h].direct)' = n.direct
          /\ (lane[h].ext)' = n.ext
      BY <1>12, <1>13
    <3>7. /\ (lane[h].job # 0 => Fresh(lane[h].job))'
          /\ (lane[h].job # 0 /\ lane[h].mail.st = 1 => lane[h].job # lane[h].mail.task)'
      BY <3>3, <3>4, <3>6 DEF Fresh
    <3>8. (lane[h].mail.st = 1 => Fresh(lane[h].mail.task))'
      BY <1>10, <1>15, <3>1, <3>3, <3>6 DEF Listed, Fresh, SameTask
    <3>9. (\A u \in Range(lane[h].direct) :
              state[u] = "Running" /\ wakeTicket[u] # 0 /\ at[u] = "next")'
      BY <1>10, <1>15, <3>1, <3>2, <3>6 DEF Listed, SameTask
    <3>10. (\A u \in Range(lane[h].ext) : Woken(u))'
      BY <1>10, <1>15, <3>1, <3>2, <3>6 DEF Listed, Woken, SameTask
    <3> QED BY <3>7, <3>8, <3>9, <3>10 DEF Listed
  <2>5. Framed(h)'
    BY <1>8, <1>10, <1>12, <1>13 DEF Framed
  <2>6. ASSUME NEW u \in Tasks PROVE Rests(u)'
    <3>1. Rests(u)
      BY Sizes DEF IInv, Placed, PlacedOn
    <3>2. CASE u = t
      BY <1>2, <1>7, <1>14, <3>2 DEF Rests, Terminal
    <3>3. CASE u # t
      BY <1>15, <1>18, <3>1, <3>3 DEF Rests, SameTask
    <3> QED BY <3>2, <3>3
  <2>7. PlacedOn(h)'
    BY <2>3, <2>4, <2>5, <2>6 DEF PlacedOn
  <2> QED BY <2>1, <2>2, <2>7, PlacedThere DEF IInv
<1>21. Tickets'
  <2>1. ASSUME NEW m \in Lanes, NEW x \in Numbers, Holds(m, x)'
        PROVE  Holds(m, x) \/ (m = h /\ x = toIssue)
    <3>1. CASE m = h
      BY <1>2, <1>10, <1>12, <1>13, <2>1, <3>1 DEF Holds
    <3>2. CASE m # h
      BY <1>2, <1>13, <2>1, <3>2 DEF Holds
    <3> QED BY <3>1, <3>2
  <2>2. \A m \in Lanes : lane'[m].pc \in {"run", "finish"} => lane'[m].ticket = next
    BY <1>10, <1>12, <1>13 DEF IInv, Tickets
  <2> QED BY <1>2, <1>16, <2>1, <2>2, TicketIssued DEF IInv
<1>22. Slotted'
  <2>1. UNCHANGED <<slot, free, queue, nextSub, io, token, script>>
    BY <1>2 DEF pool
  <2>2. \A u \in Tasks : token[u] # 0 => SameFor(u)
    BY <1>7, <1>15, <1>18 DEF SameFor
  <2>3. \A u \in Tasks : token[u] = 0 => at'[u] \notin {"queue", "complete"}
    BY <1>2 DEF IInv, Slotted, TokenKept
  <2> QED BY <2>1, <2>2, <2>3, SlottedStays DEF IInv
<1>23. Computed'
  <2>1. \A m \in Lanes : SameWork(m)
    BY <1>10, <1>12, <1>13 DEF SameWork
  <2>2. PhaseKept(t) /\ UNCHANGED <<script, phase, pass, device>>
    BY <1>2, <1>4 DEF IInv, Computed, compute
  <2>3. PhaseKept(t)'
    BY <1>2, <1>7, <1>14, <2>2 DEF PhaseKept, Computes, Pending, Parked, Done
  <2>4. Units(t)' = Units(t)
    BY <1>2 DEF Units
  <2>5. \A u \in Tasks \ {t} : Aside(u) /\ token'[u] = token[u]
    BY <1>2, <1>15
  <2> QED BY <1>4, <1>7, <2>1, <2>2, <2>3, <2>4, <2>5, ComputedAround DEF IInv
<1>24. Counted'
  <2>1. \A m \in Lanes : m \in DirectFrames' <=> m \in DirectFrames
    BY <1>10, <1>12, <1>13 DEF DirectFrames
  <2>2. \A u \in Tasks : Parks(u)' <=> Parks(u)
    <3>1. ASSUME NEW u \in Tasks PROVE Parks(u)' <=> Parks(u)
      <4>1. PICK m \in Lanes : m = Home(u)
        BY Sizes
      <4>2. /\ lane'[m].mail = lane[m].mail /\ lane'[m].direct = lane[m].direct
            /\ lane'[m].pc = lane[m].pc /\ lane'[m].task = lane[m].task
        BY <1>10, <1>12, <1>13
      <4>3. CASE u # t
        BY <1>15, <4>1, <4>2, <4>3 DEF Parks, SameTask
      <4>4. CASE u = t
        <5>1. m = h
          BY <1>6, <4>1, <4>4
        <5> QED BY <1>7, <1>14, <4>1, <4>2, <4>4, <5>1 DEF Parks
      <4> QED BY <4>3, <4>4
    <3> QED BY <3>1
  <2>3. DirectFrames' = DirectFrames /\ ParkedTasks' = ParkedTasks
    BY <2>1, <2>2 DEF DirectFrames, ParkedTasks
  <2>4. FlightsCounted'
    BY <1>2, <2>3, FlightsStay DEF IInv, Counted
  <2> QED BY <1>2, <2>4, PoolCountsStay DEF IInv, Counted, pool
<1>25. Rooted'
  <2>1. Rooted
    BY DEF IInv
  <2>2. \A m \in Lanes : lane[m].job = 0 /\ ~lane[m].done /\ ~RegularFrame(m)
    BY <1>2, <2>1 DEF Rooted, Regular
  <2>3. \A m \in Lanes : RegularFrame(m)' <=> RegularFrame(m)
    BY <1>10, <1>12, <1>13 DEF RegularFrame
  <2>4. ASSUME NEW m \in Lanes PROVE Regular(m)'
    <3>1. CASE m = h
      <4>1. lane'[h].done = lane[h].done
        BY <1>10, <1>12, <1>13
      <4> QED BY <1>2, <1>6, <2>2, <2>3, <3>1, <4>1 DEF Regular
    <3>2. CASE m # h
      <4>1. lane'[m] = lane[m]
        BY <1>13, <3>2
      <4> QED BY <2>2, <2>3, <4>1 DEF Regular
    <3> QED BY <3>1, <3>2
  <2> QED BY <1>2, <2>1, <2>4 DEF Rooted, Over
<1> QED BY <1>16, <1>17, <1>20, <1>21, <1>22, <1>23, <1>24, <1>25 DEF IInv

-----------------------------------------------------------------------------
(* DispatchExternal: the ready prefix goes to the lanes without the root.  *)

\* The tasks a dispatch of the first k ready tasks admits, and those of lane l.
Prefix(k) == {ready[i] : i \in 1..k}
PrefixOn(k, l) == {t \in Prefix(k) : Home(t) = l}

\* The ticket of an admitted task is the one of its place in the prefix.
LEMMA TicketOf ==
    ASSUME NEW k \in Nat, NEW t \in Prefix(k)
    PROVE  \E i \in 1..k : ready[i] = t /\ TicketIn(k, t) = toIssue + i - 1
<1>1. PICK c : c = CHOOSE i \in 1..k : ready[i] = t
  OBVIOUS
<1>2. \E i \in 1..k : ready[i] = t
  BY DEF Prefix
<1>3. c \in 1..k /\ ready[c] = t
  BY <1>1, <1>2
<1>4. TicketIn(k, t) = toIssue + c - 1
  BY <1>1 DEF TicketIn
<1> QED BY <1>3, <1>4

\* The prefix, as a set of ready tasks, and what is left of the queue.
LEMMA PrefixIsReady ==
    ASSUME IInv, NEW k \in DOMAIN ready
    PROVE  /\ k \in Nat \ {0} /\ Prefix(k) \subseteq InState("Ready")
           /\ IsFiniteSet(Prefix(k)) /\ Cardinality(Prefix(k)) = k
           /\ SubSeq(ready, k + 1, Len(ready)) \in Seq(Tasks)
           /\ Once(SubSeq(ready, k + 1, Len(ready)), InState("Ready") \ Prefix(k))
           /\ SubSeq(ready, 1, k) \in Seq(Tasks) /\ Once(SubSeq(ready, 1, k), Prefix(k))
<1>1. ready \in Seq(Tasks) /\ IsInjective(ready) /\ Range(ready) = InState("Ready")
  BY DEF IInv, Types, ReadyTypes, Queued, Once
<1>2. Len(ready) \in Nat /\ DOMAIN ready = 1..Len(ready) /\ k \in 1..Len(ready)
  BY <1>1
<1>3. PICK a \in Int, b \in Int : a = 1 /\ b = k
  BY <1>2
<1>4. SubSeq(ready, a, b) \in Seq(Tasks) /\ Range(SubSeq(ready, a, b)) = {ready[i] : i \in a..b}
      /\ IsInjective(SubSeq(ready, a, b))
  BY <1>1, <1>2, <1>3, PieceOnce
<1>5. PICK p, q : p = SubSeq(ready, 1, k) /\ q = SubSeq(ready, k + 1, Len(ready))
  OBVIOUS
<1>6. p \in Seq(Tasks) /\ Range(p) = Prefix(k) /\ IsInjective(p)
  BY <1>3, <1>4, <1>5 DEF Prefix
<1>7. k \in 0..Len(ready)
  BY <1>2
<1>8. /\ q \in Seq(Tasks) /\ IsInjective(q) /\ Range(p) \cup Range(q) = Range(ready)
      /\ Range(p) \cap Range(q) = {}
  BY <1>1, <1>5, <1>7, CutOnce
<1>9. Range(q) = InState("Ready") \ Prefix(k) /\ Prefix(k) \subseteq InState("Ready")
  BY <1>1, <1>6, <1>8
<1>10. IsFiniteSet(Prefix(k)) /\ Cardinality(Prefix(k)) = k
  <2>1. IsFiniteSet(a..b) /\ Cardinality(a..b) = IF a > b THEN 0 ELSE b - a + 1
    BY FS_Interval
  <2>2. a..b = 1..k /\ Cardinality(a..b) = k /\ \A i \in a..b : i \in DOMAIN ready
    BY <1>2, <1>3, <2>1
  <2>3. PICK f : f = [i \in a..b |-> ready[i]]
    OBVIOUS
  <2>4. f \in [a..b -> Prefix(k)] /\ \A i \in a..b : f[i] = ready[i]
    BY <2>2, <2>3 DEF Prefix
  <2>5. \A i, j \in a..b : f[i] = f[j] => i = j
    BY <1>1, <2>2, <2>4 DEF IsInjective
  <2>6. \A t \in Prefix(k) : \E i \in a..b : f[i] = t
    BY <2>2, <2>4 DEF Prefix
  <2>7. f \in Bijection(a..b, Prefix(k))
    BY <2>4, <2>5, <2>6 DEF Bijection, Injection, Surjection, IsInjective
  <2>8. ExistsBijection(a..b, Prefix(k))
    BY <2>7 DEF ExistsBijection
  <2> QED BY <2>1, <2>2, <2>8, FS_Bijection
<1> QED BY <1>2, <1>5, <1>6, <1>8, <1>9, <1>10 DEF Once

\* A lane after QueueDirect: its worker is where it was, its prefix is on the
\* direct list, but for one task that an idle lane has in its mailbox.
SameWorker(n, r) ==
    /\ r.job = n.job /\ r.jobTicket = n.jobTicket /\ r.done = n.done
    /\ r.ext = n.ext /\ r.work = n.work
    /\ r.pc = n.pc /\ r.task = n.task /\ r.ticket = n.ticket /\ r.kind = n.kind

Landed(n, r, A, k) ==
    /\ r \in LaneRec /\ SameWorker(n, r)
    /\ IsInjective(r.direct)
    /\ \/ r.mail = n.mail /\ Range(r.direct) = Range(n.direct) \cup A
       \/ /\ n.mail.st = 0
          /\ \E t \in A :
                /\ r.mail.st = 1 /\ r.mail.task = t /\ r.mail.ticket = TicketIn(k, t)
                /\ Range(r.direct) = Range(n.direct) \cup (A \ {t})

LEMMA QueueLands ==
    ASSUME NEW n \in LaneRec, NEW own \in Seq(Tasks), NEW A, Once(own, A),
           IsInjective(n.direct), Range(n.direct) \cap A = {}, NEW k \in Nat,
           \A t \in A : TicketIn(k, t) \in Nat
    PROVE  Landed(n, QueueDirect(n, own, k), A, k)
<1>1. n.direct \in Seq(Tasks) /\ n.mail \in MailRec
  BY DEF LaneRec
<1>2. IsInjective(own) /\ Range(own) = A /\ A \subseteq Tasks
  BY DEF Once, Range
<1>3. PICK r : r = QueueDirect(n, own, k)
  OBVIOUS
<1>4. CASE own = <<>>
  <2>1. r = n
    BY <1>3, <1>4 DEF QueueDirect
  <2>2. A = {}
    BY <1>2, <1>4 DEF Range
  <2> QED BY <1>3, <2>1, <2>2 DEF Landed, SameWorker
<1>5. CASE own # <<>> /\ Busy(n)
  <2>1. PICK d : d = n.direct \o own
    OBVIOUS
  <2>2. d \in Seq(Tasks) /\ Range(d) = Range(n.direct) \cup A /\ IsInjective(d)
    BY <1>1, <1>2, <2>1, ConcatOnce
  <2>3. r = [n EXCEPT !.direct = d]
    BY <1>3, <1>5, <2>1 DEF QueueDirect
  <2>4. /\ r \in LaneRec /\ r.direct = d /\ r.mail = n.mail /\ SameWorker(n, r)
    BY <2>2, <2>3 DEF LaneRec, SameWorker
  <2> QED BY <1>3, <2>2, <2>4 DEF Landed
<1>6. CASE own # <<>> /\ ~Busy(n)
  <2>1. PICK t, own1 : t = Head(own) /\ own1 = Tail(own)
    OBVIOUS
  <2>2. /\ t \in Tasks /\ own1 \in Seq(Tasks) /\ t \in A
        /\ Range(own1) = A \ {t} /\ IsInjective(own1)
    BY <1>2, <1>6, <2>1, TailOnce
  <2>3. PICK d : d = n.direct \o own1
    OBVIOUS
  <2>4. d \in Seq(Tasks) /\ Range(d) = Range(n.direct) \cup (A \ {t}) /\ IsInjective(d)
    <3>1. Range(n.direct) \cap Range(own1) = {}
      BY <2>2
    <3> QED BY <1>1, <2>2, <2>3, <3>1, ConcatOnce
  <2>5. PICK c \in Nat : c = TicketIn(k, t)
    BY <2>2
  <2>6. PICK e : e = [st |-> 1, task |-> t, ticket |-> c]
    OBVIOUS
  <2>7. e \in MailRec /\ e.st = 1 /\ e.task = t /\ e.ticket = c
    <3>1. t \in 0..TaskCount
      BY <2>2, Sizes
    <3> QED BY <2>6, <3>1 DEF MailRec
  <2>8. r = [n EXCEPT !.mail = e, !.direct = d]
    BY <1>3, <1>6, <2>1, <2>3, <2>5, <2>6 DEF QueueDirect
  <2>9. /\ r \in LaneRec /\ r.direct = d /\ r.mail = e /\ SameWorker(n, r)
    BY <2>4, <2>7, <2>8 DEF LaneRec, SameWorker
  <2>10. n.mail.st = 0
    BY <1>6 DEF Busy
  <2> QED BY <1>3, <2>2, <2>4, <2>5, <2>7, <2>9, <2>10 DEF Landed
<1> QED BY <1>4, <1>5, <1>6

\* Ticket x goes to a task of lane m in a dispatch of the first k ready tasks.
Issued(k, m, x) == \E i \in 1..k : Home(ready[i]) = m /\ x = toIssue + i - 1

\* What a dispatch does to the lanes and to the tasks.
Dispatched(k) ==
    /\ lane' \in [Lanes -> LaneRec]
    /\ \A m \in Lanes : Landed(lane[m], lane'[m], PrefixOn(k, m), k)
    /\ state' \in [Tasks -> States]
    /\ \A t \in Prefix(k) : state'[t] = "Running"
    /\ \A t \in Tasks \ Prefix(k) : state'[t] = state[t]
    /\ wakeTicket' \in [Tasks -> Nat]
    /\ \A t \in Tasks \ Prefix(k) : wakeTicket'[t] = wakeTicket[t]
    /\ \A t \in Prefix(k) : t \in Range(lane'[Home(t)].direct) =>
          wakeTicket'[t] = TicketIn(k, t)
    /\ \A t \in Prefix(k) : t \notin Range(lane'[Home(t)].direct) => wakeTicket'[t] = 0

\* An admitted task is Ready, so it is nowhere on the lanes; its ticket is new.
LEMMA PrefixIsFree ==
    ASSUME IInv, NEW k \in DOMAIN ready, NEW t \in Prefix(k)
    PROVE  /\ t \in Tasks /\ Home(t) \in Lanes /\ state[t] = "Ready"
           /\ at[t] = "next" /\ wakeTicket[t] = 0 /\ token[t] = 0
           /\ ~Runs(t) /\ ~Waked(t) /\ ~Parks(t)
           /\ lane[Home(t)].job # t
           /\ (lane[Home(t)].mail.st = 1 => lane[Home(t)].mail.task # t)
           /\ t \notin Range(lane[Home(t)].direct) /\ t \notin Range(lane[Home(t)].ext)
           /\ (lane[Home(t)].pc \in {"turn", "run"} => lane[Home(t)].task # t)
           /\ TicketIn(k, t) \in Nat \ {0} /\ Issued(k, Home(t), TicketIn(k, t))
<1>1. k \in Nat \ {0} /\ Prefix(k) \subseteq InState("Ready")
  BY PrefixIsReady
<1>2. t \in Tasks /\ state[t] = "Ready"
  BY <1>1 DEF InState
<1>3. PICK h \in Lanes : h = Home(t)
  BY <1>2, Sizes
<1>4. /\ at[t] = "next" /\ wakeTicket[t] = 0 /\ token[t] = 0
      /\ ~Runs(t) /\ ~Waked(t) /\ ~Parks(t)
      /\ lane[h].job # t /\ (lane[h].mail.st = 1 => lane[h].mail.task # t)
      /\ t \notin Range(lane[h].direct) /\ t \notin Range(lane[h].ext)
      /\ (lane[h].pc \in {"turn", "run"} => lane[h].task # t)
  BY <1>2, <1>3, ReadyIsFree
<1>5. toIssue \in Nat /\ toIssue # 0
  BY DEF IInv, Types, LaneTypes
<1>6. PICK i \in 1..k : ready[i] = t /\ TicketIn(k, t) = toIssue + i - 1
  BY <1>1, TicketOf
<1>7. TicketIn(k, t) \in Nat \ {0} /\ Issued(k, Home(t), TicketIn(k, t))
  BY <1>1, <1>5, <1>6 DEF Issued
<1> QED BY <1>2, <1>3, <1>4, <1>7

LEMMA DispatchLands ==
    ASSUME IInv, NEW k \in DOMAIN ready,
           lane' = [l \in Lanes |-> QueueDirect(lane[l], Admitted(k, l), k)],
           wakeTicket' = [t \in Tasks |->
                IF \E l \in Lanes : t \in Prefix(k) /\
                     \E i \in DOMAIN lane'[l].direct : lane'[l].direct[i] = t
                THEN TicketIn(k, t) ELSE wakeTicket[t]],
           state' = [t \in Tasks |-> IF t \in Prefix(k) THEN "Running" ELSE state[t]]
    PROVE  Dispatched(k)
<1>1. /\ k \in Nat \ {0} /\ SubSeq(ready, 1, k) \in Seq(Tasks)
      /\ Once(SubSeq(ready, 1, k), Prefix(k)) /\ Prefix(k) \subseteq Tasks
  BY PrefixIsReady DEF InState
<1>2. PICK p \in Seq(Tasks) : p = SubSeq(ready, 1, k)
  BY <1>1
<1>3. IsInjective(p) /\ Range(p) = Prefix(k)
  BY <1>1, <1>2 DEF Once
<1>4. ASSUME NEW m \in Lanes
      PROVE  Landed(lane[m], lane'[m], PrefixOn(k, m), k)
  <2>1. PICK T : T = {t \in Tasks : Home(t) = m}
    OBVIOUS
  <2>2. PICK own : own = Admitted(k, m)
    OBVIOUS
  <2>3. own = Keep(p, T)
    BY <1>2, <2>1, <2>2 DEF Admitted
  <2>4. own \in Seq(Tasks) /\ Range(own) = Range(p) \cap T /\ IsInjective(own)
    BY <1>3, <2>3, KeepExact
  <2>5. Range(own) = PrefixOn(k, m)
    BY <1>1, <1>3, <2>1, <2>4 DEF PrefixOn
  <2>6. Once(own, PrefixOn(k, m))
    BY <2>4, <2>5 DEF Once
  <2>7. lane[m] \in LaneRec /\ IsInjective(lane[m].direct)
    BY LaneFields DEF IInv, Placed, PlacedOn, Shape
  <2>8. Range(lane[m].direct) \cap PrefixOn(k, m) = {}
    BY PrefixIsFree DEF PrefixOn
  <2>9. \A t \in PrefixOn(k, m) : TicketIn(k, t) \in Nat
    BY PrefixIsFree DEF PrefixOn
  <2>10. k \in Nat
    BY <1>1
  <2>11. Landed(lane[m], QueueDirect(lane[m], own, k), PrefixOn(k, m), k)
    BY <2>4, <2>6, <2>7, <2>8, <2>9, <2>10, QueueLands
  <2>12. lane'[m] = QueueDirect(lane[m], own, k)
    BY <2>2
  <2> QED BY <2>11, <2>12
<1>5. lane' \in [Lanes -> LaneRec]
  <2>1. \A m \in Lanes : lane'[m] \in LaneRec
    BY <1>4 DEF Landed
  <2> QED BY <2>1
<1>6. /\ state' \in [Tasks -> States]
      /\ \A t \in Prefix(k) : state'[t] = "Running"
      /\ \A t \in Tasks \ Prefix(k) : state'[t] = state[t]
  <2>1. state \in [Tasks -> States] /\ "Running" \in States
    BY DEF IInv, Types, TaskTypes, States
  <2> QED BY <1>1, <2>1
<1>7. ASSUME NEW m \in Lanes, NEW t \in Prefix(k), t \in Range(lane'[m].direct)
      PROVE  m = Home(t)
  <2>1. Range(lane'[m].direct) \subseteq Range(lane[m].direct) \cup PrefixOn(k, m)
    BY <1>4 DEF Landed
  <2>2. \A u \in Range(lane[m].direct) : Home(u) = m
    BY DEF IInv, Placed, PlacedOn, Shape
  <2> QED BY <1>7, <2>1, <2>2 DEF PrefixOn
<1>8. \A t \in Prefix(k) : Home(t) \in Lanes /\ wakeTicket[t] = 0 /\ TicketIn(k, t) \in Nat
  BY PrefixIsFree
<1>9. \A m \in Lanes, t \in Tasks : t \in Range(lane'[m].direct) <=>
         \E i \in DOMAIN lane'[m].direct : lane'[m].direct[i] = t
  BY DEF Range
<1>10. wakeTicket \in [Tasks -> Nat]
  BY DEF IInv, Types, TaskTypes
<1>11. \A t \in Tasks \ Prefix(k) : wakeTicket'[t] = wakeTicket[t]
  OBVIOUS
<1>12. \A t \in Prefix(k) : t \in Range(lane'[Home(t)].direct) =>
          wakeTicket'[t] = TicketIn(k, t)
  <2>1. ASSUME NEW t \in Prefix(k), t \in Range(lane'[Home(t)].direct)
        PROVE  wakeTicket'[t] = TicketIn(k, t)
    <3>1. \E l \in Lanes : t \in Prefix(k) /\
                     \E i \in DOMAIN lane'[l].direct : lane'[l].direct[i] = t
      BY <1>1, <1>8, <1>9, <2>1
    <3> QED BY <1>1, <3>1
  <2> QED BY <2>1
<1>13. \A t \in Prefix(k) : t \notin Range(lane'[Home(t)].direct) => wakeTicket'[t] = 0
  <2>1. ASSUME NEW t \in Prefix(k), t \notin Range(lane'[Home(t)].direct)
        PROVE  wakeTicket'[t] = 0
    <3>1. ~ \E l \in Lanes : t \in Prefix(k) /\
                     \E i \in DOMAIN lane'[l].direct : lane'[l].direct[i] = t
      <4>1. \A l \in Lanes : t \in Range(lane'[l].direct) => l = Home(t)
        BY <1>7
      <4>2. \A l \in Lanes : t \notin Range(lane'[l].direct)
        BY <2>1, <4>1
      <4>3. t \in Tasks
        BY <1>1
      <4> QED BY <1>9, <4>2, <4>3
    <3> QED BY <1>1, <1>8, <3>1
  <2> QED BY <2>1
<1>14. wakeTicket' \in [Tasks -> Nat]
  <2>1. \A t \in Tasks : wakeTicket'[t] \in Nat
    <3>1. ASSUME NEW t \in Tasks PROVE wakeTicket'[t] \in Nat
      <4>1. CASE t \in Prefix(k)
        <5>1. wakeTicket'[t] = TicketIn(k, t) \/ wakeTicket'[t] = 0
          BY <1>12, <1>13, <4>1
        <5>2. TicketIn(k, t) \in Nat
          BY <1>8, <4>1
        <5> QED BY <5>1, <5>2
      <4>2. CASE t \notin Prefix(k)
        BY <1>10, <1>11, <4>2
      <4> QED BY <4>1, <4>2
    <3> QED BY <3>1
  <2> QED BY <2>1
<1> QED BY <1>4, <1>5, <1>6, <1>11, <1>12, <1>13, <1>14 DEF Dispatched

\* The two ways QueueDirect leaves a lane, without the quantifier.
LEMMA LaneAfter ==
    ASSUME IInv, NEW k \in DOMAIN ready, Dispatched(k), NEW m \in Lanes,
           NEW n, n = lane[m], NEW r, r = lane'[m]
    PROVE  /\ n \in LaneRec /\ r \in LaneRec /\ SameWorker(n, r) /\ IsInjective(r.direct)
           /\ Range(r.direct) \subseteq Range(n.direct) \cup PrefixOn(k, m)
           /\ Range(n.direct) \subseteq Range(r.direct)
           /\ \/ r.mail = n.mail /\ PrefixOn(k, m) \subseteq Range(r.direct)
              \/ /\ n.mail.st = 0 /\ r.mail.st = 1 /\ r.mail.task \in PrefixOn(k, m)
                 /\ r.mail.task \notin Range(r.direct)
                 /\ r.mail.ticket = TicketIn(k, r.mail.task)
                 /\ PrefixOn(k, m) \ {r.mail.task} \subseteq Range(r.direct)
<1>1. Landed(n, r, PrefixOn(k, m), k)
  BY DEF Dispatched
<1>2. n \in LaneRec
  BY LaneFields DEF IInv
<1>3. \A t \in PrefixOn(k, m) : t \notin Range(n.direct)
  BY PrefixIsFree DEF PrefixOn
<1>4. PICK A : A = PrefixOn(k, m)
  OBVIOUS
<1>5. CASE r.mail = n.mail /\ Range(r.direct) = Range(n.direct) \cup A
  BY <1>1, <1>2, <1>4, <1>5 DEF Landed
<1>6. CASE /\ n.mail.st = 0
           /\ \E t \in A :
                /\ r.mail.st = 1 /\ r.mail.task = t /\ r.mail.ticket = TicketIn(k, t)
                /\ Range(r.direct) = Range(n.direct) \cup (A \ {t})
  <2>1. PICK t \in A :
                /\ r.mail.st = 1 /\ r.mail.task = t /\ r.mail.ticket = TicketIn(k, t)
                /\ Range(r.direct) = Range(n.direct) \cup (A \ {t})
    BY <1>6
  <2>2. r.mail.task = t /\ r.mail.ticket = TicketIn(k, r.mail.task)
    BY <2>1
  <2>3. t \notin Range(r.direct) /\ A \ {t} \subseteq Range(r.direct)
    BY <1>3, <1>4, <2>1
  <2>4. /\ Range(r.direct) \subseteq Range(n.direct) \cup A
        /\ Range(n.direct) \subseteq Range(r.direct)
    BY <2>1
  <2>5. r \in LaneRec /\ SameWorker(n, r) /\ IsInjective(r.direct)
    BY <1>1 DEF Landed
  <2> QED BY <1>2, <1>4, <1>6, <2>1, <2>2, <2>3, <2>4, <2>5
<1> QED BY <1>1, <1>4, <1>5, <1>6 DEF Landed

LEMMA DispatchRuns ==
    ASSUME IInv, NEW k \in DOMAIN ready, Dispatched(k)
    PROVE  /\ \A u \in Tasks : Runs(u)' <=> Runs(u)
           /\ \A m \in Lanes : SameWork(m) /\ SameRegular(m)
           /\ \A m \in Lanes : m \in DirectFrames' <=> m \in DirectFrames
           /\ \A m \in Lanes : lane'[m].pc = lane[m].pc /\ lane'[m].task = lane[m].task
           /\ \A m \in Lanes : lane'[m].ticket = lane[m].ticket
<1>1. \A m \in Lanes : SameWorker(lane[m], lane'[m])
  BY LaneAfter
<1>2. \A u \in Tasks : Runs(u)' <=> Runs(u)
  BY <1>1, Sizes DEF Runs, SameWorker
<1>3. \A m \in Lanes : SameWork(m)
  BY <1>1 DEF SameWorker, SameWork
<1>4. \A m \in Lanes : SameRegular(m)
  BY <1>1 DEF SameWorker, SameRegular, RegularFrame
<1>5. \A m \in Lanes : m \in DirectFrames' <=> m \in DirectFrames
  BY <1>1 DEF SameWorker, DirectFrames
<1> QED BY <1>1, <1>2, <1>3, <1>4, <1>5 DEF SameWorker

LEMMA DispatchPlaced ==
    ASSUME IInv, NEW k \in DOMAIN ready, Dispatched(k), UNCHANGED at
    PROVE  Placed'
<1>1. \A t \in Tasks \ Prefix(k) : SameTask(t)
  BY DEF Dispatched, SameTask
<1>2. \A t \in Prefix(k) : state'[t] = "Running" /\ at'[t] = "next"
  BY PrefixIsFree DEF Dispatched
<1>3. \A u \in Tasks : Runs(u)' <=> Runs(u)
  BY DispatchRuns
<1>4. ASSUME NEW u \in Tasks PROVE Rests(u)'
  <2>1. Rests(u)
    BY Sizes DEF IInv, Placed, PlacedOn
  <2>2. CASE u \in Prefix(k)
    BY <1>2, <2>2 DEF Rests, Terminal
  <2>3. CASE u \notin Prefix(k)
    BY <1>1, <1>3, <2>1, <2>3 DEF Rests, SameTask
  <2> QED BY <2>2, <2>3
<1>5. ASSUME NEW m \in Lanes PROVE PlacedOn(m)'
  <2>1. PICK n, r : n = lane[m] /\ r = lane'[m]
    OBVIOUS
  <2>2. /\ n \in LaneRec /\ r \in LaneRec /\ SameWorker(n, r) /\ IsInjective(r.direct)
        /\ Range(r.direct) \subseteq Range(n.direct) \cup PrefixOn(k, m)
        /\ Range(n.direct) \subseteq Range(r.direct)
        /\ \/ r.mail = n.mail /\ PrefixOn(k, m) \subseteq Range(r.direct)
           \/ /\ n.mail.st = 0 /\ r.mail.st = 1 /\ r.mail.task \in PrefixOn(k, m)
              /\ r.mail.task \notin Range(r.direct)
              /\ r.mail.ticket = TicketIn(k, r.mail.task)
              /\ PrefixOn(k, m) \ {r.mail.task} \subseteq Range(r.direct)
    BY <2>1, LaneAfter
  <2>3. Shape(m) /\ Listed(m) /\ Framed(m)
    BY DEF IInv, Placed, PlacedOn
  <2>4. \A t \in PrefixOn(k, m) : t \in Tasks /\ Home(t) = m /\ t \in Prefix(k)
    BY PrefixIsFree DEF PrefixOn
  <2>5. \A t \in PrefixOn(k, m) :
           /\ n.job # t /\ (n.mail.st = 1 => n.mail.task # t)
           /\ t \notin Range(n.direct) /\ t \notin Range(n.ext)
           /\ (n.pc \in {"turn", "run"} => n.task # t)
    BY <2>1, PrefixIsFree DEF PrefixOn
  <2>6. Shape(m)'
    <3>1. r.mail = n.mail \/ (r.mail.st = 1 /\ n.mail.st = 0 /\ r.mail.task \in PrefixOn(k, m))
      BY <2>2
    <3>2. /\ r.job = n.job /\ r.jobTicket = n.jobTicket /\ r.ext = n.ext
          /\ r.pc = n.pc /\ r.task = n.task /\ r.ticket = n.ticket /\ r.kind = n.kind
      BY <2>2 DEF SameWorker
    <3>3. \A t \in Range(r.direct) : Home(t) = m
      BY <2>1, <2>2, <2>3, <2>4 DEF Shape
    <3> QED BY <2>1, <2>2, <2>3, <2>4, <3>1, <3>2, <3>3 DEF Shape
  <2>7. Listed(m)'
    <3>1. \A t \in Tasks : Home(t) = m /\ t \notin PrefixOn(k, m) => SameTask(t)
      BY <1>1 DEF PrefixOn
    <3>2. r.job = n.job /\ r.ext = n.ext
      BY <2>2 DEF SameWorker
    <3>3. n.job # 0 => n.job \in Tasks /\ Home(n.job) = m /\ n.job \notin PrefixOn(k, m)
      BY <2>1, <2>3, <2>5, LaneFields DEF IInv, Shape
    <3>4. (lane[m].job # 0 => Fresh(lane[m].job))'
      BY <2>1, <2>3, <3>1, <3>2, <3>3 DEF Listed, Fresh, SameTask
    <3>5. /\ (lane[m].mail.st = 1 => Fresh(lane[m].mail.task))'
          /\ (lane[m].job # 0 /\ lane[m].mail.st = 1 => lane[m].job # lane[m].mail.task)'
      <4>1. CASE r.mail = n.mail
        <5>1. n.mail.st = 1 => /\ n.mail.task \in Tasks /\ Home(n.mail.task) = m
                               /\ n.mail.task \notin PrefixOn(k, m)
          BY <2>1, <2>3, <2>5 DEF Shape
        <5> QED BY <2>1, <2>3, <3>1, <3>2, <4>1, <5>1 DEF Listed, Fresh, SameTask
      <4>2. CASE r.mail.task \in PrefixOn(k, m) /\ r.mail.task \notin Range(r.direct)
        <5>1. PICK t : t = r.mail.task
          OBVIOUS
        <5>2. t \in Prefix(k) /\ Home(t) = m
          BY <2>4, <4>2, <5>1
        <5>3. wakeTicket'[t] = 0
          BY <2>1, <4>2, <5>1, <5>2 DEF Dispatched
        <5>4. Fresh(t)'
          BY <1>2, <5>2, <5>3 DEF Fresh
        <5>5. n.job # t
          BY <2>5, <4>2, <5>1
        <5> QED BY <2>1, <3>2, <5>1, <5>4, <5>5 DEF Fresh
      <4> QED BY <2>2, <4>1, <4>2
    <3>6. (\A t \in Range(lane[m].direct) :
              state[t] = "Running" /\ wakeTicket[t] # 0 /\ at[t] = "next")'
      <4>1. ASSUME NEW t \in Range(r.direct)
            PROVE  state'[t] = "Running" /\ wakeTicket'[t] # 0 /\ at'[t] = "next"
        <5>1. CASE t \in PrefixOn(k, m)
          <6>1. t \in Prefix(k) /\ Home(t) = m /\ t \in Range(lane'[Home(t)].direct)
            BY <2>1, <2>4, <4>1, <5>1
          <6>2. wakeTicket'[t] = TicketIn(k, t) /\ TicketIn(k, t) # 0
            BY <6>1, PrefixIsFree DEF Dispatched
          <6> QED BY <1>2, <6>1, <6>2
        <5>2. CASE t \notin PrefixOn(k, m)
          <6>1. t \in Range(n.direct) /\ t \in Tasks /\ Home(t) = m
            BY <2>1, <2>2, <2>3, <4>1, <5>2, LaneFields DEF IInv, Shape
          <6> QED BY <2>1, <2>3, <3>1, <5>2, <6>1 DEF Listed, SameTask
        <5> QED BY <5>1, <5>2
      <4> QED BY <2>1, <4>1
    <3>7. (\A t \in Range(lane[m].ext) : Woken(t))'
      <4>1. \A t \in Range(n.ext) : t \in Tasks /\ Home(t) = m /\ t \notin PrefixOn(k, m)
        BY <2>1, <2>3, <2>5, LaneFields DEF IInv, Shape
      <4> QED BY <2>1, <2>3, <3>1, <3>2, <4>1 DEF Listed, Woken, SameTask
    <3> QED BY <3>4, <3>5, <3>6, <3>7 DEF Listed
  <2>8. Framed(m)'
    <3>1. PICK u : u = n.task
      OBVIOUS
    <3>2. n.pc \in {"turn", "run"} =>
             /\ u \in Tasks /\ Home(u) = m /\ u \notin Prefix(k)
      BY <2>1, <2>3, <2>5, <3>1 DEF Shape, Own, PrefixOn
    <3>3. n.pc \in {"turn", "run"} => SameTask(u)
      BY <1>1, <3>2
    <3>4. r.pc = n.pc /\ r.task = u /\ r.kind = n.kind /\ r.ext = n.ext /\ r.job = n.job
      BY <2>2, <3>1 DEF SameWorker
    <3>5. n.pc \in {"turn", "run"} /\ r.mail.st = 1 => r.mail.task # u
      BY <2>1, <2>2, <2>3, <2>5, <3>1 DEF Framed
    <3> QED BY <2>1, <2>3, <3>1, <3>3, <3>4, <3>5 DEF Framed, Woken, Fresh, SameTask
  <2> QED BY <1>4, <2>6, <2>7, <2>8 DEF PlacedOn
<1> QED BY <1>5 DEF Placed

LEMMA DispatchTickets ==
    ASSUME IInv, NEW k \in DOMAIN ready, Dispatched(k), toIssue' = toIssue + k, next' = next
    PROVE  Tickets'
<1>1. k \in Nat \ {0} /\ toIssue \in Nat \ {0} /\ next \in 1..toIssue
  BY PrefixIsReady DEF IInv, Types, LaneTypes
<1>2. /\ \A l \in Lanes, x \in Numbers : Holds(l, x) => x < toIssue
      /\ \A l, m \in Lanes, x \in Numbers : Holds(l, x) /\ Holds(m, x) => l = m
      /\ \A l \in Lanes : lane[l].pc \in {"run", "finish"} => lane[l].ticket = next
  BY DEF IInv, Tickets
<1>3. ASSUME NEW m \in Lanes, NEW x \in Numbers, Holds(m, x)'
      PROVE  Holds(m, x) \/ Issued(k, m, x)
  <2>1. PICK n, r : n = lane[m] /\ r = lane'[m]
    OBVIOUS
  <2>2. /\ SameWorker(n, r)
        /\ \/ r.mail = n.mail
           \/ r.mail.task \in PrefixOn(k, m) /\ r.mail.ticket = TicketIn(k, r.mail.task)
    BY <2>1, LaneAfter
  <2>3. CASE \/ r.job # 0 /\ r.jobTicket = x
             \/ r.pc \in InTurn /\ r.ticket = x
    BY <2>1, <2>2, <2>3 DEF Holds, SameWorker
  <2>4. CASE r.mail.st = 1 /\ r.mail.ticket = x
    <3>1. CASE r.mail = n.mail
      BY <2>1, <2>4, <3>1 DEF Holds
    <3>2. CASE r.mail.task \in PrefixOn(k, m) /\ r.mail.ticket = TicketIn(k, r.mail.task)
      <4>1. PICK t : t = r.mail.task
        OBVIOUS
      <4>2. t \in Prefix(k) /\ Home(t) = m /\ x = TicketIn(k, t)
        BY <2>4, <3>2, <4>1 DEF PrefixOn
      <4>3. Issued(k, Home(t), TicketIn(k, t))
        BY <4>2, PrefixIsFree
      <4> QED BY <4>2, <4>3
    <3> QED BY <2>2, <3>1, <3>2
  <2>5. CASE \E t \in Tasks : Home(t) = m /\ wakeTicket'[t] = x
    <3>1. PICK t \in Tasks : Home(t) = m /\ wakeTicket'[t] = x
      BY <2>5
    <3>2. CASE t \notin Prefix(k)
      BY <3>1, <3>2 DEF Holds, Dispatched
    <3>3. CASE t \in Prefix(k)
      <4>1. x # 0
        BY DEF Numbers
      <4>2. x = TicketIn(k, t)
        BY <3>1, <3>3, <4>1 DEF Dispatched
      <4>3. Issued(k, Home(t), TicketIn(k, t))
        BY <3>3, PrefixIsFree
      <4> QED BY <3>1, <4>2, <4>3
    <3> QED BY <3>2, <3>3
  <2> QED BY <1>3, <2>1, <2>3, <2>4, <2>5 DEF Holds
<1>4. \A m \in Lanes, x \in Numbers : Issued(k, m, x) => x >= toIssue /\ x < toIssue + k
  BY <1>1 DEF Issued, Numbers
<1>5. ASSUME NEW l \in Lanes, NEW m \in Lanes, NEW x \in Numbers,
             Issued(k, l, x), Issued(k, m, x)
      PROVE  l = m
  <2>1. PICK i \in 1..k : Home(ready[i]) = l /\ x = toIssue + i - 1
    BY <1>5 DEF Issued
  <2>2. PICK j \in 1..k : Home(ready[j]) = m /\ x = toIssue + j - 1
    BY <1>5 DEF Issued
  <2>3. i = j
    BY <1>1, <2>1, <2>2
  <2> QED BY <2>1, <2>2, <2>3
<1>6. \A l \in Lanes, x \in Numbers : Holds(l, x)' => x < toIssue'
  BY <1>1, <1>2, <1>3, <1>4 DEF Numbers
<1>7. \A l, m \in Lanes, x \in Numbers : Holds(l, x)' /\ Holds(m, x)' => l = m
  <2>1. ASSUME NEW l \in Lanes, NEW m \in Lanes, NEW x \in Numbers, Holds(l, x)', Holds(m, x)'
        PROVE  l = m
    <3>1. (Holds(l, x) \/ Issued(k, l, x)) /\ (Holds(m, x) \/ Issued(k, m, x))
      BY <1>3, <2>1
    <3>2. (Holds(l, x) => x < toIssue) /\ (Holds(m, x) => x < toIssue)
      BY <1>2
    <3>3. ~(x < toIssue /\ x >= toIssue)
      BY <1>1 DEF Numbers
    <3> QED BY <1>2, <1>4, <1>5, <3>1, <3>2, <3>3
  <2> QED BY <2>1
<1>8. \A l \in Lanes : lane'[l].pc \in {"run", "finish"} => lane'[l].ticket = next'
  BY <1>2, DispatchRuns
<1> QED BY <1>6, <1>7, <1>8 DEF Tickets

LEMMA DispatchComputed ==
    ASSUME IInv, NEW k \in DOMAIN ready, Dispatched(k),
           UNCHANGED <<script, at, token, phase, pass, device>>
    PROVE  Computed'
<1>1. \A t \in Tasks \ Prefix(k) : SameTask(t)
  BY DEF Dispatched, SameTask
<1>2. \A m \in Lanes : SameWork(m)
  BY DispatchRuns
<1>3. /\ \A m \in Lanes : WorkKept(m)'
      /\ \A t : WorkLanes(t)' = WorkLanes(t)
  BY <1>2, WorkStays DEF IInv
<1>4. \A t \in Tasks : PhaseKept(t)'
  <2>1. ASSUME NEW t \in Tasks PROVE PhaseKept(t)'
    <3>1. PhaseKept(t)
      BY DEF IInv, Computed
    <3>2. CASE t \in Prefix(k)
      <4>1. at[t] = "next" /\ state'[t] = "Running"
        BY <3>2, PrefixIsFree DEF Dispatched
      <4> QED BY <3>1, <4>1 DEF PhaseKept, Computes, Pending, Parked, Done
    <3>3. CASE t \notin Prefix(k)
      BY <1>1, <3>1, <3>3 DEF PhaseKept, Computes, SameTask
    <3> QED BY <3>2, <3>3
  <2> QED BY <2>1
<1>5. \A t : Waked(t) => Waked(t)'
  <2>1. ASSUME NEW t, Waked(t) PROVE Waked(t)'
    <3>1. t \in Tasks
      BY <2>1 DEF Waked
    <3>2. t \notin Prefix(k)
      BY <2>1, PrefixIsFree
    <3> QED BY <1>1, <2>1, <3>1, <3>2 DEF Waked, SameTask
  <2> QED BY <2>1
<1>6. Wakers'
  <2>1. Wakers
    BY DEF IInv, Computed
  <2>2. \A m \in Lanes : /\ (lane'[m].pc = "wake") <=> (lane[m].pc = "wake")
                         /\ lane'[m].task = lane[m].task
    BY DispatchRuns
  <2>3. \A t \in Tasks : device'[t] = "wake" => Waked(t)'
    BY <1>5, <2>1 DEF Wakers
  <2>4. ASSUME NEW m \in Lanes, lane'[m].pc = "wake"
        PROVE  Waked(lane[m].task)' /\ device'[lane'[m].task] # "wake"
    <3>1. PICK t : t = lane[m].task
      OBVIOUS
    <3>2. lane'[m].task = t /\ Waked(t) /\ device[t] # "wake"
      BY <2>1, <2>2, <2>4, <3>1 DEF Wakers
    <3>3. Waked(t)'
      BY <1>5, <3>2
    <3> QED BY <3>2, <3>3 DEF Waked
  <2> QED BY <2>1, <2>2, <2>3, <2>4 DEF Wakers
<1>7. Passes'
  <2>1. \A t \in Tasks : pass[t] = Cardinality(WorkLanes(t)) + Units(t)
    BY DEF IInv, Computed, Passes
  <2>2. \A t \in Tasks : Units(t)' = Units(t)
    BY DEF Units
  <2> QED BY <1>3, <2>1, <2>2 DEF Passes
<1> QED BY <1>3, <1>4, <1>6, <1>7 DEF Computed

LEMMA DispatchCounted ==
    ASSUME IInv, NEW k \in DOMAIN ready, Dispatched(k), inFlight' = inFlight + k,
           UNCHANGED <<at, token, slot, reserved, subs>>
    PROVE  Counted'
<1>1. DirectFrames' = DirectFrames
  BY DispatchRuns DEF DirectFrames
<1>2. \A t \in Tasks \ Prefix(k) : SameTask(t)
  BY DEF Dispatched, SameTask
<1>3. ASSUME NEW u \in Tasks PROVE Parks(u)' <=> (Parks(u) \/ u \in Prefix(k))
  <2>1. PICK m \in Lanes : m = Home(u)
    BY Sizes
  <2>2. PICK n, r : n = lane[m] /\ r = lane'[m]
    OBVIOUS
  <2>3. /\ SameWorker(n, r)
        /\ Range(r.direct) \subseteq Range(n.direct) \cup PrefixOn(k, m)
        /\ Range(n.direct) \subseteq Range(r.direct)
        /\ \/ r.mail = n.mail /\ PrefixOn(k, m) \subseteq Range(r.direct)
           \/ /\ n.mail.st = 0 /\ r.mail.st = 1 /\ r.mail.task \in PrefixOn(k, m)
              /\ PrefixOn(k, m) \ {r.mail.task} \subseteq Range(r.direct)
    BY <2>2, LaneAfter
  <2>4. CASE u \in Prefix(k)
    <3>1. u \in PrefixOn(k, m)
      BY <2>1, <2>4 DEF PrefixOn
    <3>2. (r.mail.st = 1 /\ r.mail.task = u) \/ u \in Range(r.direct)
      BY <2>3, <3>1
    <3> QED BY <2>1, <2>2, <2>4, <3>2 DEF Parks
  <2>5. CASE u \notin Prefix(k)
    <3>1. u \notin PrefixOn(k, m) /\ SameTask(u)
      BY <1>2, <2>5 DEF PrefixOn
    <3>2. u \in Range(r.direct) <=> u \in Range(n.direct)
      BY <2>3, <3>1
    <3>3. (r.mail.st = 1 /\ r.mail.task = u) <=> (n.mail.st = 1 /\ n.mail.task = u)
      BY <2>3, <3>1
    <3>4. r.pc = n.pc /\ r.task = n.task
      BY <2>3 DEF SameWorker
    <3> QED BY <2>1, <2>2, <2>5, <3>1, <3>2, <3>3, <3>4 DEF Parks, SameTask
  <2> QED BY <2>4, <2>5
<1>4. Prefix(k) \subseteq Tasks /\ Prefix(k) \cap ParkedTasks = {}
  BY PrefixIsFree DEF ParkedTasks
<1>5. ParkedTasks' = ParkedTasks \cup Prefix(k)
  BY <1>3, <1>4 DEF ParkedTasks
<1>6. /\ IsFiniteSet(Prefix(k)) /\ Cardinality(Prefix(k)) = k /\ k \in Nat
  BY PrefixIsReady
<1>7. /\ IsFiniteSet(ParkedTasks) /\ Cardinality(ParkedTasks) \in Nat
      /\ Cardinality(DirectFrames) \in Nat
  BY CountedFinite
<1>8. Cardinality(ParkedTasks \cup Prefix(k)) = Cardinality(ParkedTasks) + k
  <2>1. PICK P : P = Prefix(k)
    OBVIOUS
  <2>2. Cardinality(ParkedTasks \cup P)
           = Cardinality(ParkedTasks) + Cardinality(P) - Cardinality(ParkedTasks \cap P)
    BY <1>6, <1>7, <2>1, FS_Union
  <2>3. ParkedTasks \cap P = {} /\ Cardinality({}) = 0
    BY <1>4, <2>1, FS_EmptySet
  <2> QED BY <1>6, <1>7, <2>1, <2>2, <2>3
<1>9. FlightsCounted'
  <2>1. inFlight = Cardinality(DirectFrames) + Cardinality(ParkedTasks)
    BY DEF IInv, Counted, FlightsCounted
  <2> QED BY <1>1, <1>5, <1>6, <1>7, <1>8, <2>1 DEF FlightsCounted
<1> QED BY <1>9, PoolCountsStay DEF IInv, Counted

LEMMA DispatchExternalKeeps == IInv /\ DispatchExternal => IInv'
<1> SUFFICES ASSUME IInv, DispatchExternal PROVE IInv'
  OBVIOUS
<1>1. PICK k \in DOMAIN ready :
      /\ lane' = [l \in Lanes |-> QueueDirect(lane[l], Admitted(k, l), k)]
      /\ wakeTicket' = [t \in Tasks |->
            IF \E l \in Lanes : t \in Prefix(k) /\
                 \E i \in DOMAIN lane'[l].direct : lane'[l].direct[i] = t
            THEN TicketIn(k, t) ELSE wakeTicket[t]]
      /\ state' = [t \in Tasks |-> IF t \in Prefix(k) THEN "Running" ELSE state[t]]
      /\ toIssue' = toIssue + k /\ inFlight' = inFlight + k
      /\ ready' = SubSeq(ready, k + 1, Len(ready))
  BY DEF DispatchExternal, Prefix
<1>2. /\ root = "open"
      /\ UNCHANGED <<script, step, at, token, epoch, consumed, joinWaits, next,
                     laneStop, compute, pool, stop, io, rootVars>>
  BY DEF DispatchExternal
<1>3. Dispatched(k)
  BY <1>1, DispatchLands
<1>4. k \in Nat \ {0} /\ ready' \in Seq(Tasks) /\ Once(ready', InState("Ready") \ Prefix(k))
      /\ Prefix(k) \subseteq InState("Ready")
  BY <1>1, PrefixIsReady
<1>5. \A t \in Prefix(k) : t \in Tasks /\ state[t] = "Ready" /\ token[t] = 0
  BY PrefixIsFree
<1>6. /\ state' \in [Tasks -> States]
      /\ \A t \in Prefix(k) : state'[t] = "Running"
      /\ \A t \in Tasks \ Prefix(k) : SameTask(t) /\ state'[t] = state[t]
  BY <1>2, <1>3 DEF Dispatched, SameTask
<1>7. Types'
  <2>1. TaskTypes'
    BY <1>2, <1>3 DEF Dispatched, IInv, Types, TaskTypes, States
  <2>2. ReadyTypes'
    BY <1>2, <1>4 DEF IInv, Types, ReadyTypes
  <2>3. LaneTypes'
    BY <1>1, <1>2, <1>3, <1>4 DEF Dispatched, IInv, Types, LaneTypes
  <2>4. ComputeTypes' /\ PoolTypes'
    BY <1>2 DEF IInv, Types, ComputeTypes, PoolTypes, compute, pool
  <2>5. RootTypes'
    BY <1>2 DEF IInv, Types, RootTypes, rootVars
  <2> QED BY <2>1, <2>2, <2>3, <2>4, <2>5 DEF Types
<1>8. Queued'
  <2>1. InState("Ready")' = InState("Ready") \ Prefix(k)
    BY <1>5, <1>6 DEF InState
  <2>2. InState("JoinBlocked")' = InState("JoinBlocked")
    BY <1>5, <1>6 DEF InState
  <2>3. Once(joinWaits, InState("JoinBlocked"))
    BY DEF IInv, Queued
  <2>4. Range(ready') = InState("Ready")' /\ IsInjective(ready')
    BY <1>4, <2>1 DEF Once
  <2>5. Once(ready, InState("Ready"))'
    BY <2>4 DEF Once
  <2>6. Once(joinWaits, InState("JoinBlocked"))'
    BY <1>2, <2>2, <2>3 DEF Once
  <2> QED BY <2>5, <2>6 DEF Queued
<1>9. Placed'
  BY <1>2, <1>3, DispatchPlaced
<1>10. Tickets'
  BY <1>1, <1>2, <1>3, DispatchTickets
<1>11. Slotted'
  <2>1. UNCHANGED <<slot, free, queue, nextSub, io, token, script>>
    BY <1>2 DEF pool
  <2>2. \A t \in Tasks : token[t] # 0 => SameFor(t)
    BY <1>3, <1>5, <1>6, DispatchRuns DEF SameFor
  <2>3. \A t \in Tasks : token[t] = 0 => at'[t] \notin {"queue", "complete"}
    BY <1>2 DEF IInv, Slotted, TokenKept
  <2> QED BY <2>1, <2>2, <2>3, SlottedStays DEF IInv
<1>12. Computed'
  BY <1>2, <1>3, DispatchComputed DEF compute
<1>13. Counted'
  BY <1>1, <1>2, <1>3, DispatchCounted DEF pool
<1>14. Rooted'
  <2>1. \A m \in Lanes : SameRegular(m)
    BY <1>3, DispatchRuns
  <2> QED BY <1>2, <2>1, RootedStays DEF IInv, Over, rootVars
<1> QED BY <1>7, <1>8, <1>9, <1>10, <1>11, <1>12, <1>13, <1>14 DEF IInv

-----------------------------------------------------------------------------
(* Every step keeps the invariant.                                         *)

LEMMA QuantumKeeps ==
    ASSUME IInv, NEW l \in Lanes, Quantum(l)
    PROVE  IInv'
<1>1. CASE Finishes(l) \/ Yields(l) \/ Joins(l)
  BY <1>1, FinishesKeeps, YieldsKeeps, JoinsKeeps
<1>2. CASE Submits(l) \/ SubmitReturns(l) \/ Rearms(l)
  BY <1>2, SubmitsKeeps, SubmitReturnsKeeps, RearmsKeeps
<1>3. CASE ParkRefused(l) \/ ParkBegins(l) \/ ParkCounts(l) \/ ParkCommits(l)
  BY <1>3, ParkRefusedKeeps, ParkBeginsKeeps, ParkCountsKeeps, ParkCommitsKeeps
<1>4. CASE SuspendHostIo(l) \/ QueuesSlot(l) \/ CompleteHostIo(l)
  BY <1>4, SuspendHostIoKeeps, QueuesSlotKeeps, CompleteHostIoKeeps
<1> QED BY <1>1, <1>2, <1>3, <1>4 DEF Quantum

LEMMA LaneStepKeeps ==
    ASSUME IInv, NEW l \in Lanes, LaneStep(l)
    PROVE  IInv'
<1>1. CASE ClaimWork(l) \/ ClaimJob(l) \/ BeginQuantum(l)
  BY <1>1, ClaimWorkKeeps, ClaimJobKeeps, BeginQuantumKeeps
<1>2. CASE Quantum(l)
  BY <1>2, QuantumKeeps
<1>3. CASE EndQuantum(l) \/ PublishJob(l) \/ ReleaseDirectJob(l)
  BY <1>3, EndQuantumKeeps, PublishJobKeeps, ReleaseDirectJobKeeps
<1>4. CASE RunWork(l) \/ FinishWorker(l) \/ LaneWakes(l)
  BY <1>4, RunWorkKeeps, FinishWorkerKeeps, LaneWakesKeeps
<1> QED BY <1>1, <1>2, <1>3, <1>4 DEF LaneStep

LEMMA NextKeeps == IInv /\ [Next]_vars => IInv'
<1> SUFFICES ASSUME IInv, [Next]_vars PROVE IInv'
  OBVIOUS
<1>1. CASE UNCHANGED vars
  BY <1>1, Stutters
<1>2. CASE \E l \in Lanes : LaneStep(l)
  BY <1>2, LaneStepKeeps
<1>3. CASE \E t \in Tasks : DeviceStep(t)
  BY <1>3, DeviceCompletesKeeps, DeviceWakesKeeps DEF DeviceStep
<1>4. CASE IoStep
  BY <1>4, TakeSlotKeeps, CompletesSlotKeeps, WakesTaskKeeps, AwaitsReleaseKeeps,
     WorkerExitsKeeps DEF IoStep
<1>5. CASE NativeReturns
  BY <1>5, NativeReturnsKeeps
<1>6. CASE RootStep
  BY <1>6, DispatchExternalKeeps, DrainLoopKeeps, RunReadyKeeps, CollectsKeeps,
     DrainReturnsKeeps, JoinsWorkerKeeps, ResetKeeps DEF RootStep
<1> QED BY <1>1, <1>2, <1>3, <1>4, <1>5, <1>6 DEF Next

\* The invariant holds of every behaviour: commit tickets are held once, a
\* task is at one place of its home lane in the state that goes with it, a
\* slot belongs to the task with its token, phases, passes and wakers agree,
\* and the counters count.
THEOREM ExternalInductive == Spec => []IInv
BY InitOpens, NextKeeps, PTL DEF Spec

-----------------------------------------------------------------------------
(* What follows from it.                                                   *)

\* A lane has at most one frame of a direct job, and its task lives there, so
\* there are no more of them than tasks; nor are there more parked tasks.
LEMMA FlightBound ==
    ASSUME IInv
    PROVE  inFlight \in 0..(2 * TaskCount)
<1>1. TaskCount \in Nat /\ IsFiniteSet(Tasks) /\ Cardinality(Tasks) = TaskCount
  BY Finite, SizeAssumption
<1>2. Cardinality(ParkedTasks) <= TaskCount
  <2>1. ParkedTasks \in SUBSET Tasks
    BY DEF ParkedTasks
  <2> QED BY <1>1, <2>1, FS_Subset
<1>3. Cardinality(DirectFrames) <= TaskCount
  <2>1. \A l \in DirectFrames : lane[l].task \in Tasks /\ Home(lane[l].task) = l
    BY DEF DirectFrames, IInv, Placed, PlacedOn, Shape
  <2> DEFINE f == [l \in DirectFrames |-> lane[l].task]
  <2>2. f \in [DirectFrames -> Tasks] /\ \A l \in DirectFrames : Home(f[l]) = l
    BY <2>1
  <2>3. \A l, m \in DirectFrames : f[l] = f[m] => l = m
    BY <2>2
  <2> HIDE DEF f
  <2>4. f \in Injection(DirectFrames, Tasks)
    BY <2>2, <2>3 DEF Injection, IsInjective
  <2> QED BY <1>1, <2>4, FS_Injection
<1>4. /\ inFlight = Cardinality(DirectFrames) + Cardinality(ParkedTasks)
      /\ Cardinality(DirectFrames) \in Nat /\ Cardinality(ParkedTasks) \in Nat
  BY CountedFinite DEF IInv, Counted, FlightsCounted
<1> QED BY <1>1, <1>2, <1>3, <1>4

\* A pass has a unit per lane at most, and that of its submitter.
LEMMA PassBound ==
    ASSUME IInv
    PROVE  pass \in [Tasks -> 0..(LaneCount + 1)]
<1>1. LaneCount \in Nat /\ IsFiniteSet(Lanes) /\ Cardinality(Lanes) = LaneCount
  BY Finite, SizeAssumption
<1>2. ASSUME NEW t \in Tasks PROVE pass[t] \in 0..(LaneCount + 1)
  <2>1. pass[t] = Cardinality(WorkLanes(t)) + Units(t)
    BY DEF IInv, Computed, Passes
  <2>2. PICK W \in SUBSET Lanes : W = WorkLanes(t)
    BY DEF WorkLanes
  <2>3. IsFiniteSet(W) /\ Cardinality(W) <= LaneCount
    BY <1>1, FS_Subset
  <2>4. Cardinality(W) \in Nat
    BY <2>3, FS_CardinalityType
  <2>5. Units(t) \in 0..1
    BY DEF Units
  <2> QED BY <1>1, <2>1, <2>2, <2>3, <2>4, <2>5
<1>3. pass \in [Tasks -> Nat]
  BY DEF IInv, Types, ComputeTypes
<1> QED BY <1>2, <1>3

LEMMA TypesBounded == IInv => TypeOK
<1> SUFFICES ASSUME IInv PROVE TypeOK
  OBVIOUS
<1>1. Types
  BY DEF IInv
<1>2. wakeTicket \in [Tasks -> 0..(toIssue - 1)]
  <2>1. wakeTicket \in [Tasks -> Nat] /\ toIssue \in Nat \ {0}
    BY <1>1 DEF Types, TaskTypes, LaneTypes
  <2>2. ASSUME NEW t \in Tasks PROVE wakeTicket[t] \in 0..(toIssue - 1)
    <3>1. CASE wakeTicket[t] = 0
      BY <2>1, <3>1
    <3>2. CASE wakeTicket[t] # 0
      <4>1. PICK x \in Numbers : x = wakeTicket[t]
        BY <2>1, <3>2 DEF Numbers
      <4>2. PICK h \in Lanes : h = Home(t)
        BY Sizes
      <4>3. Holds(h, x)
        BY <4>1, <4>2 DEF Holds
      <4>4. x < toIssue
        BY <4>3 DEF IInv, Tickets
      <4> QED BY <2>1, <4>1, <4>4 DEF Numbers
    <3> QED BY <3>1, <3>2
  <2> QED BY <2>1, <2>2
<1>3. \A i \in DOMAIN ready : ready[i] \in Tasks
  BY <1>1 DEF Types, ReadyTypes
<1>4. \A i \in DOMAIN joinWaits : joinWaits[i] \in Tasks
  BY <1>1 DEF Types, ReadyTypes
<1>5. phase \in [Tasks -> Pending..Done]
  BY <1>1 DEF Types, ComputeTypes, Pending, Done
<1>6. \A s \in Slots :
          slot[s].st \in {"Free", "Admitting", "Queued", "Running", "Complete"}
  BY <1>1 DEF Types, PoolTypes, SlotRec
<1>7. subs \in 0..SlotCount
  <2>1. SlotCount \in Nat
    BY SizeAssumption
  <2>2. subs = IF Admits THEN 1 ELSE 0
    BY DEF IInv, Counted, AdmissionsCounted
  <2>3. Admits => SlotCount >= 1
    BY <2>1 DEF Admits, Slots
  <2> QED BY <2>1, <2>2, <2>3
<1>8. /\ script \in Scripts[scopes] /\ collects \in Lanes /\ scopes \in 1..MaxScopes
  BY <1>1 DEF Types, RootTypes
<1>9. /\ state \in [Tasks -> {"Ready", "Running", "JoinBlocked",
                              "ExternalBlocked"} \cup Terminal]
      /\ at \in [Tasks -> {"next", "submitted", "park", "count", "commit", "queue",
                           "complete", "reset", "end"}]
      /\ token \in [Tasks -> 0..SlotCount]
  BY <1>1 DEF Types, TaskTypes
<1>10. /\ epoch \in Nat /\ consumed \in 0..epoch
       /\ toIssue \in Nat /\ next \in 1..toIssue /\ laneStop \in BOOLEAN
  BY <1>1 DEF Types, ReadyTypes, LaneTypes
<1>11. /\ device \in [Tasks -> {"idle", "busy", "wake"}]
       /\ nextExec \in 1..nextSub /\ reserved \in 0..PayloadCapacity
       /\ stop \in BOOLEAN
  BY <1>1 DEF Types, ComputeTypes, PoolTypes
<1> QED BY <1>2, <1>3, <1>4, <1>5, <1>6, <1>7, <1>8, <1>9, <1>10, <1>11,
           FlightBound, PassBound DEF TypeOK

\* Every word has its type and every counter its bound: jobs in flight at
\* most two per task, work units at most one per lane and the submitter's.
THEOREM ExternalTypes == Spec => []TypeOK
BY ExternalInductive, TypesBounded, PTL

LEMMA NativeAlone == IInv => SubmissionOrder
<1> SUFFICES ASSUME IInv, io.pc = "native", NEW s \in Slots \ {io.slot}
             PROVE  \/ slot[s].st \in {"Free", "Admitting"}
                    \/ slot[s].st = "Queued" /\ slot[s].seq > io.seq
  BY DEF SubmissionOrder
<1>1. SlotKept(s) /\ slot[s] \in SlotRec /\ io \in IoRec
  BY DEF IInv, Slotted, Types, PoolTypes
<1>2. slot[s].st \notin {"Running", "Complete"}
  BY <1>1 DEF SlotKept
<1>3. slot[s].st = "Queued" => io.seq < slot[s].seq
  BY <1>1 DEF SlotKept
<1>4. slot[s].seq \in Nat /\ io.seq \in Nat
  BY <1>1 DEF SlotRec, IoRec
<1>5. slot[s].st \in {"Free", "Admitting", "Queued", "Running", "Complete"}
  BY <1>1 DEF SlotRec
<1>6. PICK a \in Nat, b \in Nat : a = slot[s].seq /\ b = io.seq
  BY <1>4
<1> QED BY <1>2, <1>3, <1>5, <1>6

\* Host operations reach the operating system one at a time and in the order
\* of their submission, however many tasks, lanes and slots there are.
THEOREM OneNativeCall == Spec => []SubmissionOrder
BY ExternalInductive, NativeAlone, PTL

LEMMA WaitsAreOver == IInv => \A t \in Tasks : WaitOver(t)
<1> SUFFICES ASSUME IInv, NEW t \in Tasks PROVE WaitOver(t)
  OBVIOUS
<1>1. TokenKept(t) /\ PhaseKept(t)
  BY DEF IInv, Slotted, Computed
<1>2. at[t] = "reset" /\ state[t] = "Running" => pass[t] = 0 /\ device[t] # "busy"
  <2> SUFFICES ASSUME at[t] = "reset", state[t] = "Running"
               PROVE  pass[t] = 0 /\ device[t] # "busy"
    OBVIOUS
  <2>1. token[t] = 0
    BY <1>1 DEF TokenKept, Admission
  <2>2. phase[t] = Done
    BY <1>1, <2>1 DEF PhaseKept
  <2> QED BY <1>1, <2>2 DEF PhaseKept
<1>3. at[t] = "complete" /\ state[t] = "Running" =>
         slot[token[t]].task = t /\ slot[token[t]].st = "Complete"
  <2> SUFFICES ASSUME at[t] = "complete", state[t] = "Running"
               PROVE  slot[token[t]].task = t /\ slot[token[t]].st = "Complete"
    OBVIOUS
  <2>1. PICK s : s = token[t]
    OBVIOUS
  <2>2. /\ s # 0 /\ slot[s].task = t /\ slot[s].st # "Free" /\ slot[s].st # "Admitting"
    BY <1>1, <2>1 DEF TokenKept
  <2>3. s \in Slots
    BY <2>1, <2>2, Sizes DEF IInv, Types, TaskTypes
  <2>4. SlotKept(s) /\ slot[s] \in SlotRec
    BY <2>3 DEF IInv, Slotted, Types, PoolTypes
  <2>5. slot[s].st \notin {"Queued", "Running"}
    BY <2>2, <2>4 DEF SlotKept, Asleep
  <2> QED BY <2>1, <2>2, <2>4, <2>5 DEF SlotRec
<1>4. io.pc = "wake" /\ slot[io.slot].task = t => io.prior = Parked /\ WakeAccepted(t)
  <2> SUFFICES ASSUME io.pc = "wake", slot[io.slot].task = t
               PROVE  io.prior = Parked /\ WakeAccepted(t)
    OBVIOUS
  <2>1. io.prior = Parked /\ Asleep(io.slot)
    BY DEF IInv, Slotted, WorkerKept
  <2>2. state[t] = "ExternalBlocked" /\ wakeTicket[t] = 0
    BY <2>1 DEF Asleep
  <2> QED BY <2>1, <2>2, WakeIsAccepted
<1> QED BY <1>2, <1>3, <1>4 DEF WaitOver

\* For every script: a task continues after an await only when its pass or
\* its device operation has finished and its own slot is Complete, and a wake
\* of the I/O worker is never refused.
THEOREM AwaitIsOver == Spec => [](\A t \in Tasks : WaitOver(t))
BY ExternalInductive, WaitsAreOver, PTL

LEMMA DrainedEmpty == IInv => (root \in Over => NothingLeft)
<1> SUFFICES ASSUME IInv, root \in Over PROVE NothingLeft
  OBVIOUS
<1>1. \A s \in Slots : slot[s].st = "Free"
  BY PoolIsFree
<1>2. queue = <<>> /\ reserved = 0
  BY PoolIsFree
<1>3. Len(free) = SlotCount
  <2>1. free \in Seq(Slots) /\ Once(free, {s \in Slots : slot[s].st = "Free"})
    BY DEF IInv, Types, PoolTypes, Slotted, Lists
  <2>2. IsInjective(free) /\ Range(free) = Slots
    BY <1>1, <2>1 DEF Once
  <2>3. PICK n \in Nat : n = Len(free) /\ DOMAIN free = 1..n
    BY <2>1
  <2>4. free \in [1..n -> Slots]
    BY <2>1, <2>3
  <2>5. \A s \in Slots : \E i \in 1..n : free[i] = s
    BY <2>2, <2>3 DEF Range
  <2>6. \A i, j \in 1..n : free[i] = free[j] => i = j
    BY <2>2, <2>3 DEF IsInjective
  <2>7. free \in Bijection(1..n, Slots)
    BY <2>4, <2>5, <2>6 DEF Bijection, Injection, Surjection, IsInjective
  <2>8. ExistsBijection(1..n, Slots)
    BY <2>7 DEF ExistsBijection
  <2>9. PICK a \in Int, b \in Int : a = 1 /\ b = n
    BY <2>3
  <2>10. IsFiniteSet(a..b) /\ Cardinality(a..b) = IF a > b THEN 0 ELSE b - a + 1
    BY FS_Interval
  <2>11. IsFiniteSet(1..n) /\ Cardinality(1..n) = n
    BY <2>9, <2>10
  <2>12. Cardinality(Slots) = n
    BY <2>8, <2>11, FS_Bijection
  <2> QED BY <2>3, <2>12, Finite
<1>4. inFlight = 0
  BY DEF IInv, Rooted
<1>5. \A t \in Tasks : device[t] = "idle" /\ pass[t] = 0
  BY LanesAreIdle
<1>6. \A l \in Lanes : lane[l] = IdleLane
  BY LanesAreIdle
<1> QED BY <1>2, <1>3, <1>4, <1>5, <1>6 DEF NothingLeft

\* For every script, and whatever Drain reports: once it returns no slot,
\* byte, job, list, pass or device operation is left that could touch a task.
THEOREM DrainLeavesNothing ==
    Spec => [](root \in {"stopping", "joining"} => NothingLeft)
<1>1. IInv => (root \in {"stopping", "joining"} => NothingLeft)
  BY DrainedEmpty DEF Over
<1> QED BY <1>1, ExternalInductive, PTL

-----------------------------------------------------------------------------
(* Programs without a rolled back admission.  A task that was refused a    *)
(* host operation and admits another is refused the park; the roll-back    *)
(* gives back its slot, its sequence number is never executed, so every    *)
(* later operation is answered without a system call, and the worker may   *)
(* miss the release it waits for.                                          *)

NoneRolledBack == \A t \in Tasks : state[t] = "Failed" => at[t] # "park"

\* The FIFO holds the next sequence numbers without a gap, results come from
\* system calls and the worker sees the release of the operation it served.
Served ==
    /\ \A i \in DOMAIN queue : slot[queue[i]].seq = nextExec + i - 1
    /\ nextSub = nextExec + Len(queue) + subs
    /\ \A s \in Slots :
          slot[s].st = "Complete" \/ (slot[s].st = "Running" /\ io.pc = "publish") =>
             slot[s].outcome = "Native"
    /\ io.pc = "await" =>
          slot[io.slot].st = "Complete" \/ slot[io.slot].released = io.seq

\* A Drain that returned has said how.
Reported == root \in {"stopping", "joining"} => verdict \in {"ok", "deadlock"}

\* The numbers and the slots that Served speaks of.
LEMMA ServedTypes ==
    ASSUME IInv
    PROVE  /\ slot \in [Slots -> SlotRec] /\ queue \in Seq(Slots) /\ io \in IoRec
           /\ nextExec \in Nat /\ nextSub \in Nat /\ subs \in Nat
           /\ Len(queue) \in Nat /\ DOMAIN queue = 1..Len(queue)
           /\ \A i \in DOMAIN queue : queue[i] \in Slots /\ slot[queue[i]].st = "Queued"
           /\ io.pc = "await" => io.slot \in Slots
<1>1. PoolTypes /\ Lists /\ WorkerKept
  BY DEF IInv, Types, Slotted
<1>2. queue \in Seq(Slots) /\ Range(queue) = {s \in Slots : slot[s].st = "Queued"}
  BY <1>1 DEF PoolTypes, Lists, Once
<1>3. \A i \in DOMAIN queue : queue[i] \in Slots /\ slot[queue[i]].st = "Queued"
  BY <1>2 DEF Range
<1> QED BY <1>1, <1>2, <1>3 DEF PoolTypes, WorkerKept

SameSlot(s) ==
    /\ slot'[s].seq = slot[s].seq /\ slot'[s].st = slot[s].st
    /\ slot'[s].outcome = slot[s].outcome /\ slot'[s].released = slot[s].released

LEMMA ServedStays ==
    ASSUME IInv, Served, UNCHANGED <<queue, nextSub, nextExec, subs, io>>,
           \A s \in Slots : SameSlot(s)
    PROVE  Served'
<1>1. \A i \in DOMAIN queue' : slot'[queue'[i]].seq = nextExec' + i - 1
  BY ServedTypes DEF Served, SameSlot
<1>2. nextSub' = nextExec' + Len(queue') + subs'
  BY DEF Served
<1>3. \A s \in Slots :
          slot'[s].st = "Complete" \/ (slot'[s].st = "Running" /\ io'.pc = "publish") =>
             slot'[s].outcome = "Native"
  BY DEF Served, SameSlot
<1>4. io'.pc = "await" =>
          slot'[io'.slot].st = "Complete" \/ slot'[io'.slot].released = io'.seq
  BY ServedTypes DEF Served, SameSlot
<1> QED BY <1>1, <1>2, <1>3, <1>4 DEF Served

LEMMA ServedRests ==
    ASSUME IInv, Served, UNCHANGED <<slot, queue, nextSub, nextExec, subs, io>>
    PROVE  Served'
BY DEF Served

\* A phase word of a slot is stored.
LEMMA PhaseStored ==
    ASSUME IInv, NEW l \in Lanes, lane[l].pc = "run", NEW t, t = lane[l].task, NEW v \in 0..3,
           SetPhase(t, v)
    PROVE  \A s \in Slots : SameSlot(s)
<1>1. t \in Tasks /\ slot \in [Slots -> SlotRec] /\ token[t] \in Slots \cup {0}
  BY Awaits, ServedTypes, Sizes DEF IInv, Types, TaskTypes
<1>2. CASE token[t] = 0
  BY <1>2 DEF SetPhase, SameSlot
<1>3. CASE token[t] # 0
  <2>1. PICK z \in Slots : z = token[t]
    BY <1>1, <1>3
  <2>2. slot' = [slot EXCEPT ![z].phase = v]
    BY <1>3, <2>1 DEF SetPhase
  <2>3. PICK x \in SlotRec : x = slot[z]
    BY <1>1
  <2>4. PICK y : y = [x EXCEPT !.phase = v]
    OBVIOUS
  <2>5. y.seq = x.seq /\ y.st = x.st /\ y.outcome = x.outcome /\ y.released = x.released
    BY <2>4 DEF SlotRec
  <2>6. slot'[z] = y /\ \A s \in Slots \ {z} : slot'[s] = slot[s]
    BY <1>1, <2>2, <2>3, <2>4
  <2> QED BY <2>3, <2>5, <2>6 DEF SameSlot
<1> QED BY <1>2, <1>3

LEMMA ParksServe ==
    ASSUME IInv, Served, NEW l \in Lanes, ParkBegins(l) \/ ParkCommits(l)
    PROVE  Served'
<1>1. PICK t : t = lane[l].task
  OBVIOUS
<1>2. lane[l].pc = "run"
  BY DEF ParkBegins, ParkCommits, At
<1>3. UNCHANGED <<queue, nextSub, nextExec, subs, io>>
  BY DEF ParkBegins, ParkCommits
<1>4. SetPhase(t, Parking) \/ SetPhase(t, Parked) \/ UNCHANGED slot
  BY <1>1 DEF ParkBegins, ParkCommits
<1>5. PICK a \in 0..3, b \in 0..3 : a = Parking /\ b = Parked
  BY DEF Parking, Parked
<1>6. SetPhase(t, a) \/ SetPhase(t, b) \/ UNCHANGED slot
  BY <1>4, <1>5
<1>7. UNCHANGED slot => \A s \in Slots : SameSlot(s)
  BY DEF SameSlot
<1>8. \A s \in Slots : SameSlot(s)
  BY <1>1, <1>2, <1>6, <1>7, PhaseStored
<1> QED BY <1>3, <1>8, ServedStays

\* A task that did not fail is not refused its park.
LEMMA NoRollback ==
    ASSUME IInv, Served, NoneRolledBack, NEW l \in Lanes, ParkRefused(l)
    PROVE  Served'
<1>1. PICK t : t = lane[l].task
  OBVIOUS
<1>2. /\ lane[l].pc = "run" /\ at[t] = "park"
      /\ state[t] # "Running" \/ PhaseOf(t) # Pending
      /\ UNCHANGED <<queue, nextSub, nextExec, io>>
      /\ token[t] = 0 => UNCHANGED <<slot, subs>>
  BY <1>1 DEF ParkRefused, At
<1>3. t \in Tasks /\ RunPlace(t) /\ TokenKept(t)
  BY <1>1, <1>2, Awaits
<1>4. state[t] = "Running"
  BY <1>2, <1>3 DEF RunPlace, NoneRolledBack
<1>5. ASSUME token[t] # 0 PROVE FALSE
  <2>1. PICK s : s = token[t]
    OBVIOUS
  <2>2. s \in Slots
    BY <1>3, <1>5, <2>1, Sizes DEF IInv, Types, TaskTypes
  <2>3. slot[s].task = t /\ slot[s].st = "Admitting"
    BY <1>2, <1>3, <1>5, <2>1 DEF TokenKept
  <2>4. SlotKept(s)
    BY <2>2 DEF IInv, Slotted
  <2>5. slot[s].phase = Pending
    BY <1>2, <2>3, <2>4 DEF SlotKept
  <2> QED BY <1>2, <1>4, <1>5, <2>1, <2>5 DEF PhaseOf
<1> QED BY <1>2, <1>5, ServedRests

\* An admission takes the next number; the release it is to see is kept.
LEMMA SuspendServes ==
    ASSUME IInv, Served, NEW l \in Lanes, SuspendHostIo(l)
    PROVE  Served'
<1>1. PICK t : t = lane[l].task
  OBVIOUS
<1>2. io' = io \/ (io.pc = "none" /\ io' = [io EXCEPT !.pc = "wait"])
  BY DEF SuspendHostIo, Started
<1>3. UNCHANGED <<queue, nextExec>>
  BY DEF SuspendHostIo
<1>4. io \in IoRec /\ slot \in [Slots -> SlotRec]
  BY ServedTypes
<1>5. /\ io'.pc = "publish" => io.pc = "publish"
      /\ io'.pc = "await" => io.pc = "await" /\ io' = io
  BY <1>2, <1>4 DEF IoRec
<1>6. CASE UNCHANGED <<slot, nextSub, subs>>
  BY <1>3, <1>5, <1>6 DEF Served
<1>7. CASE ~UNCHANGED <<slot, nextSub, subs>>
  <2>1. PICK s : s = First(free)
    OBVIOUS
  <2>2. /\ s # 0 /\ nextSub' = nextSub + 1 /\ subs' = subs + 1
        /\ slot' = [slot EXCEPT ![s] = [@ EXCEPT
                       !.st = "Admitting", !.seq = nextSub, !.task = t,
                       !.outcome = "Pending"]]
    BY <1>1, <1>7, <2>1 DEF SuspendHostIo
  <2>3. s \in Slots /\ slot[s].st = "Free"
    <3>1. free # <<>> /\ s = Head(free)
      BY <2>1, <2>2 DEF First
    <3>2. free \in Seq(Slots) /\ Range(free) = {z \in Slots : slot[z].st = "Free"}
      BY DEF IInv, Types, PoolTypes, Slotted, Lists, Once
    <3>3. s \in Range(free)
      BY <3>1, <3>2 DEF Range
    <3> QED BY <3>2, <3>3
  <2>4. PICK x \in SlotRec : x = slot[s]
    BY <1>4, <2>3
  <2>5. PICK y : y = [x EXCEPT !.st = "Admitting", !.seq = nextSub, !.task = t,
                                !.outcome = "Pending"]
    OBVIOUS
  <2>6. y.st = "Admitting" /\ y.released = x.released
    BY <2>4, <2>5 DEF SlotRec
  <2>7. slot'[s] = y /\ \A z \in Slots \ {s} : slot'[z] = slot[z]
    BY <1>4, <2>2, <2>3, <2>4, <2>5
  <2>8. \A i \in DOMAIN queue' : slot'[queue'[i]].seq = nextExec' + i - 1
    <3>1. \A i \in DOMAIN queue : queue[i] \in Slots \ {s}
      BY <2>3, ServedTypes
    <3> QED BY <1>3, <2>7, <3>1 DEF Served
  <2>9. nextSub' = nextExec' + Len(queue') + subs'
    BY <1>3, <2>2, ServedTypes DEF Served
  <2>10. \A z \in Slots :
            slot'[z].st = "Complete" \/ (slot'[z].st = "Running" /\ io'.pc = "publish") =>
               slot'[z].outcome = "Native"
    BY <1>5, <2>6, <2>7 DEF Served
  <2>11. io'.pc = "await" =>
            slot'[io'.slot].st = "Complete" \/ slot'[io'.slot].released = io'.seq
    <3> SUFFICES ASSUME io'.pc = "await"
                 PROVE  slot'[io'.slot].st = "Complete" \/ slot'[io'.slot].released = io'.seq
      OBVIOUS
    <3>1. PICK z : z = io.slot
      OBVIOUS
    <3>2. z \in Slots /\ io' = io /\ (slot[z].st = "Complete" \/ slot[z].released = io.seq)
      BY <1>5, <3>1, ServedTypes DEF Served
    <3>3. CASE z = s
      BY <2>3, <2>4, <2>6, <2>7, <3>1, <3>2, <3>3
    <3>4. CASE z # s
      BY <2>7, <3>1, <3>2, <3>4
    <3> QED BY <3>3, <3>4
  <2> QED BY <2>8, <2>9, <2>10, <2>11 DEF Served
<1> QED BY <1>6, <1>7

LEMMA QueuesServe ==
    ASSUME IInv, Served, NEW l \in Lanes, QueuesSlot(l)
    PROVE  Served'
<1>1. PICK t : t = lane[l].task
  OBVIOUS
<1>2. PICK s : s = token[t]
  OBVIOUS
<1>3. /\ lane[l].pc = "run" /\ at[t] = "queue"
      /\ slot' = [slot EXCEPT ![s].st = "Queued"] /\ queue' = Append(queue, s)
      /\ subs' = AdmissionEnds /\ UNCHANGED <<nextSub, nextExec, io>>
  BY <1>1, <1>2 DEF QueuesSlot, At
<1>4. t \in Tasks /\ TokenKept(t)
  BY <1>1, <1>3, Awaits
<1>5. s \in Slots /\ slot[s].st = "Admitting"
  <2>1. s # 0 /\ slot[s].st = "Admitting"
    BY <1>2, <1>3, <1>4 DEF TokenKept
  <2> QED BY <1>2, <1>4, <2>1, Sizes DEF IInv, Types, TaskTypes
<1>6. PICK x \in SlotRec : x = slot[s]
  BY <1>5, ServedTypes
<1>7. PICK q \in Nat : q = x.seq /\ q + 1 = nextSub
  BY <1>5, <1>6 DEF IInv, Slotted, SlotKept, SlotRec
<1>8. subs = 1 /\ subs' = 0
  BY <1>3, <1>5 DEF IInv, Counted, AdmissionsCounted, Admits, AdmissionEnds
<1>9. PICK y : y = [x EXCEPT !.st = "Queued"]
  OBVIOUS
<1>10. y.st = "Queued" /\ y.seq = q /\ y.released = x.released
  BY <1>6, <1>7, <1>9 DEF SlotRec
<1>11. slot'[s] = y /\ \A z \in Slots \ {s} : slot'[z] = slot[z]
  BY <1>3, <1>5, <1>6, <1>9, ServedTypes
<1>12. PICK n \in Nat : n = Len(queue) /\ DOMAIN queue = 1..n
  BY ServedTypes
<1>13. /\ DOMAIN queue' = 1..(n + 1) /\ Len(queue') = n + 1 /\ queue'[n + 1] = s
       /\ \A i \in 1..n : queue'[i] = queue[i]
  BY <1>3, <1>5, <1>12, ServedTypes
<1>14. PICK e \in Nat : e = nextExec
  BY ServedTypes
<1>15. q = e + n
  BY <1>7, <1>8, <1>12, <1>14, ServedTypes DEF Served
<1>16. \A i \in DOMAIN queue' : slot'[queue'[i]].seq = nextExec' + i - 1
  <2>1. ASSUME NEW i \in 1..n PROVE slot'[queue'[i]].seq = e + i - 1
    <3>1. queue[i] \in Slots \ {s} /\ slot[queue[i]].seq = e + i - 1
      BY <1>5, <1>12, <1>14, ServedTypes DEF Served
    <3> QED BY <1>11, <1>13, <3>1
  <2>2. slot'[queue'[n + 1]].seq = e + (n + 1) - 1
    BY <1>10, <1>11, <1>12, <1>13, <1>15
  <2>3. ASSUME NEW i \in 1..(n + 1) PROVE slot'[queue'[i]].seq = e + i - 1
    <3>1. i \in 1..n \/ i = n + 1
      BY <1>12
    <3>2. CASE i \in 1..n
      BY <2>1, <3>2
    <3>3. CASE i = n + 1
      BY <2>2, <3>3
    <3> QED BY <3>1, <3>2, <3>3
  <2> QED BY <1>3, <1>13, <1>14, <2>3
<1>17. nextSub' = nextExec' + Len(queue') + subs'
  BY <1>3, <1>7, <1>8, <1>12, <1>13, <1>14, <1>15
<1>18. \A z \in Slots :
          slot'[z].st = "Complete" \/ (slot'[z].st = "Running" /\ io'.pc = "publish") =>
             slot'[z].outcome = "Native"
  BY <1>3, <1>10, <1>11 DEF Served
<1>19. io'.pc = "await" =>
          slot'[io'.slot].st = "Complete" \/ slot'[io'.slot].released = io'.seq
  <2> SUFFICES ASSUME io.pc = "await"
               PROVE  slot'[io.slot].st = "Complete" \/ slot'[io.slot].released = io.seq
    BY <1>3
  <2>1. PICK z : z = io.slot
    OBVIOUS
  <2>2. z \in Slots /\ (slot[z].st = "Complete" \/ slot[z].released = io.seq)
    BY <2>1, ServedTypes DEF Served
  <2>3. CASE z = s
    BY <1>5, <1>6, <1>10, <1>11, <2>1, <2>2, <2>3
  <2>4. CASE z # s
    BY <1>11, <2>1, <2>2, <2>4
  <2> QED BY <2>3, <2>4
<1> QED BY <1>16, <1>17, <1>18, <1>19 DEF Served

LEMMA CompletionServes ==
    ASSUME IInv, Served, NEW l \in Lanes, CompleteHostIo(l)
    PROVE  Served'
<1>1. PICK t : t = lane[l].task
  OBVIOUS
<1>2. PICK s : s = token[t]
  OBVIOUS
<1>3. /\ lane[l].pc = "run" /\ at[t] = "complete"
      /\ slot[s].st = "Complete" => ReleaseSlot(s)
      /\ UNCHANGED <<queue, nextSub, nextExec, io>>
  BY <1>1, <1>2 DEF CompleteHostIo, At
<1>4. t \in Tasks /\ TokenKept(t) /\ state[t] = "Running"
  BY <1>1, <1>3, Awaits DEF RunPlace
<1>5. slot[s].st = "Complete"
  BY <1>2, <1>3, <1>4, WaitsAreOver DEF WaitOver
<1>6. s \in Slots
  <2>1. s # 0
    BY <1>2, <1>3, <1>4 DEF TokenKept
  <2> QED BY <1>2, <1>4, <2>1, Sizes DEF IInv, Types, TaskTypes
<1>7. /\ slot' = [slot EXCEPT ![s] = Released(slot[s])] /\ subs' = subs
  BY <1>3, <1>5 DEF ReleaseSlot
<1>8. PICK x \in SlotRec : x = slot[s]
  BY <1>6, ServedTypes
<1>9. PICK y : y = Released(x)
  OBVIOUS
<1>10. y.st = "Free" /\ y.released = x.seq
  BY <1>9 DEF Released, FreeSlot
<1>11. slot'[s] = y /\ \A z \in Slots \ {s} : slot'[z] = slot[z]
  BY <1>6, <1>7, <1>8, <1>9, ServedTypes
<1>12. io.slot = s /\ io.seq = x.seq
  BY <1>5, <1>6, <1>8 DEF IInv, Slotted, SlotKept
<1>13. \A i \in DOMAIN queue' : slot'[queue'[i]].seq = nextExec' + i - 1
  <2>1. \A i \in DOMAIN queue : queue[i] \in Slots \ {s}
    BY <1>5, ServedTypes
  <2> QED BY <1>3, <1>11, <2>1 DEF Served
<1>14. nextSub' = nextExec' + Len(queue') + subs'
  BY <1>3, <1>7 DEF Served
<1>15. \A z \in Slots :
          slot'[z].st = "Complete" \/ (slot'[z].st = "Running" /\ io'.pc = "publish") =>
             slot'[z].outcome = "Native"
  BY <1>3, <1>10, <1>11 DEF Served
<1>16. io'.pc = "await" =>
          slot'[io'.slot].st = "Complete" \/ slot'[io'.slot].released = io'.seq
  BY <1>3, <1>10, <1>11, <1>12
<1> QED BY <1>13, <1>14, <1>15, <1>16 DEF Served

LEMMA TakeServes == IInv /\ Served /\ TakeSlot => Served'
<1> SUFFICES ASSUME IInv, Served, TakeSlot PROVE Served'
  OBVIOUS
<1>1. PICK n \in Nat : n = Len(queue) /\ DOMAIN queue = 1..n
  BY ServedTypes
<1>2. PICK s : s = Head(queue)
  OBVIOUS
<1>3. queue # <<>> /\ queue \in Seq(Slots) /\ queue' = Tail(queue)
  BY ServedTypes DEF TakeSlot
<1>4. n >= 1 /\ s = queue[1] /\ 1 \in DOMAIN queue
  BY <1>2, <1>1, <1>3
<1>5. PICK e \in Nat : e = nextExec
  BY ServedTypes
<1>6. s \in Slots /\ slot[s].st = "Queued" /\ slot[s].seq = e
  <2>1. slot[s].seq = e + 1 - 1
    BY <1>4, <1>5 DEF Served
  <2> QED BY <1>4, <1>5, <2>1, ServedTypes
<1>7. /\ slot' = [slot EXCEPT ![s].st = "Running", ![s].outcome = slot[s].outcome]
      /\ nextExec' = e + 1 /\ UNCHANGED <<nextSub, subs>>
      /\ io' = [io EXCEPT !.pc = "native", !.slot = s, !.seq = slot[s].seq]
  BY <1>2, <1>5, <1>6 DEF TakeSlot
<1>8. io'.pc = "native"
  BY <1>7, ServedTypes DEF IoRec
<1>9. PICK x \in SlotRec : x = slot[s]
  BY <1>6, ServedTypes
<1>10. slot'[s].st = "Running" /\ \A z \in Slots \ {s} : slot'[z] = slot[z]
  <2>1. PICK y : y = [x EXCEPT !.st = "Running", !.outcome = x.outcome]
    OBVIOUS
  <2>2. y.st = "Running"
    BY <1>9, <2>1 DEF SlotRec
  <2>3. slot'[s] = y /\ \A z \in Slots \ {s} : slot'[z] = slot[z]
    BY <1>6, <1>7, <1>9, <2>1, ServedTypes
  <2> QED BY <2>2, <2>3
<1>11. /\ DOMAIN queue' = 1..(n - 1) /\ Len(queue') = n - 1
       /\ \A i \in 1..(n - 1) : queue'[i] = queue[i + 1]
  BY <1>1, <1>3, <1>4
<1>12. IsInjective(queue)
  BY DEF IInv, Slotted, Lists, Once
<1>13. ASSUME NEW i \in 1..(n - 1) PROVE slot'[queue'[i]].seq = e + 1 + i - 1
  <2>1. i + 1 \in DOMAIN queue /\ i + 1 # 1
    BY <1>1, <1>4
  <2>2. PICK z : z = queue[i + 1]
    OBVIOUS
  <2>3. z \in Slots /\ z # s
    BY <1>4, <1>12, <2>1, <2>2, ServedTypes DEF IsInjective
  <2>4. slot[z].seq = e + (i + 1) - 1
    BY <1>5, <2>1, <2>2 DEF Served
  <2>5. slot'[queue'[i]].seq = slot[z].seq
    BY <1>10, <1>11, <2>2, <2>3
  <2> QED BY <1>5, <2>4, <2>5
<1>14. \A i \in DOMAIN queue' : slot'[queue'[i]].seq = nextExec' + i - 1
  BY <1>7, <1>11, <1>13
<1>15. nextSub' = nextExec' + Len(queue') + subs'
  BY <1>1, <1>4, <1>5, <1>7, <1>11, ServedTypes DEF Served
<1>16. \A z \in Slots :
          slot'[z].st = "Complete" \/ (slot'[z].st = "Running" /\ io'.pc = "publish") =>
             slot'[z].outcome = "Native"
  BY <1>8, <1>10 DEF Served
<1> QED BY <1>8, <1>14, <1>15, <1>16 DEF Served

LEMMA ResultServes == IInv /\ Served /\ (NativeReturns \/ CompletesSlot) => Served'
<1> SUFFICES ASSUME IInv, Served, NativeReturns \/ CompletesSlot PROVE Served'
  OBVIOUS
<1>1. PICK s : s = io.slot
  OBVIOUS
<1>2. io.pc \in {"native", "publish"}
  BY DEF NativeReturns, CompletesSlot
<1>3. s \in Slots /\ slot[s].st = "Running"
  BY <1>1, <1>2 DEF IInv, Slotted, WorkerKept
<1>4. PICK x \in SlotRec : x = slot[s]
  BY <1>3, ServedTypes
<1>5. UNCHANGED <<queue, nextSub, nextExec, subs>>
  BY DEF NativeReturns, CompletesSlot
<1>6. \A z \in Slots \ {s} : slot'[z] = slot[z]
  BY <1>1, <1>3, ServedTypes DEF NativeReturns, CompletesSlot
<1>7. io'.pc \in {"publish", "wake"}
  BY ServedTypes DEF NativeReturns, CompletesSlot, IoRec
<1>8. slot'[s].outcome = "Native"
  <2>1. CASE NativeReturns
    <3>1. PICK y : y = [x EXCEPT !.outcome = "Native"]
      OBVIOUS
    <3>2. y.outcome = "Native"
      BY <1>4, <3>1 DEF SlotRec
    <3>3. slot'[s] = y
      BY <1>1, <1>3, <1>4, <2>1, <3>1, ServedTypes DEF NativeReturns
    <3> QED BY <3>2, <3>3
  <2>2. CASE CompletesSlot
    <3>1. PICK y : y = [x EXCEPT !.st = "Complete", !.phase = Done]
      OBVIOUS
    <3>2. y.outcome = x.outcome
      BY <1>4, <3>1 DEF SlotRec
    <3>3. slot'[s] = y
      BY <1>1, <1>3, <1>4, <2>2, <3>1, ServedTypes DEF CompletesSlot
    <3>4. io.pc = "publish"
      BY <2>2 DEF CompletesSlot
    <3> QED BY <1>3, <1>4, <3>2, <3>3, <3>4 DEF Served
  <2> QED BY <2>1, <2>2
<1>9. \A z \in Slots :
          slot'[z].st = "Complete" \/ (slot'[z].st = "Running" /\ io'.pc = "publish") =>
             slot'[z].outcome = "Native"
  <2>1. ASSUME NEW z \in Slots \ {s},
               slot'[z].st = "Complete" \/ slot'[z].st = "Running"
        PROVE  slot'[z].outcome = "Native"
    <3>1. slot[z].st # "Running"
      BY <1>1, <2>1 DEF IInv, Slotted, SlotKept
    <3> QED BY <1>6, <2>1, <3>1 DEF Served
  <2> QED BY <1>8, <2>1
<1>10. \A i \in DOMAIN queue' : slot'[queue'[i]].seq = nextExec' + i - 1
  <2>1. \A i \in DOMAIN queue : queue[i] \in Slots \ {s}
    BY <1>3, ServedTypes
  <2> QED BY <1>5, <1>6, <2>1 DEF Served
<1>11. nextSub' = nextExec' + Len(queue') + subs'
  BY <1>5 DEF Served
<1> QED BY <1>7, <1>9, <1>10, <1>11 DEF Served

LEMMA WorkerServes ==
    IInv /\ Served /\ (WakesTask \/ AwaitsRelease \/ WorkerExits \/ JoinsWorker) => Served'
<1> SUFFICES ASSUME IInv, Served, WakesTask \/ AwaitsRelease \/ WorkerExits \/ JoinsWorker
             PROVE  Served'
  OBVIOUS
<1>1. CASE WakesTask
  <2>1. PICK t : t = slot[io.slot].task
    OBVIOUS
  <2>2. /\ io.pc = "wake" /\ io.slot \in Slots /\ slot[io.slot].st = "Complete"
        /\ io.prior = Parked /\ Asleep(io.slot)
    BY <1>1 DEF WakesTask, IInv, Slotted, WorkerKept
  <2>3. WakeAccepted(t)
    BY <2>1, <2>2, WakeIsAccepted DEF Asleep, Held
  <2>4. /\ io' = [io EXCEPT !.pc = "await"]
        /\ UNCHANGED <<slot, queue, nextSub, nextExec, subs>>
    BY <1>1, <2>1, <2>2, <2>3 DEF WakesTask
  <2>5. io'.pc = "await" /\ io'.slot = io.slot
    BY <2>4, ServedTypes DEF IoRec
  <2> QED BY <2>2, <2>4, <2>5 DEF Served
<1>2. CASE AwaitsRelease \/ WorkerExits
  <2>1. UNCHANGED <<slot, queue, nextSub, nextExec, subs>>
    BY <1>2 DEF AwaitsRelease, WorkerExits, pool
  <2>2. io'.pc \in {"wait", "exited"}
    BY <1>2, ServedTypes DEF AwaitsRelease, WorkerExits, NoIo, IoRec
  <2> QED BY <2>1, <2>2 DEF Served
<1>3. CASE JoinsWorker
  <2>1. root \in Over
    BY <1>3 DEF JoinsWorker, Over
  <2>2. queue = <<>> /\ subs = 0
    BY <2>1, PoolIsFree
  <2>3. UNCHANGED <<slot, queue, nextSub, nextExec, subs>> /\ io' = NoIo
    BY <1>3, <2>2 DEF JoinsWorker
  <2>4. io'.pc = "none"
    BY <2>3 DEF NoIo
  <2> QED BY <2>3, <2>4 DEF Served
<1> QED BY <1>1, <1>2, <1>3

LEMMA ServedKeeps == IInv /\ NoneRolledBack /\ Served /\ [Next]_vars => Served'
<1> SUFFICES ASSUME IInv, NoneRolledBack, Served, [Next]_vars PROVE Served'
  OBVIOUS
<1> DEFINE Rest == UNCHANGED <<slot, queue, nextSub, nextExec, subs, io>>
<1>1. Rest => Served'
  BY ServedRests
<1>2. UNCHANGED vars => Rest
  BY DEF vars, pool
<1>3. ASSUME NEW l \in Lanes, LaneStep(l) PROVE Served'
  <2>1. ClaimWork(l) \/ ClaimJob(l) \/ BeginQuantum(l) => Rest
    BY DEF ClaimWork, ClaimJob, BeginQuantum, pool
  <2>2. EndQuantum(l) \/ PublishJob(l) \/ ReleaseDirectJob(l) => Rest
    BY DEF EndQuantum, PublishJob, ReleaseDirectJob, pool
  <2>3. RunWork(l) \/ FinishWorker(l) \/ LaneWakes(l) => Rest
    BY DEF RunWork, FinishWorker, LaneWakes, pool
  <2>4. Finishes(l) \/ Yields(l) \/ Joins(l) => Rest
    BY DEF Finishes, Yields, Joins, pool
  <2>5. Submits(l) \/ SubmitReturns(l) \/ Rearms(l) \/ ParkCounts(l) => Rest
    BY DEF Submits, SubmitReturns, Rearms, ParkCounts, pool
  <2>6. CASE ParkRefused(l)
    BY <2>6, NoRollback
  <2>7. CASE ParkBegins(l) \/ ParkCommits(l)
    BY <2>7, ParksServe
  <2>8. CASE SuspendHostIo(l) \/ QueuesSlot(l) \/ CompleteHostIo(l)
    BY <2>8, SuspendServes, QueuesServe, CompletionServes
  <2> HIDE DEF Rest
  <2> QED BY <1>1, <1>3, <2>1, <2>2, <2>3, <2>4, <2>5, <2>6, <2>7, <2>8
          DEF LaneStep, Quantum
<1>4. ASSUME NEW t \in Tasks, DeviceStep(t) PROVE Rest
  BY <1>4 DEF DeviceStep, DeviceCompletes, DeviceWakes, pool
<1>5. CASE IoStep \/ NativeReturns \/ JoinsWorker
  BY <1>5, TakeServes, ResultServes, WorkerServes DEF IoStep
<1>6. /\ DispatchExternal \/ BeginDrain \/ RunReady \/ Collects \/ SeesNoReady => Rest
      /\ WaitForDirectJobs \/ Wakes \/ DrainReturns => Rest
      /\ Reset => Rest
  <2>1. DispatchExternal \/ BeginDrain \/ RunReady \/ Collects \/ SeesNoReady => Rest
    BY DEF DispatchExternal, BeginDrain, RunReady, Collects, SeesNoReady, pool
  <2>2. WaitForDirectJobs \/ Wakes \/ DrainReturns => Rest
    BY DEF WaitForDirectJobs, Wakes, DrainReturns, pool
  <2>3. Reset => Rest
    BY DEF Reset
  <2> QED BY <2>1, <2>2, <2>3
<1> HIDE DEF Rest
<1> QED BY <1>1, <1>2, <1>3, <1>4, <1>5, <1>6 DEF Next, RootStep

LEMMA ServedOpens == Init => Served
<1> SUFFICES ASSUME Init PROVE Served
  OBVIOUS
<1>1. slot = [s \in Slots |-> FreeSlot] /\ queue = <<>> /\ io = NoIo
      /\ nextSub = 1 /\ nextExec = 1 /\ subs = 0
  BY DEF Init
<1>2. \A s \in Slots : slot[s].st = "Free"
  BY <1>1 DEF FreeSlot
<1>3. io.pc = "none"
  BY <1>1 DEF NoIo
<1>4. DOMAIN queue = {} /\ Len(queue) = 0
  BY <1>1
<1> QED BY <1>1, <1>2, <1>3, <1>4 DEF Served

LEMMA ReportedKeeps == Reported /\ [Next]_vars => Reported'
<1> SUFFICES ASSUME Reported, [Next]_vars PROVE Reported'
  OBVIOUS
<1>1. UNCHANGED <<root, verdict>> => Reported'
  BY DEF Reported
<1>2. UNCHANGED vars => UNCHANGED <<root, verdict>>
  BY DEF vars, rootVars
<1>3. ASSUME NEW l \in Lanes, LaneStep(l) PROVE UNCHANGED <<root, verdict>>
  <2>1. ClaimWork(l) \/ ClaimJob(l) \/ BeginQuantum(l) => UNCHANGED <<root, verdict>>
    BY DEF ClaimWork, ClaimJob, BeginQuantum, rootVars
  <2>2. EndQuantum(l) \/ PublishJob(l) \/ ReleaseDirectJob(l) => UNCHANGED <<root, verdict>>
    BY DEF EndQuantum, PublishJob, ReleaseDirectJob, rootVars
  <2>3. RunWork(l) \/ FinishWorker(l) \/ LaneWakes(l) => UNCHANGED <<root, verdict>>
    BY DEF RunWork, FinishWorker, LaneWakes, rootVars
  <2>4. Finishes(l) \/ Yields(l) \/ Joins(l) => UNCHANGED <<root, verdict>>
    BY DEF Finishes, Yields, Joins, rootVars
  <2>5. Submits(l) \/ SubmitReturns(l) \/ Rearms(l) => UNCHANGED <<root, verdict>>
    BY DEF Submits, SubmitReturns, Rearms, rootVars
  <2>6. ParkRefused(l) \/ ParkBegins(l) \/ ParkCounts(l) \/ ParkCommits(l) =>
           UNCHANGED <<root, verdict>>
    BY DEF ParkRefused, ParkBegins, ParkCounts, ParkCommits, rootVars
  <2>7. SuspendHostIo(l) \/ QueuesSlot(l) \/ CompleteHostIo(l) => UNCHANGED <<root, verdict>>
    BY DEF SuspendHostIo, QueuesSlot, CompleteHostIo, rootVars
  <2> QED BY <1>3, <2>1, <2>2, <2>3, <2>4, <2>5, <2>6, <2>7 DEF LaneStep, Quantum
<1>4. ASSUME NEW t \in Tasks, DeviceStep(t) PROVE UNCHANGED <<root, verdict>>
  BY <1>4 DEF DeviceStep, DeviceCompletes, DeviceWakes, rootVars
<1>5. IoStep \/ NativeReturns => UNCHANGED <<root, verdict>>
  BY DEF IoStep, TakeSlot, CompletesSlot, WakesTask, AwaitsRelease, WorkerExits,
         NativeReturns, rootVars
<1>6. DispatchExternal => UNCHANGED <<root, verdict>>
  BY DEF DispatchExternal, rootVars
<1>7. BeginDrain \/ RunReady \/ Collects \/ SeesNoReady => Reported'
  BY DEF BeginDrain, RunReady, Collects, SeesNoReady, Reported
<1>8. WaitForDirectJobs \/ Wakes \/ Reset => Reported'
  BY DEF WaitForDirectJobs, Wakes, Reset, Reported
<1>9. DrainReturns \/ JoinsWorker => Reported'
  BY DEF DrainReturns, JoinsWorker, Reported
<1> QED BY <1>1, <1>2, <1>3, <1>4, <1>5, <1>6, <1>7, <1>8, <1>9 DEF Next, RootStep

\* As long as no admission is rolled back, a task continues after an await
\* only when what it awaited is complete, and the result in its slot is that
\* of a system call, in any number of scopes.
THEOREM AwaitedResult == Spec /\ []NoneRolledBack => []AwaitedDone
<1>1. IInv /\ Served => AwaitedDone
  <2> SUFFICES ASSUME IInv, Served, NEW t \in Tasks
               PROVE  /\ WaitOver(t)
                      /\ at[t] = "complete" /\ state[t] = "Running" =>
                            slot[token[t]].outcome = "Native"
    BY DEF AwaitedDone
  <2>1. WaitOver(t)
    BY WaitsAreOver
  <2> SUFFICES ASSUME at[t] = "complete", state[t] = "Running"
               PROVE  slot[token[t]].outcome = "Native"
    BY <2>1
  <2>2. token[t] \in Slots
    BY Sizes DEF IInv, Slotted, TokenKept, Types, TaskTypes
  <2>3. slot[token[t]].st = "Complete"
    BY <2>1 DEF WaitOver
  <2> QED BY <2>2, <2>3 DEF Served
<1> QED BY <1>1, ExternalInductive, ServedOpens, ServedKeeps, PTL DEF Spec

\* As long as no admission is rolled back and no Drain reports a deadlock, a
\* Drain that returned left nothing that could touch a task, and the I/O
\* worker does not wait for a release it has missed.
THEOREM DrainIsQuiet ==
    Spec /\ []NoneRolledBack /\ [](verdict # "deadlock") => []DrainQuiet
<1>1. IInv /\ Served /\ Reported /\ verdict # "deadlock" => DrainQuiet
  <2> SUFFICES ASSUME IInv, Served, Reported, verdict # "deadlock",
                      root \in {"stopping", "joining"}
               PROVE  /\ verdict = "ok" /\ NothingLeft
                      /\ io.pc \in {"none", "wait", "exited"} \/ Taken
    BY DEF DrainQuiet
  <2>1. root \in Over
    BY DEF Over
  <2>2. verdict = "ok"
    BY DEF Reported
  <2>3. \A s \in Slots : slot[s].st = "Free"
    BY <2>1, PoolIsFree
  <2>4. io.pc \notin {"native", "publish", "wake"}
    BY <2>3 DEF IInv, Slotted, WorkerKept
  <2>5. io.pc = "await" => Taken
    BY <2>3, ServedTypes DEF Served, Taken
  <2>6. io.pc \in {"none", "wait", "native", "publish", "wake", "await", "exited"}
    BY ServedTypes DEF IoRec
  <2> QED BY <2>1, <2>2, <2>4, <2>5, <2>6, DrainedEmpty
<1>2. Init => Reported
  BY DEF Init, Reported
<1> QED BY <1>1, <1>2, ExternalInductive, ServedOpens, ServedKeeps, ReportedKeeps, PTL
        DEF Spec
=============================================================================
