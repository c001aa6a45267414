------------------------- MODULE TaskStorage_proofs -------------------------
(***************************************************************************)
(* What a result handle reads, proved for every capacity, number of lanes,  *)
(* generation bound and set of holders: the cells of the completion pool,   *)
(* their two owners and the sleeping observers.                             *)
(***************************************************************************)
EXTENDS TaskStorage, SequenceLemmas, FiniteSetTheorems, TLAPS

\* A reference to one use of a cell.
Lease == [cell : Slots, gen : 1..MaxGeneration]

\* The contents of a cell, its two owners included.
CellType ==
    [gen : 1..MaxGeneration, phase : Done!Phases,
     outcome : Nat \cup {Done!Pending, Done!Failure},
     observers : 0..1, producer : BOOLEAN]

\* The cells a producer has not let go of, and those an observer has not.
Producers(cs) == {c \in Slots : cs[c].producer}
Observed(cs) == {c \in Slots : cs[c].observers = 1}

\* The free list holds idle cells, each once, and an idle cell has no owner.
FreeList(p) ==
    /\ IsInjective(p.free)
    /\ \A c \in Range(p.free) : p.cells[c].phase = "Idle"
    /\ \A c \in Slots : p.cells[c].phase = "Idle" =>
         ~p.cells[c].producer /\ p.cells[c].observers = 0

\* The fields of a pool.
PoolType(p) ==
    p \in [cells : [Slots -> CellType], free : Seq(Slots), refs : Int]

\* The owners hold the present use, and the observers are those counted.
Owned(cs, O, H) ==
    /\ O \subseteq Lease /\ H \subseteq Lease
    /\ \A l \in O : Done!Current(cs, l) /\ cs[l.cell].producer
    /\ \A l \in H : Done!Current(cs, l)
    /\ \A c \in Slots : cs[c].observers = 1 <=> \E l \in H : l.cell = c

\* The references of the pool are its owners and its own.
Counted(p, base) ==
    p.refs = base + Cardinality(Producers(p.cells))
                  + Cardinality(Observed(p.cells))

\* A pool between the leases O of its producers and H of its observers, with
\* base references of its own.
PoolInv(p, O, H, base) ==
    PoolType(p) /\ FreeList(p) /\ Owned(p.cells, O, H) /\ Counted(p, base)

\* The leases of the records and of the handles; the scheduler itself has one
\* reference while it is open.
TaskLeases == {task[s].lease : s \in Slots} \ {Done!NoLease}
HandleLeases == {handle[h].lease : h \in Holders} \ {Done!NoLease}
Base == IF open THEN 1 ELSE 0

States == {"none", "Ready", "Running", "Blocked", "Completed", "Failed"}

\* Records, handles and the record free list.
RecordType ==
    /\ recordId \in [Slots -> Nat]
    /\ freeSlots \in Seq(Slots)
    /\ nextId \in Nat \ {0}
    /\ task \in [Slots -> [state : States, step : Steps,
                           lease : Lease \cup {Done!NoLease}]]
    /\ handle \in [Holders -> [lease : Lease \cup {Done!NoLease},
                               asleep : BOOLEAN]]
    /\ open \in BOOLEAN

\* A free record slot is unused, and free once.
SlotsFree ==
    /\ IsInjective(freeSlots)
    /\ \A s \in Range(freeSlots) : task[s] = NoTask /\ recordId[s] = 0

\* No two owners on one side have the same lease.
OneOwner ==
    /\ \A s, t \in Slots :
         task[s].lease = task[t].lease /\ task[s].lease # Done!NoLease => s = t
    /\ \A s \in Slots : task[s].lease \notin frames
    /\ \A h, k \in Holders :
         handle[h].lease = handle[k].lease /\ handle[h].lease # Done!NoLease
           => h = k

\* A quantum that ends with an outcome still has its lease.
LeaseKept ==
    \A s \in Slots : task[s].step \in {"prepared", "published"} =>
        task[s].lease # Done!NoLease

\* What a task's cell holds is its own outcome.
OutcomeOwn ==
    \A s \in Slots : task[s].lease # Done!NoLease =>
        cells[task[s].lease.cell].outcome
          \in {Done!Pending, Done!Failure, recordId[s]}

\* The quantum that published the outcome has not notified its waiters yet.
Published(l) ==
    \E s \in Slots : task[s].step = "published" /\ task[s].lease = l

\* Whoever sleeps on a cell that has ended is about to be notified.
SleeperKept ==
    \A h \in Holders : handle[h].asleep =>
        /\ handle[h].lease # Done!NoLease
        /\ \/ ~Done!Terminal(cells[handle[h].lease.cell].phase)
           \/ Published(handle[h].lease)

\* The inductive invariant.
ResultInv ==
    /\ PoolInv(Done!Pool, TaskLeases \cup frames, HandleLeases, Base)
    /\ RecordType /\ SlotsFree /\ OneOwner /\ LeaseKept
    /\ OutcomeOwn /\ SleeperKept

-----------------------------------------------------------------------------
(* The pool.                                                               *)

\* A pool stays sound when a producer simply forgets its lease.
LEMMA FewerOwners ==
    ASSUME NEW p, NEW O, NEW H, NEW base, PoolInv(p, O, H, base),
           NEW Q, Q \subseteq O
    PROVE  PoolInv(p, Q, H, base)
BY DEF PoolInv, Owned

\* A step of the phases and outcomes of cells that stay in use.
LEMMA PhaseStep ==
    ASSUME NEW p, NEW O, NEW H, NEW base, PoolInv(p, O, H, base),
           NEW cs \in [Slots -> CellType],
           \A c \in Slots : /\ cs[c].gen = p.cells[c].gen
                            /\ cs[c].observers = p.cells[c].observers
                            /\ cs[c].producer = p.cells[c].producer
                            /\ cs[c].phase = "Idle" <=> p.cells[c].phase = "Idle"
    PROVE  PoolInv([p EXCEPT !.cells = cs], O, H, base)
<1> DEFINE q == [p EXCEPT !.cells = cs]
<1>1. /\ p \in [cells : [Slots -> CellType], free : Seq(Slots), refs : Int]
      /\ FreeList(p) /\ Owned(p.cells, O, H) /\ Counted(p, base)
  BY DEF PoolInv, PoolType
<1>2. /\ q \in [cells : [Slots -> CellType], free : Seq(Slots), refs : Int]
      /\ q.cells = cs /\ q.free = p.free /\ q.refs = p.refs
  BY <1>1
<1>3. \A c \in Range(p.free) : c \in Slots
  BY <1>1 DEF Range
<1>4. FreeList(q)
  BY <1>1, <1>2, <1>3 DEF FreeList
<1>5. Owned(q.cells, O, H)
  <2>1. \A l \in O \cup H : l.cell \in Slots
    BY <1>1 DEF Owned, Lease
  <2>2. \A l \in O \cup H : Done!Current(p.cells, l) => Done!Current(cs, l)
    BY <2>1 DEF Done!Current
  <2> QED BY <1>1, <1>2, <2>1, <2>2 DEF Owned
<1>6. Producers(cs) = Producers(p.cells) /\ Observed(cs) = Observed(p.cells)
  BY DEF Producers, Observed
<1>7. Counted(q, base)
  BY <1>1, <1>2, <1>6 DEF Counted
<1> QED BY <1>2, <1>4, <1>5, <1>7 DEF PoolInv, PoolType

\* The counts are of finite sets of cells.
LEMMA CountsFinite ==
    ASSUME NEW cs
    PROVE  /\ IsFiniteSet(Producers(cs)) /\ Cardinality(Producers(cs)) \in Nat
           /\ IsFiniteSet(Observed(cs)) /\ Cardinality(Observed(cs)) \in Nat
<1>1. IsFiniteSet(Slots)
  BY StorageAssumption, FS_Interval DEF Slots
<1>2. Producers(cs) \in SUBSET Slots /\ Observed(cs) \in SUBSET Slots
  BY DEF Producers, Observed
<1> QED BY <1>1, <1>2, FS_Subset, FS_CardinalityType

\* Two leases of one cell's present use are one.
LEMMA LeaseUnique ==
    ASSUME NEW cs, NEW l \in Lease, NEW m \in Lease, l.cell = m.cell,
           Done!Current(cs, l), Done!Current(cs, m)
    PROVE  l = m
BY DEF Lease, Done!Current

\* claim: an idle cell gets its two owners, under a lease nobody has.
LEMMA ClaimInv ==
    ASSUME NEW p, NEW O, NEW H, NEW base \in Int, PoolInv(p, O, H, base),
           p.free # <<>>
    PROVE  LET c == Head(p.free)
               l == [cell |-> c, gen |-> p.cells[c].gen]
           IN  /\ PoolInv(Done!Claimed(p), O \cup {l}, H \cup {l}, base)
               /\ l \in Lease /\ l \notin O /\ l \notin H
               /\ p.cells[c].phase = "Idle"
<1> DEFINE c == Head(p.free)
           l == [cell |-> c, gen |-> p.cells[c].gen]
           q == Done!Claimed(p)
<1>1. /\ p \in [cells : [Slots -> CellType], free : Seq(Slots), refs : Int]
      /\ FreeList(p) /\ Owned(p.cells, O, H) /\ Counted(p, base)
  BY DEF PoolInv, PoolType
<1>2. /\ c \in Slots /\ Tail(p.free) \in Seq(Slots) /\ c \in Range(p.free)
      /\ Range(p.free) = Range(Tail(p.free)) \cup {c}
      /\ IsInjective(Tail(p.free)) /\ c \notin Range(Tail(p.free))
  BY <1>1, TailOnce DEF FreeList
<1> HIDE DEF c
<1>3. /\ p.cells[c] \in CellType /\ p.cells[c].phase = "Idle"
      /\ p.cells[c].producer = FALSE /\ p.cells[c].observers = 0
  BY <1>1, <1>2 DEF FreeList, CellType
<1>4. l \in Lease /\ l.cell = c /\ l.gen = p.cells[c].gen
  BY <1>2, <1>3 DEF Lease, CellType
<1>5. \A m \in O \cup H : m.cell \in Slots /\ m.cell # c
  BY <1>1, <1>3 DEF Owned, Lease, Done!Current
<1>6. l \notin O /\ l \notin H
  BY <1>4, <1>5
<1> HIDE DEF l
<1>7. /\ q.cells = [p.cells EXCEPT ![c].phase = "Ready", ![c].outcome = Done!Pending,
                                   ![c].observers = 1, ![c].producer = TRUE]
      /\ q.free = Tail(p.free) /\ q.refs = p.refs + 2
      /\ q = [cells |-> q.cells, free |-> q.free, refs |-> q.refs]
  BY DEF Done!Claimed, c
<1> HIDE DEF q
<1>8. /\ q.cells[c] = [p.cells[c] EXCEPT !.phase = "Ready",
              !.outcome = Done!Pending, !.observers = 1, !.producer = TRUE]
      /\ \A d \in Slots : d # c => q.cells[d] = p.cells[d]
      /\ DOMAIN q.cells = Slots
  BY <1>1, <1>2, <1>7
<1>9. /\ q.cells[c] \in CellType /\ q.cells[c].phase = "Ready"
      /\ q.cells[c].producer = TRUE /\ q.cells[c].observers = 1
      /\ q.cells[c].gen = p.cells[c].gen
  <2> DEFINE r == p.cells[c]
             e == [r EXCEPT !.phase = "Ready", !.outcome = Done!Pending,
                            !.observers = 1, !.producer = TRUE]
  <2>1. /\ r \in CellType /\ q.cells[c] = e
    BY <1>3, <1>8
  <2> HIDE DEF r
  <2>2. /\ e.phase = "Ready" /\ e.producer = TRUE /\ e.observers = 1
        /\ e.gen = r.gen
    BY <2>1 DEF CellType
  <2>3. e \in CellType
    <3>1. /\ "Ready" \in Done!Phases /\ 1 \in 0..1 /\ TRUE \in BOOLEAN
          /\ Done!Pending \in Nat \cup {Done!Pending, Done!Failure}
      BY DEF Done!Phases
    <3> QED BY <2>1, <3>1 DEF CellType
  <2> HIDE DEF e
  <2> QED BY <2>1, <2>2, <2>3 DEF r
<1>10. q.cells \in [Slots -> CellType]
  <2>1. \A d \in Slots : q.cells[d] \in CellType
    BY <1>1, <1>8, <1>9
  <2>2. q.cells = [d \in Slots |-> q.cells[d]]
    BY <1>1, <1>2, <1>7
  <2> QED BY <2>1, <2>2
<1>11. PoolType(q)
  <2>1. q.free \in Seq(Slots) /\ q.refs \in Int
    BY <1>1, <1>2, <1>7
  <2> QED BY ONLY <1>7, <1>10, <2>1 DEF PoolType
<1>12. FreeList(q)
  <2>1. \A d \in Range(q.free) : d \in Slots /\ d # c /\ d \in Range(p.free)
    BY <1>1, <1>2, <1>7 DEF Range
  <2>2. IsInjective(q.free)
    BY <1>2, <1>7
  <2>3. \A d \in Range(q.free) : q.cells[d].phase = "Idle"
    BY <1>1, <1>8, <2>1 DEF FreeList
  <2>4. \A d \in Slots : q.cells[d].phase = "Idle" =>
          ~q.cells[d].producer /\ q.cells[d].observers = 0
    <3>1. q.cells[c].phase # "Idle"
      BY <1>9
    <3> QED BY <1>1, <1>8, <3>1 DEF FreeList
  <2> QED BY <2>2, <2>3, <2>4 DEF FreeList
<1>13. Owned(q.cells, O \cup {l}, H \cup {l})
  <2>1. \A m \in O \cup H : Done!Current(q.cells, m) /\ q.cells[m.cell] = p.cells[m.cell]
    BY <1>1, <1>5, <1>8 DEF Owned, Done!Current
  <2>2. Done!Current(q.cells, l) /\ q.cells[l.cell].producer
    BY <1>2, <1>4, <1>9, StorageAssumption DEF Done!Current, Slots
  <2>3. \A d \in Slots : q.cells[d].observers = 1 <=> \E m \in H \cup {l} : m.cell = d
    <3>1. \A d \in Slots : d # c =>
            (q.cells[d].observers = 1 <=> \E m \in H \cup {l} : m.cell = d)
      BY <1>1, <1>4, <1>8 DEF Owned
    <3> QED BY <1>4, <1>9, <3>1
  <2> QED BY <1>1, <1>4, <2>1, <2>2, <2>3 DEF Owned
<1>14. Counted(q, base)
  <2>1. Producers(q.cells) = Producers(p.cells) \cup {c} /\ c \notin Producers(p.cells)
    <3>1. \A d \in Slots : d # c =>
            (d \in Producers(q.cells) <=> d \in Producers(p.cells))
      BY <1>8 DEF Producers
    <3>2. c \in Producers(q.cells) /\ c \notin Producers(p.cells)
      BY <1>2, <1>3, <1>9 DEF Producers
    <3>3. Producers(q.cells) \subseteq Slots /\ Producers(p.cells) \subseteq Slots
      BY DEF Producers
    <3> QED BY ONLY <1>2, <3>1, <3>2, <3>3
  <2>2. Observed(q.cells) = Observed(p.cells) \cup {c} /\ c \notin Observed(p.cells)
    <3>1. \A d \in Slots : d # c =>
            (d \in Observed(q.cells) <=> d \in Observed(p.cells))
      BY <1>8 DEF Observed
    <3>2. c \in Observed(q.cells) /\ c \notin Observed(p.cells)
      BY <1>2, <1>3, <1>9 DEF Observed
    <3>3. Observed(q.cells) \subseteq Slots /\ Observed(p.cells) \subseteq Slots
      BY DEF Observed
    <3> QED BY ONLY <1>2, <3>1, <3>2, <3>3
  <2>3. /\ Cardinality(Producers(q.cells)) = Cardinality(Producers(p.cells)) + 1
        /\ Cardinality(Observed(q.cells)) = Cardinality(Observed(p.cells)) + 1
    BY <2>1, <2>2, CountsFinite, FS_AddElement
  <2> QED BY <1>1, <1>7, <2>3, CountsFinite DEF Counted
<1> QED BY <1>3, <1>4, <1>6, <1>11, <1>12, <1>13, <1>14 DEF PoolInv, l, c, q

\* A cell without owners goes back to the free list.
LEMMA RecycleInv ==
    ASSUME NEW p, NEW O, NEW H, NEW base \in Int, PoolInv(p, O, H, base),
           NEW c \in Slots, p.cells[c].phase # "Idle",
           ~p.cells[c].producer, p.cells[c].observers = 0
    PROVE  /\ PoolInv(Done!Recycle(p, c), O, H, base)
           /\ \A d \in Slots : d # c =>
                 Done!Recycle(p, c).cells[d] = p.cells[d]
<1> DEFINE q == Done!Recycle(p, c)
           gen == p.cells[c].gen
           new == IF gen = MaxGeneration THEN gen ELSE gen + 1
<1>1. /\ p \in [cells : [Slots -> CellType], free : Seq(Slots), refs : Int]
      /\ FreeList(p) /\ Owned(p.cells, O, H) /\ Counted(p, base)
  BY DEF PoolInv, PoolType
<1>2. p.cells[c] \in CellType /\ gen \in 1..MaxGeneration
  BY <1>1 DEF CellType
<1>3. new \in 1..MaxGeneration
  BY <1>2, StorageAssumption
<1>4. /\ q.cells = [p.cells EXCEPT ![c] = Done!FreshCell(new)]
      /\ q.free = IF gen = MaxGeneration THEN p.free ELSE <<c>> \o p.free
      /\ q.refs = p.refs
      /\ q = [cells |-> q.cells, free |-> q.free, refs |-> q.refs]
  BY <1>1 DEF Done!Recycle
<1> HIDE DEF q, new, gen
<1>5. /\ Done!FreshCell(new) \in CellType
      /\ Done!FreshCell(new).phase = "Idle"
      /\ Done!FreshCell(new).producer = FALSE
      /\ Done!FreshCell(new).observers = 0
  <2>1. /\ "Idle" \in Done!Phases /\ 0 \in 0..1 /\ FALSE \in BOOLEAN
        /\ Done!Pending \in Nat \cup {Done!Pending, Done!Failure}
    BY DEF Done!Phases
  <2> QED BY <1>3, <2>1 DEF Done!FreshCell, CellType
<1>6. /\ q.cells \in [Slots -> CellType] /\ q.cells[c] = Done!FreshCell(new)
      /\ \A d \in Slots : d # c => q.cells[d] = p.cells[d]
  BY <1>1, <1>4, <1>5
<1>7. c \notin Range(p.free) /\ \A d \in Range(p.free) : d \in Slots
  BY <1>1 DEF FreeList, Range
<1>8. /\ <<c>> \in Seq(Slots) /\ Range(<<c>>) = {c} /\ IsInjective(<<c>>)
  BY DEF Range, IsInjective
<1>9. /\ <<c>> \o p.free \in Seq(Slots)
      /\ Range(<<c>> \o p.free) = {c} \cup Range(p.free)
      /\ IsInjective(<<c>> \o p.free)
  <2> DEFINE F == p.free
             E == <<c>>
  <2>1. /\ F \in Seq(Slots) /\ E \in Seq(Slots) /\ IsInjective(F)
        /\ IsInjective(E) /\ Range(E) = {c} /\ Range(E) \cap Range(F) = {}
    BY <1>1, <1>7, <1>8 DEF FreeList
  <2> HIDE DEF F, E
  <2>2. /\ E \o F \in Seq(Slots) /\ Range(E \o F) = Range(E) \cup Range(F)
        /\ IsInjective(E \o F)
    BY <2>1, ConcatOnce
  <2> QED BY <2>1, <2>2 DEF E, F
<1>10. /\ q.free \in Seq(Slots) /\ IsInjective(q.free)
       /\ Range(q.free) \subseteq {c} \cup Range(p.free)
  BY <1>1, <1>4, <1>9 DEF FreeList
<1>11. PoolType(q)
  <2>1. q.refs \in Int
    BY <1>1, <1>4
  <2> QED BY ONLY <1>4, <1>6, <1>10, <2>1 DEF PoolType
<1>12. FreeList(q)
  <2>1. \A d \in Range(q.free) : q.cells[d].phase = "Idle"
    BY <1>1, <1>5, <1>6, <1>7, <1>10 DEF FreeList
  <2>2. \A d \in Slots : q.cells[d].phase = "Idle" =>
            ~q.cells[d].producer /\ q.cells[d].observers = 0
    BY <1>1, <1>5, <1>6 DEF FreeList
  <2> QED BY <1>10, <2>1, <2>2 DEF FreeList
<1>13. Owned(q.cells, O, H)
  <2>1. \A m \in O \cup H : m.cell \in Slots /\ m.cell # c
    BY <1>1 DEF Owned, Lease
  <2>2. \A m \in O \cup H : Done!Current(q.cells, m) /\ q.cells[m.cell] = p.cells[m.cell]
    BY <1>1, <1>6, <2>1 DEF Owned, Done!Current
  <2>3. \A d \in Slots : q.cells[d].observers = p.cells[d].observers
    BY <1>5, <1>6
  <2> QED BY <1>1, <2>2, <2>3 DEF Owned
<1>14. Counted(q, base)
  <2>1. \A d \in Slots : /\ q.cells[d].observers = p.cells[d].observers
                         /\ q.cells[d].producer <=> p.cells[d].producer
    BY <1>5, <1>6
  <2>2. /\ Producers(q.cells) = Producers(p.cells)
        /\ Observed(q.cells) = Observed(p.cells)
    BY <2>1 DEF Producers, Observed
  <2> QED BY <1>1, <1>4, <2>2 DEF Counted
<1> QED BY <1>6, <1>11, <1>12, <1>13, <1>14 DEF PoolInv, q

\* The producer lets go of a cell in use.
LEMMA ProducerFrees ==
    ASSUME NEW p, NEW O, NEW H, NEW base \in Int, PoolInv(p, O, H, base),
           NEW l \in O
    PROVE  LET f == [cells |-> [p.cells EXCEPT ![l.cell].producer = FALSE],
                      free |-> p.free, refs |-> p.refs - 1]
           IN  /\ PoolInv(f, O \ {l}, H, base)
               /\ f.cells[l.cell] = [p.cells[l.cell] EXCEPT !.producer = FALSE]
               /\ \A d \in Slots : d # l.cell => f.cells[d] = p.cells[d]
<1> DEFINE c == l.cell
           q == [cells |-> [p.cells EXCEPT ![l.cell].producer = FALSE],
                      free |-> p.free, refs |-> p.refs - 1]
<1>1. /\ p \in [cells : [Slots -> CellType], free : Seq(Slots), refs : Int]
      /\ FreeList(p) /\ Owned(p.cells, O, H) /\ Counted(p, base)
  BY DEF PoolInv, PoolType
<1>2. /\ l \in Lease /\ c \in Slots /\ Done!Current(p.cells, l)
      /\ p.cells[c].producer /\ p.cells[c] \in CellType
  BY <1>1 DEF Owned, Lease
<1>3. /\ q.cells = [p.cells EXCEPT ![c].producer = FALSE]
      /\ q.free = p.free /\ q.refs = p.refs - 1
      /\ q = [cells |-> q.cells, free |-> q.free, refs |-> q.refs]
  OBVIOUS
<1> HIDE DEF q, c
<1>4. /\ q.cells[c] = [p.cells[c] EXCEPT !.producer = FALSE]
      /\ \A d \in Slots : d # c => q.cells[d] = p.cells[d]
      /\ q.cells = [d \in Slots |-> q.cells[d]]
  BY <1>1, <1>2, <1>3
<1>5. /\ q.cells[c] \in CellType /\ q.cells[c].producer = FALSE
      /\ q.cells[c].observers = p.cells[c].observers
      /\ q.cells[c].gen = p.cells[c].gen
      /\ q.cells[c].phase = p.cells[c].phase
  <2> DEFINE r == p.cells[c]
             e == [r EXCEPT !.producer = FALSE]
  <2>1. r \in CellType /\ q.cells[c] = e
    BY <1>2, <1>4
  <2> HIDE DEF r
  <2>2. /\ e.phase = r.phase /\ e.producer = FALSE
        /\ e.observers = r.observers /\ e.gen = r.gen /\ e \in CellType
    BY <2>1 DEF CellType
  <2> HIDE DEF e
  <2> QED BY <2>1, <2>2 DEF r
<1>6. q.cells \in [Slots -> CellType]
  <2>1. \A d \in Slots : q.cells[d] \in CellType
    BY <1>1, <1>4, <1>5
  <2> QED BY <1>4, <2>1
<1>7. PoolType(q)
  <2>1. q.free \in Seq(Slots) /\ q.refs \in Int
    BY <1>1, <1>3
  <2> QED BY ONLY <1>3, <1>6, <2>1 DEF PoolType
<1>8. \A d \in Slots : /\ q.cells[d].observers = p.cells[d].observers
                       /\ q.cells[d].gen = p.cells[d].gen
                       /\ q.cells[d].phase = p.cells[d].phase
  BY <1>4, <1>5
<1>9. FreeList(q)
  <2>1. \A d \in Range(p.free) : d \in Slots
    BY <1>1 DEF Range
  <2>2. \A d \in Slots : q.cells[d].producer => p.cells[d].producer
    BY <1>4, <1>5
  <2> QED BY <1>1, <1>3, <1>8, <2>1, <2>2 DEF FreeList
<1>10. Owned(q.cells, O \ {l}, H)
  <2>1. \A m \in O \cup H : m.cell \in Slots /\ m \in Lease
    BY <1>1 DEF Owned, Lease
  <2>2. \A m \in O \cup H : Done!Current(q.cells, m)
    BY <1>1, <1>8, <2>1 DEF Owned, Done!Current
  <2>3. ASSUME NEW m \in O \ {l} PROVE q.cells[m.cell].producer
    <3>1. m.cell # c
      BY <1>1, <1>2, <2>1, LeaseUnique DEF Owned, c
    <3> QED BY <1>1, <1>4, <2>1, <3>1 DEF Owned
  <2> QED BY <1>1, <1>8, <2>2, <2>3 DEF Owned
<1>11. Counted(q, base)
  <2>1. Producers(q.cells) = Producers(p.cells) \ {c} /\ c \in Producers(p.cells)
    BY <1>2, <1>4, <1>5 DEF Producers
  <2>2. Observed(q.cells) = Observed(p.cells)
    BY <1>8 DEF Observed
  <2>3. Cardinality(Producers(q.cells)) = Cardinality(Producers(p.cells)) - 1
    BY <2>1, CountsFinite, FS_RemoveElement
  <2> QED BY <1>1, <1>3, <2>2, <2>3, CountsFinite DEF Counted
<1> QED BY <1>4, <1>7, <1>9, <1>10, <1>11 DEF PoolInv, q, c

\* The pool with one observer of the lease's cell fewer.
ObserverOut(p, l) ==
    [cells |-> [p.cells EXCEPT ![l.cell].observers = @ - 1],
     free |-> p.free, refs |-> p.refs - 1]

\* An observer lets go of its cell.
LEMMA ObserverFrees ==
    ASSUME NEW p, NEW O, NEW H, NEW base \in Int, PoolInv(p, O, H, base),
           NEW l \in H
    PROVE  /\ PoolInv(ObserverOut(p, l), O, H \ {l}, base)
           /\ ObserverOut(p, l).cells[l.cell]
                 = [p.cells[l.cell] EXCEPT !.observers = 0]
           /\ \A d \in Slots :
                 d # l.cell => ObserverOut(p, l).cells[d] = p.cells[d]
           /\ p.cells[l.cell].observers = 1
<1> USE DEF ObserverOut
<1> DEFINE c == l.cell
           q == [cells |-> [p.cells EXCEPT ![l.cell].observers = @ - 1],
                      free |-> p.free, refs |-> p.refs - 1]
<1>1. /\ p \in [cells : [Slots -> CellType], free : Seq(Slots), refs : Int]
      /\ FreeList(p) /\ Owned(p.cells, O, H) /\ Counted(p, base)
  BY DEF PoolInv, PoolType
<1>2. /\ l \in Lease /\ c \in Slots /\ Done!Current(p.cells, l)
      /\ p.cells[c].observers = 1 /\ p.cells[c] \in CellType
  BY <1>1 DEF Owned, Lease
<1>3. /\ q.cells = [p.cells EXCEPT ![c].observers = @ - 1]
      /\ q.free = p.free /\ q.refs = p.refs - 1
      /\ q = [cells |-> q.cells, free |-> q.free, refs |-> q.refs]
  OBVIOUS
<1> HIDE DEF q, c
<1>4. /\ q.cells[c] = [p.cells[c] EXCEPT !.observers = 0]
      /\ \A d \in Slots : d # c => q.cells[d] = p.cells[d]
      /\ q.cells = [d \in Slots |-> q.cells[d]]
  <2>1. q.cells[c] = [p.cells[c] EXCEPT !.observers = @ - 1]
    BY <1>1, <1>2, <1>3
  <2>2. [p.cells[c] EXCEPT !.observers = @ - 1] = [p.cells[c] EXCEPT !.observers = 0]
    BY <1>2
  <2> QED BY <1>1, <1>3, <2>1, <2>2
<1>5. /\ q.cells[c] \in CellType /\ q.cells[c].observers = 0
      /\ q.cells[c].producer = p.cells[c].producer
      /\ q.cells[c].gen = p.cells[c].gen
      /\ q.cells[c].phase = p.cells[c].phase
  <2> DEFINE r == p.cells[c]
             e == [r EXCEPT !.observers = 0]
  <2>1. r \in CellType /\ q.cells[c] = e
    BY <1>2, <1>4
  <2> HIDE DEF r
  <2>2. /\ e.phase = r.phase /\ e.producer = r.producer
        /\ e.observers = 0 /\ e.gen = r.gen /\ e \in CellType
    BY <2>1 DEF CellType
  <2> HIDE DEF e
  <2> QED BY <2>1, <2>2 DEF r
<1>6. q.cells \in [Slots -> CellType]
  <2>1. \A d \in Slots : q.cells[d] \in CellType
    BY <1>1, <1>4, <1>5
  <2> QED BY <1>4, <2>1
<1>7. PoolType(q)
  <2>1. q.free \in Seq(Slots) /\ q.refs \in Int
    BY <1>1, <1>3
  <2> QED BY ONLY <1>3, <1>6, <2>1 DEF PoolType
<1>8. \A d \in Slots : /\ q.cells[d].producer = p.cells[d].producer
                       /\ q.cells[d].gen = p.cells[d].gen
                       /\ q.cells[d].phase = p.cells[d].phase
  BY <1>4, <1>5
<1>9. FreeList(q)
  <2>1. \A d \in Range(p.free) : d \in Slots
    BY <1>1 DEF Range
  <2>2. \A d \in Slots : p.cells[d].observers = 0 => q.cells[d].observers = 0
    BY <1>4, <1>5
  <2> QED BY <1>1, <1>3, <1>8, <2>1, <2>2 DEF FreeList
<1>10. Owned(q.cells, O, H \ {l})
  <2>1. \A m \in O \cup H : m.cell \in Slots /\ m \in Lease
    BY <1>1 DEF Owned, Lease
  <2>2. \A m \in O \cup H : Done!Current(q.cells, m)
    BY <1>1, <1>8, <2>1 DEF Owned, Done!Current
  <2>3. \A m \in H \ {l} : m.cell # c
    BY <1>1, <1>2, <2>1, LeaseUnique DEF Owned, c
  <2>4. ASSUME NEW d \in Slots
        PROVE  q.cells[d].observers = 1 <=> \E m \in H \ {l} : m.cell = d
    <3>1. CASE d = c
      BY <1>5, <2>3, <3>1
    <3>2. CASE d # c
      <4>1. p.cells[d].observers = 1 <=> \E m \in H : m.cell = d
        BY <1>1 DEF Owned
      <4>2. (\E m \in H : m.cell = d) <=> (\E m \in H \ {l} : m.cell = d)
        BY <3>2 DEF c
      <4> QED BY <1>4, <3>2, <4>1, <4>2
    <3> QED BY <3>1, <3>2
  <2>5. \A m \in O : q.cells[m.cell].producer
    BY <1>1, <1>8, <2>1 DEF Owned
  <2> QED BY <1>1, <2>2, <2>4, <2>5 DEF Owned
<1>11. Counted(q, base)
  <2>1. Observed(q.cells) = Observed(p.cells) \ {c} /\ c \in Observed(p.cells)
    <3>1. \A d \in Slots : d # c =>
            (d \in Observed(q.cells) <=> d \in Observed(p.cells))
      BY <1>4 DEF Observed
    <3>2. c \notin Observed(q.cells) /\ c \in Observed(p.cells)
      BY <1>2, <1>5 DEF Observed
    <3>3. Observed(q.cells) \subseteq Slots /\ Observed(p.cells) \subseteq Slots
      BY DEF Observed
    <3> QED BY ONLY <3>1, <3>2, <3>3
  <2>2. Producers(q.cells) = Producers(p.cells)
    BY <1>8 DEF Producers
  <2>3. Cardinality(Observed(q.cells)) = Cardinality(Observed(p.cells)) - 1
    BY <2>1, CountsFinite, FS_RemoveElement
  <2> QED BY <1>1, <1>3, <2>2, <2>3, CountsFinite DEF Counted
<1> QED BY <1>2, <1>4, <1>7, <1>9, <1>10, <1>11 DEF PoolInv, q, c

\* release: whether the cell is recycled, kept for its observer, or not let go.
LEMMA ReleaseProducerInv ==
    ASSUME NEW p, NEW O, NEW H, NEW base \in Int, PoolInv(p, O, H, base),
           NEW l \in O
    PROVE  LET q == Done!ReleaseProducer(p, l)
           IN  /\ PoolInv(q, O \ {l}, H, base)
               /\ \A d \in Slots : d # l.cell => q.cells[d] = p.cells[d]
               /\ (\E h \in H : h.cell = l.cell) =>
                     q.cells[l.cell].phase = p.cells[l.cell].phase
<1> DEFINE c == l.cell
           f == [cells |-> [p.cells EXCEPT ![l.cell].producer = FALSE],
                 free |-> p.free, refs |-> p.refs - 1]
           q == Done!ReleaseProducer(p, l)
           ends == /\ c # 0 /\ p.cells[c].gen = l.gen
                   /\ Done!Terminal(p.cells[c].phase) /\ p.cells[c].producer
<1>1. /\ p.cells \in [Slots -> CellType]
      /\ c \in Slots /\ Done!Current(p.cells, l)
      /\ \A d \in Slots : p.cells[d].observers = 1 <=> \E h \in H : h.cell = d
  BY DEF PoolInv, PoolType, Owned, Lease
<1>2. /\ PoolInv(f, O \ {l}, H, base)
      /\ f.cells[c] = [p.cells[c] EXCEPT !.producer = FALSE]
      /\ \A d \in Slots : d # c => f.cells[d] = p.cells[d]
  BY ProducerFrees
<1>3. q = IF ends THEN IF p.cells[c].observers = 0 THEN Done!Recycle(f, c) ELSE f
          ELSE p
  BY DEF Done!ReleaseProducer
<1>4. /\ f.cells[c].phase = p.cells[c].phase /\ ~f.cells[c].producer
      /\ f.cells[c].observers = p.cells[c].observers
      /\ p.cells[c].phase # "Idle"
  <2>1. p.cells[c] \in CellType
    BY <1>1
  <2> HIDE DEF c, f
  <2> QED BY <1>1, <1>2, <2>1 DEF CellType, Done!Current, c
<1> HIDE DEF c, f, q, ends
<1>5. CASE ends /\ p.cells[c].observers = 0
  <2>1. q = Done!Recycle(f, c)
    BY <1>3, <1>5
  <2>2. /\ PoolInv(q, O \ {l}, H, base)
        /\ \A d \in Slots : d # c => q.cells[d] = f.cells[d]
    <3>1. /\ c \in Slots /\ f.cells[c].phase # "Idle"
          /\ ~f.cells[c].producer /\ f.cells[c].observers = 0
      BY <1>1, <1>4, <1>5
    <3>2. /\ PoolInv(Done!Recycle(f, c), O \ {l}, H, base)
          /\ \A d \in Slots : d # c => Done!Recycle(f, c).cells[d] = f.cells[d]
      BY ONLY base \in Int, <1>2, <3>1, RecycleInv
    <3> QED BY <2>1, <3>2
  <2>3. ~\E h \in H : h.cell = c
    BY <1>1, <1>5
  <2> QED BY <1>2, <2>2, <2>3 DEF c, q
<1>6. CASE ends /\ p.cells[c].observers # 0
  BY <1>2, <1>3, <1>4, <1>6 DEF c, q
<1>7. CASE ~ends
  <2>1. q = p
    BY <1>3, <1>7
  <2> QED BY <2>1, FewerOwners DEF c, q
<1> QED BY <1>5, <1>6, <1>7

\* release_observer: the same from the other side.
LEMMA ReleaseObserverInv ==
    ASSUME NEW p, NEW O, NEW H, NEW base \in Int, PoolInv(p, O, H, base),
           NEW l \in H
    PROVE  LET q == Done!ReleaseObserver(p, l)
           IN  /\ PoolInv(q, O, H \ {l}, base)
               /\ \A d \in Slots : d # l.cell => q.cells[d] = p.cells[d]
               /\ (\E o \in O : o.cell = l.cell) =>
                     /\ q.cells[l.cell].phase = p.cells[l.cell].phase
                     /\ q.cells[l.cell].outcome = p.cells[l.cell].outcome
<1> DEFINE c == l.cell
           f == ObserverOut(p, l)
           q == Done!ReleaseObserver(p, l)
           last == /\ ~p.cells[c].producer /\ p.cells[c].observers = 1
                   /\ Done!Terminal(p.cells[c].phase)
<1>1. /\ p.cells \in [Slots -> CellType]
      /\ c \in Slots /\ Done!Current(p.cells, l)
      /\ \A o \in O : p.cells[o.cell].producer
  BY DEF PoolInv, PoolType, Owned, Lease
<1>2. /\ PoolInv(f, O, H \ {l}, base)
      /\ f.cells[c] = [p.cells[c] EXCEPT !.observers = 0]
      /\ \A d \in Slots : d # c => f.cells[d] = p.cells[d]
      /\ p.cells[c].observers = 1
  BY ObserverFrees
<1>3. q = IF last THEN Done!Recycle(f, c) ELSE f
  <2>1. p.cells[l.cell].observers # 0
    BY <1>2
  <2> QED BY <1>1, <2>1 DEF Done!ReleaseObserver, ObserverOut
<1>4. /\ f.cells[c].phase = p.cells[c].phase
      /\ f.cells[c].outcome = p.cells[c].outcome
      /\ f.cells[c].producer = p.cells[c].producer
      /\ f.cells[c].observers = 0
      /\ p.cells[c].phase # "Idle"
  <2>1. p.cells[c] \in CellType
    BY <1>1
  <2> HIDE DEF c, f
  <2> QED BY <1>1, <1>2, <2>1 DEF CellType, Done!Current, c
<1> HIDE DEF c, f, q, last
<1>5. CASE last
  <2>1. q = Done!Recycle(f, c) /\ ~f.cells[c].producer
    BY <1>3, <1>4, <1>5 DEF last
  <2>2. /\ PoolInv(q, O, H \ {l}, base)
        /\ \A d \in Slots : d # c => q.cells[d] = f.cells[d]
    <3>1. /\ c \in Slots /\ f.cells[c].phase # "Idle"
          /\ ~f.cells[c].producer /\ f.cells[c].observers = 0
          /\ PoolInv(f, O, H \ {l}, base)
      BY <1>1, <1>2, <1>4, <2>1
    <3>2. /\ PoolInv(Done!Recycle(f, c), O, H \ {l}, base)
          /\ \A d \in Slots : d # c => Done!Recycle(f, c).cells[d] = f.cells[d]
      BY ONLY base \in Int, <3>1, RecycleInv
    <3> QED BY <2>1, <3>2
  <2>3. ~\E o \in O : o.cell = c
    BY <1>1, <1>5 DEF last
  <2> QED BY <1>2, <2>2, <2>3 DEF c, q
<1>6. CASE ~last
  <2>1. q = f
    BY <1>3, <1>6
  <2> QED BY <1>2, <1>4, <2>1 DEF c, q
<1> QED BY <1>5, <1>6

-----------------------------------------------------------------------------
(* Steps of a cell in use.                                                 *)

\* The cells after a step of phase and outcome through a lease.
StepOf(cs, ds, l) ==
    /\ ds \in [Slots -> CellType]
    /\ \A d \in Slots : d # l.cell => ds[d] = cs[d]
    /\ \A d \in Slots : /\ ds[d].gen = cs[d].gen
                        /\ ds[d].observers = cs[d].observers
                        /\ ds[d].producer = cs[d].producer
                        /\ ds[d].phase = "Idle" <=> cs[d].phase = "Idle"

\* Such a step keeps the pool sound.
LEMMA StepOfInv ==
    ASSUME NEW p, NEW O, NEW H, NEW base, PoolInv(p, O, H, base),
           NEW l, NEW ds, StepOf(p.cells, ds, l)
    PROVE  PoolInv([p EXCEPT !.cells = ds], O, H, base)
BY PhaseStep DEF StepOf

\* No step is such a step.
LEMMA StepOfNone ==
    ASSUME NEW cs \in [Slots -> CellType], NEW l
    PROVE  StepOf(cs, cs, l)
BY DEF StepOf

\* Writing the phase and the outcome of one cell in use.
Written(cs, c, ph, o) ==
    [cs EXCEPT ![c] = [cs[c] EXCEPT !.phase = ph, !.outcome = o]]

\* A write to a cell in use is such a step.
LEMMA WriteCell ==
    ASSUME NEW cs \in [Slots -> CellType], NEW l, l.cell \in Slots,
           cs[l.cell].phase # "Idle",
           NEW ph \in Done!Phases, ph # "Idle",
           NEW o \in Nat \cup {Done!Pending, Done!Failure}
    PROVE  LET ds == Written(cs, l.cell, ph, o)
           IN  /\ StepOf(cs, ds, l)
               /\ ds[l.cell].phase = ph /\ ds[l.cell].outcome = o
<1> DEFINE c == l.cell
           r == cs[l.cell]
           e == [r EXCEPT !.phase = ph, !.outcome = o]
           ds == Written(cs, l.cell, ph, o)
<1>1. /\ c \in Slots /\ r \in CellType /\ ds = [cs EXCEPT ![c] = e]
  BY DEF Written
<1>2. r = cs[c]
  OBVIOUS
<1> HIDE DEF c, r
<1>3. /\ e \in CellType /\ e.phase = ph /\ e.outcome = o /\ e.gen = r.gen
      /\ e.observers = r.observers /\ e.producer = r.producer
  BY <1>1 DEF CellType
<1> HIDE DEF ds, e
<1>4. /\ ds \in [Slots -> CellType] /\ ds[c] = e
      /\ \A d \in Slots : d # c => ds[d] = cs[d]
  BY <1>1, <1>3
<1>5. r.phase # "Idle"
  BY DEF r
<1> QED BY <1>1, <1>2, <1>3, <1>4, <1>5 DEF StepOf, c, ds

\* transition never ends a cell and leaves its outcome.
LEMMA TransitionStep ==
    ASSUME NEW cs \in [Slots -> CellType],
           NEW l \in Lease \cup {Done!NoLease}, NEW to \in Done!Phases
    PROVE  LET ds == Done!Transition(cs, l, to)
           IN  /\ StepOf(cs, ds, l)
               /\ \A d \in Slots :
                    /\ ds[d].outcome = cs[d].outcome
                    /\ Done!Terminal(ds[d].phase) => Done!Terminal(cs[d].phase)
<1> DEFINE ds == Done!Transition(cs, l, to)
           go == Done!Current(cs, l) /\ Done!Allowed(cs[l.cell].phase, to)
<1>1. CASE ~go
  <2>1. ds = cs
    BY <1>1 DEF Done!Transition
  <2> QED BY <2>1, StepOfNone
<1>2. CASE go
  <2> DEFINE o == cs[l.cell].outcome
             r == cs[l.cell]
  <2>1. l.cell \in Slots
    BY <1>2 DEF Lease, Done!NoLease, Done!Current
  <2>2. cs[l.cell] \in CellType /\ cs[l.cell].phase # "Idle"
    BY <1>2, <2>1 DEF Done!Current
  <2>3. o \in Nat \cup {Done!Pending, Done!Failure}
    BY <2>2 DEF CellType
  <2>4. to # "Idle" /\ ~Done!Terminal(to)
    BY <1>2 DEF Done!Allowed, Done!Terminal
  <2>5. [r EXCEPT !.phase = to] = [r EXCEPT !.phase = to, !.outcome = o]
    <3>1. r \in CellType /\ o = r.outcome
      BY <2>2
    <3> HIDE DEF r, o
    <3> QED BY <3>1 DEF CellType
  <2>6. ds = Written(cs, l.cell, to, o)
    <3>1. ds = [cs EXCEPT ![l.cell] = [cs[l.cell] EXCEPT !.phase = to]]
      BY <1>2 DEF Done!Transition
    <3> QED BY <2>5, <3>1 DEF Written
  <2> HIDE DEF ds, o
  <2>7. StepOf(cs, ds, l) /\ ds[l.cell].phase = to /\ ds[l.cell].outcome = o
    BY <2>1, <2>2, <2>3, <2>4, <2>6, WriteCell
  <2>8. \A d \in Slots : d # l.cell => ds[d] = cs[d]
    BY <2>7 DEF StepOf
  <2> QED BY <2>4, <2>7, <2>8 DEF o, ds
<1> QED BY <1>1, <1>2

\* prepare writes an outcome and no phase.
LEMMA PrepareStep ==
    ASSUME NEW cs \in [Slots -> CellType], NEW l \in Lease,
           NEW o \in Nat \cup {Done!Pending, Done!Failure}
    PROVE  LET ds == Done!Prepare(cs, l, o)
           IN  /\ StepOf(cs, ds, l)
               /\ \A d \in Slots : ds[d].phase = cs[d].phase
               /\ ds[l.cell].outcome \in {cs[l.cell].outcome, o}
<1> DEFINE ds == Done!Prepare(cs, l, o)
           go == /\ Done!Current(cs, l) /\ cs[l.cell].phase = "Committing"
                 /\ cs[l.cell].outcome = Done!Pending
<1>1. CASE ~go
  <2>1. ds = cs
    BY <1>1 DEF Done!Prepare
  <2> QED BY <2>1, StepOfNone
<1>2. CASE go
  <2> DEFINE r == cs[l.cell]
             ph == cs[l.cell].phase
  <2>1. l.cell \in Slots
    BY DEF Lease
  <2>2. r \in CellType /\ r.phase # "Idle" /\ ph \in Done!Phases /\ ph # "Idle"
    BY <1>2, <2>1 DEF Done!Current, CellType
  <2>3. [r EXCEPT !.outcome = o] = [r EXCEPT !.phase = ph, !.outcome = o]
    <3>1. r \in CellType /\ ph = r.phase
      BY <2>2
    <3> HIDE DEF r, ph
    <3> QED BY <3>1 DEF CellType
  <2>4. ds = Written(cs, l.cell, ph, o)
    <3>1. ds = [cs EXCEPT ![l.cell] = [cs[l.cell] EXCEPT !.outcome = o]]
      BY <1>2 DEF Done!Prepare
    <3> QED BY <2>3, <3>1 DEF Written
  <2> HIDE DEF ds, ph
  <2>5. StepOf(cs, ds, l) /\ ds[l.cell].phase = ph /\ ds[l.cell].outcome = o
    BY <2>1, <2>2, <2>4, WriteCell
  <2>6. \A d \in Slots : d # l.cell => ds[d] = cs[d]
    BY <2>5 DEF StepOf
  <2> QED BY <2>5, <2>6 DEF ph, ds
<1> QED BY <1>1, <1>2

\* publish leaves the outcome.
LEMMA PublishedStep ==
    ASSUME NEW cs \in [Slots -> CellType], NEW l \in Lease
    PROVE  LET ds == Done!Published(cs, l)
           IN  /\ StepOf(cs, ds, l)
               /\ \A d \in Slots : ds[d].outcome = cs[d].outcome
<1> DEFINE ds == Done!Published(cs, l)
<1>1. CASE ~Done!Publishable(cs, l)
  <2>1. ds = cs
    BY <1>1 DEF Done!Published
  <2> QED BY <2>1, StepOfNone
<1>2. CASE Done!Publishable(cs, l)
  <2> DEFINE r == cs[l.cell]
             o == cs[l.cell].outcome
             ph == IF cs[l.cell].outcome = Done!Failure
                   THEN "Failed" ELSE "Completed"
  <2>1. l.cell \in Slots
    BY DEF Lease
  <2>2. /\ r \in CellType /\ r.phase # "Idle"
        /\ ph \in Done!Phases /\ ph # "Idle"
    BY <1>2, <2>1 DEF Done!Publishable, Done!Current, CellType, Done!Phases
  <2>3. o \in Nat \cup {Done!Pending, Done!Failure}
    BY <2>2 DEF CellType
  <2>4. [r EXCEPT !.phase = ph] = [r EXCEPT !.phase = ph, !.outcome = o]
    <3>1. r \in CellType /\ o = r.outcome
      BY <2>2
    <3> HIDE DEF r, o, ph
    <3> QED BY <3>1 DEF CellType
  <2>5. ds = Written(cs, l.cell, ph, o)
    <3>1. ds = [cs EXCEPT ![l.cell] = [cs[l.cell] EXCEPT !.phase = ph]]
      BY <1>2 DEF Done!Published
    <3> HIDE DEF ph
    <3> QED BY <2>4, <3>1 DEF Written
  <2> HIDE DEF ds, ph, o
  <2>6. StepOf(cs, ds, l) /\ ds[l.cell].phase = ph /\ ds[l.cell].outcome = o
    BY <2>1, <2>2, <2>3, <2>5, WriteCell
  <2>7. \A d \in Slots : d # l.cell => ds[d] = cs[d]
    BY <2>6 DEF StepOf
  <2> QED BY <2>6, <2>7 DEF o, ds
<1> QED BY <1>1, <1>2

\* terminate.
LEMMA TerminateStep ==
    ASSUME NEW cs \in [Slots -> CellType], NEW l \in Lease
    PROVE  StepOf(cs, Done!Terminate(cs, l), l)
<1> DEFINE ds == Done!Terminate(cs, l)
           go == Done!Current(cs, l) /\ ~Done!Terminal(cs[l.cell].phase)
<1>1. CASE ~go
  <2>1. ds = cs
    BY <1>1 DEF Done!Terminate
  <2> QED BY <2>1, StepOfNone
<1>2. CASE go
  <2>1. l.cell \in Slots
    BY DEF Lease
  <2>2. /\ cs[l.cell].phase # "Idle" /\ "Failed" \in Done!Phases
        /\ Done!Failure \in Nat \cup {Done!Pending, Done!Failure}
    BY <1>2 DEF Done!Current, Done!Phases
  <2>3. PICK ph : ph = "Failed"
    OBVIOUS
  <2>4. PICK o : o = Done!Failure
    OBVIOUS
  <2>5. /\ ph \in Done!Phases /\ ph # "Idle"
        /\ o \in Nat \cup {Done!Pending, Done!Failure}
    BY <2>2, <2>3, <2>4
  <2>6. ds = Written(cs, l.cell, ph, o)
    BY <1>2, <2>3, <2>4 DEF Done!Terminate, Written
  <2>7. StepOf(cs, Written(cs, l.cell, ph, o), l)
    BY <2>1, <2>2, <2>5, WriteCell
  <2> QED BY <2>6, <2>7
<1> QED BY <1>1, <1>2

\* DestroyTask of one record on the pool.
LEMMA DestroyInv ==
    ASSUME NEW p, NEW O, NEW H, NEW base \in Int, PoolInv(p, O, H, base),
           NEW l \in O
    PROVE  /\ PoolInv(Done!Destroy(p, l), O \ {l}, H, base)
           /\ \A d \in Slots : d # l.cell =>
                Done!Destroy(p, l).cells[d] = p.cells[d]
<1> DEFINE ds == Done!Terminate(p.cells, l)
           q == [p EXCEPT !.cells = ds]
           r == Done!ReleaseProducer(q, l)
<1>1. p.cells \in [Slots -> CellType] /\ l \in Lease
      /\ p \in [cells : [Slots -> CellType], free : Seq(Slots), refs : Int]
  BY DEF PoolInv, PoolType, Owned
<1>2. StepOf(p.cells, ds, l)
  BY <1>1, TerminateStep
<1>3. Done!Destroy(p, l) = r
  BY DEF Done!Destroy
<1>4. q.cells = ds
  BY <1>1
<1> HIDE DEF ds
<1>5. PoolInv(q, O, H, base)
  BY <1>2, StepOfInv
<1> HIDE DEF q
<1>6. /\ PoolInv(r, O \ {l}, H, base)
      /\ \A d \in Slots : d # l.cell => r.cells[d] = q.cells[d]
  BY <1>5, ReleaseProducerInv
<1>7. \A d \in Slots : d # l.cell => ds[d] = p.cells[d]
  BY <1>2 DEF StepOf
<1> QED BY <1>3, <1>4, <1>6, <1>7

\* A record without a completion.
LEMMA DestroyNothing ==
    ASSUME NEW p, PoolType(p)
    PROVE  Done!Destroy(p, Done!NoLease) = p
<1>1. p \in [cells : [Slots -> CellType], free : Seq(Slots), refs : Int]
  BY DEF PoolType
<1>2. Done!Terminate(p.cells, Done!NoLease) = p.cells
  BY DEF Done!Terminate, Done!Current, Done!NoLease
<1>3. [p EXCEPT !.cells = p.cells] = p
  BY <1>1
<1> QED BY <1>2, <1>3 DEF Done!Destroy, Done!ReleaseProducer, Done!NoLease

\* The leases of the records after the first n.
LeasesAfter(L, n) == {L[s] : s \in (n + 1)..TaskCapacity} \ {Done!NoLease}

\* A loop that destroys the records in the order of their slots.
DestroysEach(K, L, p) ==
    /\ K[0] = p
    /\ \A n \in Slots : PoolType(Done!Destroy(K[n - 1], L[n])) =>
                            K[n] = Done!Destroy(K[n - 1], L[n])

\* Each turn of the loop releases one lease and touches one cell.
LEMMA LoopInv ==
    ASSUME NEW L \in [Slots -> Lease \cup {Done!NoLease}],
           \A s, t \in Slots : L[s] = L[t] /\ L[s] # Done!NoLease => s = t,
           NEW p, NEW H, NEW base \in Int, PoolInv(p, LeasesAfter(L, 0), H, base),
           NEW K, DestroysEach(K, L, p)
    PROVE  \A n \in 0..TaskCapacity :
              /\ PoolInv(K[n], LeasesAfter(L, n), H, base)
              /\ \A d \in Slots : (\A s \in Slots : L[s].cell # d) =>
                    K[n].cells[d] = p.cells[d]
<1> DEFINE Good(n) == /\ PoolInv(K[n], LeasesAfter(L, n), H, base)
                      /\ \A d \in Slots : (\A s \in Slots : L[s].cell # d) =>
                             K[n].cells[d] = p.cells[d]
           P == {n \in Nat : n \in 0..TaskCapacity => Good(n)}
<1>1. TaskCapacity \in Nat
  BY StorageAssumption
<1>2. 0 \in P
  BY DEF DestroysEach
<1>3. ASSUME NEW n \in Nat, n \in P PROVE n + 1 \in P
  <2> SUFFICES ASSUME n + 1 \in 0..TaskCapacity PROVE Good(n + 1)
    OBVIOUS
  <2>1. n \in 0..TaskCapacity /\ n + 1 \in Slots /\ (n + 1) - 1 = n
    BY <1>1 DEF Slots
  <2>2. Good(n)
    BY <1>3, <2>1
  <2> DEFINE l == L[n + 1]
             O == LeasesAfter(L, n)
             q == Done!Destroy(K[n], l)
  <2>3. PICK m : m = n + 1
    OBVIOUS
  <2>4. m \in Slots /\ L[m] = l /\ l \in Lease \cup {Done!NoLease}
    BY <2>1, <2>3
  <2>5. (n + 1)..TaskCapacity = {m} \cup (m + 1)..TaskCapacity
        /\ (m + 1)..TaskCapacity \subseteq Slots /\ m \notin (m + 1)..TaskCapacity
    BY <1>1, <2>1, <2>3 DEF Slots
  <2>6. \A x : x \in O <=> x # Done!NoLease /\ \E s \in (n + 1)..TaskCapacity : x = L[s]
    BY DEF LeasesAfter
  <2>7. \A x : x \in LeasesAfter(L, m) <=>
            x # Done!NoLease /\ \E s \in (m + 1)..TaskCapacity : x = L[s]
    BY DEF LeasesAfter
  <2> HIDE DEF O, l
  <2>8. /\ PoolInv(q, LeasesAfter(L, m), H, base)
        /\ \A d \in Slots : (\A s \in Slots : L[s].cell # d) =>
               q.cells[d] = K[n].cells[d]
    <3>1. CASE l = Done!NoLease
      <4>1. LeasesAfter(L, m) = O
        BY <2>4, <2>5, <2>6, <2>7, <3>1
      <4>2. PoolInv(K[n], O, H, base)
        BY <2>2 DEF O
      <4>3. q = K[n]
        BY <3>1, <4>2, DestroyNothing DEF PoolInv
      <4> HIDE DEF q
      <4> QED BY <4>1, <4>2, <4>3
    <3>2. CASE l # Done!NoLease
      <4>1. l \in O
        BY <2>4, <2>5, <2>6, <3>2
      <4>2. LeasesAfter(L, m) = O \ {l}
        <5>1. \A s \in (m + 1)..TaskCapacity : L[s] # l
          BY <2>4, <2>5, <3>2
        <5> QED BY <2>4, <2>5, <2>6, <2>7, <5>1
      <4>3. PoolInv(K[n], O, H, base)
        BY <2>2 DEF O
      <4>4. PoolInv(q, O \ {l}, H, base)
            /\ \A d \in Slots : d # l.cell => q.cells[d] = K[n].cells[d]
        <5>1. PICK k : k = K[n]
          OBVIOUS
        <5>2. PoolInv(k, O, H, base)
          BY <4>3, <5>1
        <5>3. PoolInv(Done!Destroy(k, l), O \ {l}, H, base)
              /\ \A d \in Slots : d # l.cell =>
                     Done!Destroy(k, l).cells[d] = k.cells[d]
          BY ONLY base \in Int, <4>1, <5>2, DestroyInv
        <5> QED BY <5>1, <5>3
      <4> HIDE DEF q
      <4> QED BY <2>4, <4>2, <4>4
    <3> QED BY <3>1, <3>2
  <2>9. K[m] = q
    <3>1. PoolType(q)
      BY <2>8 DEF PoolInv
    <3>2. m - 1 = n
      BY <2>3
    <3> QED BY <2>4, <3>1, <3>2 DEF DestroysEach, l
  <2> HIDE DEF q
  <2> QED BY <2>2, <2>3, <2>8, <2>9
<1> HIDE DEF Good
<1>4. Nat \subseteq P
  <2> HIDE DEF P
  <2> QED BY <1>2, <1>3, NatSetInduction
<1>5. \A n \in 0..TaskCapacity : Good(n)
  BY <1>1, <1>4
<1> QED BY <1>5 DEF Good

\* The recursive definition describes such a loop.
LEMMA DestroyedLoop ==
    ASSUME NEW L \in [Slots -> Lease \cup {Done!NoLease}],
           \A s \in Slots : L[s] = task[s].lease,
           \A s, t \in Slots : L[s] = L[t] /\ L[s] # Done!NoLease => s = t,
           NEW H, NEW base \in Int,
           PoolInv(Done!Pool, LeasesAfter(L, 0), H, base)
    PROVE  DestroysEach(Destroyed, L, Done!Pool)
<1> DEFINE X == [cells : [Slots -> CellType], free : Seq(Slots), refs : Int]
           N == TaskCapacity
           p0 == Done!Pool
           g == [n \in Nat |-> [p \in X |->
                   IF n \in 1..N /\ Done!Destroy(p, L[n]) \in X
                   THEN Done!Destroy(p, L[n]) ELSE p]]
           D(K) == [n \in 0..N |->
                      IF n = 0 THEN p0 ELSE Done!Destroy(K[n - 1], task[n].lease)]
<1>1. N \in Nat /\ p0 \in X /\ Slots = 1..N
  BY StorageAssumption DEF PoolInv, PoolType, Slots
<1>2. \A p : PoolType(p) <=> p \in X
  BY DEF PoolType
<1> HIDE DEF p0, N
<1>3. \E f \in [0..N -> X] : Iterates(f, p0, g, N)
  <2>1. g \in [Nat -> [X -> X]]
    <3> HIDE DEF X
    <3> QED OBVIOUS
  <2> HIDE DEF g, X
  <2> QED BY <1>1, <2>1, Iteration
<1>4. PICK f \in [0..N -> X] : Iterates(f, p0, g, N)
  BY <1>3
<1>5. f[0] = p0 /\ \A n \in 1..N : f[n] = g[n][f[n - 1]]
  BY <1>4 DEF Iterates
<1>6. ASSUME NEW n \in Slots
      PROVE  /\ n \in Nat /\ n - 1 \in 0..N /\ n \in 1..N /\ n # 0
             /\ f[n - 1] \in X
             /\ Done!Destroy(f[n - 1], L[n]) \in X =>
                    f[n] = Done!Destroy(f[n - 1], L[n])
  <2> HIDE DEF X
  <2>1. n \in Nat /\ n - 1 \in 0..N /\ n \in 1..N /\ n # 0
    BY <1>1
  <2>2. f[n - 1] \in X
    BY <2>1
  <2> QED BY <1>5, <2>1, <2>2
<1>7. DestroysEach(f, L, p0)
  BY <1>2, <1>5, <1>6 DEF DestroysEach
<1> HIDE DEF X
<1>8. \A n \in 0..N : PoolInv(f[n], LeasesAfter(L, n), H, base)
  BY <1>7, LoopInv DEF p0, N
<1>9. ASSUME NEW n \in Slots PROVE f[n] = Done!Destroy(f[n - 1], L[n])
  <2>1. n \in 0..N /\ n - 1 \in 0..N
    BY <1>1, <1>6
  <2> DEFINE l == L[n]
             O == LeasesAfter(L, n - 1)
             q == Done!Destroy(f[n - 1], l)
  <2>2. PoolInv(f[n - 1], O, H, base)
    BY <1>8, <2>1
  <2>3. PoolType(q)
    <3>1. CASE l = Done!NoLease
      BY <2>2, <3>1, DestroyNothing DEF PoolInv
    <3>2. CASE l # Done!NoLease
      <4>1. l \in O
        <5>1. PICK m : m = n - 1
          OBVIOUS
        <5>2. n \in (m + 1)..TaskCapacity
          BY <1>1, <5>1 DEF N
        <5> QED BY <3>2, <5>1, <5>2 DEF LeasesAfter
      <4> HIDE DEF l, O, q
      <4>2. PoolInv(q, O \ {l}, H, base)
        BY <2>2, <4>1, DestroyInv DEF q
      <4> QED BY <4>2 DEF PoolInv
    <3> QED BY <3>1, <3>2
  <2> QED BY <1>2, <1>6, <2>3
<1>10. f = D(f)
  <2>1. \A n \in 0..N : f[n] = D(f)[n]
    BY <1>1, <1>5, <1>9
  <2> QED BY <2>1
<1>11. Destroyed = D(Destroyed)
  <2>1. Destroyed = CHOOSE K : K = D(K)
    BY DEF Destroyed, p0, N
  <2> HIDE DEF D
  <2> QED BY <1>10, <2>1
<1> DEFINE E == Destroyed
<1> HIDE DEF E
<1>12. E[0] = p0
  BY <1>1, <1>11 DEF E
<1>13. \A n \in Slots : E[n] = Done!Destroy(E[n - 1], L[n])
  BY <1>1, <1>6, <1>11 DEF E
<1> QED BY <1>12, <1>13 DEF DestroysEach, E, p0

-----------------------------------------------------------------------------
(* The steps of the scheduler.                                             *)

\* The pool is its three variables.
LEMMA PoolFields ==
    /\ Done!Pool.cells = cells /\ Done!Pool.free = freeCells
    /\ Done!Pool.refs = refs
    /\ Done!Pool' = [cells |-> cells', free |-> freeCells', refs |-> refs']
BY DEF Done!Pool

\* The pool itself holds one reference until the reset.
LEMMA BaseType == ASSUME open \in BOOLEAN PROVE Base \in Int /\ Base >= 0
BY DEF Base

\* The invariant holds at the start.
LEMMA InitResult == Init => ResultInv
<1> SUFFICES ASSUME Init PROVE ResultInv
  OBVIOUS
<1>1. TaskCapacity \in Nat \ {0} /\ MaxGeneration \in Nat \ {0}
  BY StorageAssumption
<1>2. /\ cells = [c \in Slots |-> Done!FreshCell(1)]
      /\ freeCells = [c \in Slots |-> c] /\ refs = 1
      /\ handle = [h \in Holders |-> Done!NoHandle]
      /\ recordId = [s \in Slots |-> 0] /\ freeSlots = [s \in Slots |-> s]
      /\ nextId = 1 /\ task = [s \in Slots |-> NoTask] /\ frames = {}
      /\ open = TRUE
  BY DEF Init, Done!Init, Idx!Init, Done!Cells, Idx!RecordSlots, Slots
<1>3. [s \in Slots |-> s] \in Seq(Slots) /\ IsInjective([s \in Slots |-> s])
      /\ Range([s \in Slots |-> s]) = Slots
  BY <1>1 DEF Slots, IsInjective, Range
<1>4. TaskLeases = {} /\ HandleLeases = {} /\ Base = 1
  BY <1>2 DEF TaskLeases, HandleLeases, Base, NoTask, Task, Done!NoHandle
<1>5. Done!FreshCell(1) \in CellType
  <2>1. /\ "Idle" \in Done!Phases /\ 0 \in 0..1 /\ FALSE \in BOOLEAN
        /\ Done!Pending \in Nat \cup {Done!Pending, Done!Failure}
        /\ 1 \in 1..MaxGeneration
    BY <1>1 DEF Done!Phases
  <2> QED BY <2>1 DEF Done!FreshCell, CellType
<1>6. PoolInv(Done!Pool, {} \cup {}, {}, 1)
  <2>1. \A c \in Slots : /\ cells[c].phase = "Idle" /\ cells[c].producer = FALSE
                         /\ cells[c].observers = 0
    BY <1>2 DEF Done!FreshCell
  <2>2. PoolType(Done!Pool)
    BY <1>2, <1>3, <1>5 DEF PoolType, Done!Pool
  <2>3. FreeList(Done!Pool)
    BY <1>2, <1>3, <2>1, PoolFields DEF FreeList
  <2>4. Owned(cells, {} \cup {}, {})
    BY <2>1 DEF Owned
  <2>5. Producers(cells) = {} /\ Observed(cells) = {}
    BY <2>1 DEF Producers, Observed
  <2>6. Counted(Done!Pool, 1)
    BY <1>2, <2>5, FS_EmptySet, PoolFields DEF Counted
  <2> QED BY <2>2, <2>3, <2>4, <2>6, PoolFields DEF PoolInv
<1>7. RecordType
  <2>1. NoTask \in [state : States, step : Steps, lease : Lease \cup {Done!NoLease}]
    BY DEF NoTask, Task, States, Steps
  <2>2. Done!NoHandle \in [lease : Lease \cup {Done!NoLease}, asleep : BOOLEAN]
    BY DEF Done!NoHandle
  <2> QED BY <1>2, <1>3, <2>1, <2>2 DEF RecordType
<1>8. SlotsFree
  BY <1>2, <1>3 DEF SlotsFree
<1>9. OneOwner /\ LeaseKept /\ OutcomeOwn /\ SleeperKept
  <2>1. \A s \in Slots : task[s].lease = Done!NoLease /\ task[s].step = "rest"
    BY <1>2 DEF NoTask, Task
  <2>2. \A h \in Holders : handle[h].lease = Done!NoLease /\ ~handle[h].asleep
    BY <1>2 DEF Done!NoHandle
  <2> QED BY <1>2, <2>1, <2>2 DEF OneOwner, LeaseKept, OutcomeOwn, SleeperKept
<1> QED BY <1>2, <1>4, <1>6, <1>7, <1>8, <1>9 DEF ResultInv

TaskType == [state : States, step : Steps, lease : Lease \cup {Done!NoLease}]

\* Steps on the queue alone.
LEMMA Unseen ==
    ASSUME ResultInv,
           UNCHANGED <<recordId, freeSlots, nextId, cells, freeCells, refs,
                       handle, task, frames, open>>
    PROVE  ResultInv'
<1>1. /\ Done!Pool' = Done!Pool /\ TaskLeases' = TaskLeases
      /\ HandleLeases' = HandleLeases /\ Base' = Base
  BY DEF Done!Pool, TaskLeases, HandleLeases, Base
<1>2. PoolInv(Done!Pool, TaskLeases \cup frames, HandleLeases, Base)'
  BY <1>1 DEF ResultInv
<1>3. (RecordType /\ SlotsFree /\ OneOwner /\ LeaseKept)'
  BY DEF ResultInv, RecordType, SlotsFree, OneOwner, LeaseKept
<1>4. (OutcomeOwn /\ SleeperKept)'
  BY DEF ResultInv, OutcomeOwn, SleeperKept, Published
<1> QED BY <1>2, <1>3, <1>4 DEF ResultInv

\* What a step on one record and, through its lease, on one cell has to show.
LEMMA TaskStep ==
    ASSUME ResultInv, NEW s \in Slots, NEW t \in TaskType,
           task' = [task EXCEPT ![s] = t],
           UNCHANGED <<recordId, freeSlots, nextId, freeCells, refs,
                       handle, frames, open>>,
           task[s] # NoTask, t.lease = task[s].lease,
           t.step \in {"prepared", "published"} => t.lease # Done!NoLease,
           StepOf(cells, cells', t.lease),
           t.lease # Done!NoLease =>
             cells'[t.lease.cell].outcome
               \in {cells[t.lease.cell].outcome, Done!Failure, recordId[s]},
           \/ t.step = "published"
           \/ /\ task[s].step # "published"
              /\ \A d \in Slots : Done!Terminal(cells'[d].phase) =>
                                      Done!Terminal(cells[d].phase)
    PROVE  ResultInv'
<1>1. /\ RecordType /\ SlotsFree /\ OneOwner /\ LeaseKept /\ OutcomeOwn
      /\ SleeperKept
      /\ PoolInv(Done!Pool, TaskLeases \cup frames, HandleLeases, Base)
  BY DEF ResultInv
<1>2. /\ task \in [Slots -> TaskType] /\ task' \in [Slots -> TaskType]
      /\ task'[s] = t /\ \A u \in Slots : u # s => task'[u] = task[u]
      /\ \A u \in Slots : task'[u].lease = task[u].lease
  <2>1. task \in [Slots -> TaskType]
    BY <1>1 DEF RecordType, TaskType
  <2> QED BY <2>1
<1>3. PoolInv(Done!Pool, TaskLeases \cup frames, HandleLeases, Base)'
  <2>1. TaskLeases' = TaskLeases /\ HandleLeases' = HandleLeases /\ Base' = Base
    BY <1>2 DEF TaskLeases, HandleLeases, Base
  <2>2. PICK cs : cs = cells'
    OBVIOUS
  <2>3. PoolInv([Done!Pool EXCEPT !.cells = cs],
                TaskLeases \cup frames, HandleLeases, Base)
    BY <1>1, <2>2, PoolFields, StepOfInv
  <2>4. Done!Pool' = [Done!Pool EXCEPT !.cells = cs]
    BY <2>2 DEF Done!Pool
  <2>5. (TaskLeases \cup frames)' = TaskLeases \cup frames
    BY <2>1
  <2> QED BY <2>1, <2>3, <2>4, <2>5
<1>4. RecordType'
  BY <1>1, <1>2 DEF RecordType, TaskType
<1>5. SlotsFree'
  <2>1. s \notin Range(freeSlots) /\ \A u \in Range(freeSlots) : u \in Slots
    BY <1>1 DEF SlotsFree, RecordType, Range
  <2> QED BY <1>1, <1>2, <2>1 DEF SlotsFree
<1>6. OneOwner'
  BY <1>1, <1>2 DEF OneOwner
<1>7. LeaseKept'
  BY <1>1, <1>2 DEF LeaseKept
<1>8. \A u \in Slots : u # s /\ task[u].lease # Done!NoLease
                       /\ t.lease # Done!NoLease =>
         task[u].lease.cell # t.lease.cell
  <2> SUFFICES ASSUME NEW u \in Slots, u # s, task[u].lease # Done!NoLease,
                      t.lease # Done!NoLease,
                      task[u].lease.cell = t.lease.cell
               PROVE  FALSE
    OBVIOUS
  <2>1. task[u].lease \in TaskLeases /\ task[s].lease \in TaskLeases
    BY DEF TaskLeases
  <2>2. /\ task[u].lease \in Lease /\ task[s].lease \in Lease
        /\ Done!Current(cells, task[u].lease) /\ Done!Current(cells, task[s].lease)
    BY <1>1, <2>1, PoolFields DEF PoolInv, Owned
  <2>3. task[u].lease = task[s].lease
    BY <2>2, LeaseUnique
  <2> QED BY <1>1, <2>3 DEF OneOwner
<1>9. OutcomeOwn'
  <2> SUFFICES ASSUME NEW u \in Slots, task'[u].lease # Done!NoLease
               PROVE  cells'[task'[u].lease.cell].outcome
                        \in {Done!Pending, Done!Failure, recordId[u]}
    BY DEF OutcomeOwn
  <2>1. task[u].lease # Done!NoLease /\ task[u].lease.cell \in Slots
        /\ cells[task[u].lease.cell].outcome
             \in {Done!Pending, Done!Failure, recordId[u]}
    BY <1>1, <1>2 DEF OutcomeOwn, TaskType, Lease
  <2>2. CASE u = s
    BY <1>2, <2>1, <2>2
  <2>3. CASE u # s
    <3>1. t.lease.cell # task[u].lease.cell
      BY <1>8, <2>1, <2>3 DEF Done!NoLease, Slots
    <3>2. cells'[task[u].lease.cell] = cells[task[u].lease.cell]
      BY <2>1, <3>1 DEF StepOf
    <3> QED BY <1>2, <2>1, <3>2
  <2> QED BY <2>2, <2>3
<1>10. SleeperKept'
  <2> SUFFICES ASSUME NEW h \in Holders, handle[h].asleep
               PROVE  /\ handle[h].lease # Done!NoLease
                      /\ \/ ~Done!Terminal(cells'[handle[h].lease.cell].phase)
                         \/ Published(handle[h].lease)'
    BY DEF SleeperKept, Published
  <2> DEFINE l == handle[h].lease
  <2>1. /\ l # Done!NoLease
        /\ ~Done!Terminal(cells[l.cell].phase) \/ Published(l)
    BY <1>1 DEF SleeperKept
  <2>2. l \in Lease /\ Done!Current(cells, l) /\ l.cell \in Slots
    <3>1. l \in HandleLeases
      BY <2>1 DEF HandleLeases
    <3> QED BY <1>1, <3>1, PoolFields DEF PoolInv, Owned, Lease
  <2>3. CASE t.step = "published"
    <3>1. CASE l = t.lease
      BY <1>2, <2>1, <2>3, <3>1 DEF Published
    <3>2. CASE l # t.lease
      <4>1. l.cell # t.lease.cell
        <5>1. CASE t.lease = Done!NoLease
          BY <2>2, <5>1 DEF Done!NoLease, Slots
        <5>2. CASE t.lease # Done!NoLease
          <6>1. task[s].lease \in TaskLeases
            BY <5>2 DEF TaskLeases
          <6>2. t.lease \in Lease /\ Done!Current(cells, t.lease)
            BY <1>1, <6>1, PoolFields DEF PoolInv, Owned
          <6> QED BY <2>2, <3>2, <6>2, LeaseUnique
        <5> QED BY <5>1, <5>2
      <4>2. cells'[l.cell] = cells[l.cell]
        BY <2>2, <4>1 DEF StepOf
      <4>3. Published(l) => Published(l)'
        BY <1>2, <3>2 DEF Published
      <4> QED BY <2>1, <4>2, <4>3
    <3> QED BY <3>1, <3>2
  <2>4. CASE /\ task[s].step # "published"
             /\ \A d \in Slots : Done!Terminal(cells'[d].phase) =>
                                      Done!Terminal(cells[d].phase)
    <3>1. Published(l) => Published(l)'
      BY <1>2, <2>4 DEF Published
    <3> QED BY <2>1, <2>2, <2>4, <3>1
  <2> QED BY <2>3, <2>4
<1> QED BY <1>3, <1>4, <1>5, <1>6, <1>7, <1>9, <1>10 DEF ResultInv

\* Two steps through one lease.
LEMMA StepOfTwice ==
    ASSUME NEW cs, NEW ds, NEW es, NEW l, StepOf(cs, ds, l), StepOf(ds, es, l)
    PROVE  StepOf(cs, es, l)
BY DEF StepOf

\* What a step on a record starts from.
LEMMA RecordFacts ==
    ASSUME ResultInv, NEW s \in Slots
    PROVE  /\ cells \in [Slots -> CellType] /\ task[s] \in TaskType
           /\ task \in [Slots -> TaskType]
           /\ task[s].lease \in Lease \cup {Done!NoLease}
           /\ recordId[s] \in Nat
<1>1. RecordType /\ PoolType(Done!Pool)
  BY DEF ResultInv, PoolInv
<1> QED BY <1>1, PoolFields DEF RecordType, TaskType, PoolType

\* A resumed coroutine: Parked, Ready, Running, through its own lease.
LEMMA ResumeResult ==
    ASSUME ResultInv, NEW s \in Slots, Resume(s)
    PROVE  ResultInv'
<1> DEFINE l == task[s].lease
           t == [task[s] EXCEPT !.state = "Running", !.step = "body"]
           rs == IF cells[l.cell].phase = "Parked"
                 THEN Done!Transition(cells, l, "Ready") ELSE cells
<1>1. /\ cells \in [Slots -> CellType] /\ task[s] \in TaskType
      /\ task \in [Slots -> TaskType] /\ l \in Lease \cup {Done!NoLease}
  BY RecordFacts
<1>2. /\ task[s].state = "Ready" /\ task[s].step = "rest"
      /\ task' = [task EXCEPT ![s] = t]
      /\ cells' = IF l = Done!NoLease THEN cells
                  ELSE Done!Transition(rs, l, "Running")
      /\ UNCHANGED <<recordId, freeSlots, nextId, freeCells, refs, handle,
                     frames, open>>
  BY DEF Resume, Picked, index
<1>3. /\ t \in TaskType /\ t.lease = l /\ t.step = "body"
  <2>1. "Running" \in States /\ "body" \in Steps
    BY DEF States, Steps
  <2> QED BY <1>1, <2>1 DEF TaskType
<1>4. /\ StepOf(cells, rs, l)
      /\ \A d \in Slots :
           /\ rs[d].outcome = cells[d].outcome
           /\ Done!Terminal(rs[d].phase) => Done!Terminal(cells[d].phase)
  <2>1. "Ready" \in Done!Phases
    BY DEF Done!Phases
  <2> HIDE DEF l
  <2> QED BY <1>1, <2>1, TransitionStep, StepOfNone
<1> HIDE DEF t, rs
<1>5. /\ StepOf(cells, cells', l)
      /\ \A d \in Slots :
           /\ cells'[d].outcome = cells[d].outcome
           /\ Done!Terminal(cells'[d].phase) => Done!Terminal(cells[d].phase)
  <2>1. "Running" \in Done!Phases /\ rs \in [Slots -> CellType]
    BY <1>4 DEF Done!Phases, StepOf
  <2> DEFINE ds == Done!Transition(rs, l, "Running")
  <2> HIDE DEF l
  <2>2. /\ StepOf(rs, ds, l)
        /\ \A d \in Slots :
             /\ ds[d].outcome = rs[d].outcome
             /\ Done!Terminal(ds[d].phase) => Done!Terminal(rs[d].phase)
    BY <1>1, <2>1, TransitionStep
  <2>3. StepOf(cells, ds, l)
    BY <1>4, <2>2, StepOfTwice
  <2>4. CASE l = Done!NoLease
    BY <1>1, <1>2, <2>4, StepOfNone
  <2>5. CASE l # Done!NoLease
    BY <1>2, <1>4, <2>2, <2>3, <2>5
  <2> QED BY <2>4, <2>5
<1>6. l # Done!NoLease =>
        cells'[l.cell].outcome \in {cells[l.cell].outcome, Done!Failure, recordId[s]}
  <2>1. l # Done!NoLease => l.cell \in Slots
    BY <1>1 DEF Lease
  <2> QED BY <1>5, <2>1
<1>7. task[s] # NoTask
  BY <1>2 DEF NoTask, Task
<1> QED BY <1>7, <1>2, <1>3, <1>5, <1>6, TaskStep

\* A coroutine that yields or parks.
LEMMA SuspendResult ==
    ASSUME ResultInv, NEW s \in Slots, Suspend(s)
    PROVE  ResultInv'
<1> DEFINE l == task[s].lease
<1>1. /\ cells \in [Slots -> CellType] /\ task[s] \in TaskType
      /\ task \in [Slots -> TaskType] /\ l \in Lease \cup {Done!NoLease}
  BY RecordFacts
<1>2. PICK st \in {"Ready", "Blocked"} :
        task' = [task EXCEPT ![s].state = st, ![s].step = "rest"]
  BY DEF Suspend
<1> DEFINE t == [task[s] EXCEPT !.state = st, !.step = "rest"]
<1>3. /\ task[s].state = "Running" /\ task[s].step = "body"
      /\ task' = [task EXCEPT ![s] = t]
      /\ cells' = Done!Transition(cells, l, "Parked")
      /\ UNCHANGED <<recordId, freeSlots, nextId, freeCells, refs, handle,
                     frames, open>>
  BY <1>2 DEF Suspend, InBody, index
<1>4. /\ t \in TaskType /\ t.lease = l /\ t.step = "rest"
  <2>1. st \in States /\ "rest" \in Steps
    BY DEF States, Steps
  <2> QED BY <1>1, <2>1 DEF TaskType
<1> HIDE DEF t
<1>5. /\ StepOf(cells, cells', l)
      /\ \A d \in Slots :
           /\ cells'[d].outcome = cells[d].outcome
           /\ Done!Terminal(cells'[d].phase) => Done!Terminal(cells[d].phase)
  <2>1. "Parked" \in Done!Phases
    BY DEF Done!Phases
  <2> HIDE DEF l
  <2> QED BY <1>1, <1>3, <2>1, TransitionStep
<1>6. l # Done!NoLease =>
        cells'[l.cell].outcome \in {cells[l.cell].outcome, Done!Failure, recordId[s]}
  <2>1. l # Done!NoLease => l.cell \in Slots
    BY <1>1 DEF Lease
  <2> QED BY <1>5, <2>1
<1>7. task[s] # NoTask
  BY <1>3 DEF NoTask, Task
<1> QED BY <1>7, <1>3, <1>4, <1>5, <1>6, TaskStep

\* Steps that leave the cells alone.
LEMMA RecordStep ==
    ASSUME ResultInv, NEW s \in Slots, NEW st \in States, NEW sp \in Steps,
           task' = [task EXCEPT ![s].state = st, ![s].step = sp],
           UNCHANGED <<recordId, freeSlots, nextId, cells, freeCells, refs,
                       handle, frames, open>>,
           task[s] # NoTask, sp # "published", task[s].step # "published",
           sp = "prepared" => task[s].lease # Done!NoLease
    PROVE  ResultInv'
<1> DEFINE t == [task[s] EXCEPT !.state = st, !.step = sp]
           l == task[s].lease
<1>1. /\ cells \in [Slots -> CellType] /\ task[s] \in TaskType
      /\ task \in [Slots -> TaskType] /\ l \in Lease \cup {Done!NoLease}
  BY RecordFacts
<1>2. task' = [task EXCEPT ![s] = t]
  OBVIOUS
<1>3. t \in TaskType /\ t.lease = l /\ t.step = sp
  BY <1>1 DEF TaskType
<1>4. StepOf(cells, cells', l)
  BY <1>1, StepOfNone
<1> HIDE DEF t
<1> QED BY <1>2, <1>3, <1>4, TaskStep

\* The end of a wait touches the record alone.
LEMMA WakeResult ==
    ASSUME ResultInv, NEW s \in Slots, Wake(s)
    PROVE  ResultInv'
<1>1. task[s] \in TaskType /\ task \in [Slots -> TaskType]
  BY RecordFacts
<1>2. task[s].state = "Blocked"
      /\ task' = [task EXCEPT ![s].state = "Ready"]
      /\ UNCHANGED <<recordId, freeSlots, nextId, cells, freeCells, refs,
                     handle, frames, open>>
  BY DEF Wake, index, pool
<1> DEFINE t == [task[s] EXCEPT !.state = "Ready"]
<1>3. t \in TaskType /\ t.lease = task[s].lease /\ t.step = task[s].step
  <2>1. "Ready" \in States
    BY DEF States
  <2> QED BY <1>1, <2>1 DEF TaskType
<1>4. task' = [task EXCEPT ![s] = t]
  BY <1>2
<1>5. StepOf(cells, cells', t.lease)
  BY <1>2, RecordFacts, StepOfNone
<1>6. t.step \in {"prepared", "published"} => t.lease # Done!NoLease
  BY <1>3 DEF ResultInv, LeaseKept
<1> HIDE DEF t
<1>7. task[s] # NoTask
  BY <1>2 DEF NoTask, Task
<1> QED BY <1>7, <1>2, <1>3, <1>4, <1>5, <1>6, TaskStep

\* A task without a completion ends.
LEMMA FinishResult ==
    ASSUME ResultInv, NEW s \in Slots, Finish(s)
    PROVE  ResultInv'
<1>1. "Completed" \in States /\ "rest" \in Steps
  BY DEF States, Steps
<1>2. task[s] # NoTask
  BY DEF Finish, InBody, NoTask, Task
<1> QED BY <1>1, <1>2, RecordStep DEF Finish, InBody, index, pool

\* A task that is failed from inside its body prepares nothing.
LEMMA FailBodyResult ==
    ASSUME ResultInv, NEW s \in Slots, FailBody(s)
    PROVE  ResultInv'
<1>1. "Failed" \in States /\ "prepared" \in Steps
  BY DEF States, Steps
<1>2. task[s] # NoTask
  BY DEF FailBody, InBody, NoTask, Task
<1> QED BY <1>1, <1>2, RecordStep DEF FailBody, InBody, index, pool

\* The outcome that is prepared is the failure or the task's own id.
LEMMA CommitResult ==
    ASSUME ResultInv, NEW s \in Slots, Commit(s)
    PROVE  ResultInv'
<1> DEFINE l == task[s].lease
           cs == Done!Transition(cells, l, "Committing")
<1>1. /\ cells \in [Slots -> CellType] /\ task[s] \in TaskType
      /\ task \in [Slots -> TaskType] /\ l \in Lease \cup {Done!NoLease}
      /\ recordId[s] \in Nat
  BY RecordFacts
<1>2. /\ task[s].state = "Running" /\ task[s].step = "body" /\ l # Done!NoLease
      /\ UNCHANGED <<recordId, freeSlots, nextId, freeCells, refs, handle,
                     frames, open>>
  BY DEF Commit, InBody, index
<1>3. PICK st \in {"Completed", "Failed"}, o \in {recordId[s], Done!Failure} :
        /\ task' = [task EXCEPT ![s].state = st, ![s].step = "prepared"]
        /\ cells' = Done!Prepare(cs, l, o)
  BY DEF Commit
<1> DEFINE t == [task[s] EXCEPT !.state = st, !.step = "prepared"]
<1>4. /\ t \in TaskType /\ t.lease = l /\ t.step = "prepared"
      /\ task' = [task EXCEPT ![s] = t]
  <2>1. st \in States /\ "prepared" \in Steps
    BY DEF States, Steps
  <2> QED BY <1>1, <1>3, <2>1 DEF TaskType
<1>5. l \in Lease /\ l.cell \in Slots /\ o \in Nat \cup {Done!Pending, Done!Failure}
  BY <1>1, <1>2 DEF Lease
<1>6. /\ StepOf(cells, cs, l)
      /\ \A d \in Slots :
           /\ cs[d].outcome = cells[d].outcome
           /\ Done!Terminal(cs[d].phase) => Done!Terminal(cells[d].phase)
  <2>1. "Committing" \in Done!Phases
    BY DEF Done!Phases
  <2> HIDE DEF l
  <2> QED BY <1>1, <2>1, TransitionStep
<1> HIDE DEF t, cs, l
<1>7. /\ StepOf(cs, cells', l)
      /\ \A d \in Slots : cells'[d].phase = cs[d].phase
      /\ cells'[l.cell].outcome \in {cs[l.cell].outcome, o}
  <2>1. cs \in [Slots -> CellType]
    BY <1>6 DEF StepOf
  <2> QED BY <1>3, <1>5, <2>1, PrepareStep
<1>8. StepOf(cells, cells', l)
  BY <1>6, <1>7, StepOfTwice
<1>9. cells'[l.cell].outcome \in {cells[l.cell].outcome, Done!Failure, recordId[s]}
  BY <1>5, <1>6, <1>7
<1>10. \A d \in Slots : Done!Terminal(cells'[d].phase) =>
                           Done!Terminal(cells[d].phase)
  BY <1>6, <1>7
<1>11. t.lease = task[s].lease /\ task[s] # NoTask
  BY <1>2, <1>4 DEF l, NoTask, Task
<1> QED BY <1>2, <1>4, <1>8, <1>9, <1>10, <1>11, TaskStep

\* The cell ends while its record still has the lease, so that a sleeper
\* that sees the end late is about to be notified.
LEMMA PublishResult ==
    ASSUME ResultInv, NEW s \in Slots, Publish(s)
    PROVE  ResultInv'
<1> DEFINE l == task[s].lease
           st == IF Done!Publishable(cells, l) THEN task[s].state ELSE "Failed"
           t == [task[s] EXCEPT !.step = "published", !.state = st]
<1>1. /\ cells \in [Slots -> CellType] /\ task[s] \in TaskType
      /\ task \in [Slots -> TaskType] /\ l \in Lease \cup {Done!NoLease}
  BY RecordFacts
<1>2. /\ task[s].step = "prepared" /\ task' = [task EXCEPT ![s] = t]
      /\ cells' = Done!Published(cells, l)
      /\ UNCHANGED <<recordId, freeSlots, nextId, freeCells, refs, handle,
                     frames, open>>
  BY DEF Publish, index
<1>3. l # Done!NoLease /\ l \in Lease /\ l.cell \in Slots
  BY <1>1, <1>2 DEF ResultInv, LeaseKept, Lease
<1>4. /\ t \in TaskType /\ t.lease = l /\ t.step = "published"
  <2>1. st \in States /\ "published" \in Steps
    BY <1>1 DEF States, Steps, TaskType
  <2> HIDE DEF st
  <2> QED BY <1>1, <2>1 DEF TaskType
<1>5. task[s] # NoTask
  BY <1>2 DEF NoTask, Task
<1> HIDE DEF t
<1>6. /\ StepOf(cells, cells', l)
      /\ \A d \in Slots : cells'[d].outcome = cells[d].outcome
  <2> HIDE DEF l
  <2> QED BY <1>1, <1>2, <1>3, PublishedStep
<1>7. cells'[l.cell].outcome \in {cells[l.cell].outcome, Done!Failure, recordId[s]}
  BY <1>3, <1>6
<1> QED BY <1>2, <1>3, <1>4, <1>5, <1>6, <1>7, TaskStep

\* The sleepers on the cell are told before the record lets go of it.
LEMMA EndQuantumResult ==
    ASSUME ResultInv, NEW s \in Slots, EndQuantum(s)
    PROVE  ResultInv'
<1> DEFINE l == task[s].lease
           t == [task[s] EXCEPT !.step = "rest", !.lease = Done!NoLease]
<1>1. /\ cells \in [Slots -> CellType] /\ task[s] \in TaskType
      /\ task \in [Slots -> TaskType] /\ l \in Lease \cup {Done!NoLease}
  BY RecordFacts
<1>2. /\ RecordType /\ SlotsFree /\ OneOwner /\ LeaseKept /\ OutcomeOwn
      /\ SleeperKept
      /\ PoolInv(Done!Pool, TaskLeases \cup frames, HandleLeases, Base)
  BY DEF ResultInv
<1>3. /\ task[s].step = "published" /\ task' = [task EXCEPT ![s] = t]
      /\ handle' = Done!Notified(handle, cells, l)
      /\ frames' = frames \cup {l}
      /\ UNCHANGED <<recordId, freeSlots, nextId, cells, freeCells, refs, open>>
  BY DEF EndQuantum, index, pool
<1>4. l # Done!NoLease /\ l \in Lease /\ l.cell \in Slots
  BY <1>1, <1>2, <1>3 DEF LeaseKept, Lease
<1>5. t \in TaskType /\ t.lease = Done!NoLease /\ t.step = "rest"
  <2>1. "rest" \in Steps
    BY DEF Steps
  <2> QED BY <1>1, <2>1 DEF TaskType
<1> HIDE DEF t
<1>6. /\ task' \in [Slots -> TaskType] /\ task'[s] = t
      /\ \A u \in Slots : u # s => task'[u] = task[u]
  BY <1>1, <1>3, <1>5
<1>7. /\ handle' \in [Holders -> [lease : Lease \cup {Done!NoLease},
                                  asleep : BOOLEAN]]
      /\ \A h \in Holders :
           /\ handle'[h].lease = handle[h].lease
           /\ handle'[h].asleep =>
                /\ handle[h].asleep
                /\ handle[h].lease.cell = l.cell =>
                     ~Done!Terminal(cells[l.cell].phase)
  <2>1. handle \in [Holders -> [lease : Lease \cup {Done!NoLease},
                                asleep : BOOLEAN]]
    BY <1>2 DEF RecordType
  <2>2. handle' = [h \in Holders |->
          IF /\ handle[h].asleep /\ handle[h].lease.cell = l.cell
             /\ ~Done!Current(cells, handle[h].lease)
                  \/ Done!Terminal(cells[l.cell].phase)
          THEN [handle[h] EXCEPT !.asleep = FALSE] ELSE handle[h]]
    BY <1>3 DEF Done!Notified
  <2> HIDE DEF l
  <2> QED BY <2>1, <2>2
<1>8. PoolInv(Done!Pool, TaskLeases \cup frames, HandleLeases, Base)'
  <2>1. HandleLeases' = HandleLeases /\ Base' = Base /\ Done!Pool' = Done!Pool
    BY <1>3, <1>7 DEF HandleLeases, Base, Done!Pool
  <2>2. l \in TaskLeases
    BY <1>4 DEF TaskLeases
  <2>3. TaskLeases' \subseteq TaskLeases
    BY <1>5, <1>6 DEF TaskLeases
  <2>4. PICK Q : Q = (TaskLeases \cup frames)'
    OBVIOUS
  <2>5. Q \subseteq TaskLeases \cup frames
    BY <1>3, <2>2, <2>3, <2>4
  <2>6. PoolInv(Done!Pool, Q, HandleLeases, Base)
    BY <1>2, <2>5, FewerOwners
  <2> QED BY <2>1, <2>4, <2>6
<1>9. RecordType'
  BY <1>2, <1>3, <1>6, <1>7 DEF RecordType, TaskType
<1>10. SlotsFree'
  <2>1. s \notin Range(freeSlots) /\ \A u \in Range(freeSlots) : u \in Slots
    <3>1. task[s] # NoTask
      BY <1>3 DEF NoTask, Task
    <3> QED BY <1>2, <3>1 DEF SlotsFree, RecordType, Range
  <2> QED BY <1>2, <1>3, <1>6, <2>1 DEF SlotsFree
<1>11. OneOwner'
  <2>1. Done!NoLease \notin frames'
    <3>1. \A m \in frames : m \in Lease
      BY <1>2 DEF PoolInv, Owned
    <3>2. Done!NoLease \notin Lease
      BY DEF Done!NoLease, Lease, Slots
    <3> QED BY <1>3, <1>4, <3>1, <3>2
  <2>2. \A u \in Slots : task'[u].lease \notin frames'
    BY <1>2, <1>3, <1>4, <1>5, <1>6, <2>1 DEF OneOwner
  <2>3. \A u, v \in Slots : task'[u].lease = task'[v].lease
                            /\ task'[u].lease # Done!NoLease => u = v
    BY <1>2, <1>5, <1>6 DEF OneOwner
  <2>4. \A h, k \in Holders : handle'[h].lease = handle'[k].lease
                              /\ handle'[h].lease # Done!NoLease => h = k
    BY <1>2, <1>7 DEF OneOwner
  <2> QED BY <2>2, <2>3, <2>4 DEF OneOwner
<1>12. LeaseKept'
  BY <1>2, <1>5, <1>6 DEF LeaseKept
<1>13. OutcomeOwn'
  BY <1>2, <1>3, <1>5, <1>6 DEF OutcomeOwn
<1>14. SleeperKept'
  <2> SUFFICES ASSUME NEW h \in Holders, handle'[h].asleep
               PROVE  /\ handle'[h].lease # Done!NoLease
                      /\ \/ ~Done!Terminal(cells[handle'[h].lease.cell].phase)
                         \/ Published(handle[h].lease)'
    BY <1>3, <1>7 DEF SleeperKept, Published
  <2>1. /\ handle[h].asleep /\ handle'[h].lease = handle[h].lease
        /\ handle[h].lease.cell = l.cell => ~Done!Terminal(cells[l.cell].phase)
    BY <1>7
  <2>2. /\ handle[h].lease # Done!NoLease
        /\ ~Done!Terminal(cells[handle[h].lease.cell].phase)
             \/ Published(handle[h].lease)
    BY <1>2, <2>1 DEF SleeperKept
  <2>3. ASSUME handle[h].lease.cell # l.cell, Published(handle[h].lease)
        PROVE  Published(handle[h].lease)'
    <3>1. PICK u \in Slots : task[u].step = "published" /\ task[u].lease = handle[h].lease
      BY <2>3 DEF Published
    <3>2. u # s
      BY <2>3, <3>1
    <3> QED BY <1>6, <1>7, <3>1, <3>2 DEF Published
  <2> QED BY <2>1, <2>2, <2>3
<1> QED BY <1>8, <1>9, <1>10, <1>11, <1>12, <1>13, <1>14 DEF ResultInv

\* The lane lets go last; an observed cell keeps its phase and outcome.
LEMMA ReleaseFrameResult ==
    ASSUME ResultInv, ReleaseFrame
    PROVE  ResultInv'
<1>1. PICK l \in frames :
        /\ Done!Pool' = Done!ReleaseProducer(Done!Pool, l)
        /\ frames' = frames \ {l}
        /\ UNCHANGED <<recordId, freeSlots, nextId, handle, task, open>>
  <2>1. PICK l \in frames :
          LET p == Done!ReleaseProducer(Done!Pool, l)
          IN  /\ cells' = p.cells /\ freeCells' = p.free /\ refs' = p.refs
              /\ frames' = frames \ {l}
              /\ UNCHANGED <<index, queue, handle, task, open, left>>
    BY DEF ReleaseFrame
  <2> DEFINE p == Done!ReleaseProducer(Done!Pool, l)
  <2>2. p = [cells |-> p.cells, free |-> p.free, refs |-> p.refs]
    BY DEF Done!ReleaseProducer, Done!Recycle, Done!Pool
  <2> HIDE DEF p
  <2>3. Done!Pool' = p
    BY <2>1, <2>2 DEF Done!Pool, p
  <2> QED BY <2>1, <2>3 DEF index, p
<1>2. /\ RecordType /\ SlotsFree /\ OneOwner /\ LeaseKept /\ OutcomeOwn
      /\ SleeperKept
      /\ PoolInv(Done!Pool, TaskLeases \cup frames, HandleLeases, Base)
      /\ Base \in Int
  BY BaseType DEF ResultInv, RecordType
<1> DEFINE O == TaskLeases \cup frames
           q == Done!ReleaseProducer(Done!Pool, l)
<1>3. /\ PoolInv(q, O \ {l}, HandleLeases, Base)
      /\ \A d \in Slots : d # l.cell => q.cells[d] = cells[d]
      /\ (\E h \in HandleLeases : h.cell = l.cell) =>
            q.cells[l.cell].phase = cells[l.cell].phase
  <2>1. PICK P : P = Done!Pool
    OBVIOUS
  <2>2. /\ PoolInv(P, O, HandleLeases, Base) /\ Base \in Int /\ l \in O
        /\ P.cells = cells
    BY <1>2, <2>1, PoolFields
  <2> HIDE DEF O
  <2>3. LET r == Done!ReleaseProducer(P, l)
        IN  /\ PoolInv(r, O \ {l}, HandleLeases, Base)
            /\ \A d \in Slots : d # l.cell => r.cells[d] = P.cells[d]
            /\ (\E h \in HandleLeases : h.cell = l.cell) =>
                  r.cells[l.cell].phase = P.cells[l.cell].phase
    BY ONLY <2>2, ReleaseProducerInv
  <2> QED BY ONLY <2>1, <2>2, <2>3 DEF q
<1> HIDE DEF q
<1>4. cells' = q.cells
  BY <1>1, PoolFields DEF q
<1>5. l \in Lease /\ Done!Current(cells, l) /\ l.cell \in Slots
  BY <1>2, PoolFields DEF PoolInv, Owned, Lease
<1>6. PoolInv(Done!Pool, TaskLeases \cup frames, HandleLeases, Base)'
  <2>1. HandleLeases' = HandleLeases /\ Base' = Base /\ TaskLeases' = TaskLeases
    BY <1>1 DEF HandleLeases, Base, TaskLeases
  <2>2. l \notin TaskLeases
    BY <1>2 DEF OneOwner, TaskLeases
  <2>3. (TaskLeases \cup frames)' = O \ {l}
    BY <1>1, <2>1, <2>2
  <2> QED BY <1>1, <1>3, <2>1, <2>3 DEF q
<1>7. (RecordType /\ SlotsFree /\ OneOwner /\ LeaseKept)'
  BY <1>1, <1>2 DEF RecordType, SlotsFree, OneOwner, LeaseKept
<1>8. OutcomeOwn'
  <2> SUFFICES ASSUME NEW s \in Slots, task[s].lease # Done!NoLease
               PROVE  cells'[task[s].lease.cell].outcome
                        \in {Done!Pending, Done!Failure, recordId[s]}
    BY <1>1 DEF OutcomeOwn
  <2>1. task[s].lease \in TaskLeases /\ task[s].lease # l
    BY <1>2 DEF TaskLeases, OneOwner
  <2>2. /\ task[s].lease \in Lease /\ Done!Current(cells, task[s].lease)
        /\ task[s].lease.cell \in Slots
    BY <1>2, <2>1, PoolFields DEF PoolInv, Owned, Lease
  <2>3. task[s].lease.cell # l.cell
    BY <1>5, <2>1, <2>2, LeaseUnique
  <2> QED BY <1>2, <1>3, <1>4, <2>2, <2>3 DEF OutcomeOwn
<1>9. SleeperKept'
  <2> SUFFICES ASSUME NEW h \in Holders, handle[h].asleep
               PROVE  /\ handle[h].lease # Done!NoLease
                      /\ \/ ~Done!Terminal(cells'[handle[h].lease.cell].phase)
                         \/ Published(handle[h].lease)
    BY <1>1 DEF SleeperKept, Published
  <2>1. /\ handle[h].lease # Done!NoLease
        /\ ~Done!Terminal(cells[handle[h].lease.cell].phase)
             \/ Published(handle[h].lease)
    BY <1>2 DEF SleeperKept
  <2>2. handle[h].lease \in HandleLeases
    BY <2>1 DEF HandleLeases
  <2>3. handle[h].lease.cell \in Slots
    BY <1>2, <2>2 DEF PoolInv, Owned, Lease
  <2>4. cells'[handle[h].lease.cell].phase = cells[handle[h].lease.cell].phase
    BY <1>3, <1>4, <2>2, <2>3
  <2> QED BY <2>1, <2>4
<1> QED BY <1>6, <1>7, <1>8, <1>9 DEF ResultInv

\* A retired record goes back to the free slots without a lease.
LEMMA RetireResult ==
    ASSUME ResultInv, NEW s \in Slots, Retire(s)
    PROVE  ResultInv'
<1>1. /\ task[s].step = "rest" /\ task' = [task EXCEPT ![s] = NoTask]
      /\ recordId[s] # 0 /\ recordId' = [recordId EXCEPT ![s] = 0]
      /\ freeSlots' = <<s>> \o freeSlots
      /\ UNCHANGED <<nextId, cells, freeCells, refs, handle, frames, open>>
  BY DEF Retire, Ended, Idx!Retire, pool
<1>2. /\ RecordType /\ SlotsFree /\ OneOwner /\ LeaseKept /\ OutcomeOwn
      /\ SleeperKept
      /\ PoolInv(Done!Pool, TaskLeases \cup frames, HandleLeases, Base)
  BY DEF ResultInv
<1>3. NoTask \in TaskType /\ NoTask.lease = Done!NoLease /\ NoTask.step = "rest"
  BY DEF NoTask, Task, TaskType, States, Steps
<1>4. /\ task' \in [Slots -> TaskType] /\ task'[s] = NoTask
      /\ \A u \in Slots : u # s => task'[u] = task[u]
      /\ recordId' \in [Slots -> Nat] /\ recordId'[s] = 0
      /\ \A u \in Slots : u # s => recordId'[u] = recordId[u]
  BY <1>1, <1>2, <1>3 DEF RecordType, TaskType
<1>5. PoolInv(Done!Pool, TaskLeases \cup frames, HandleLeases, Base)'
  <2>1. HandleLeases' = HandleLeases /\ Base' = Base /\ Done!Pool' = Done!Pool
    BY <1>1 DEF HandleLeases, Base, Done!Pool
  <2>2. TaskLeases' \subseteq TaskLeases
    BY <1>3, <1>4 DEF TaskLeases
  <2>3. PICK Q : Q = (TaskLeases \cup frames)'
    OBVIOUS
  <2>4. Q \subseteq TaskLeases \cup frames
    BY <1>1, <2>2, <2>3
  <2>5. PoolInv(Done!Pool, Q, HandleLeases, Base)
    BY <1>2, <2>4, FewerOwners
  <2> QED BY <2>1, <2>3, <2>5
<1>6. /\ freeSlots' \in Seq(Slots) /\ IsInjective(freeSlots')
      /\ Range(freeSlots') = {s} \cup Range(freeSlots)
  <2> DEFINE F == freeSlots
             E == <<s>>
  <2>1. /\ F \in Seq(Slots) /\ E \in Seq(Slots) /\ IsInjective(F)
        /\ IsInjective(E) /\ Range(E) = {s} /\ Range(E) \cap Range(F) = {}
    BY <1>1, <1>2 DEF SlotsFree, RecordType, Range, IsInjective
  <2>2. freeSlots' = E \o F
    BY <1>1
  <2> HIDE DEF F, E
  <2>3. /\ E \o F \in Seq(Slots) /\ Range(E \o F) = Range(E) \cup Range(F)
        /\ IsInjective(E \o F)
    BY <2>1, ConcatOnce
  <2> QED BY <2>1, <2>2, <2>3 DEF F
<1>7. RecordType'
  BY <1>1, <1>2, <1>4, <1>6 DEF RecordType, TaskType
<1>8. SlotsFree'
  <2>1. \A u \in Range(freeSlots) : u \in Slots
    BY <1>2 DEF RecordType, Range
  <2> QED BY <1>2, <1>4, <1>6, <2>1 DEF SlotsFree
<1>9. OneOwner'
  <2>1. Done!NoLease \notin frames
    <3>1. \A m \in frames : m \in Lease
      BY <1>2 DEF PoolInv, Owned
    <3> QED BY <3>1 DEF Done!NoLease, Lease, Slots
  <2> QED BY <1>1, <1>2, <1>3, <1>4, <2>1 DEF OneOwner
<1>10. (LeaseKept /\ OutcomeOwn)'
  BY <1>1, <1>2, <1>3, <1>4 DEF LeaseKept, OutcomeOwn
<1>11. SleeperKept'
  <2>1. \A h \in Holders : Published(handle[h].lease) => Published(handle[h].lease)'
    BY <1>1, <1>4 DEF Published
  <2> QED BY <1>1, <1>2, <2>1 DEF SleeperKept
<1> QED BY <1>5, <1>7, <1>8, <1>9, <1>10, <1>11 DEF ResultInv

\* A spawn puts the record t, whose id is id, into the first free slot.
Records(s, id, t) ==
    /\ freeSlots # <<>> /\ s = Head(freeSlots)
    /\ task' = [task EXCEPT ![s] = t]
    /\ recordId' = [recordId EXCEPT ![s] = id]
    /\ freeSlots' = Tail(freeSlots) /\ nextId' = id + 1

\* The records after a spawn.
LEMMA SpawnRecord ==
    ASSUME ResultInv, NEW s, NEW id \in Nat \ {0}, NEW t \in TaskType,
           t.step = "rest", Records(s, id, t)
    PROVE  /\ s \in Slots /\ task[s] = NoTask
           /\ task' \in [Slots -> TaskType] /\ task'[s] = t
           /\ \A u \in Slots : u # s => task'[u] = task[u]
           /\ recordId' \in [Slots -> Nat] /\ recordId'[s] = id
           /\ \A u \in Slots : u # s => recordId'[u] = recordId[u]
           /\ freeSlots' \in Seq(Slots) /\ nextId' \in Nat \ {0}
           /\ SlotsFree' /\ LeaseKept'
<1> USE DEF Records
<1>1. RecordType /\ SlotsFree /\ LeaseKept
  BY DEF ResultInv
<1>2. /\ s \in Slots /\ Tail(freeSlots) \in Seq(Slots) /\ s \in Range(freeSlots)
      /\ Range(freeSlots) = Range(Tail(freeSlots)) \cup {s}
      /\ IsInjective(Tail(freeSlots)) /\ s \notin Range(Tail(freeSlots))
  BY <1>1, TailOnce DEF RecordType, SlotsFree
<1>3. task[s] = NoTask
  BY <1>1, <1>2 DEF SlotsFree
<1>4. /\ task' \in [Slots -> TaskType] /\ task'[s] = t
      /\ \A u \in Slots : u # s => task'[u] = task[u]
      /\ recordId' \in [Slots -> Nat] /\ recordId'[s] = id
      /\ \A u \in Slots : u # s => recordId'[u] = recordId[u]
  BY <1>1, <1>2 DEF RecordType, TaskType
<1>5. SlotsFree'
  <2>1. \A u \in Range(freeSlots) : u \in Slots
    BY <1>1 DEF RecordType, Range
  <2> QED BY <1>1, <1>2, <1>4, <2>1 DEF SlotsFree
<1>6. LeaseKept'
  BY <1>1, <1>4 DEF LeaseKept
<1> QED BY <1>2, <1>3, <1>4, <1>5, <1>6

\* A task that nobody observes.
LEMMA SpawnResult ==
    ASSUME ResultInv, Spawn
    PROVE  ResultInv'
<1> DEFINE t == Task("Ready", "rest", Done!NoLease)
<1>1. PICK gap \in Gaps :
        /\ Idx!Spawn(nextId + gap)
        /\ task' = [task EXCEPT ![Head(freeSlots)] = t]
  BY DEF Spawn
<1>2. PICK s : s = Head(freeSlots)
  OBVIOUS
<1>3. PICK id : id = nextId + gap
  OBVIOUS
<1>4. /\ freeSlots # <<>> /\ recordId' = [recordId EXCEPT ![s] = id]
      /\ freeSlots' = Tail(freeSlots) /\ nextId' = id + 1
      /\ task' = [task EXCEPT ![s] = t]
      /\ UNCHANGED <<cells, freeCells, refs, handle, frames, open>>
  BY <1>1, <1>2, <1>3 DEF Idx!Spawn, Spawn, pool
<1>5. /\ RecordType /\ SlotsFree /\ OneOwner /\ LeaseKept /\ OutcomeOwn
      /\ SleeperKept
      /\ PoolInv(Done!Pool, TaskLeases \cup frames, HandleLeases, Base)
  BY DEF ResultInv
<1>6. id \in Nat /\ id # 0
  <2>1. nextId \in Nat \ {0} /\ gap \in Nat
    BY <1>5, StorageAssumption DEF RecordType
  <2> QED BY <1>3, <2>1
<1>7. t \in TaskType /\ t.step = "rest" /\ t.lease = Done!NoLease
  BY DEF Task, TaskType, States, Steps
<1> HIDE DEF t
<1>8. /\ s \in Slots /\ task[s] = NoTask
      /\ task' \in [Slots -> TaskType] /\ task'[s] = t
      /\ \A u \in Slots : u # s => task'[u] = task[u]
      /\ recordId' \in [Slots -> Nat] /\ recordId'[s] = id
      /\ \A u \in Slots : u # s => recordId'[u] = recordId[u]
      /\ freeSlots' \in Seq(Slots) /\ nextId' \in Nat \ {0}
      /\ SlotsFree' /\ LeaseKept'
  <2>1. t \in TaskType /\ t.step = "rest"
    BY <1>7
  <2>2. Records(s, id, t)
    BY <1>2, <1>4 DEF Records
  <2>3. id \in Nat \ {0}
    BY <1>6
  <2> QED BY ONLY ResultInv, <2>1, <2>2, <2>3, SpawnRecord
<1>9. task[s].lease = Done!NoLease /\ task[s].step = "rest"
  BY <1>8 DEF NoTask, Task
<1>10. \A u \in Slots : task'[u].lease = task[u].lease
  BY <1>7, <1>8, <1>9
<1>11. PoolInv(Done!Pool, TaskLeases \cup frames, HandleLeases, Base)'
  <2>1. /\ HandleLeases' = HandleLeases /\ Base' = Base /\ Done!Pool' = Done!Pool
        /\ TaskLeases' = TaskLeases
    BY <1>4, <1>10 DEF HandleLeases, Base, Done!Pool, TaskLeases
  <2>2. (TaskLeases \cup frames)' = TaskLeases \cup frames
    BY <1>4, <2>1
  <2> QED BY <1>5, <2>1, <2>2
<1>12. RecordType'
  BY <1>4, <1>5, <1>8 DEF RecordType, TaskType
<1>13. OneOwner'
  BY <1>4, <1>5, <1>10 DEF OneOwner
<1>14. OutcomeOwn'
  BY <1>4, <1>5, <1>7, <1>8 DEF OutcomeOwn
<1>15. SleeperKept'
  <2>1. \A h \in Holders : Published(handle[h].lease) => Published(handle[h].lease)'
    BY <1>4, <1>8, <1>9 DEF Published
  <2> QED BY <1>4, <1>5, <2>1 DEF SleeperKept
<1> QED BY <1>8, <1>11, <1>12, <1>13, <1>14, <1>15 DEF ResultInv

\* A cell is claimed for the new record and its result handle at once.
LEMMA SpawnObservedResult ==
    ASSUME ResultInv, SpawnObserved
    PROVE  ResultInv'
<1> DEFINE c == Head(freeCells)
           l == [cell |-> c, gen |-> cells[c].gen]
<1>1. PICK k \in Holders :
        /\ handle[k] = Done!NoHandle /\ freeCells # <<>>
        /\ cells' = Done!Claimed(Done!Pool).cells
        /\ freeCells' = Done!Claimed(Done!Pool).free
        /\ refs' = Done!Claimed(Done!Pool).refs
        /\ handle' = [handle EXCEPT ![k].lease = l]
        /\ task' = [task EXCEPT ![Head(freeSlots)] = Task("Ready", "rest", l)]
        /\ Idx!Spawn(nextId) /\ UNCHANGED <<frames, open>>
  BY DEF SpawnObserved
<1>2. PICK s : s = Head(freeSlots)
  OBVIOUS
<1>3. PICK t : t = Task("Ready", "rest", l)
  OBVIOUS
<1>4. /\ freeSlots # <<>> /\ recordId' = [recordId EXCEPT ![s] = nextId]
      /\ freeSlots' = Tail(freeSlots) /\ nextId' = nextId + 1
      /\ task' = [task EXCEPT ![s] = t]
  BY <1>1, <1>2, <1>3 DEF Idx!Spawn
<1>5. /\ RecordType /\ SlotsFree /\ OneOwner /\ LeaseKept /\ OutcomeOwn
      /\ SleeperKept
      /\ PoolInv(Done!Pool, TaskLeases \cup frames, HandleLeases, Base)
      /\ Base \in Int
  BY BaseType DEF ResultInv, RecordType
<1> DEFINE O == TaskLeases \cup frames
           q == Done!Claimed(Done!Pool)
<1>6. /\ PoolInv(q, O \cup {l}, HandleLeases \cup {l}, Base)
      /\ l \in Lease /\ l \notin O /\ l \notin HandleLeases
      /\ cells[c].phase = "Idle"
  BY <1>1, <1>5, ClaimInv, PoolFields
<1> HIDE DEF l
<1>7. Done!Pool' = q
  <2>1. q = [cells |-> q.cells, free |-> q.free, refs |-> q.refs]
    BY DEF Done!Claimed
  <2> HIDE DEF q
  <2> QED BY <1>1, <2>1 DEF Done!Pool, q
<1>8. /\ l.cell = c /\ c \in Slots /\ l # Done!NoLease
      /\ cells \in [Slots -> CellType]
  <2>1. l.cell \in Slots /\ l.cell = c
    BY <1>1, <1>6 DEF Lease, l
  <2> QED BY <1>5, <2>1, PoolFields DEF Done!NoLease, Slots, PoolInv, PoolType
<1>9. /\ cells'[c].outcome = Done!Pending /\ cells'[c].phase = "Ready"
      /\ \A d \in Slots : d # c => cells'[d] = cells[d]
  <2>1. cells' = [cells EXCEPT ![c].phase = "Ready", ![c].outcome = Done!Pending,
                               ![c].observers = 1, ![c].producer = TRUE]
    BY <1>1, PoolFields DEF Done!Claimed
  <2> HIDE DEF c
  <2>2. cells'[c] = [cells[c] EXCEPT !.phase = "Ready", !.outcome = Done!Pending,
                               !.observers = 1, !.producer = TRUE]
    BY <1>8, <2>1
  <2>3. cells[c] \in CellType
    BY <1>8
  <2> QED BY <1>8, <2>1, <2>2, <2>3 DEF CellType
<1> HIDE DEF q, c
<1>10. \A m \in O \cup HandleLeases : m.cell # c
  BY <1>5, <1>6, PoolFields DEF PoolInv, Owned, Done!Current
<1>11. t \in TaskType /\ t.step = "rest" /\ t.lease = l
  BY <1>3, <1>6 DEF Task, TaskType, States, Steps
<1>12. nextId \in Nat \ {0}
  BY <1>5 DEF RecordType
<1>13. /\ s \in Slots /\ task[s] = NoTask
       /\ task' \in [Slots -> TaskType] /\ task'[s] = t
       /\ \A u \in Slots : u # s => task'[u] = task[u]
       /\ recordId' \in [Slots -> Nat] /\ recordId'[s] = nextId
       /\ \A u \in Slots : u # s => recordId'[u] = recordId[u]
       /\ freeSlots' \in Seq(Slots) /\ nextId' \in Nat \ {0}
       /\ SlotsFree' /\ LeaseKept'
  <2>1. t \in TaskType /\ t.step = "rest"
    BY <1>11
  <2>2. Records(s, nextId, t)
    BY <1>2, <1>4 DEF Records
  <2> QED BY ONLY ResultInv, <1>12, <2>1, <2>2, SpawnRecord
<1>14. task[s].lease = Done!NoLease /\ task[s].step = "rest"
  BY <1>13 DEF NoTask, Task
<1>15. /\ handle' \in [Holders -> [lease : Lease \cup {Done!NoLease},
                                   asleep : BOOLEAN]]
       /\ handle'[k].lease = l /\ ~handle'[k].asleep
       /\ \A h \in Holders : h # k => handle'[h] = handle[h]
       /\ handle[k].lease = Done!NoLease
  <2>1. handle \in [Holders -> [lease : Lease \cup {Done!NoLease},
                                asleep : BOOLEAN]]
    BY <1>5 DEF RecordType
  <2>2. handle[k].lease = Done!NoLease /\ handle[k].asleep = FALSE
    BY <1>1 DEF Done!NoHandle
  <2>3. l \in Lease \cup {Done!NoLease}
    BY <1>6
  <2> QED BY <1>1, <2>1, <2>2, <2>3
<1>16. PoolInv(Done!Pool, TaskLeases \cup frames, HandleLeases, Base)'
  <2>1. Base' = Base
    BY <1>1 DEF Base
  <2>2. HandleLeases' = HandleLeases \cup {l}
    <3>1. \A x : x \in HandleLeases' <=>
             x # Done!NoLease /\ \E h \in Holders : x = handle'[h].lease
      BY DEF HandleLeases
    <3>2. \A x : x \in HandleLeases <=>
             x # Done!NoLease /\ \E h \in Holders : x = handle[h].lease
      BY DEF HandleLeases
    <3> QED BY <1>8, <1>15, <3>1, <3>2
  <2>3. TaskLeases' = TaskLeases \cup {l}
    <3>1. \A x : x \in TaskLeases' <=>
             x # Done!NoLease /\ \E u \in Slots : x = task'[u].lease
      BY DEF TaskLeases
    <3>2. \A x : x \in TaskLeases <=>
             x # Done!NoLease /\ \E u \in Slots : x = task[u].lease
      BY DEF TaskLeases
    <3>3. l # Done!NoLease /\ s \in Slots /\ task'[s].lease = l
          /\ task[s].lease = Done!NoLease
      BY <1>8, <1>11, <1>13, <1>14
    <3>4. \A u \in Slots : u # s => task'[u].lease = task[u].lease
      BY <1>13
    <3> QED BY ONLY <3>1, <3>2, <3>3, <3>4
  <2>4. (TaskLeases \cup frames)' = O \cup {l}
    BY <1>1, <2>3
  <2> QED BY <1>6, <1>7, <2>1, <2>2, <2>4
<1>17. RecordType'
  BY <1>1, <1>5, <1>13, <1>15 DEF RecordType, TaskType
<1>18. OneOwner'
  <2>1. \A u \in Slots : task[u].lease # l
    BY <1>6, <1>8 DEF TaskLeases
  <2>2. \A h \in Holders : handle[h].lease # l
    BY <1>6, <1>8 DEF HandleLeases
  <2>3. l \notin frames
    BY <1>6
  <2>4. \A u, v \in Slots : task'[u].lease = task'[v].lease
                            /\ task'[u].lease # Done!NoLease => u = v
    BY <1>5, <1>11, <1>13, <2>1 DEF OneOwner
  <2>5. \A u \in Slots : task'[u].lease \notin frames'
    BY <1>1, <1>5, <1>11, <1>13, <2>3 DEF OneOwner
  <2>6. \A h, j \in Holders : handle'[h].lease = handle'[j].lease
                              /\ handle'[h].lease # Done!NoLease => h = j
    BY <1>5, <1>15, <2>2 DEF OneOwner
  <2> QED BY <2>4, <2>5, <2>6 DEF OneOwner
<1>19. OutcomeOwn'
  <2> SUFFICES ASSUME NEW u \in Slots, task'[u].lease # Done!NoLease
               PROVE  cells'[task'[u].lease.cell].outcome
                        \in {Done!Pending, Done!Failure, recordId'[u]}
    BY DEF OutcomeOwn
  <2>1. CASE u = s
    BY <1>8, <1>9, <1>11, <1>13, <2>1
  <2>2. CASE u # s
    <3>1. task[u].lease \in O /\ task[u].lease # Done!NoLease
          /\ task[u].lease.cell \in Slots
      BY <1>5, <1>13, <2>2 DEF TaskLeases, PoolInv, Owned, Lease
    <3>2. task'[u] = task[u] /\ recordId'[u] = recordId[u]
      BY <1>13, <2>2
    <3>3. task[u].lease.cell # c
      BY <1>10, <3>1
    <3>4. cells'[task[u].lease.cell] = cells[task[u].lease.cell]
      BY <1>9, <3>1, <3>3
    <3>5. cells[task[u].lease.cell].outcome
            \in {Done!Pending, Done!Failure, recordId[u]}
      BY <1>5, <3>1 DEF OutcomeOwn
    <3> QED BY ONLY <3>2, <3>4, <3>5
  <2> QED BY <2>1, <2>2
<1>20. SleeperKept'
  <2> SUFFICES ASSUME NEW h \in Holders, handle'[h].asleep
               PROVE  /\ handle'[h].lease # Done!NoLease
                      /\ \/ ~Done!Terminal(cells'[handle'[h].lease.cell].phase)
                         \/ Published(handle[h].lease)'
    BY DEF SleeperKept
  <2>1. h # k /\ handle'[h] = handle[h]
    BY <1>15
  <2>2. /\ handle[h].lease # Done!NoLease
        /\ ~Done!Terminal(cells[handle[h].lease.cell].phase)
             \/ Published(handle[h].lease)
    BY <1>5, <2>1 DEF SleeperKept
  <2>3. handle[h].lease \in HandleLeases /\ handle[h].lease.cell \in Slots
    <3>1. handle[h].lease \in HandleLeases
      BY <2>2 DEF HandleLeases
    <3> QED BY <1>5, <3>1 DEF PoolInv, Owned, Lease
  <2>4. Published(handle[h].lease) => Published(handle[h].lease)'
    BY <1>13, <1>14, <2>1 DEF Published
  <2> QED BY <1>9, <1>10, <2>1, <2>2, <2>3, <2>4
<1> QED BY <1>13, <1>16, <1>17, <1>18, <1>19, <1>20 DEF ResultInv

\* wait: on a cell that has not ended.
LEMMA ObserverWaitsResult ==
    ASSUME ResultInv, ObserverWaits
    PROVE  ResultInv'
<1>1. PICK k \in Holders :
        /\ handle[k].lease # Done!NoLease
        /\ ~Done!Terminal(cells[handle[k].lease.cell].phase)
        /\ handle' = [handle EXCEPT ![k].asleep = TRUE]
        /\ UNCHANGED <<recordId, freeSlots, nextId, cells, freeCells, refs,
                       task, frames, open>>
  BY DEF ObserverWaits, Done!Sleeps, index
<1>2. /\ RecordType /\ SlotsFree /\ OneOwner /\ LeaseKept /\ OutcomeOwn
      /\ SleeperKept
      /\ PoolInv(Done!Pool, TaskLeases \cup frames, HandleLeases, Base)
  BY DEF ResultInv
<1>3. /\ handle' \in [Holders -> [lease : Lease \cup {Done!NoLease},
                                  asleep : BOOLEAN]]
      /\ \A h \in Holders : /\ handle'[h].lease = handle[h].lease
                            /\ h # k => handle'[h] = handle[h]
  BY <1>1, <1>2 DEF RecordType
<1>4. PoolInv(Done!Pool, TaskLeases \cup frames, HandleLeases, Base)'
  <2>1. /\ HandleLeases' = HandleLeases /\ Base' = Base /\ Done!Pool' = Done!Pool
        /\ TaskLeases' = TaskLeases
    BY <1>1, <1>3 DEF HandleLeases, Base, Done!Pool, TaskLeases
  <2>2. (TaskLeases \cup frames)' = TaskLeases \cup frames
    BY <1>1, <2>1
  <2> QED BY <1>2, <2>1, <2>2
<1>5. (RecordType /\ SlotsFree /\ OneOwner /\ LeaseKept /\ OutcomeOwn)'
  BY <1>1, <1>2, <1>3
     DEF RecordType, SlotsFree, OneOwner, LeaseKept, OutcomeOwn
<1>6. SleeperKept'
  <2> SUFFICES ASSUME NEW h \in Holders, handle'[h].asleep
               PROVE  /\ handle'[h].lease # Done!NoLease
                      /\ \/ ~Done!Terminal(cells'[handle'[h].lease.cell].phase)
                         \/ Published(handle[h].lease)'
    BY DEF SleeperKept
  <2>1. CASE h = k
    BY <1>1, <1>3, <2>1
  <2>2. CASE h # k
    <3>1. handle'[h] = handle[h]
      BY <1>3, <2>2
    <3>2. /\ handle[h].lease # Done!NoLease
          /\ ~Done!Terminal(cells[handle[h].lease.cell].phase)
               \/ Published(handle[h].lease)
      BY <1>2, <3>1 DEF SleeperKept
    <3>3. Published(handle[h].lease) => Published(handle[h].lease)'
      BY <1>1, <3>1 DEF Published
    <3> QED BY <1>1, <3>1, <3>2, <3>3
  <2> QED BY <2>1, <2>2
<1> QED BY <1>4, <1>5, <1>6 DEF ResultInv

\* The end of a handle: a cell its producer still has keeps phase and outcome.
LEMMA ObserverLeavesResult ==
    ASSUME ResultInv, ObserverLeaves
    PROVE  ResultInv'
<1>1. PICK k \in Holders :
        /\ handle[k].lease # Done!NoLease
        /\ Done!Pool' = Done!ReleaseObserver(Done!Pool, handle[k].lease)
        /\ handle' = [handle EXCEPT ![k] = Done!NoHandle]
        /\ UNCHANGED <<recordId, freeSlots, nextId, task, frames, open>>
  <2>1. PICK k \in Holders : Done!DropHandle(k)
    BY DEF ObserverLeaves
  <2> DEFINE p == Done!ReleaseObserver(Done!Pool, handle[k].lease)
  <2>2. p = [cells |-> p.cells, free |-> p.free, refs |-> p.refs]
    BY DEF Done!ReleaseObserver, Done!Recycle, Done!Pool
  <2>3. cells' = p.cells /\ freeCells' = p.free /\ refs' = p.refs
    BY <2>1 DEF Done!DropHandle
  <2> HIDE DEF p
  <2>4. Done!Pool' = p
    BY <2>2, <2>3 DEF Done!Pool
  <2> QED BY <2>1, <2>4 DEF ObserverLeaves, Done!DropHandle, index, p
<1>2. /\ RecordType /\ SlotsFree /\ OneOwner /\ LeaseKept /\ OutcomeOwn
      /\ SleeperKept
      /\ PoolInv(Done!Pool, TaskLeases \cup frames, HandleLeases, Base)
      /\ Base \in Int
  BY BaseType DEF ResultInv, RecordType
<1> DEFINE O == TaskLeases \cup frames
           l == handle[k].lease
           q == Done!ReleaseObserver(Done!Pool, l)
<1>3. l \in HandleLeases
  BY <1>1 DEF HandleLeases
<1> HIDE DEF l
<1>4. /\ PoolInv(q, O, HandleLeases \ {l}, Base)
      /\ \A d \in Slots : d # l.cell => q.cells[d] = cells[d]
      /\ (\E o \in O : o.cell = l.cell) =>
            /\ q.cells[l.cell].phase = cells[l.cell].phase
            /\ q.cells[l.cell].outcome = cells[l.cell].outcome
  BY <1>2, <1>3, ReleaseObserverInv, PoolFields
<1> HIDE DEF q
<1>5. cells' = q.cells /\ Done!Pool' = q
  BY <1>1, PoolFields DEF q, l
<1>6. l \in Lease /\ Done!Current(cells, l) /\ l.cell \in Slots /\ l # Done!NoLease
  BY <1>1, <1>2, <1>3, PoolFields DEF PoolInv, Owned, Lease, l
<1>7. /\ handle' \in [Holders -> [lease : Lease \cup {Done!NoLease},
                                  asleep : BOOLEAN]]
      /\ handle'[k].lease = Done!NoLease /\ ~handle'[k].asleep
      /\ \A h \in Holders : h # k => handle'[h] = handle[h]
  <2>1. Done!NoHandle \in [lease : Lease \cup {Done!NoLease}, asleep : BOOLEAN]
        /\ Done!NoHandle.lease = Done!NoLease /\ Done!NoHandle.asleep = FALSE
    BY DEF Done!NoHandle
  <2> QED BY <1>1, <1>2, <2>1 DEF RecordType
<1>8. PoolInv(Done!Pool, TaskLeases \cup frames, HandleLeases, Base)'
  <2>1. Base' = Base /\ TaskLeases' = TaskLeases
    BY <1>1 DEF Base, TaskLeases
  <2>2. HandleLeases' = HandleLeases \ {l}
    <3>1. \A x : x \in HandleLeases' <=>
             x # Done!NoLease /\ \E h \in Holders : x = handle'[h].lease
      BY DEF HandleLeases
    <3>2. \A x : x \in HandleLeases <=>
             x # Done!NoLease /\ \E h \in Holders : x = handle[h].lease
      BY DEF HandleLeases
    <3>3. \A h \in Holders : h # k => handle[h].lease # l
      BY <1>2, <1>6 DEF OneOwner, l
    <3> QED BY <1>7, <3>1, <3>2, <3>3 DEF l
  <2>3. (TaskLeases \cup frames)' = O
    BY <1>1, <2>1
  <2> QED BY <1>4, <1>5, <2>1, <2>2, <2>3
<1>9. (RecordType /\ SlotsFree /\ LeaseKept)'
  BY <1>1, <1>2, <1>7 DEF RecordType, SlotsFree, LeaseKept
<1>10. OneOwner'
  BY <1>1, <1>2, <1>7 DEF OneOwner
<1>11. OutcomeOwn'
  <2> SUFFICES ASSUME NEW s \in Slots, task[s].lease # Done!NoLease
               PROVE  cells'[task[s].lease.cell].outcome
                        \in {Done!Pending, Done!Failure, recordId[s]}
    BY <1>1 DEF OutcomeOwn
  <2>1. task[s].lease \in O
    BY DEF TaskLeases
  <2>2. task[s].lease.cell \in Slots
    BY <1>2, <2>1 DEF PoolInv, Owned, Lease
  <2>3. cells'[task[s].lease.cell].outcome = cells[task[s].lease.cell].outcome
    BY <1>4, <1>5, <2>1, <2>2
  <2> QED BY <1>2, <2>3 DEF OutcomeOwn
<1>12. SleeperKept'
  <2> SUFFICES ASSUME NEW h \in Holders, handle'[h].asleep
               PROVE  /\ handle'[h].lease # Done!NoLease
                      /\ \/ ~Done!Terminal(cells'[handle'[h].lease.cell].phase)
                         \/ Published(handle[h].lease)'
    BY DEF SleeperKept
  <2>1. h # k /\ handle'[h] = handle[h]
    BY <1>7
  <2>2. /\ handle[h].lease # Done!NoLease
        /\ ~Done!Terminal(cells[handle[h].lease.cell].phase)
             \/ Published(handle[h].lease)
    BY <1>2, <2>1 DEF SleeperKept
  <2>3. handle[h].lease \in HandleLeases
    BY <2>2 DEF HandleLeases
  <2>4. handle[h].lease \in Lease /\ Done!Current(cells, handle[h].lease)
        /\ handle[h].lease.cell \in Slots
    BY <1>2, <2>3, PoolFields DEF PoolInv, Owned, Lease
  <2>5. handle[h].lease # l
    BY <1>2, <1>6, <2>1 DEF OneOwner, l
  <2>6. handle[h].lease.cell # l.cell
    BY <1>6, <2>4, <2>5, LeaseUnique
  <2>7. Published(handle[h].lease) => Published(handle[h].lease)'
    BY <1>1, <2>1 DEF Published
  <2> QED BY <1>4, <1>5, <2>1, <2>2, <2>4, <2>6, <2>7
<1> QED BY <1>8, <1>9, <1>10, <1>11, <1>12 DEF ResultInv

\* Reset: the loop over the records releases every lease they hold.
LEMMA ResetResult ==
    ASSUME ResultInv, Reset
    PROVE  ResultInv'
<1>1. /\ RecordType /\ SlotsFree /\ OneOwner /\ LeaseKept /\ OutcomeOwn
      /\ SleeperKept
      /\ PoolInv(Done!Pool, TaskLeases \cup frames, HandleLeases, Base)
  BY DEF ResultInv
<1> DEFINE q == Destroyed[TaskCapacity]
           notified(h) == \E s \in Slots :
             task[s].lease # Done!NoLease
               /\ handle[h].lease.cell = task[s].lease.cell
<1>2. /\ open /\ frames = {} /\ \A s \in Slots : task[s].step = "rest"
      /\ open' = FALSE /\ frames' = {}
      /\ recordId' = [s \in Slots |-> 0] /\ freeSlots' = [s \in Slots |-> s]
      /\ nextId' = 1 /\ task' = [s \in Slots |-> NoTask]
      /\ cells' = q.cells /\ freeCells' = q.free /\ refs' = q.refs - 1
      /\ handle' = [h \in Holders |->
                      IF notified(h) THEN [handle[h] EXCEPT !.asleep = FALSE]
                      ELSE handle[h]]
  BY DEF Reset, Idx!Clear, Idx!RecordSlots, Slots
<1> DEFINE L == [s \in Slots |-> task[s].lease]
<1>3. /\ L \in [Slots -> Lease \cup {Done!NoLease}]
      /\ \A s \in Slots : L[s] = task[s].lease
      /\ \A s, t \in Slots : L[s] = L[t] /\ L[s] # Done!NoLease => s = t
  BY <1>1 DEF RecordType, OneOwner
<1> HIDE DEF L, q
<1>4. LeasesAfter(L, 0) = TaskLeases \cup frames
  <2>1. Slots = (0 + 1)..TaskCapacity
    BY DEF Slots
  <2>2. LeasesAfter(L, 0) = {L[s] : s \in Slots} \ {Done!NoLease}
    BY <2>1 DEF LeasesAfter
  <2>3. {L[s] : s \in Slots} = {task[s].lease : s \in Slots}
    BY <1>3
  <2> QED BY <1>2, <2>2, <2>3 DEF TaskLeases
<1>5. Base = 1 /\ Base' = 0
  BY <1>2 DEF Base
<1>6. PoolInv(Done!Pool, LeasesAfter(L, 0), HandleLeases, Base) /\ Base \in Int
  BY <1>1, <1>4, <1>5
<1>7. DestroysEach(Destroyed, L, Done!Pool)
  BY <1>3, <1>6, DestroyedLoop
<1>8. /\ PoolInv(q, LeasesAfter(L, TaskCapacity), HandleLeases, Base)
      /\ \A d \in Slots : (\A s \in Slots : L[s].cell # d) =>
             q.cells[d] = cells[d]
  <2>1. TaskCapacity \in 0..TaskCapacity
    BY StorageAssumption
  <2>2. \A n \in 0..TaskCapacity :
          /\ PoolInv(Destroyed[n], LeasesAfter(L, n), HandleLeases, Base)
          /\ \A d \in Slots : (\A s \in Slots : L[s].cell # d) =>
                Destroyed[n].cells[d] = Done!Pool.cells[d]
    BY <1>3, <1>6, <1>7, LoopInv
  <2> QED BY <2>1, <2>2, PoolFields DEF q
<1>9. /\ handle' \in [Holders -> [lease : Lease \cup {Done!NoLease},
                                  asleep : BOOLEAN]]
      /\ \A h \in Holders :
           /\ handle'[h].lease = handle[h].lease
           /\ handle'[h].asleep => handle[h].asleep /\ ~notified(h)
  <2>1. handle \in [Holders -> [lease : Lease \cup {Done!NoLease},
                                asleep : BOOLEAN]]
    BY <1>1 DEF RecordType
  <2> HIDE DEF notified
  <2> QED BY <1>2, <2>1
<1>10. PoolInv(Done!Pool, TaskLeases \cup frames, HandleLeases, Base)'
  <2>1. LeasesAfter(L, TaskCapacity) = {}
    <3>1. (TaskCapacity + 1)..TaskCapacity = {}
      BY StorageAssumption
    <3> QED BY <3>1 DEF LeasesAfter
  <2>2. TaskLeases' = {} /\ HandleLeases' = HandleLeases
    BY <1>2, <1>9 DEF TaskLeases, HandleLeases, NoTask, Task
  <2>3. PICK w : w = [cells |-> q.cells, free |-> q.free, refs |-> q.refs - 1]
    OBVIOUS
  <2>4. Done!Pool' = w
    BY <1>2, <2>3 DEF Done!Pool
  <2>5. PoolInv(w, {}, HandleLeases, 0)
    <3>1. /\ q \in [cells : [Slots -> CellType], free : Seq(Slots), refs : Int]
          /\ FreeList(q) /\ Owned(q.cells, {}, HandleLeases) /\ Counted(q, 1)
      BY <1>5, <1>8, <2>1 DEF PoolInv, PoolType
    <3>2. w.cells = q.cells /\ w.free = q.free /\ w.refs = q.refs - 1
      BY <2>3
    <3>3. PoolType(w)
      <4>1. /\ q.cells \in [Slots -> CellType] /\ q.free \in Seq(Slots)
            /\ q.refs - 1 \in Int
        BY <3>1
      <4> QED BY ONLY <2>3, <4>1 DEF PoolType
    <3>4. FreeList(w) /\ Owned(w.cells, {}, HandleLeases)
      BY <3>1, <3>2 DEF FreeList
    <3>5. Counted(w, 0)
      BY <3>1, <3>2, CountsFinite DEF Counted
    <3> QED BY <3>3, <3>4, <3>5 DEF PoolInv
  <2>6. (TaskLeases \cup frames)' = {}
    BY <1>2, <2>2
  <2> QED BY <1>5, <2>2, <2>4, <2>5, <2>6
<1>11. RecordType' /\ SlotsFree'
  <2>1. NoTask \in TaskType
    BY DEF NoTask, Task, TaskType, States, Steps
  <2>2. [s \in Slots |-> s] \in Seq(Slots) /\ IsInjective([s \in Slots |-> s])
        /\ Range([s \in Slots |-> s]) = Slots
    BY StorageAssumption DEF Slots, IsInjective, Range
  <2>3. RecordType'
    <3>1. /\ recordId' \in [Slots -> Nat] /\ nextId' \in Nat \ {0}
          /\ open' \in BOOLEAN
      <4>1. /\ recordId' = [s \in Slots |-> 0] /\ nextId' = 1 /\ open' = FALSE
        BY <1>2
      <4>2. recordId' \in [Slots -> Nat]
        BY <4>1
      <4>3. nextId' \in Nat \ {0}
        BY <4>1
      <4>4. open' \in BOOLEAN
        BY <4>1
      <4> QED BY <4>2, <4>3, <4>4
    <3>2. task' \in [Slots -> TaskType]
      BY <1>2, <2>1
    <3>3. freeSlots' \in Seq(Slots)
      BY <1>2, <2>2
    <3> QED BY <1>9, <3>1, <3>2, <3>3 DEF RecordType, TaskType
  <2>4. SlotsFree'
    BY <1>2, <2>2 DEF SlotsFree
  <2> QED BY <2>3, <2>4
<1>12. (OneOwner /\ LeaseKept /\ OutcomeOwn)'
  <2>1. \A s \in Slots : task'[s].lease = Done!NoLease /\ task'[s].step = "rest"
    BY <1>2 DEF NoTask, Task
  <2> QED BY <1>1, <1>2, <1>9, <2>1 DEF OneOwner, LeaseKept, OutcomeOwn
<1>13. SleeperKept'
  <2> SUFFICES ASSUME NEW h \in Holders, handle'[h].asleep
               PROVE  /\ handle'[h].lease # Done!NoLease
                      /\ ~Done!Terminal(cells'[handle'[h].lease.cell].phase)
    BY DEF SleeperKept
  <2>1. /\ handle[h].asleep /\ ~notified(h) /\ handle'[h].lease = handle[h].lease
    BY <1>9
  <2>2. /\ handle[h].lease # Done!NoLease
        /\ ~Done!Terminal(cells[handle[h].lease.cell].phase)
    BY <1>1, <1>2, <2>1 DEF SleeperKept, Published
  <2>3. handle[h].lease.cell \in Slots
    <3>1. handle[h].lease \in HandleLeases
      BY <2>2 DEF HandleLeases
    <3> QED BY <1>1, <3>1 DEF PoolInv, Owned, Lease
  <2>4. \A s \in Slots : L[s].cell # handle[h].lease.cell
    <3> SUFFICES ASSUME NEW s \in Slots PROVE L[s].cell # handle[h].lease.cell
      OBVIOUS
    <3>1. CASE task[s].lease = Done!NoLease
      BY <1>3, <2>3, <3>1 DEF Done!NoLease, Slots
    <3>2. CASE task[s].lease # Done!NoLease
      BY <1>3, <2>1, <3>2
    <3> QED BY <3>1, <3>2
  <2>5. cells'[handle[h].lease.cell] = cells[handle[h].lease.cell]
    BY <1>2, <1>8, <2>3, <2>4
  <2> QED BY <2>1, <2>2, <2>5
<1> QED BY <1>10, <1>11, <1>12, <1>13 DEF ResultInv

\* Every step keeps the invariant.
LEMMA NextResult ==
    ASSUME ResultInv, [Next]_vars
    PROVE  ResultInv'
<1>1. CASE Pick
  BY <1>1, Unseen DEF Pick, index, pool
<1>2. ASSUME NEW s \in Slots, Restore(s) PROVE ResultInv'
  BY <1>2, Unseen DEF Restore, index, pool
<1>3. CASE UNCHANGED vars
  BY <1>3, Unseen DEF vars, index, pool
<1> QED
  BY <1>1, <1>2, <1>3, SpawnResult, SpawnObservedResult, ResumeResult,
     SuspendResult, WakeResult, FinishResult, CommitResult, FailBodyResult,
     PublishResult, EndQuantumResult, RetireResult, ReleaseFrameResult,
     ResetResult, ObserverWaitsResult, ObserverLeavesResult
  DEF Next

\* The pool, its two kinds of owners and the sleepers fit together in every
\* reachable state.
THEOREM Inductive == Spec => []ResultInv
BY InitResult, NextResult, PTL DEF Spec

-----------------------------------------------------------------------------
(* The cell follows its task.                                              *)

\* The cell of a quantum that has no outcome, or not yet.
Open(cell) == cell.phase = "Running" /\ cell.outcome = Done!Pending

\* What the cell of a record says of it.
Fits(t, cell) ==
    \/ /\ t.step = "rest" /\ t.state \in {"Ready", "Blocked"}
       /\ cell.phase \in {"Ready", "Parked"} /\ cell.outcome = Done!Pending
    \/ t.step = "body" /\ Open(cell)
    \/ /\ t.step = "prepared"
       /\ Open(cell) \/ (cell.phase = "Committing" /\ cell.outcome # Done!Pending)
    \/ t.step = "published" /\ (Open(cell) \/ Done!Terminal(cell.phase))

\* A record with a completion has an id, and its cell is in step with it.
InStep ==
    \A s \in Slots : task[s].lease # Done!NoLease =>
        recordId[s] # 0 /\ Fits(task[s], cells[task[s].lease.cell])

\* The task of a handle has not ended, or its end can be read, or its last
\* quantum had no outcome.
Awaited(l) ==
    \/ Done!Terminal(cells[l.cell].phase)
    \/ \E s \in Slots : task[s].lease = l
    \/ Open(cells[l.cell])
HandlesAwait ==
    \A h \in Holders : handle[h].lease # Done!NoLease => Awaited(handle[h].lease)

StepInv == InStep /\ HandlesAwait

\* The leases of records and handles are of cells in use, and two records, a
\* record and a lane, or a record and the handle of another have two cells.
LEMMA LeaseFacts ==
    ASSUME ResultInv
    PROVE  /\ \A s \in Slots : task[s].lease # Done!NoLease =>
                /\ task[s].lease \in Lease /\ task[s].lease.cell \in Slots
                /\ Done!Current(cells, task[s].lease)
           /\ \A h \in Holders : handle[h].lease # Done!NoLease =>
                /\ handle[h].lease \in Lease /\ handle[h].lease.cell \in Slots
                /\ Done!Current(cells, handle[h].lease)
           /\ \A l \in frames : l \in Lease /\ l.cell \in Slots
                                /\ Done!Current(cells, l)
<1>1. PoolInv(Done!Pool, TaskLeases \cup frames, HandleLeases, Base)
  BY DEF ResultInv
<1>2. \A l \in TaskLeases \cup frames \cup HandleLeases :
         l \in Lease /\ Done!Current(cells, l)
  BY <1>1, PoolFields DEF PoolInv, Owned
<1>3. \A l \in Lease : l.cell \in Slots
  BY DEF Lease
<1>4. \A s \in Slots : task[s].lease # Done!NoLease => task[s].lease \in TaskLeases
  BY DEF TaskLeases
<1>5. \A h \in Holders : handle[h].lease # Done!NoLease =>
          handle[h].lease \in HandleLeases
  BY DEF HandleLeases
<1> QED BY <1>2, <1>3, <1>4, <1>5

LEMMA OtherCell ==
    ASSUME ResultInv, NEW s \in Slots, NEW u \in Slots, s # u,
           task[s].lease # Done!NoLease, task[u].lease # Done!NoLease
    PROVE  task[s].lease.cell # task[u].lease.cell
<1>1. OneOwner
  BY DEF ResultInv
<1> QED BY <1>1, LeaseFacts, LeaseUnique DEF OneOwner

\* A step on one record and its cell.
LEMMA StepInStep ==
    ASSUME ResultInv, StepInv, NEW s \in Slots, NEW t,
           task' = [task EXCEPT ![s] = t], UNCHANGED <<handle, recordId>>,
           task \in [Slots -> TaskType], t.lease = task[s].lease,
           \A d \in Slots : d # t.lease.cell => cells'[d] = cells[d],
           t.lease # Done!NoLease => Fits(t, cells'[t.lease.cell])
    PROVE  StepInv'
<1>1. /\ task'[s] = t /\ \A u \in Slots : u # s => task'[u] = task[u]
      /\ \A u \in Slots : task'[u].lease = task[u].lease
  OBVIOUS
<1>2. InStep'
  <2> SUFFICES ASSUME NEW u \in Slots, task'[u].lease # Done!NoLease
               PROVE  recordId[u] # 0 /\ Fits(task'[u], cells'[task'[u].lease.cell])
    BY DEF InStep
  <2>1. CASE u = s
    BY <1>1, <2>1 DEF StepInv, InStep
  <2>2. CASE u # s
    <3>1. /\ task'[u] = task[u] /\ task[u].lease.cell \in Slots
          /\ recordId[u] # 0 /\ Fits(task[u], cells[task[u].lease.cell])
      BY <1>1, <2>2, LeaseFacts DEF StepInv, InStep
    <3>2. task[u].lease.cell # t.lease.cell
      <4>1. CASE t.lease = Done!NoLease
        BY <3>1, <4>1 DEF Done!NoLease, Slots
      <4>2. CASE t.lease # Done!NoLease
        BY <1>1, <2>2, <4>2, OtherCell
      <4> QED BY <4>1, <4>2
    <3> QED BY <3>1, <3>2
  <2> QED BY <2>1, <2>2
<1>3. HandlesAwait'
  <2> SUFFICES ASSUME NEW h \in Holders, handle[h].lease # Done!NoLease
               PROVE  Awaited(handle[h].lease)'
    BY DEF HandlesAwait
  <2> DEFINE l == handle[h].lease
  <2>1. l \in Lease /\ l.cell \in Slots /\ Done!Current(cells, l) /\ Awaited(l)
    BY LeaseFacts DEF StepInv, HandlesAwait
  <2>2. CASE l = t.lease
    BY <1>1, <2>2 DEF Awaited
  <2>3. CASE l # t.lease
    <3>1. l.cell # t.lease.cell
      <4>1. CASE t.lease = Done!NoLease
        BY <2>1, <4>1 DEF Done!NoLease, Slots
      <4>2. CASE t.lease # Done!NoLease
        <5>1. t.lease \in Lease /\ Done!Current(cells, t.lease)
          BY <4>2, LeaseFacts
        <5> QED BY <2>1, <2>3, <5>1, LeaseUnique
      <4> QED BY <4>1, <4>2
    <3>2. cells'[l.cell] = cells[l.cell]
      BY <2>1, <3>1
    <3> QED BY <1>1, <2>1, <3>2 DEF Awaited
  <2> QED BY <2>2, <2>3
<1> QED BY <1>2, <1>3 DEF StepInv

\* The phase of a cell after a transition that is allowed, and of others.
LEMMA TransitionPhase ==
    ASSUME NEW cs \in [Slots -> CellType], NEW l \in Lease,
           Done!Current(cs, l), NEW to \in Done!Phases,
           Done!Allowed(cs[l.cell].phase, to)
    PROVE  LET ds == Done!Transition(cs, l, to)
           IN  /\ ds \in [Slots -> CellType] /\ Done!Current(ds, l)
               /\ ds[l.cell].phase = to
               /\ ds[l.cell].outcome = cs[l.cell].outcome
               /\ \A d \in Slots : d # l.cell => ds[d] = cs[d]
<1> DEFINE ds == Done!Transition(cs, l, to)
<1>1. l.cell \in Slots /\ cs[l.cell] \in CellType
  BY DEF Lease
<1>2. to # "Idle"
  BY DEF Done!Allowed
<1>3. ds = [cs EXCEPT ![l.cell] = [cs[l.cell] EXCEPT !.phase = to]]
  BY DEF Done!Transition
<1>4. PICK r : r = [cs[l.cell] EXCEPT !.phase = to]
  OBVIOUS
<1>5. /\ r \in CellType /\ r.phase = to /\ r.outcome = cs[l.cell].outcome
      /\ r.gen = cs[l.cell].gen
  BY <1>1, <1>4 DEF CellType
<1>6. /\ ds \in [Slots -> CellType] /\ ds[l.cell] = r
      /\ \A d \in Slots : d # l.cell => ds[d] = cs[d]
  BY <1>1, <1>3, <1>4, <1>5
<1>7. Done!Current(ds, l)
  BY <1>2, <1>5, <1>6 DEF Done!Current
<1> QED BY <1>5, <1>6, <1>7

\* A resumed coroutine runs with its cell Running.
LEMMA ResumeInStep ==
    ASSUME ResultInv, StepInv, NEW s \in Slots, Resume(s)
    PROVE  StepInv'
<1> DEFINE l == task[s].lease
           t == [task[s] EXCEPT !.state = "Running", !.step = "body"]
           rs == IF cells[l.cell].phase = "Parked"
                 THEN Done!Transition(cells, l, "Ready") ELSE cells
<1>1. /\ cells \in [Slots -> CellType] /\ task[s] \in TaskType
      /\ task \in [Slots -> TaskType]
  BY RecordFacts
<1>2. /\ task[s].step = "rest" /\ task' = [task EXCEPT ![s] = t]
      /\ cells' = IF l = Done!NoLease THEN cells
                  ELSE Done!Transition(rs, l, "Running")
      /\ UNCHANGED <<handle, recordId>>
  BY DEF Resume, Picked, index
<1>3. t.lease = l /\ t.step = "body"
  BY <1>1 DEF TaskType
<1>4. CASE l = Done!NoLease
  BY <1>1, <1>2, <1>3, <1>4, StepInStep
<1>5. CASE l # Done!NoLease
  <2>1. /\ l \in Lease /\ l.cell \in Slots /\ Done!Current(cells, l)
        /\ Fits(task[s], cells[l.cell])
    BY <1>5, LeaseFacts DEF StepInv, InStep
  <2>2. /\ cells[l.cell].phase \in {"Ready", "Parked"}
        /\ cells[l.cell].outcome = Done!Pending
    BY <1>2, <2>1 DEF Fits
  <2>3. {"Ready", "Running"} \subseteq Done!Phases
    BY DEF Done!Phases
  <2>4. /\ rs \in [Slots -> CellType] /\ Done!Current(rs, l)
        /\ rs[l.cell].phase = "Ready" /\ rs[l.cell].outcome = Done!Pending
        /\ \A d \in Slots : d # l.cell => rs[d] = cells[d]
    <3>1. CASE cells[l.cell].phase = "Parked"
      <4>1. Done!Allowed(cells[l.cell].phase, "Ready")
        BY <3>1 DEF Done!Allowed
      <4> HIDE DEF l
      <4> QED BY <1>1, <2>1, <2>2, <2>3, <3>1, <4>1, TransitionPhase
    <3>2. CASE cells[l.cell].phase # "Parked"
      BY <1>1, <2>1, <2>2, <3>2
    <3> QED BY <3>1, <3>2
  <2> HIDE DEF rs, l
  <2>5. Done!Allowed(rs[l.cell].phase, "Running")
    BY <2>4 DEF Done!Allowed
  <2>6. /\ cells'[l.cell].phase = "Running"
        /\ cells'[l.cell].outcome = Done!Pending
        /\ \A d \in Slots : d # l.cell => cells'[d] = cells[d]
    BY <1>2, <1>5, <2>1, <2>3, <2>4, <2>5, TransitionPhase
  <2>7. Fits(t, cells'[l.cell])
    BY <1>3, <2>6 DEF Fits, Open
  <2> HIDE DEF t
  <2>8. t.lease = task[s].lease
    BY <1>3 DEF l
  <2> QED BY <1>1, <1>2, <1>3, <2>6, <2>7, <2>8, StepInStep
<1> QED BY <1>4, <1>5

\* A suspended one leaves it Parked.
LEMMA SuspendInStep ==
    ASSUME ResultInv, StepInv, NEW s \in Slots, Suspend(s)
    PROVE  StepInv'
<1> DEFINE l == task[s].lease
<1>1. /\ cells \in [Slots -> CellType] /\ task[s] \in TaskType
      /\ task \in [Slots -> TaskType]
  BY RecordFacts
<1>2. PICK st \in {"Ready", "Blocked"} :
        task' = [task EXCEPT ![s].state = st, ![s].step = "rest"]
  BY DEF Suspend
<1> DEFINE t == [task[s] EXCEPT !.state = st, !.step = "rest"]
<1>3. /\ task[s].step = "body" /\ task' = [task EXCEPT ![s] = t]
      /\ cells' = Done!Transition(cells, l, "Parked")
      /\ UNCHANGED <<handle, recordId>>
  BY <1>2 DEF Suspend, InBody, index
<1>4. t.lease = l /\ t.step = "rest" /\ t.state \in {"Ready", "Blocked"}
  BY <1>1 DEF TaskType
<1>5. CASE l = Done!NoLease
  <2>1. cells' = cells
    BY <1>3, <1>5 DEF Done!Transition, Done!Current, Done!NoLease
  <2> QED BY <1>1, <1>3, <1>4, <1>5, <2>1, StepInStep
<1>6. CASE l # Done!NoLease
  <2>1. /\ l \in Lease /\ l.cell \in Slots /\ Done!Current(cells, l)
        /\ Fits(task[s], cells[l.cell])
    BY <1>6, LeaseFacts DEF StepInv, InStep
  <2>2. Open(cells[l.cell])
    BY <1>3, <2>1 DEF Fits
  <2>3. "Parked" \in Done!Phases /\ Done!Allowed(cells[l.cell].phase, "Parked")
    BY <2>2 DEF Done!Phases, Done!Allowed, Open
  <2> HIDE DEF l
  <2>4. /\ cells'[l.cell].phase = "Parked"
        /\ cells'[l.cell].outcome = cells[l.cell].outcome
        /\ \A d \in Slots : d # l.cell => cells'[d] = cells[d]
    BY <1>1, <1>3, <2>1, <2>3, TransitionPhase
  <2>5. Fits(t, cells'[l.cell])
    BY <1>4, <2>2, <2>4 DEF Fits, Open
  <2> HIDE DEF t
  <2>6. t.lease = task[s].lease
    BY <1>4 DEF l
  <2> QED BY <1>1, <1>3, <1>4, <2>4, <2>5, <2>6, StepInStep
<1> QED BY <1>5, <1>6

\* Wakes and ends that leave the cells alone.
LEMMA RecordInStep ==
    ASSUME ResultInv, StepInv, NEW s \in Slots, NEW t,
           task' = [task EXCEPT ![s] = t],
           UNCHANGED <<cells, handle, recordId>>,
           t.lease = task[s].lease,
           t.lease # Done!NoLease /\ Fits(task[s], cells[t.lease.cell]) =>
               Fits(t, cells[t.lease.cell])
    PROVE  StepInv'
<1>1. task \in [Slots -> TaskType]
  BY RecordFacts
<1>2. t.lease # Done!NoLease => Fits(t, cells'[t.lease.cell])
  BY DEF StepInv, InStep
<1> QED BY <1>1, <1>2, StepInStep

LEMMA WakeInStep ==
    ASSUME ResultInv, StepInv, NEW s \in Slots,
           Wake(s) \/ Finish(s) \/ FailBody(s)
    PROVE  StepInv'
<1>1. task[s] \in TaskType /\ task \in [Slots -> TaskType]
  BY RecordFacts
<1>2. CASE Wake(s)
  <2> DEFINE t == [task[s] EXCEPT !.state = "Ready"]
  <2>1. /\ task' = [task EXCEPT ![s] = t] /\ UNCHANGED <<cells, handle, recordId>>
    BY <1>2 DEF Wake, index, pool
  <2>2. t.lease = task[s].lease /\ t.step = task[s].step /\ t.state = "Ready"
    BY <1>1 DEF TaskType
  <2> HIDE DEF t
  <2>3. ASSUME Fits(task[s], cells[t.lease.cell]) PROVE Fits(t, cells[t.lease.cell])
    BY <2>2, <2>3 DEF Fits
  <2> QED BY <2>1, <2>2, <2>3, RecordInStep
<1>3. CASE Finish(s)
  <2> DEFINE t == [task[s] EXCEPT !.state = "Completed", !.step = "rest"]
  <2>1. /\ task' = [task EXCEPT ![s] = t] /\ UNCHANGED <<cells, handle, recordId>>
        /\ task[s].lease = Done!NoLease
    BY <1>3 DEF Finish, index, pool
  <2>2. t.lease = task[s].lease
    BY <1>1 DEF TaskType
  <2> HIDE DEF t
  <2> QED BY <2>1, <2>2, RecordInStep
<1>4. CASE FailBody(s)
  <2> DEFINE t == [task[s] EXCEPT !.state = "Failed", !.step = "prepared"]
  <2>1. /\ task' = [task EXCEPT ![s] = t] /\ UNCHANGED <<cells, handle, recordId>>
        /\ task[s].step = "body"
    BY <1>4 DEF FailBody, InBody, index, pool
  <2>2. t.lease = task[s].lease /\ t.step = "prepared"
    BY <1>1 DEF TaskType
  <2> HIDE DEF t
  <2>3. ASSUME Fits(task[s], cells[t.lease.cell]) PROVE Fits(t, cells[t.lease.cell])
    BY <2>1, <2>2, <2>3 DEF Fits
  <2> QED BY <2>1, <2>2, <2>3, RecordInStep
<1> QED BY <1>2, <1>3, <1>4

\* A prepared outcome, ...
LEMMA CommitInStep ==
    ASSUME ResultInv, StepInv, NEW s \in Slots, Commit(s)
    PROVE  StepInv'
<1> DEFINE l == task[s].lease
           cs == Done!Transition(cells, l, "Committing")
<1>1. /\ cells \in [Slots -> CellType] /\ task[s] \in TaskType
      /\ task \in [Slots -> TaskType] /\ recordId[s] \in Nat
  BY RecordFacts
<1>2. task[s].step = "body" /\ l # Done!NoLease /\ UNCHANGED <<handle, recordId>>
  BY DEF Commit, InBody, index
<1>3. PICK st \in {"Completed", "Failed"}, o \in {recordId[s], Done!Failure} :
        /\ task' = [task EXCEPT ![s].state = st, ![s].step = "prepared"]
        /\ cells' = Done!Prepare(cs, l, o)
  BY DEF Commit
<1> DEFINE t == [task[s] EXCEPT !.state = st, !.step = "prepared"]
<1>4. t.lease = task[s].lease /\ t.step = "prepared" /\ task' = [task EXCEPT ![s] = t]
  BY <1>1, <1>3 DEF TaskType
<1> HIDE DEF t
<1>5. /\ l \in Lease /\ l.cell \in Slots /\ Done!Current(cells, l)
      /\ Fits(task[s], cells[l.cell])
  BY <1>2, LeaseFacts DEF StepInv, InStep
<1>6. Open(cells[l.cell])
  BY <1>2, <1>5 DEF Fits
<1>7. /\ "Committing" \in Done!Phases
      /\ Done!Allowed(cells[l.cell].phase, "Committing")
  BY <1>6 DEF Done!Phases, Done!Allowed, Open
<1>8. /\ cs \in [Slots -> CellType] /\ Done!Current(cs, l)
      /\ cs[l.cell].phase = "Committing" /\ cs[l.cell].outcome = Done!Pending
      /\ \A d \in Slots : d # l.cell => cs[d] = cells[d]
  <2> HIDE DEF l
  <2> QED BY <1>1, <1>5, <1>6, <1>7, TransitionPhase DEF Open
<1>9. o # Done!Pending
  <2>1. recordId[s] # 0
    BY <1>2 DEF StepInv, InStep
  <2> QED BY <2>1 DEF Done!Pending, Done!Failure
<1> HIDE DEF cs, l
<1>10. /\ cells'[l.cell].phase = "Committing" /\ cells'[l.cell].outcome = o
       /\ \A d \in Slots : d # l.cell => cells'[d] = cells[d]
  <2>1. cells' = [cs EXCEPT ![l.cell] = [cs[l.cell] EXCEPT !.outcome = o]]
    BY <1>3, <1>8 DEF Done!Prepare
  <2>2. cs[l.cell] \in CellType
    BY <1>5, <1>8
  <2>3. cells'[l.cell] = [cs[l.cell] EXCEPT !.outcome = o]
    BY <1>5, <1>8, <2>1
  <2>4. cells'[l.cell].phase = "Committing" /\ cells'[l.cell].outcome = o
    BY <1>8, <2>2, <2>3 DEF CellType
  <2> QED BY <1>8, <2>1, <2>4
<1>11. Fits(t, cells'[l.cell])
  BY <1>4, <1>9, <1>10 DEF Fits
<1>12. t.lease = l
  BY <1>4 DEF l
<1> QED BY <1>1, <1>2, <1>4, <1>10, <1>11, <1>12, StepInStep

\* ... which is published, unless there is none.
LEMMA PublishInStep ==
    ASSUME ResultInv, StepInv, NEW s \in Slots, Publish(s)
    PROVE  StepInv'
<1> DEFINE l == task[s].lease
           st == IF Done!Publishable(cells, l) THEN task[s].state ELSE "Failed"
           t == [task[s] EXCEPT !.step = "published", !.state = st]
<1>1. /\ cells \in [Slots -> CellType] /\ task[s] \in TaskType
      /\ task \in [Slots -> TaskType]
  BY RecordFacts
<1>2. /\ task[s].step = "prepared" /\ task' = [task EXCEPT ![s] = t]
      /\ cells' = Done!Published(cells, l) /\ UNCHANGED <<handle, recordId>>
  BY DEF Publish, index
<1>3. l # Done!NoLease
  BY <1>2 DEF ResultInv, LeaseKept
<1>4. /\ l \in Lease /\ l.cell \in Slots /\ Done!Current(cells, l)
      /\ Fits(task[s], cells[l.cell])
  BY <1>3, LeaseFacts DEF StepInv, InStep
<1>5. t.lease = task[s].lease /\ t.step = "published" /\ t.lease = l
  <2> HIDE DEF st
  <2> QED BY <1>1 DEF TaskType
<1> HIDE DEF t
<1>6. cells' \in [Slots -> CellType]
      /\ \A d \in Slots : d # l.cell => cells'[d] = cells[d]
  <2> HIDE DEF l
  <2> QED BY <1>1, <1>2, <1>4, PublishedStep DEF StepOf
<1>7. Fits(t, cells'[l.cell])
  <2>1. CASE Open(cells[l.cell])
    <3>1. cells' = cells
      BY <1>2, <2>1 DEF Done!Published, Done!Publishable, Open
    <3> QED BY <1>5, <2>1, <3>1 DEF Fits
  <2>2. CASE ~Open(cells[l.cell])
    <3>1. /\ cells[l.cell].phase = "Committing"
          /\ cells[l.cell].outcome # Done!Pending
      BY <1>2, <1>4, <2>2 DEF Fits
    <3>2. PICK ph \in {"Failed", "Completed"} :
            cells' = [cells EXCEPT ![l.cell] = [cells[l.cell] EXCEPT !.phase = ph]]
      BY <1>2, <1>4, <3>1 DEF Done!Published, Done!Publishable
    <3>3. cells[l.cell] \in CellType
      BY <1>1, <1>4
    <3>4. cells'[l.cell].phase = ph
      <4>1. cells'[l.cell] = [cells[l.cell] EXCEPT !.phase = ph]
        BY <1>1, <1>4, <3>2
      <4> QED BY <3>3, <4>1 DEF CellType
    <3> QED BY <1>5, <3>4 DEF Fits, Done!Terminal
  <2> QED BY <2>1, <2>2
<1> HIDE DEF l
<1> QED BY <1>1, <1>2, <1>5, <1>6, <1>7, StepInStep

\* The record lets go of a cell that has ended or was left without an outcome.
LEMMA EndQuantumInStep ==
    ASSUME ResultInv, StepInv, NEW s \in Slots, EndQuantum(s)
    PROVE  StepInv'
<1> DEFINE l == task[s].lease
<1>1. task \in [Slots -> TaskType] /\ task[s] \in TaskType
  BY RecordFacts
<1>2. /\ task[s].step = "published"
      /\ task' = [task EXCEPT ![s].step = "rest", ![s].lease = Done!NoLease]
      /\ handle' = Done!Notified(handle, cells, l)
      /\ cells' = cells /\ recordId' = recordId
  BY DEF EndQuantum, index, pool
<1>3. /\ l # Done!NoLease /\ Fits(task[s], cells[l.cell])
  BY <1>2 DEF ResultInv, LeaseKept, StepInv, InStep
<1>4. Open(cells[l.cell]) \/ Done!Terminal(cells[l.cell].phase)
  BY <1>2, <1>3 DEF Fits
<1>5. /\ task'[s].lease = Done!NoLease
      /\ \A u \in Slots : u # s => task'[u] = task[u]
  <2>1. task'[s] = [task[s] EXCEPT !.step = "rest", !.lease = Done!NoLease]
    BY <1>1, <1>2
  <2>2. task'[s].lease = Done!NoLease
    BY <1>1, <2>1 DEF TaskType
  <2> QED BY <1>1, <1>2, <2>2
<1>6. \A h \in Holders : handle'[h].lease = handle[h].lease
  <2>1. handle \in [Holders -> [lease : Lease \cup {Done!NoLease},
                                asleep : BOOLEAN]]
    BY DEF ResultInv, RecordType
  <2>2. handle' = [h \in Holders |->
          IF /\ handle[h].asleep /\ handle[h].lease.cell = l.cell
             /\ ~Done!Current(cells, handle[h].lease)
                  \/ Done!Terminal(cells[l.cell].phase)
          THEN [handle[h] EXCEPT !.asleep = FALSE] ELSE handle[h]]
    BY <1>2 DEF Done!Notified
  <2> HIDE DEF l
  <2> QED BY <2>1, <2>2
<1>7. InStep'
  BY <1>2, <1>5 DEF StepInv, InStep
<1>8. HandlesAwait'
  <2> SUFFICES ASSUME NEW h \in Holders, handle[h].lease # Done!NoLease
               PROVE  \/ Done!Terminal(cells[handle[h].lease.cell].phase)
                      \/ \E u \in Slots : task'[u].lease = handle[h].lease
                      \/ Open(cells[handle[h].lease.cell])
    BY <1>2, <1>6 DEF HandlesAwait, Awaited
  <2>1. Awaited(handle[h].lease)
    BY DEF StepInv, HandlesAwait
  <2>2. CASE handle[h].lease = l
    BY <1>4, <2>2
  <2>3. CASE handle[h].lease # l
    BY <1>5, <2>1, <2>3 DEF Awaited
  <2> QED BY <2>2, <2>3
<1> QED BY <1>7, <1>8 DEF StepInv

\* The lane releases only a cell that has ended.
LEMMA ReleaseFrameInStep ==
    ASSUME ResultInv, StepInv, ReleaseFrame
    PROVE  StepInv'
<1>1. PICK l \in frames :
        /\ cells' = Done!ReleaseProducer(Done!Pool, l).cells
        /\ UNCHANGED <<recordId, handle, task>>
  BY DEF ReleaseFrame, index
<1>2. /\ l \in Lease /\ l.cell \in Slots /\ Done!Current(cells, l)
  BY LeaseFacts
<1>3. /\ \A d \in Slots : d # l.cell => cells'[d] = cells[d]
      /\ (\E h \in HandleLeases : h.cell = l.cell) =>
            cells'[l.cell].phase = cells[l.cell].phase
  <2>1. PICK P : P = Done!Pool
    OBVIOUS
  <2>2. PICK O : O = TaskLeases \cup frames
    OBVIOUS
  <2>3. /\ PoolInv(P, O, HandleLeases, Base) /\ Base \in Int /\ l \in O
        /\ P.cells = cells
    BY <2>1, <2>2, PoolFields, BaseType DEF ResultInv, RecordType
  <2>4. LET r == Done!ReleaseProducer(P, l)
        IN  /\ PoolInv(r, O \ {l}, HandleLeases, Base)
            /\ \A d \in Slots : d # l.cell => r.cells[d] = P.cells[d]
            /\ (\E h \in HandleLeases : h.cell = l.cell) =>
                  r.cells[l.cell].phase = P.cells[l.cell].phase
    BY ONLY <2>3, ReleaseProducerInv
  <2> QED BY ONLY <1>1, <2>1, <2>3, <2>4
<1>4. InStep'
  <2> SUFFICES ASSUME NEW s \in Slots, task[s].lease # Done!NoLease
               PROVE  recordId[s] # 0 /\ Fits(task[s], cells'[task[s].lease.cell])
    BY <1>1 DEF InStep
  <2>1. /\ task[s].lease \in Lease /\ task[s].lease.cell \in Slots
        /\ Done!Current(cells, task[s].lease) /\ task[s].lease # l
    BY LeaseFacts DEF ResultInv, OneOwner
  <2>2. task[s].lease.cell # l.cell
    BY <1>2, <2>1, LeaseUnique
  <2> QED BY <1>3, <2>1, <2>2 DEF StepInv, InStep
<1>5. HandlesAwait'
  <2> SUFFICES ASSUME NEW h \in Holders, handle[h].lease # Done!NoLease
               PROVE  \/ Done!Terminal(cells'[handle[h].lease.cell].phase)
                      \/ \E s \in Slots : task[s].lease = handle[h].lease
                      \/ Open(cells'[handle[h].lease.cell])
    BY <1>1 DEF HandlesAwait, Awaited
  <2> DEFINE m == handle[h].lease
  <2>1. /\ m \in Lease /\ m.cell \in Slots /\ Done!Current(cells, m) /\ Awaited(m)
        /\ m \in HandleLeases
    BY LeaseFacts DEF StepInv, HandlesAwait, HandleLeases
  <2>2. CASE m.cell # l.cell
    <3>1. cells'[m.cell] = cells[m.cell]
      BY <1>3, <2>1, <2>2
    <3> QED BY <2>1, <3>1 DEF Awaited
  <2>3. CASE m.cell = l.cell
    <3>1. m = l
      BY <1>2, <2>1, <2>3, LeaseUnique
    <3>2. \A s \in Slots : task[s].lease # m
      BY <3>1 DEF ResultInv, OneOwner
    <3>3. cells'[m.cell].phase = cells[m.cell].phase
      BY <1>3, <2>1, <2>3
    <3>4. CASE Done!Terminal(cells[m.cell].phase)
      BY <3>3, <3>4
    <3>5. CASE Open(cells[m.cell])
      <4>1. ~Done!Terminal(cells[l.cell].phase)
        BY <3>1, <3>5 DEF Open, Done!Terminal
      <4>2. PICK P : P = Done!Pool
        OBVIOUS
      <4>3. Done!ReleaseProducer(P, l) = P
        BY <4>1, <4>2, PoolFields DEF Done!ReleaseProducer
      <4>4. cells' = cells
        BY <1>1, <4>2, <4>3, PoolFields
      <4> QED BY <3>5, <4>4
    <3> QED BY <2>1, <3>2, <3>4, <3>5 DEF Awaited
  <2> QED BY <2>2, <2>3
<1> QED BY <1>4, <1>5 DEF StepInv

\* A task that ended has no completion any more.
LEMMA RetireInStep ==
    ASSUME ResultInv, StepInv, NEW s \in Slots, Retire(s)
    PROVE  StepInv'
<1>1. /\ task[s].step = "rest" /\ task[s].state \in {"Completed", "Failed"}
      /\ task' = [task EXCEPT ![s] = NoTask]
      /\ recordId' = [recordId EXCEPT ![s] = 0]
      /\ UNCHANGED <<cells, handle>>
  BY DEF Retire, Ended, Idx!Retire, pool
<1>2. /\ task \in [Slots -> TaskType] /\ recordId \in [Slots -> Nat]
  BY RecordFacts DEF ResultInv, RecordType
<1>3. task[s].lease = Done!NoLease
  BY <1>1 DEF StepInv, InStep, Fits
<1>4. /\ task'[s].lease = Done!NoLease
      /\ \A u \in Slots : u # s => task'[u] = task[u] /\ recordId'[u] = recordId[u]
  BY <1>1, <1>2 DEF NoTask, Task
<1>5. InStep'
  BY <1>1, <1>4 DEF StepInv, InStep
<1>6. HandlesAwait'
  BY <1>1, <1>3, <1>4 DEF StepInv, HandlesAwait, Awaited
<1> QED BY <1>5, <1>6 DEF StepInv

\* A task that nobody observes leaves the cells alone.
LEMMA SpawnInStep ==
    ASSUME ResultInv, StepInv, Spawn
    PROVE  StepInv'
<1> DEFINE t == Task("Ready", "rest", Done!NoLease)
<1>1. PICK gap \in Gaps :
        /\ Idx!Spawn(nextId + gap)
        /\ task' = [task EXCEPT ![Head(freeSlots)] = t]
  BY DEF Spawn
<1>2. PICK s : s = Head(freeSlots)
  OBVIOUS
<1>3. PICK id : id = nextId + gap
  OBVIOUS
<1>4. id \in Nat \ {0}
  <2>1. nextId \in Nat \ {0} /\ gap \in Nat
    BY StorageAssumption DEF ResultInv, RecordType
  <2> QED BY <1>3, <2>1
<1>5. Records(s, id, t) /\ cells' = cells /\ handle' = handle
  BY <1>1, <1>2, <1>3 DEF Idx!Spawn, Spawn, pool, Records
<1>6. t \in TaskType /\ t.step = "rest" /\ t.lease = Done!NoLease
  BY DEF Task, TaskType, States, Steps
<1> HIDE DEF t
<1>7. /\ s \in Slots /\ task[s] = NoTask /\ task'[s] = t
      /\ \A u \in Slots : u # s => task'[u] = task[u] /\ recordId'[u] = recordId[u]
  BY <1>4, <1>5, <1>6, SpawnRecord
<1>8. \A u \in Slots : task'[u].lease = task[u].lease
  BY <1>6, <1>7 DEF NoTask, Task
<1>9. InStep'
  BY <1>5, <1>6, <1>7 DEF StepInv, InStep
<1>10. HandlesAwait'
  BY <1>5, <1>8 DEF StepInv, HandlesAwait, Awaited
<1> QED BY <1>9, <1>10 DEF StepInv

\* An observed task starts with its own cell, ready and without an outcome.
LEMMA SpawnObservedInStep ==
    ASSUME ResultInv, StepInv, SpawnObserved
    PROVE  StepInv'
<1> DEFINE c == Head(freeCells)
           l == [cell |-> c, gen |-> cells[c].gen]
<1>1. PICK k \in Holders :
        /\ handle[k] = Done!NoHandle /\ freeCells # <<>>
        /\ cells' = Done!Claimed(Done!Pool).cells
        /\ handle' = [handle EXCEPT ![k].lease = l]
        /\ task' = [task EXCEPT ![Head(freeSlots)] = Task("Ready", "rest", l)]
        /\ Idx!Spawn(nextId)
  BY DEF SpawnObserved
<1>2. PICK s : s = Head(freeSlots)
  OBVIOUS
<1>3. PICK t : t = Task("Ready", "rest", l)
  OBVIOUS
<1>4. Records(s, nextId, t)
  BY <1>1, <1>2, <1>3 DEF Idx!Spawn, Records
<1>5. /\ PoolInv(Done!Pool, TaskLeases \cup frames, HandleLeases, Base)
      /\ Base \in Int /\ RecordType
  BY BaseType DEF ResultInv, RecordType
<1>6. /\ l \in Lease /\ l \notin TaskLeases /\ l \notin HandleLeases
      /\ cells[c].phase = "Idle"
  BY <1>1, <1>5, ClaimInv, PoolFields
<1>7. /\ l.cell = c /\ c \in Slots /\ l # Done!NoLease
      /\ cells \in [Slots -> CellType]
  <2>1. l.cell = c
    OBVIOUS
  <2> HIDE DEF l
  <2>2. l.cell \in Slots
    BY <1>6 DEF Lease
  <2> QED BY <1>5, <2>1, <2>2, PoolFields DEF Done!NoLease, Slots, PoolInv, PoolType
<1> HIDE DEF l
<1>8. /\ cells'[c].outcome = Done!Pending /\ cells'[c].phase = "Ready"
      /\ \A d \in Slots : d # c => cells'[d] = cells[d]
  <2>1. cells' = [cells EXCEPT ![c].phase = "Ready", ![c].outcome = Done!Pending,
                               ![c].observers = 1, ![c].producer = TRUE]
    BY <1>1, PoolFields DEF Done!Claimed
  <2> HIDE DEF c
  <2>2. cells'[c] = [cells[c] EXCEPT !.phase = "Ready", !.outcome = Done!Pending,
                               !.observers = 1, !.producer = TRUE]
    BY <1>7, <2>1
  <2>3. cells[c] \in CellType
    BY <1>7
  <2> QED BY <1>7, <2>1, <2>2, <2>3 DEF CellType
<1> HIDE DEF c
<1>9. t \in TaskType /\ t.step = "rest" /\ t.lease = l /\ t.state = "Ready"
  BY <1>3, <1>6 DEF Task, TaskType, States, Steps
<1>10. /\ s \in Slots /\ task[s] = NoTask /\ task'[s] = t
       /\ \A u \in Slots : u # s => task'[u] = task[u]
       /\ recordId'[s] # 0 /\ \A u \in Slots : u # s => recordId'[u] = recordId[u]
  <2>1. nextId \in Nat \ {0}
    BY <1>5 DEF RecordType
  <2>2. t \in TaskType /\ t.step = "rest"
    BY <1>9
  <2>3. /\ s \in Slots /\ task[s] = NoTask
        /\ task' \in [Slots -> TaskType] /\ task'[s] = t
        /\ \A u \in Slots : u # s => task'[u] = task[u]
        /\ recordId' \in [Slots -> Nat] /\ recordId'[s] = nextId
        /\ \A u \in Slots : u # s => recordId'[u] = recordId[u]
        /\ freeSlots' \in Seq(Slots) /\ nextId' \in Nat \ {0}
        /\ SlotsFree' /\ LeaseKept'
    BY ONLY ResultInv, <1>4, <2>1, <2>2, SpawnRecord
  <2> QED BY <2>1, <2>3
<1>11. /\ handle'[k].lease = l
       /\ \A h \in Holders : h # k => handle'[h] = handle[h]
  BY <1>1, <1>5 DEF RecordType
<1>12. \A m : m.cell \in Slots /\ Done!Current(cells, m) =>
          m.cell # c /\ cells'[m.cell] = cells[m.cell]
  BY <1>6, <1>8 DEF Done!Current
<1>13. InStep'
  <2> SUFFICES ASSUME NEW u \in Slots, task'[u].lease # Done!NoLease
               PROVE  recordId'[u] # 0 /\ Fits(task'[u], cells'[task'[u].lease.cell])
    BY DEF InStep
  <2>1. CASE u = s
    <3>1. recordId'[u] # 0 /\ task'[u] = t /\ t.lease.cell = c
      BY <1>7, <1>9, <1>10, <2>1
    <3> QED BY <1>8, <1>9, <3>1 DEF Fits
  <2>2. CASE u # s
    <3>1. task'[u] = task[u] /\ recordId'[u] = recordId[u]
      BY <1>10, <2>2
    <3>2. task[u].lease.cell \in Slots /\ Done!Current(cells, task[u].lease)
      BY <3>1, LeaseFacts
    <3>3. cells'[task[u].lease.cell] = cells[task[u].lease.cell]
      BY <1>12, <3>2
    <3> QED BY <3>1, <3>3 DEF StepInv, InStep
  <2> QED BY <2>1, <2>2
<1>14. HandlesAwait'
  <2> SUFFICES ASSUME NEW h \in Holders, handle'[h].lease # Done!NoLease
               PROVE  \/ Done!Terminal(cells'[handle'[h].lease.cell].phase)
                      \/ \E u \in Slots : task'[u].lease = handle'[h].lease
                      \/ Open(cells'[handle'[h].lease.cell])
    BY DEF HandlesAwait, Awaited
  <2>1. CASE h = k
    BY <1>9, <1>10, <1>11, <2>1
  <2>2. CASE h # k
    <3>1. handle'[h] = handle[h]
      BY <1>11, <2>2
    <3>2. /\ handle[h].lease.cell \in Slots /\ Done!Current(cells, handle[h].lease)
          /\ Awaited(handle[h].lease)
      BY <3>1, LeaseFacts DEF StepInv, HandlesAwait
    <3>3. cells'[handle[h].lease.cell] = cells[handle[h].lease.cell]
      BY <1>12, <3>2
    <3>4. \A u \in Slots : task[u].lease = handle[h].lease => task'[u] = task[u]
      <4>1. task[s].lease # handle[h].lease
        BY <1>10, <3>1 DEF NoTask, Task
      <4> QED BY <1>10, <4>1
    <3> QED BY <3>1, <3>2, <3>3, <3>4 DEF Awaited
  <2> QED BY <2>1, <2>2
<1> QED BY <1>13, <1>14 DEF StepInv

\* Sleeping changes no lease.
LEMMA ObserverWaitsInStep ==
    ASSUME ResultInv, StepInv, ObserverWaits
    PROVE  StepInv'
<1>1. PICK k \in Holders :
        /\ handle' = [handle EXCEPT ![k].asleep = TRUE]
        /\ UNCHANGED <<recordId, cells, task>>
  BY DEF ObserverWaits, Done!Sleeps, index
<1>2. \A h \in Holders : handle'[h].lease = handle[h].lease
  BY <1>1 DEF ResultInv, RecordType
<1> QED BY <1>1, <1>2 DEF StepInv, InStep, HandlesAwait, Awaited

\* The end of a handle: a cell that its task still has keeps phase and outcome.
LEMMA ObserverLeavesInStep ==
    ASSUME ResultInv, StepInv, ObserverLeaves
    PROVE  StepInv'
<1>1. PICK k \in Holders :
        /\ handle[k].lease # Done!NoLease
        /\ cells' = Done!ReleaseObserver(Done!Pool, handle[k].lease).cells
        /\ handle' = [handle EXCEPT ![k] = Done!NoHandle]
        /\ UNCHANGED <<recordId, task>>
  BY DEF ObserverLeaves, Done!DropHandle, index
<1>2. PICK l : l = handle[k].lease
  OBVIOUS
<1>3. l \in Lease /\ l.cell \in Slots /\ Done!Current(cells, l)
  BY <1>1, <1>2, LeaseFacts
<1>4. /\ \A d \in Slots : d # l.cell => cells'[d] = cells[d]
      /\ (\E o \in TaskLeases \cup frames : o.cell = l.cell) =>
            /\ cells'[l.cell].phase = cells[l.cell].phase
            /\ cells'[l.cell].outcome = cells[l.cell].outcome
  <2>1. PICK P : P = Done!Pool
    OBVIOUS
  <2>2. PICK O : O = TaskLeases \cup frames
    OBVIOUS
  <2>3. /\ PoolInv(P, O, HandleLeases, Base) /\ Base \in Int /\ l \in HandleLeases
        /\ P.cells = cells
    BY <1>1, <1>2, <2>1, <2>2, PoolFields, BaseType
       DEF ResultInv, RecordType, HandleLeases
  <2>4. LET q == Done!ReleaseObserver(P, l)
        IN  /\ PoolInv(q, O, HandleLeases \ {l}, Base)
            /\ \A d \in Slots : d # l.cell => q.cells[d] = P.cells[d]
            /\ (\E o \in O : o.cell = l.cell) =>
                  /\ q.cells[l.cell].phase = P.cells[l.cell].phase
                  /\ q.cells[l.cell].outcome = P.cells[l.cell].outcome
    BY ONLY <2>3, ReleaseObserverInv
  <2> QED BY ONLY <1>1, <1>2, <2>1, <2>2, <2>3, <2>4
<1>5. InStep'
  <2> SUFFICES ASSUME NEW s \in Slots, task[s].lease # Done!NoLease
               PROVE  recordId[s] # 0 /\ Fits(task[s], cells'[task[s].lease.cell])
    BY <1>1 DEF InStep
  <2>1. /\ task[s].lease.cell \in Slots /\ task[s].lease \in TaskLeases
        /\ recordId[s] # 0 /\ Fits(task[s], cells[task[s].lease.cell])
    BY LeaseFacts DEF StepInv, InStep, TaskLeases
  <2>2. /\ cells'[task[s].lease.cell].phase = cells[task[s].lease.cell].phase
        /\ cells'[task[s].lease.cell].outcome = cells[task[s].lease.cell].outcome
    BY <1>4, <2>1
  <2> QED BY <2>1, <2>2 DEF Fits, Open
<1>6. HandlesAwait'
  <2> SUFFICES ASSUME NEW h \in Holders, handle'[h].lease # Done!NoLease
               PROVE  \/ Done!Terminal(cells'[handle'[h].lease.cell].phase)
                      \/ \E u \in Slots : task[u].lease = handle'[h].lease
                      \/ Open(cells'[handle'[h].lease.cell])
    BY <1>1 DEF HandlesAwait, Awaited
  <2>1. h # k /\ handle'[h] = handle[h]
    <3>1. Done!NoHandle.lease = Done!NoLease
      BY DEF Done!NoHandle
    <3> QED BY <1>1, <3>1 DEF ResultInv, RecordType
  <2>2. /\ handle[h].lease \in Lease /\ handle[h].lease.cell \in Slots
        /\ Done!Current(cells, handle[h].lease) /\ Awaited(handle[h].lease)
    BY <2>1, LeaseFacts DEF StepInv, HandlesAwait
  <2>3. handle[h].lease # l
    BY <1>1, <1>2, <2>1 DEF ResultInv, OneOwner
  <2>4. handle[h].lease.cell # l.cell
    BY <1>3, <2>2, <2>3, LeaseUnique
  <2>5. cells'[handle[h].lease.cell] = cells[handle[h].lease.cell]
    BY <1>4, <2>2, <2>4
  <2> QED BY <2>1, <2>2, <2>5 DEF Awaited
<1> QED BY <1>5, <1>6 DEF StepInv

\* A record that is destroyed leaves an observed cell ended.
LEMMA DestroyEnds ==
    ASSUME NEW p, NEW O, NEW H, NEW base \in Int, PoolInv(p, O, H, base),
           NEW l \in O, l \in H
    PROVE  Done!Terminal(Done!Destroy(p, l).cells[l.cell].phase)
<1> DEFINE ds == Done!Terminate(p.cells, l)
           q == [p EXCEPT !.cells = ds]
           r == Done!ReleaseProducer(q, l)
<1>1. /\ p.cells \in [Slots -> CellType] /\ l \in Lease /\ l.cell \in Slots
      /\ p \in [cells : [Slots -> CellType], free : Seq(Slots), refs : Int]
      /\ Done!Current(p.cells, l)
  BY DEF PoolInv, PoolType, Owned, Lease
<1>2. StepOf(p.cells, ds, l)
  BY <1>1, TerminateStep
<1>3. Done!Destroy(p, l) = r
  BY DEF Done!Destroy
<1>4. q.cells = ds
  BY <1>1
<1>5. Done!Terminal(ds[l.cell].phase)
  <2>1. CASE Done!Terminal(p.cells[l.cell].phase)
    BY <2>1 DEF Done!Terminate
  <2>2. CASE ~Done!Terminal(p.cells[l.cell].phase)
    <3>1. ds = [p.cells EXCEPT ![l.cell].phase = "Failed",
                               ![l.cell].outcome = Done!Failure]
      BY <1>1, <2>2 DEF Done!Terminate
    <3>2. p.cells[l.cell] \in CellType
      BY <1>1
    <3> HIDE DEF ds
    <3>3. ds[l.cell] = [p.cells[l.cell] EXCEPT !.phase = "Failed",
                                              !.outcome = Done!Failure]
      BY <1>1, <3>1
    <3>4. ds[l.cell].phase = "Failed"
      BY <3>2, <3>3 DEF CellType
    <3> QED BY <3>4 DEF Done!Terminal
  <2> QED BY <2>1, <2>2
<1> HIDE DEF ds
<1>6. PoolInv(q, O, H, base)
  BY <1>2, StepOfInv
<1> HIDE DEF q
<1>7. r.cells[l.cell].phase = q.cells[l.cell].phase
  <2>1. /\ PoolInv(r, O \ {l}, H, base)
        /\ \A d \in Slots : d # l.cell => r.cells[d] = q.cells[d]
        /\ (\E h \in H : h.cell = l.cell) =>
              r.cells[l.cell].phase = q.cells[l.cell].phase
    BY ONLY base \in Int, l \in O, <1>6, ReleaseProducerInv
  <2> HIDE DEF r
  <2> QED BY <2>1
<1> QED BY <1>3, <1>4, <1>5, <1>7

\* The loop of Reset leaves every cell ended that a handle observes.
LEMMA LoopEnds ==
    ASSUME NEW L \in [Slots -> Lease \cup {Done!NoLease}],
           \A s, t \in Slots : L[s] = L[t] /\ L[s] # Done!NoLease => s = t,
           NEW p, NEW H, NEW base \in Int, PoolInv(p, LeasesAfter(L, 0), H, base),
           NEW K, DestroysEach(K, L, p), NEW h \in H
    PROVE  \A n \in 0..TaskCapacity : (\E s \in 1..n : L[s] = h) =>
               Done!Terminal(K[n].cells[h.cell].phase)
<1> DEFINE Good(n) == (\E s \in 1..n : L[s] = h) =>
                          Done!Terminal(K[n].cells[h.cell].phase)
           P == {n \in Nat : n \in 0..TaskCapacity => Good(n)}
<1>1. TaskCapacity \in Nat
  BY StorageAssumption
<1>2. \A n \in 0..TaskCapacity : PoolInv(K[n], LeasesAfter(L, n), H, base)
  BY LoopInv
<1>3. 0 \in P
  <2>1. 1..0 = {}
    OBVIOUS
  <2> QED BY <2>1
<1>4. ASSUME NEW n \in Nat, n \in P PROVE n + 1 \in P
  <2> SUFFICES ASSUME n + 1 \in 0..TaskCapacity, \E s \in 1..(n + 1) : L[s] = h
               PROVE  Done!Terminal(K[n + 1].cells[h.cell].phase)
    OBVIOUS
  <2>1. n \in 0..TaskCapacity /\ n + 1 \in Slots /\ (n + 1) - 1 = n
    BY <1>1 DEF Slots
  <2>2. PICK m : m = n + 1
    OBVIOUS
  <2>3. PICK k : k = K[n]
    OBVIOUS
  <2>4. PICK O : O = LeasesAfter(L, n)
    OBVIOUS
  <2>5. PoolInv(k, O, H, base)
    BY <1>2, <2>1, <2>3, <2>4
  <2>6. h \in Lease /\ h.cell \in Slots /\ h # Done!NoLease /\ Done!Current(k.cells, h)
    <3>1. h \in Lease /\ Done!Current(k.cells, h)
      BY <2>5 DEF PoolInv, Owned
    <3>2. h.cell \in Slots
      BY <3>1 DEF Lease
    <3> QED BY <3>1, <3>2 DEF Done!NoLease, Slots
  <2>7. m \in Slots /\ L[m] \in Lease \cup {Done!NoLease}
    BY <2>1, <2>2
  <2>8. CASE L[m] = Done!NoLease
    <3>1. Done!Destroy(k, L[m]) = k
      BY <2>5, <2>8, DestroyNothing DEF PoolInv
    <3>2. PoolType(k)
      BY <2>5 DEF PoolInv
    <3>3. K[m] = k
      BY <2>1, <2>2, <2>3, <2>7, <3>1, <3>2 DEF DestroysEach
    <3>4. \E s \in 1..n : L[s] = h
      BY <2>2, <2>6, <2>8
    <3> QED BY <1>4, <2>1, <2>2, <2>3, <3>3, <3>4
  <2>9. CASE L[m] # Done!NoLease
    <3>1. L[m] \in O
      <4>1. m \in (n + 1)..TaskCapacity
        BY <1>1, <2>1, <2>2 DEF Slots
      <4> QED BY <2>4, <2>9, <4>1 DEF LeasesAfter
    <3>2. PICK l : l = L[m]
      OBVIOUS
    <3>3. l \in O
      BY <3>1, <3>2
    <3>4. /\ PoolInv(Done!Destroy(k, l), O \ {l}, H, base)
          /\ \A d \in Slots : d # l.cell => Done!Destroy(k, l).cells[d] = k.cells[d]
      BY ONLY base \in Int, <2>5, <3>3, DestroyInv
    <3>5. K[m] = Done!Destroy(k, l)
      <4>1. PoolType(Done!Destroy(k, l))
        BY <3>4 DEF PoolInv
      <4> QED BY <2>1, <2>2, <2>3, <2>7, <3>2, <4>1 DEF DestroysEach
    <3>6. CASE h = l
      <4>1. l \in H
        BY <3>6
      <4>2. Done!Terminal(Done!Destroy(k, l).cells[l.cell].phase)
        BY ONLY base \in Int, <2>5, <3>3, <4>1, DestroyEnds
      <4> QED BY <2>2, <3>5, <3>6, <4>2
    <3>7. CASE h # l
      <4>1. l \in Lease /\ Done!Current(k.cells, l)
        BY <2>5, <3>3 DEF PoolInv, Owned
      <4>2. h.cell # l.cell
        BY <2>6, <3>7, <4>1, LeaseUnique
      <4>3. K[m].cells[h.cell] = K[n].cells[h.cell]
        BY <2>3, <2>6, <3>4, <3>5, <4>2
      <4>4. \E s \in 1..n : L[s] = h
        BY <2>2, <3>2, <3>7
      <4> QED BY <1>4, <2>1, <2>2, <4>3, <4>4
    <3> QED BY <3>6, <3>7
  <2> QED BY <2>8, <2>9
<1> HIDE DEF Good
<1>5. Nat \subseteq P
  <2> HIDE DEF P
  <2> QED BY <1>3, <1>4, NatSetInduction
<1>6. \A n \in 0..TaskCapacity : Good(n)
  BY <1>1, <1>5
<1> QED BY <1>6 DEF Good

\* Reset ends every task, and the cell of each that had one.
LEMMA ResetInStep ==
    ASSUME ResultInv, StepInv, Reset
    PROVE  StepInv'
<1> DEFINE notified(h) == \E s \in Slots :
             task[s].lease # Done!NoLease
               /\ handle[h].lease.cell = task[s].lease.cell
           q == Destroyed[TaskCapacity]
           L == [s \in Slots |-> task[s].lease]
<1>1. /\ RecordType /\ OneOwner /\ frames = {}
      /\ PoolInv(Done!Pool, TaskLeases \cup frames, HandleLeases, Base)
      /\ Base \in Int
  BY BaseType DEF ResultInv, RecordType, Reset
<1>2. /\ task' = [s \in Slots |-> NoTask] /\ cells' = q.cells
      /\ handle' = [h \in Holders |->
                      IF notified(h) THEN [handle[h] EXCEPT !.asleep = FALSE]
                      ELSE handle[h]]
  BY DEF Reset
<1>3. /\ L \in [Slots -> Lease \cup {Done!NoLease}]
      /\ \A s \in Slots : L[s] = task[s].lease
      /\ \A s, t \in Slots : L[s] = L[t] /\ L[s] # Done!NoLease => s = t
  BY <1>1 DEF RecordType, OneOwner
<1> HIDE DEF L, q
<1>4. LeasesAfter(L, 0) = TaskLeases \cup frames
  <2>1. Slots = (0 + 1)..TaskCapacity
    BY DEF Slots
  <2>2. LeasesAfter(L, 0) = {L[s] : s \in Slots} \ {Done!NoLease}
    BY <2>1 DEF LeasesAfter
  <2>3. {L[s] : s \in Slots} = {task[s].lease : s \in Slots}
    BY <1>3
  <2> QED BY <1>1, <2>2, <2>3 DEF TaskLeases
<1>5. PoolInv(Done!Pool, LeasesAfter(L, 0), HandleLeases, Base)
  BY <1>1, <1>4
<1>6. DestroysEach(Destroyed, L, Done!Pool)
  BY <1>1, <1>3, <1>5, DestroyedLoop
<1>7. TaskCapacity \in 0..TaskCapacity /\ Slots = 1..TaskCapacity
  BY StorageAssumption DEF Slots
<1>8. \A d \in Slots : (\A s \in Slots : L[s].cell # d) => cells'[d] = cells[d]
  <2>1. \A n \in 0..TaskCapacity :
          /\ PoolInv(Destroyed[n], LeasesAfter(L, n), HandleLeases, Base)
          /\ \A d \in Slots : (\A s \in Slots : L[s].cell # d) =>
                Destroyed[n].cells[d] = Done!Pool.cells[d]
    BY <1>1, <1>3, <1>5, <1>6, LoopInv
  <2> QED BY <1>2, <1>7, <2>1, PoolFields DEF q
<1>9. \A h \in Holders : handle'[h].lease = handle[h].lease
  <2>1. handle \in [Holders -> [lease : Lease \cup {Done!NoLease},
                                asleep : BOOLEAN]]
    BY <1>1 DEF RecordType
  <2> HIDE DEF notified
  <2> QED BY <1>2, <2>1
<1>10. InStep'
  BY <1>2 DEF InStep, NoTask, Task
<1>11. HandlesAwait'
  <2> SUFFICES ASSUME NEW h \in Holders, handle[h].lease # Done!NoLease
               PROVE  \/ Done!Terminal(cells'[handle[h].lease.cell].phase)
                      \/ Open(cells'[handle[h].lease.cell])
    BY <1>9 DEF HandlesAwait, Awaited
  <2>1. PICK m : m = handle[h].lease
    OBVIOUS
  <2>2. /\ m \in HandleLeases /\ m \in Lease /\ m.cell \in Slots
        /\ m # Done!NoLease /\ Done!Current(cells, m) /\ Awaited(m)
    BY <2>1, LeaseFacts DEF StepInv, HandlesAwait, HandleLeases
  <2>3. CASE \E s \in Slots : L[s] = m
    <3>1. \A n \in 0..TaskCapacity : (\E s \in 1..n : L[s] = m) =>
              Done!Terminal(Destroyed[n].cells[m.cell].phase)
      BY ONLY <1>1, <1>3, <1>5, <1>6, <2>2, LoopEnds
    <3> QED BY <1>2, <1>7, <2>1, <2>3, <3>1 DEF q
  <2>4. CASE \A s \in Slots : L[s] # m
    <3>1. \A s \in Slots : L[s].cell # m.cell
      <4> SUFFICES ASSUME NEW s \in Slots PROVE L[s].cell # m.cell
        OBVIOUS
      <4>1. CASE task[s].lease = Done!NoLease
        BY <1>3, <2>2, <4>1 DEF Done!NoLease, Slots
      <4>2. CASE task[s].lease # Done!NoLease
        <5>1. task[s].lease \in Lease /\ Done!Current(cells, task[s].lease)
          BY <4>2, LeaseFacts
        <5> QED BY <1>3, <2>2, <2>4, <5>1, LeaseUnique
      <4> QED BY <4>1, <4>2
    <3>2. cells'[m.cell] = cells[m.cell]
      BY <1>8, <2>2, <3>1
    <3>3. \A s \in Slots : task[s].lease # m
      BY <1>3, <2>4
    <3> QED BY <2>1, <2>2, <3>2, <3>3 DEF Awaited
  <2> QED BY <2>3, <2>4
<1> QED BY <1>10, <1>11 DEF StepInv

\* A step that leaves records, cells and handles alone.
LEMMA UnseenInStep ==
    ASSUME StepInv, UNCHANGED <<recordId, cells, handle, task>>
    PROVE  StepInv'
BY DEF StepInv, InStep, HandlesAwait, Awaited

LEMMA InitInStep == Init => StepInv
<1> SUFFICES ASSUME Init PROVE StepInv
  OBVIOUS
<1>1. /\ handle = [h \in Holders |-> Done!NoHandle]
      /\ task = [s \in Slots |-> NoTask]
  BY DEF Init, Done!Init
<1> QED BY <1>1 DEF StepInv, InStep, HandlesAwait, NoTask, Task, Done!NoHandle

LEMMA NextInStep ==
    ASSUME ResultInv, StepInv, [Next]_vars
    PROVE  StepInv'
<1>1. CASE Pick
  BY <1>1, UnseenInStep DEF Pick, index, pool
<1>2. ASSUME NEW s \in Slots, Restore(s) PROVE StepInv'
  BY <1>2, UnseenInStep DEF Restore, index, pool
<1>3. CASE UNCHANGED vars
  BY <1>3, UnseenInStep DEF vars, index, pool
<1> QED
  BY <1>1, <1>2, <1>3, SpawnInStep, SpawnObservedInStep, ResumeInStep,
     SuspendInStep, WakeInStep, CommitInStep, PublishInStep, EndQuantumInStep,
     RetireInStep, ReleaseFrameInStep, ResetInStep, ObserverWaitsInStep,
     ObserverLeavesInStep
  DEF Next

\* A record and the completion it holds never disagree: the cell runs while the
\* body does, waits while the task waits, and has ended only when the quantum
\* has published; and when a task has let go of a cell that a handle still
\* observes, the cell has ended, unless the last quantum had no outcome.
THEOREM CellFollowsTask == Spec => []StepInv
<1>1. Init => ResultInv /\ StepInv
  BY InitResult, InitInStep
<1>2. (ResultInv /\ StepInv) /\ [Next]_vars => (ResultInv /\ StepInv)'
  BY NextResult, NextInStep
<1>3. ResultInv /\ StepInv => StepInv
  OBVIOUS
<1> QED BY <1>1, <1>2, <1>3, PTL DEF Spec

\* The property follows from the invariant.
LEMMA ResultFollows ==
    ASSUME ResultInv, StepInv
    PROVE  ResultExact
<1>1. /\ RecordType /\ OutcomeOwn /\ SleeperKept
      /\ PoolInv(Done!Pool, TaskLeases \cup frames, HandleLeases, Base)
      /\ Base \in Int /\ Base >= 0
  BY BaseType DEF ResultInv, RecordType
<1>2. /\ FreeList(Done!Pool) /\ Owned(cells, TaskLeases \cup frames, HandleLeases)
      /\ Counted(Done!Pool, Base) /\ cells \in [Slots -> CellType]
      /\ freeCells \in Seq(Slots)
  BY <1>1, PoolFields DEF PoolInv, PoolType
<1>3. Done!HandleCurrent
  BY <1>2 DEF Done!HandleCurrent, Owned, HandleLeases
<1>4. Done!FreeUnowned
  <2>1. \A c \in Range(freeCells) : c \in Slots
    BY <1>2 DEF Range
  <2>2. ASSUME NEW c \in Slots, cells[c].producer \/ cells[c].observers > 0
        PROVE  refs > 0
    <3>1. c \in Producers(cells) \/ c \in Observed(cells)
      <4>1. cells[c] \in CellType
        BY <1>2
      <4>2. cells[c].observers \in 0..1
        BY <4>1 DEF CellType
      <4> QED BY <2>2, <4>2 DEF Producers, Observed
    <3>2. Cardinality(Producers(cells)) # 0 \/ Cardinality(Observed(cells)) # 0
      BY <3>1, CountsFinite, FS_EmptySet
    <3>3. refs = Base + Cardinality(Producers(cells)) + Cardinality(Observed(cells))
      BY <1>2, PoolFields DEF Counted
    <3> QED BY <1>1, <3>2, <3>3, CountsFinite
  <2>3. /\ IsInjective(freeCells)
        /\ \A c \in Range(freeCells) :
             cells[c].phase = "Idle" /\ ~cells[c].producer /\ cells[c].observers = 0
    BY <1>2, <2>1, PoolFields DEF FreeList
  <2>4. Done!Cells = Slots
    BY DEF Done!Cells, Slots
  <2>5. \A c \in Done!Cells :
          cells[c].producer \/ cells[c].observers > 0 => refs > 0
    BY <2>2, <2>4
  <2>6. Done!IsInjective(freeCells) /\ Done!Range(freeCells) = Range(freeCells)
    BY <2>3 DEF Done!IsInjective, IsInjective, Done!Range, Range
  <2> QED BY <2>3, <2>5, <2>6 DEF Done!FreeUnowned
<1>5. \A s \in Slots : task[s].lease # Done!NoLease =>
         /\ Done!Current(cells, task[s].lease)
         /\ cells[task[s].lease.cell].outcome
              \in {Done!Pending, Done!Failure, recordId[s]}
  BY <1>1, <1>2 DEF Owned, TaskLeases, OutcomeOwn
<1>6. ASSUME NEW h \in Holders, handle[h].asleep
      PROVE  LET cell == cells[handle[h].lease.cell]
             IN  \/ \E s \in Slots :
                      /\ task[s].lease = handle[h].lease
                      /\ Done!Terminal(cell.phase) => task[s].step = "published"
                 \/ cell.phase = "Running" /\ cell.outcome = Done!Pending
  <2>1. /\ handle[h].lease # Done!NoLease
        /\ ~Done!Terminal(cells[handle[h].lease.cell].phase)
             \/ Published(handle[h].lease)
    BY <1>1, <1>6 DEF SleeperKept
  <2>2. Awaited(handle[h].lease)
    BY <2>1 DEF StepInv, HandlesAwait
  <2> QED BY <2>1, <2>2 DEF Awaited, Open, Published
<1> QED BY <1>3, <1>4, <1>5, <1>6 DEF ResultExact

\* A result handle reads its own task's outcome: its cell is not recycled under
\* it, the outcome is the one its task prepared, and its owner sleeps only while
\* its task still has the cell, up to the notification that follows the publish,
\* or on the cell of a quantum that ended without an outcome.
THEOREM ResultsExact == Spec => []ResultExact
BY Inductive, CellFollowsTask, ResultFollows, PTL
=============================================================================
