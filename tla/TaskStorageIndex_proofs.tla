---------------------- MODULE TaskStorageIndex_proofs ----------------------
(***************************************************************************)
(* The task index of TaskStorage is exact, for every capacity: whatever     *)
(* was entered and forgotten, the search for a task id ends at the record   *)
(* of that task, and the searches for other ids end at an empty place.      *)
(***************************************************************************)
EXTENDS TaskStorageQueue_proofs

-----------------------------------------------------------------------------
(* Remainders.                                                             *)

\* The remainder is below the divisor.
LEMMA ModRange ==
    ASSUME NEW N \in Nat \ {0}, NEW a \in Int
    PROVE  a % N \in 0..(N - 1)
OBVIOUS

\* A number is a multiple of the divisor and the remainder.
LEMMA ModParts ==
    ASSUME NEW N \in Nat \ {0}, NEW a \in Int
    PROVE  \E k \in Int : a = N * k + (a % N)
<1>1. a = N * (a \div N) + (a % N) /\ a \div N \in Int
  OBVIOUS
<1> QED BY <1>1

\* In only one way.
LEMMA ModUnique ==
    ASSUME NEW N \in Nat \ {0}, NEW k \in Int, NEW j \in Int,
           NEW r \in 0..(N - 1), NEW q \in 0..(N - 1), N * k + r = N * j + q
    PROVE  r = q
<1>1. N * (k - j) = q - r
  OBVIOUS
<1>2. k - j >= 1 => N * (k - j) >= N
  OBVIOUS
<1>3. j - k >= 1 => N * (j - k) >= N
  OBVIOUS
<1> QED BY <1>1, <1>2, <1>3

\* Some distance leads from id to every place modulo N.
LEMMA ModMeets ==
    ASSUME NEW N \in Nat \ {0}, NEW id \in Nat, NEW p \in 0..(N - 1)
    PROVE  \E n \in 0..(N - 1) : (id + n) % N = p
<1>1. PICK a \in Int : a = p - id
  OBVIOUS
<1>2. PICK n \in 0..(N - 1) : n = a % N
  BY ModRange
<1>3. PICK k \in Int : a = N * k + n
  BY <1>2, ModParts
<1>4. PICK b \in Int : b = id + n
  OBVIOUS
<1>5. PICK q \in 0..(N - 1) : q = b % N
  BY ModRange
<1>6. PICK j \in Int : b = N * j + q
  BY <1>5, ModParts
<1>7. PICK i \in Int : i = 0 - k
  OBVIOUS
<1>8. N * i + p = N * j + q
  BY <1>1, <1>3, <1>4, <1>6, <1>7
<1>9. p = q
  BY <1>8, ModUnique
<1> QED BY <1>4, <1>5, <1>9

-----------------------------------------------------------------------------
(* Probes and lookups.                                                     *)

\* The places and the probes of the index.
LEMMA IndexPlaces ==
    /\ TaskCapacity \in Nat \ {0} /\ Idx!IndexCapacity \in Nat \ {0}
    /\ Idx!IndexCapacity = 2 * TaskCapacity + 1
    /\ Idx!Places = 0..(Idx!IndexCapacity - 1) /\ Idx!Places \subseteq Nat
    /\ Idx!RecordSlots = Slots /\ Slots = 1..TaskCapacity
    /\ Idx!Empty = 0 /\ Idx!Deleted = TaskCapacity + 1 /\ Idx!NoSlot = 0
    /\ Idx!Empty \notin Slots /\ Idx!Deleted \notin Slots
    /\ Idx!Empty # Idx!Deleted
BY StorageAssumption DEF Idx!IndexCapacity, Idx!Places, Idx!RecordSlots, Slots,
                         Idx!Empty, Idx!Deleted, Idx!NoSlot

\* A probe looks at a place of the table.
LEMMA ProbePlace ==
    ASSUME NEW id \in Nat, NEW n \in Idx!Places
    PROVE  Idx!Probe(id, n) \in Idx!Places
<1>1. PICK N \in Nat \ {0} : N = Idx!IndexCapacity
  BY IndexPlaces
<1>2. n \in Nat /\ id + n \in Int
  BY IndexPlaces
<1>3. (id + n) % N \in 0..(N - 1)
  BY <1>2, ModRange
<1> QED BY <1>1, <1>3, IndexPlaces DEF Idx!Probe

\* The probes of an id go over all the table.
LEMMA ProbeMeets ==
    ASSUME NEW id \in Nat, NEW p \in Idx!Places
    PROVE  \E n \in Idx!Places : Idx!Probe(id, n) = p
<1>1. PICK N \in Nat \ {0} : N = Idx!IndexCapacity
  BY IndexPlaces
<1>2. Idx!Places = 0..(N - 1)
  BY <1>1, IndexPlaces
<1>3. PICK n \in 0..(N - 1) : (id + n) % N = p
  BY <1>2, ModMeets
<1> QED BY <1>1, <1>2, <1>3 DEF Idx!Probe

\* First is the least of some probes.
LEMMA FirstProbe ==
    ASSUME NEW ns \in SUBSET Idx!Places, ns # {}
    PROVE  Idx!First(ns) \in ns /\ \A m \in ns : Idx!First(ns) <= m
<1>1. ns \in SUBSET Nat
  BY IndexPlaces
<1>2. \E n \in ns : \A m \in ns : n <= m
  BY <1>1, NatMinimum
<1> QED BY <1>2 DEF Idx!First

\* What places may hold.
TableAt == [Idx!Places -> 0..(TaskCapacity + 1)]

\* The first n probes of an id meet no empty place.
Crowded(at, id, n) ==
    \A m \in Idx!Places : m < n => at[Idx!Probe(id, m)] # Idx!Empty

\* A search for the id comes to the slot s.
Reached(at, id, s) ==
    \E n \in Idx!Places : at[Idx!Probe(id, n)] = s /\ Crowded(at, id, n)

\* The search for an id finds the slot it reaches.
LEMMA LookupFinds ==
    ASSUME NEW at \in TableAt, NEW rec, NEW id \in Nat, NEW s \in Slots,
           rec[s] = id, Reached(at, id, s),
           \A p \in Idx!Places : at[p] \in Slots /\ rec[at[p]] = id => at[p] = s
    PROVE  /\ Idx!Found(at, rec, id)
           /\ \E p \in Idx!Places :
                 /\ p = Idx!Probe(id, Idx!First(Idx!Hits(at, rec, id)))
                 /\ at[p] = s
<1>1. PICK n \in Idx!Places : at[Idx!Probe(id, n)] = s /\ Crowded(at, id, n)
  BY DEF Reached
<1>2. PICK hs : hs = Idx!Hits(at, rec, id)
  OBVIOUS
<1>3. hs \in SUBSET Idx!Places /\ n \in hs
  BY <1>1, <1>2, IndexPlaces DEF Idx!Hits, Idx!IndexMatches
<1>4. PICK h : h = Idx!First(hs)
  OBVIOUS
<1>5. h \in hs /\ h <= n
  BY <1>3, <1>4, FirstProbe
<1>6. PICK p : p = Idx!Probe(id, h)
  OBVIOUS
<1>7. p \in Idx!Places /\ h \in Idx!Places
  BY <1>3, <1>5, <1>6, ProbePlace
<1>8. at[p] = s
  BY <1>2, <1>5, <1>6, <1>7, IndexPlaces DEF Idx!Hits, Idx!IndexMatches
<1>9. ASSUME NEW e \in Idx!Empties(at, id) PROVE h < e
  <2>1. e \in Idx!Places /\ at[Idx!Probe(id, e)] = Idx!Empty
    BY DEF Idx!Empties
  <2>2. e # h
    BY <1>6, <1>8, <2>1, IndexPlaces
  <2>3. ~(e < n)
    BY <1>1, <2>1 DEF Crowded
  <2>4. e \in Nat /\ h \in Nat /\ n \in Nat
    BY <1>7, <2>1, IndexPlaces
  <2> QED BY <1>5, <2>2, <2>3, <2>4
<1>10. Idx!Found(at, rec, id)
  BY <1>2, <1>3, <1>4, <1>9 DEF Idx!Found
<1> QED BY <1>2, <1>4, <1>6, <1>7, <1>8, <1>10

\* The search for an id that no entry names finds nothing.
LEMMA LookupMisses ==
    ASSUME NEW at \in TableAt, NEW rec, NEW id \in Nat,
           \A p \in Idx!Places : at[p] \in Slots => rec[at[p]] # id
    PROVE  ~Idx!Found(at, rec, id)
<1>1. Idx!Hits(at, rec, id) = {}
  BY ProbePlace, IndexPlaces DEF Idx!Hits, Idx!IndexMatches
<1> QED BY <1>1 DEF Idx!Found

-----------------------------------------------------------------------------
(* What a table holds.                                                     *)

\* The places with an entry and those with a tombstone.
Occupied(at) == {p \in Idx!Places : at[p] \in Slots}
Graves(at) == {p \in Idx!Places : at[p] = Idx!Deleted}

\* The fields of a table.
TableType == [at : TableAt, size : Nat, deleted : Nat]

\* The entries are slots of L, each once.
Entered(at, L) ==
    /\ \A p \in Idx!Places : at[p] \in Slots => at[p] \in L
    /\ \A p, q \in Idx!Places : at[p] = at[q] /\ at[p] \in Slots => p = q

\* The slots of L have ids of their own.
Named(rec, L) ==
    /\ L \subseteq Slots
    /\ \A s \in L : rec[s] \in Nat
    /\ \A s, t \in L : rec[s] = rec[t] => s = t

\* The counters of the table are right.
CountsPlaces(tab) ==
    /\ tab.size = Cardinality(Occupied(tab.at))
    /\ tab.deleted = Cardinality(Graves(tab.at))

\* The table of the slots in L: a search for the id of one of them reaches it.
TableOf(tab, rec, L) ==
    /\ tab \in TableType
    /\ Entered(tab.at, L)
    /\ \A s \in L : Reached(tab.at, rec[s], s)
    /\ CountsPlaces(tab)

\* Tombstones and entries are parts of the finite table.
LEMMA PlacesFinite ==
    ASSUME NEW at
    PROVE  /\ IsFiniteSet(Idx!Places)
           /\ Cardinality(Idx!Places) = Idx!IndexCapacity
           /\ IsFiniteSet(Occupied(at)) /\ Cardinality(Occupied(at)) \in Nat
           /\ IsFiniteSet(Graves(at)) /\ Cardinality(Graves(at)) \in Nat
<1>1. PICK N \in Nat \ {0} : N = Idx!IndexCapacity
  BY IndexPlaces
<1>2. PICK a \in Int, b \in Int : a = 0 /\ b = N - 1
  OBVIOUS
<1>3. IsFiniteSet(a..b) /\ Cardinality(a..b) = IF a > b THEN 0 ELSE b - a + 1
  BY FS_Interval
<1>4. IsFiniteSet(Idx!Places) /\ Cardinality(Idx!Places) = N
  BY <1>1, <1>2, <1>3, IndexPlaces
<1>5. IsFiniteSet(Occupied(at)) /\ IsFiniteSet(Graves(at))
  BY <1>4, FS_Subset DEF Occupied, Graves
<1> QED BY <1>1, <1>4, <1>5, FS_CardinalityType

\* Each slot has at most one entry, so no more than TaskCapacity are there.
LEMMA EntriesBounded ==
    ASSUME NEW at \in TableAt, NEW L, Entered(at, L)
    PROVE  Cardinality(Occupied(at)) \in 0..TaskCapacity
<1>1. PICK O : O = Occupied(at)
  OBVIOUS
<1>2. PICK f : f = [p \in O |-> at[p]]
  OBVIOUS
<1>3. f \in [O -> Slots]
  BY <1>1, <1>2 DEF Occupied
<1>4. \A p, q \in O : f[p] = f[q] => p = q
  BY <1>1, <1>2 DEF Occupied, Entered
<1>5. f \in Injection(O, Slots)
  BY <1>3, <1>4 DEF Injection, IsInjective
<1>6. PICK a \in Int, b \in Int : a = 1 /\ b = TaskCapacity
  BY IndexPlaces
<1>7. IsFiniteSet(a..b) /\ Cardinality(a..b) = IF a > b THEN 0 ELSE b - a + 1
  BY FS_Interval
<1>8. IsFiniteSet(Slots) /\ Cardinality(Slots) = TaskCapacity
  BY <1>6, <1>7, IndexPlaces
<1>9. Cardinality(O) <= Cardinality(Slots)
  BY <1>5, <1>8, FS_Injection
<1> QED BY <1>1, <1>8, <1>9, PlacesFinite, IndexPlaces

\* Entries and tombstones that do not fill the table leave a place empty.
LEMMA PlaceLeft ==
    ASSUME NEW tab, NEW rec, NEW L, TableOf(tab, rec, L),
           tab.deleted <= TaskCapacity
    PROVE  \E p \in Idx!Places : tab.at[p] = Idx!Empty
<1> SUFFICES ASSUME \A p \in Idx!Places : tab.at[p] # Idx!Empty PROVE FALSE
  OBVIOUS
<1>1. PICK at : at = tab.at
  OBVIOUS
<1>2. at \in TableAt /\ Entered(at, L)
  BY <1>1 DEF TableOf, TableType
<1>3. Idx!Places = Occupied(at) \cup Graves(at) /\ Occupied(at) \cap Graves(at) = {}
  <2>1. \A v \in 0..(TaskCapacity + 1) : v = Idx!Empty \/ v = Idx!Deleted \/ v \in Slots
    BY IndexPlaces
  <2>2. \A p \in Idx!Places : at[p] \in Slots \/ at[p] = Idx!Deleted
    BY <1>1, <1>2, <2>1 DEF TableAt
  <2>3. Idx!Deleted \notin Slots
    BY IndexPlaces
  <2> QED BY <2>2, <2>3 DEF Occupied, Graves
<1>4. PICK O, G : O = Occupied(at) /\ G = Graves(at)
  OBVIOUS
<1>5. Cardinality(O \cup G) = Cardinality(O) + Cardinality(G) - Cardinality(O \cap G)
  BY <1>4, PlacesFinite, FS_Union
<1>6. Cardinality(O \cap G) = 0
  BY <1>3, <1>4, FS_EmptySet
<1>7. Cardinality(O) \in 0..TaskCapacity
  BY <1>2, <1>4, EntriesBounded
<1>8. Cardinality(G) \in Nat /\ Cardinality(G) <= TaskCapacity
  BY <1>1, <1>4, PlacesFinite DEF TableOf, CountsPlaces
<1>9. Cardinality(O \cup G) = Idx!IndexCapacity
  BY <1>3, <1>4, PlacesFinite
<1> QED BY <1>5, <1>6, <1>7, <1>8, <1>9, IndexPlaces

\* az is at with v in place p.
Puts(at, p, v, az) ==
    /\ az \in TableAt /\ az[p] = v
    /\ \A q \in Idx!Places : q # p => az[q] = at[q]

\* A value written to a place.
LEMMA PutPlace ==
    ASSUME NEW at \in TableAt, NEW p \in Idx!Places, NEW v \in 0..(TaskCapacity + 1)
    PROVE  Puts(at, p, v, [at EXCEPT ![p] = v])
BY DEF Puts, TableAt

\* An entry in a place that had none.
LEMMA CountsEntry ==
    ASSUME NEW at \in TableAt, NEW p \in Idx!Places, at[p] \notin Slots,
           NEW s \in Slots, NEW az, Puts(at, p, s, az)
    PROVE  /\ Cardinality(Occupied(az)) = Cardinality(Occupied(at)) + 1
           /\ Cardinality(Graves(az)) = IF at[p] = Idx!Deleted
                                        THEN Cardinality(Graves(at)) - 1
                                        ELSE Cardinality(Graves(at))
<1>1. s # Idx!Deleted
  BY IndexPlaces
<1>2. Occupied(az) = Occupied(at) \cup {p} /\ p \notin Occupied(at)
  BY DEF Occupied, Puts
<1>3. Graves(az) = Graves(at) \ {p} /\ (p \in Graves(at) <=> at[p] = Idx!Deleted)
  BY <1>1 DEF Graves, Puts
<1>4. Cardinality(Occupied(az)) = Cardinality(Occupied(at)) + 1
  BY <1>2, PlacesFinite, FS_AddElement
<1>5. Cardinality(Graves(az)) = IF p \in Graves(at) THEN Cardinality(Graves(at)) - 1
                               ELSE Cardinality(Graves(at))
  <2>1. PICK G : G = Graves(at)
    OBVIOUS
  <2>2. IsFiniteSet(G)
    BY <2>1, PlacesFinite
  <2>3. Cardinality(G \ {p}) = IF p \in G THEN Cardinality(G) - 1 ELSE Cardinality(G)
    BY ONLY <2>2, FS_RemoveElement
  <2> QED BY ONLY <1>3, <2>1, <2>3
<1> QED BY <1>3, <1>4, <1>5

\* A tombstone in the place of an entry.
LEMMA CountsGrave ==
    ASSUME NEW at \in TableAt, NEW p \in Idx!Places, at[p] \in Slots,
           NEW az, Puts(at, p, Idx!Deleted, az)
    PROVE  /\ Cardinality(Occupied(az)) = Cardinality(Occupied(at)) - 1
           /\ Cardinality(Graves(az)) = Cardinality(Graves(at)) + 1
<1>1. Idx!Deleted \notin Slots
  BY IndexPlaces
<1>2. Occupied(az) = Occupied(at) \ {p} /\ p \in Occupied(at)
  BY <1>1 DEF Occupied, Puts
<1>3. Graves(az) = Graves(at) \cup {p} /\ p \notin Graves(at)
  BY <1>1 DEF Graves, Puts
<1>4. Cardinality(Occupied(az)) = Cardinality(Occupied(at)) - 1
  BY <1>2, PlacesFinite, FS_RemoveElement
<1>5. Cardinality(Graves(az)) = Cardinality(Graves(at)) + 1
  BY <1>3, PlacesFinite, FS_AddElement
<1> QED BY <1>4, <1>5

\* The empty table.
LEMMA EmptyTableOf ==
    ASSUME NEW rec
    PROVE  /\ TableOf(Idx!EmptyTable, rec, {})
           /\ Idx!EmptyTable.size = 0 /\ Idx!EmptyTable.deleted = 0
<1>1. PICK at : at = [p \in Idx!Places |-> Idx!Empty]
  OBVIOUS
<1>2. at \in TableAt /\ \A p \in Idx!Places : at[p] = Idx!Empty
  BY <1>1, IndexPlaces DEF TableAt
<1>3. Occupied(at) = {} /\ Graves(at) = {}
  BY <1>2, IndexPlaces DEF Occupied, Graves
<1>4. Cardinality(Occupied(at)) = 0 /\ Cardinality(Graves(at)) = 0
  BY <1>3, FS_EmptySet
<1>5. Entered(at, {})
  BY <1>2, IndexPlaces DEF Entered
<1>6. Idx!EmptyTable = [at |-> at, size |-> 0, deleted |-> 0]
  BY <1>1 DEF Idx!EmptyTable
<1> QED BY <1>2, <1>4, <1>5, <1>6 DEF TableOf, TableType, CountsPlaces

-----------------------------------------------------------------------------
(* IndexTask, ForgetTask and the rebuild.                                  *)

\* Where no place becomes empty, a search that reached a slot still does.
LEMMA StillReached ==
    ASSUME NEW at, NEW az, NEW id \in Nat, NEW s, Reached(at, id, s),
           \A p \in Idx!Places : at[p] = s => az[p] = s,
           \A p \in Idx!Places : at[p] # Idx!Empty => az[p] # Idx!Empty
    PROVE  Reached(az, id, s)
<1>1. PICK n \in Idx!Places : at[Idx!Probe(id, n)] = s /\ Crowded(at, id, n)
  BY DEF Reached
<1>2. Crowded(az, id, n)
  BY <1>1, ProbePlace DEF Crowded
<1>3. az[Idx!Probe(id, n)] = s
  BY <1>1, ProbePlace
<1> QED BY <1>2, <1>3 DEF Reached

\* A slot entered behind places that are not empty, where no entry was.
LEMMA EnterPlace ==
    ASSUME NEW at \in TableAt, NEW rec, NEW L, Entered(at, L),
           \A t \in L : Reached(at, rec[t], t),
           NEW s \in Slots, s \notin L, Named(rec, L \cup {s}),
           NEW n \in Idx!Places, Crowded(at, rec[s], n),
           NEW p, p = Idx!Probe(rec[s], n), at[p] \notin Slots,
           NEW az, Puts(at, p, s, az)
    PROVE  /\ Entered(az, L \cup {s})
           /\ \A t \in L \cup {s} : Reached(az, rec[t], t)
<1>1. p \in Idx!Places /\ rec[s] \in Nat /\ s # Idx!Empty
  BY ProbePlace, IndexPlaces DEF Named
<1>2. \A q \in Idx!Places : at[q] # Idx!Empty => az[q] # Idx!Empty
  BY <1>1 DEF Puts
<1>3. Entered(az, L \cup {s})
  BY <1>1 DEF Entered, Puts
<1>4. Reached(az, rec[s], s)
  <2>1. Crowded(az, rec[s], n)
    BY <1>1, <1>2, ProbePlace DEF Crowded
  <2> QED BY <1>1, <2>1 DEF Reached, Puts
<1>5. ASSUME NEW t \in L PROVE Reached(az, rec[t], t)
  <2>1. rec[t] \in Nat /\ t \in Slots
    BY DEF Named
  <2>2. \A q \in Idx!Places : at[q] = t => az[q] = t
    BY <2>1 DEF Puts
  <2>3. Reached(at, rec[t], t)
    OBVIOUS
  <2> QED BY <1>2, <2>1, <2>2, <2>3, StillReached
<1> QED BY <1>3, <1>4, <1>5

\* IndexTask enters a slot of a new id: there is room for it.
LEMMA IndexTaskEnters ==
    ASSUME NEW tab, NEW rec, NEW L, TableOf(tab, rec, L),
           NEW s \in Slots, s \notin L, Named(rec, L \cup {s}),
           \E p \in Idx!Places : tab.at[p] = Idx!Empty
    PROVE  LET new == Idx!IndexTask(tab, rec, rec[s], s)
           IN  /\ TableOf(new, rec, L \cup {s})
               /\ new.size = tab.size + 1 /\ new.deleted <= tab.deleted
<1>1. PICK at, id : at = tab.at /\ id = rec[s]
  OBVIOUS
<1>2. /\ at \in TableAt /\ Entered(at, L) /\ id \in Nat
      /\ tab.size \in Nat /\ tab.deleted \in Nat
      /\ tab.size = Cardinality(Occupied(at))
      /\ tab.deleted = Cardinality(Graves(at))
      /\ \A t \in L : Reached(at, rec[t], t)
  BY <1>1 DEF TableOf, TableType, CountsPlaces, Named
<1>3. ~Idx!Found(at, rec, id)
  <2>1. \A p \in Idx!Places : at[p] \in Slots => rec[at[p]] # id
    BY <1>1, <1>2 DEF Entered, Named
  <2> QED BY <1>2, <2>1, LookupMisses
<1>4. PICK es : es = Idx!Empties(at, id)
  OBVIOUS
<1>5. es \in SUBSET Idx!Places /\ es # {}
  BY <1>1, <1>2, <1>4, ProbeMeets DEF Idx!Empties
<1>6. PICK end : end = Idx!First(es)
  OBVIOUS
<1>7. end \in es /\ \A m \in es : end <= m
  BY <1>5, <1>6, FirstProbe
<1>8. /\ end \in Idx!Places /\ end \in Nat /\ end < Idx!IndexCapacity
      /\ at[Idx!Probe(id, end)] = Idx!Empty
  BY <1>4, <1>5, <1>7, IndexPlaces DEF Idx!Empties
<1>9. Crowded(at, id, end)
  <2> SUFFICES ASSUME NEW m \in Idx!Places, m < end,
                      at[Idx!Probe(id, m)] = Idx!Empty
               PROVE  FALSE
    BY DEF Crowded
  <2>1. end <= m
    BY <1>4, <1>7 DEF Idx!Empties
  <2> QED BY <1>8, <2>1, IndexPlaces
<1>10. PICK gs : gs = {n \in Idx!Places : n < end /\ at[Idx!Probe(id, n)] = Idx!Deleted}
  OBVIOUS
<1>11. PICK n : n = IF gs # {} THEN Idx!First(gs) ELSE end
  OBVIOUS
<1>12. /\ n \in Idx!Places /\ n \in Nat /\ n <= end
       /\ gs # {} => at[Idx!Probe(id, n)] = Idx!Deleted
       /\ gs = {} => at[Idx!Probe(id, n)] = Idx!Empty
  <2>1. CASE gs = {}
    BY <1>8, <1>11, <2>1
  <2>2. CASE gs # {}
    <3>1. gs \in SUBSET Idx!Places
      BY <1>10
    <3>2. n \in gs
      BY <1>11, <2>2, <3>1, FirstProbe
    <3> QED BY <1>8, <1>10, <2>2, <3>2, IndexPlaces
  <2> QED BY <2>1, <2>2
<1>13. Crowded(at, id, n)
  BY <1>8, <1>9, <1>12, IndexPlaces DEF Crowded
<1>14. PICK p : p = Idx!Probe(id, n)
  OBVIOUS
<1>15. p \in Idx!Places /\ at[p] \notin Slots
  BY <1>2, <1>12, <1>14, ProbePlace, IndexPlaces
<1>16. PICK az : az = [at EXCEPT ![p] = s]
  OBVIOUS
<1>17. Puts(at, p, s, az)
  <2>1. s \in 0..(TaskCapacity + 1)
    BY IndexPlaces
  <2> QED BY <1>2, <1>15, <1>16, <2>1, PutPlace
<1>18. /\ Entered(az, L \cup {s})
       /\ \A t \in L \cup {s} : Reached(az, rec[t], t)
  BY <1>1, <1>2, <1>12, <1>13, <1>14, <1>15, <1>17, EnterPlace
<1>19. /\ Cardinality(Occupied(az)) = Cardinality(Occupied(at)) + 1
       /\ Cardinality(Graves(az)) = IF at[p] = Idx!Deleted
                                    THEN Cardinality(Graves(at)) - 1
                                    ELSE Cardinality(Graves(at))
  BY <1>2, <1>15, <1>17, CountsEntry
<1>20. PICK new : new = Idx!IndexTask(tab, rec, id, s)
  OBVIOUS
<1>21. new = [at |-> az, size |-> tab.size + 1,
              deleted |-> IF gs # {} THEN tab.deleted - 1 ELSE tab.deleted]
  BY <1>1, <1>3, <1>4, <1>5, <1>6, <1>8, <1>10, <1>11, <1>14, <1>16, <1>20
     DEF Idx!IndexTask
<1>22. (gs # {}) <=> at[p] = Idx!Deleted
  BY <1>12, <1>14, IndexPlaces
<1>23. /\ new.at = az /\ new.size = Cardinality(Occupied(az))
       /\ new.deleted = Cardinality(Graves(az))
       /\ new.size = tab.size + 1 /\ new.deleted <= tab.deleted
  BY <1>2, <1>19, <1>21, <1>22
<1>24. new \in TableType
  <2>1. az \in TableAt
    BY <1>17 DEF Puts
  <2>2. Cardinality(Occupied(az)) \in Nat /\ Cardinality(Graves(az)) \in Nat
    BY PlacesFinite
  <2> QED BY <1>21, <1>23, <2>1, <2>2 DEF TableType
<1>25. TableOf(new, rec, L \cup {s})
  BY <1>18, <1>23, <1>24 DEF TableOf, CountsPlaces
<1> QED BY <1>1, <1>20, <1>23, <1>25

\* The slots up to n in use by a task that is not the retired one.
Live(rec, retired, n) == {s \in 1..n : rec[s] # 0 /\ rec[s] # retired}

\* A round of the rebuild.
LEMMA ReindexEnters ==
    ASSUME NEW rec, NEW retired, Named(rec, {s \in Slots : rec[s] # 0}),
           NEW n \in Nat, n + 1 \in Slots, NEW tab,
           TableOf(tab, rec, Live(rec, retired, n)), tab.deleted = 0
    PROVE  LET new == Idx!Reindex(tab, rec, retired, n + 1)
           IN  TableOf(new, rec, Live(rec, retired, n + 1)) /\ new.deleted = 0
<1>1. PICK s \in Slots : s = n + 1
  OBVIOUS
<1>2. PICK L : L = Live(rec, retired, n)
  OBVIOUS
<1>3. s \notin L /\ L \subseteq Slots
  BY <1>1, <1>2, IndexPlaces DEF Live
<1>4. PICK new : new = Idx!Reindex(tab, rec, retired, s)
  OBVIOUS
<1>5. CASE rec[s] = 0 \/ rec[s] = retired
  <2>1. new = tab
    BY <1>4, <1>5 DEF Idx!Reindex
  <2>2. Live(rec, retired, s) = L
    BY <1>1, <1>2, <1>5 DEF Live
  <2> QED BY <1>1, <1>2, <1>4, <2>1, <2>2
<1>6. CASE rec[s] # 0 /\ rec[s] # retired
  <2>1. new = Idx!IndexTask(tab, rec, rec[s], s)
    BY <1>4, <1>6 DEF Idx!Reindex
  <2>2. Live(rec, retired, s) = L \cup {s}
    BY <1>1, <1>2, <1>6 DEF Live
  <2>3. Named(rec, L \cup {s})
    BY <1>2, <1>3, <1>6 DEF Named, Live
  <2>4. \E p \in Idx!Places : tab.at[p] = Idx!Empty
    <3>1. tab.deleted <= TaskCapacity
      BY IndexPlaces
    <3> QED BY <3>1, PlaceLeft
  <2>5. /\ TableOf(new, rec, L \cup {s})
        /\ new.size = tab.size + 1 /\ new.deleted <= tab.deleted
    BY <1>2, <1>3, <2>1, <2>3, <2>4, IndexTaskEnters
  <2>6. new.deleted \in Nat
    BY <2>5 DEF TableOf, TableType
  <2> QED BY <1>1, <1>4, <2>2, <2>5, <2>6
<1> QED BY <1>5, <1>6

\* The rebuild enters every record in use but the retired one, and leaves no
\* tombstone.
LEMMA RebuildEnters ==
    ASSUME NEW rec, NEW retired, Named(rec, {s \in Slots : rec[s] # 0})
    PROVE  LET new == Idx!RebuildTaskIndex(rec, retired)
           IN  /\ TableOf(new, rec, {s \in Slots : rec[s] # 0 /\ rec[s] # retired})
               /\ new.deleted = 0
<1> DEFINE X == TableType
           N == TaskCapacity
           t0 == Idx!EmptyTable
           R(tab, n) == Idx!Reindex(tab, rec, retired, n)
           g == [n \in Nat |-> [tab \in X |->
                   IF R(tab, n) \in X THEN R(tab, n) ELSE tab]]
           D(K) == [n \in 0..N |-> IF n = 0 THEN t0 ELSE R(K[n - 1], n)]
           Good(tab, n) == /\ TableOf(tab, rec, Live(rec, retired, n))
                           /\ tab.deleted = 0
<1>1. N \in Nat /\ Slots = 1..N
  BY IndexPlaces
<1>2. TableOf(t0, rec, {}) /\ t0.deleted = 0 /\ Live(rec, retired, 0) = {}
  BY EmptyTableOf DEF Live
<1>3. t0 \in X /\ Good(t0, 0)
  BY <1>2 DEF TableOf
<1>4. ASSUME NEW tab, NEW n \in Nat, n + 1 \in Slots, Good(tab, n)
      PROVE  Good(R(tab, n + 1), n + 1) /\ R(tab, n + 1) \in X
  <2>1. Good(R(tab, n + 1), n + 1)
    BY <1>4, ReindexEnters
  <2> QED BY <2>1 DEF TableOf
<1> HIDE DEF t0, N, X, R, Good
<1>5. \E f \in [0..N -> X] : Iterates(f, t0, g, N)
  <2>1. g \in [Nat -> [X -> X]]
    OBVIOUS
  <2> HIDE DEF g
  <2> QED BY <1>1, <1>3, <2>1, Iteration
<1>6. PICK f \in [0..N -> X] : Iterates(f, t0, g, N)
  BY <1>5
<1>7. f[0] = t0 /\ \A n \in 1..N : f[n] = g[n][f[n - 1]]
  BY <1>6 DEF Iterates
<1>8. ASSUME NEW n \in Nat, n + 1 \in Slots, R(f[n], n + 1) \in X
      PROVE  f[n + 1] = R(f[n], n + 1)
  <2>1. PICK m \in Nat : m = n + 1
    OBVIOUS
  <2>2. m \in 1..N /\ m - 1 = n /\ n \in 0..N
    BY <1>1, <1>8, <2>1
  <2>3. f[n] \in X
    BY <2>2
  <2>4. f[m] = g[m][f[n]]
    BY <1>7, <2>2
  <2> QED BY <1>8, <2>1, <2>3, <2>4
<1> HIDE DEF g
<1>9. ASSUME NEW K, K[0] = t0,
             \A n \in Nat : n + 1 \in Slots /\ R(K[n], n + 1) \in X =>
                  K[n + 1] = R(K[n], n + 1)
      PROVE  \A n \in 0..N : Good(K[n], n)
  <2> DEFINE P == {n \in Nat : n <= N => Good(K[n], n)}
  <2>1. 0 \in P
    BY <1>3, <1>9
  <2>2. ASSUME NEW n \in Nat, n \in P PROVE n + 1 \in P
    <3> SUFFICES ASSUME n + 1 <= N PROVE Good(K[n + 1], n + 1)
      OBVIOUS
    <3>1. n + 1 \in Slots /\ n <= N
      BY <1>1
    <3>2. Good(K[n], n)
      BY <2>2, <3>1
    <3>3. Good(R(K[n], n + 1), n + 1) /\ R(K[n], n + 1) \in X
      BY <1>4, <3>1, <3>2
    <3> QED BY <1>9, <3>1, <3>3
  <2>3. Nat \subseteq P
    <3> HIDE DEF P
    <3> QED BY <2>1, <2>2, NatSetInduction
  <2> QED BY <1>1, <2>3
<1>10. f = D(f)
  <2>1. ASSUME NEW n \in 0..N PROVE f[n] = D(f)[n]
    <3>1. CASE n = 0
      BY <1>7, <3>1
    <3>2. CASE n # 0
      <4>1. PICK m \in Nat : m = n - 1
        BY <1>1, <3>2
      <4>2. m + 1 = n /\ m + 1 \in Slots /\ m \in 0..N
        BY <1>1, <3>2, <4>1
      <4>3. R(f[m], m + 1) \in X
        <5>1. Good(f[m], m)
          BY <1>7, <1>8, <1>9, <4>2
        <5> QED BY <1>4, <4>2, <5>1
      <4>4. f[m + 1] = R(f[m], m + 1)
        BY <1>8, <4>2, <4>3
      <4> QED BY <3>2, <4>1, <4>2, <4>4
    <3> QED BY <3>1, <3>2
  <2> QED BY <2>1
<1> DEFINE E == CHOOSE K : K = D(K)
<1>11. E = D(E)
  <2> HIDE DEF D
  <2> QED BY <1>10
<1>12. Idx!RebuildTaskIndex(rec, retired) = E[N]
  BY DEF Idx!RebuildTaskIndex, N, t0, R
<1> HIDE DEF E
<1>13. E[0] = t0 /\ \A n \in 1..N : E[n] = R(E[n - 1], n)
  BY <1>1, <1>11
<1>14. ASSUME NEW n \in Nat, n + 1 \in Slots PROVE E[n + 1] = R(E[n], n + 1)
  <2>1. PICK m \in Nat : m = n + 1
    OBVIOUS
  <2>2. m \in 1..N /\ m - 1 = n
    BY <1>1, <1>14, <2>1
  <2> QED BY <1>13, <2>1, <2>2
<1>15. Good(E[N], N)
  BY <1>1, <1>9, <1>13, <1>14
<1>16. Live(rec, retired, N) = {s \in Slots : rec[s] # 0 /\ rec[s] # retired}
  BY <1>1 DEF Live
<1> QED BY <1>12, <1>15, <1>16 DEF Good

\* Tombstones do not outnumber the entries, or are few.
FewGraves(tab) ==
    \/ tab.deleted <= tab.size
    \/ tab.deleted < (Idx!IndexCapacity + 3) \div 4

\* In either case they are no more than the records.
LEMMA GravesBounded ==
    ASSUME NEW tab, NEW rec, NEW L, TableOf(tab, rec, L), FewGraves(tab)
    PROVE  tab.deleted <= TaskCapacity /\ tab.size \in 0..TaskCapacity
<1>1. PICK at : at = tab.at
  OBVIOUS
<1>2. /\ at \in TableAt /\ Entered(at, L) /\ tab.deleted \in Nat
      /\ tab.size = Cardinality(Occupied(at))
  BY <1>1 DEF TableOf, TableType, CountsPlaces
<1>3. tab.size \in 0..TaskCapacity
  BY <1>2, EntriesBounded
<1>4. PICK T \in Nat \ {0} : T = TaskCapacity
  BY IndexPlaces
<1>5. (Idx!IndexCapacity + 3) \div 4 <= T + 1
  BY <1>4, IndexPlaces
<1>6. PICK q \in Int : q = (Idx!IndexCapacity + 3) \div 4
  BY <1>4, IndexPlaces
<1> QED BY <1>2, <1>3, <1>4, <1>5, <1>6 DEF FewGraves

\* The table does not depend on the ids of other records.
LEMMA SameNames ==
    ASSUME NEW tab, NEW rec, NEW L, TableOf(tab, rec, L),
           NEW ren, \A t \in L : ren[t] = rec[t]
    PROVE  TableOf(tab, ren, L)
BY DEF TableOf

\* ForgetTask takes a slot out of the table.
LEMMA ForgetLeaves ==
    ASSUME NEW tab, NEW rec, NEW L, TableOf(tab, rec, L), FewGraves(tab),
           L = {t \in Slots : rec[t] # 0}, Named(rec, L), NEW s \in L
    PROVE  LET new == Idx!ForgetTask(tab, rec, rec[s])
           IN  TableOf(new, rec, L \ {s}) /\ FewGraves(new)
<1>1. PICK at, id : at = tab.at /\ id = rec[s]
  OBVIOUS
<1>2. /\ at \in TableAt /\ Entered(at, L) /\ id \in Nat /\ s \in Slots
      /\ tab.size \in Nat /\ tab.deleted \in Nat
      /\ tab.size = Cardinality(Occupied(at))
      /\ tab.deleted = Cardinality(Graves(at))
      /\ \A t \in L : Reached(at, rec[t], t)
  BY <1>1 DEF TableOf, TableType, CountsPlaces, Named
<1>3. \A p \in Idx!Places : at[p] \in Slots /\ rec[at[p]] = id => at[p] = s
  BY <1>1, <1>2 DEF Entered, Named
<1>4. Reached(at, id, s)
  BY <1>1, <1>2
<1>5. /\ Idx!Found(at, rec, id)
      /\ \E p \in Idx!Places :
            /\ p = Idx!Probe(id, Idx!First(Idx!Hits(at, rec, id)))
            /\ at[p] = s
  BY <1>1, <1>2, <1>3, <1>4, LookupFinds
<1>6. PICK p \in Idx!Places :
            /\ p = Idx!Probe(id, Idx!First(Idx!Hits(at, rec, id)))
            /\ at[p] = s
  BY <1>5
<1>7. PICK az : az = [at EXCEPT ![p] = Idx!Deleted]
  OBVIOUS
<1>8. Puts(at, p, Idx!Deleted, az)
  <2>1. PICK v : v = Idx!Deleted
    OBVIOUS
  <2>2. v \in 0..(TaskCapacity + 1)
    BY <2>1, IndexPlaces
  <2>3. Puts(at, p, v, [at EXCEPT ![p] = v])
    BY ONLY <1>2, <2>2, p \in Idx!Places, PutPlace
  <2> QED BY <1>7, <2>1, <2>3
<1>9. PICK marked : marked = [at |-> az, size |-> tab.size - 1,
                              deleted |-> tab.deleted + 1]
  OBVIOUS
<1>10. TableOf(marked, rec, L \ {s})
  <2>1. at[p] \in Slots /\ s \in Slots
    BY <1>2, <1>6
  <2>2. /\ Cardinality(Occupied(az)) = Cardinality(Occupied(at)) - 1
        /\ Cardinality(Graves(az)) = Cardinality(Graves(at)) + 1
    BY <1>2, <1>8, <2>1, CountsGrave
  <2>3. az \in TableAt
    BY <1>8 DEF Puts
  <2>4. marked \in TableType /\ CountsPlaces(marked)
    <3>1. Cardinality(Occupied(az)) \in Nat /\ Cardinality(Graves(az)) \in Nat
      BY PlacesFinite
    <3> QED BY <1>2, <1>9, <2>2, <2>3, <3>1 DEF TableType, CountsPlaces
  <2>5. Entered(az, L \ {s})
    <3>1. Idx!Deleted \notin Slots
      BY IndexPlaces
    <3> QED BY <1>2, <1>6, <1>8, <3>1 DEF Entered, Puts
  <2>6. ASSUME NEW t \in L \ {s} PROVE Reached(az, rec[t], t)
    <3>1. rec[t] \in Nat /\ Reached(at, rec[t], t)
      BY <1>2 DEF Named
    <3>2. \A q \in Idx!Places : at[q] = t => az[q] = t
      BY <1>6, <1>8 DEF Puts
    <3>3. \A q \in Idx!Places : at[q] # Idx!Empty => az[q] # Idx!Empty
      BY <1>8, IndexPlaces DEF Puts
    <3> QED BY <3>1, <3>2, <3>3, StillReached
  <2>7. marked.at = az
    BY <1>9
  <2> QED BY <2>4, <2>5, <2>6, <2>7 DEF TableOf
<1>11. PICK new : new = Idx!ForgetTask(tab, rec, id)
  OBVIOUS
<1>12. new = IF marked.size = 0 THEN Idx!EmptyTable
             ELSE IF /\ marked.deleted > marked.size
                     /\ marked.deleted >= (Idx!IndexCapacity + 3) \div 4
             THEN Idx!RebuildTaskIndex(rec, id)
             ELSE marked
  BY <1>1, <1>5, <1>6, <1>7, <1>9, <1>11 DEF Idx!ForgetTask
<1>13. CASE marked.size = 0
  <2>1. Occupied(az) = {}
    <3>1. Cardinality(Occupied(az)) = 0
      BY <1>9, <1>10, <1>13 DEF TableOf, CountsPlaces
    <3> QED BY <3>1, PlacesFinite, FS_EmptySet
  <2>2. L \ {s} = {}
    <3> SUFFICES ASSUME NEW t \in L \ {s} PROVE FALSE
      OBVIOUS
    <3>1. rec[t] \in Nat /\ t \in Slots /\ Reached(az, rec[t], t)
      BY <1>9, <1>10 DEF TableOf, Named
    <3> QED BY <2>1, <3>1, ProbePlace DEF Reached, Occupied
  <2>3. new = Idx!EmptyTable
    BY <1>12, <1>13
  <2>4. /\ TableOf(Idx!EmptyTable, rec, {})
        /\ Idx!EmptyTable.size = 0 /\ Idx!EmptyTable.deleted = 0
    BY EmptyTableOf
  <2>5. TableOf(new, rec, L \ {s}) /\ FewGraves(new)
    BY <2>2, <2>3, <2>4 DEF FewGraves
  <2> QED BY <1>1, <1>11, <2>5
<1>14. CASE /\ marked.size # 0 /\ marked.deleted > marked.size
            /\ marked.deleted >= (Idx!IndexCapacity + 3) \div 4
  <2>1. new = Idx!RebuildTaskIndex(rec, id)
    BY <1>12, <1>14
  <2>2. {t \in Slots : rec[t] # 0 /\ rec[t] # id} = L \ {s}
    BY <1>1 DEF Named
  <2>3. /\ TableOf(new, rec, {t \in Slots : rec[t] # 0 /\ rec[t] # id})
        /\ new.deleted = 0
    BY <2>1, RebuildEnters
  <2>4. new.size \in Nat
    BY <2>3 DEF TableOf, TableType
  <2>5. TableOf(new, rec, L \ {s})
    BY <2>2, <2>3
  <2>6. FewGraves(new)
    BY <2>3, <2>4 DEF FewGraves
  <2> QED BY <1>1, <1>11, <2>5, <2>6
<1>15. CASE /\ marked.size # 0
            /\ ~(/\ marked.deleted > marked.size
                 /\ marked.deleted >= (Idx!IndexCapacity + 3) \div 4)
  <2>1. new = marked
    BY <1>12, <1>15
  <2>2. marked.size \in Nat /\ marked.deleted \in Nat
    BY <1>10 DEF TableOf, TableType
  <2>3. (Idx!IndexCapacity + 3) \div 4 \in Int
    BY IndexPlaces
  <2>4. FewGraves(marked)
    BY <1>15, <2>2, <2>3 DEF FewGraves
  <2> QED BY <1>1, <1>10, <1>11, <2>1, <2>4
<1> QED BY <1>13, <1>14, <1>15

-----------------------------------------------------------------------------
(* The steps of the scheduler.                                             *)

\* The slots of records in use.
InUseSlots == {s \in Slots : recordId[s] # 0}

\* Ids are bounded, and the table is that of the records in use.
IndexInv ==
    /\ recordId \in [Slots -> 0..MaxId] /\ nextId \in 1..(MaxId + 1)
    /\ TableOf(table, recordId, InUseSlots)
    /\ FewGraves(table)

\* Records in use have ids of their own.
LEMMA SlotsNamed == EntriesInv /\ IndexInv => Named(recordId, InUseSlots)
<1>1. 0..MaxId \subseteq Nat
  BY StorageAssumption
<1> QED BY <1>1 DEF EntriesInv, IndexInv, Named, InUseSlots

\* An empty table indexes no record.
LEMMA NothingIndexed ==
    ASSUME NEW rec, NEW nid, rec = [s \in Slots |-> 0], nid = 1
    PROVE  /\ rec \in [Slots -> 0..MaxId] /\ nid \in 1..(MaxId + 1)
           /\ TableOf(Idx!EmptyTable, rec, {s \in Slots : rec[s] # 0})
           /\ FewGraves(Idx!EmptyTable)
<1>1. MaxId \in Nat \ {0}
  BY StorageAssumption
<1>2. {s \in Slots : rec[s] # 0} = {}
  OBVIOUS
<1>3. /\ TableOf(Idx!EmptyTable, rec, {})
      /\ Idx!EmptyTable.size = 0 /\ Idx!EmptyTable.deleted = 0
  BY EmptyTableOf
<1>4. FewGraves(Idx!EmptyTable)
  BY <1>3 DEF FewGraves
<1>5. TableOf(Idx!EmptyTable, rec, {s \in Slots : rec[s] # 0})
  BY <1>2, <1>3
<1> QED BY <1>1, <1>4, <1>5

\* A spawn enters its record.
LEMMA SpawnIndex ==
    ASSUME StorageInv, IndexInv, EntriesInv', NEW id \in Nat, Idx!Spawn(id)
    PROVE  IndexInv'
<1>1. /\ RecordType /\ SlotsFree /\ EntriesInv
      /\ recordId \in [Slots -> 0..MaxId] /\ nextId \in 1..(MaxId + 1)
      /\ TableOf(table, recordId, InUseSlots) /\ FewGraves(table)
  BY DEF StorageInv, ResultInv, IndexInv
<1>2. PICK s : s = Head(freeSlots)
  OBVIOUS
<1>3. /\ freeSlots # <<>> /\ id \in nextId..MaxId
      /\ recordId' = [recordId EXCEPT ![s] = id]
      /\ table' = Idx!IndexTask(table, recordId', id, s)
      /\ nextId' = id + 1
  BY <1>2 DEF Idx!Spawn
<1>4. s \in Slots /\ s \in Range(freeSlots)
  BY <1>1, <1>2, <1>3, TailOnce DEF RecordType, SlotsFree
<1>5. recordId[s] = 0
  BY <1>1, <1>4 DEF SlotsFree
<1>6. MaxId \in Nat \ {0} /\ id \in 1..MaxId /\ id # 0
  BY <1>1, <1>3, StorageAssumption
<1>7. recordId' \in [Slots -> 0..MaxId] /\ nextId' \in 1..(MaxId + 1)
  BY <1>1, <1>3, <1>4, <1>6
<1>8. PICK rec, L : rec = recordId' /\ L = InUseSlots
  OBVIOUS
<1>9. /\ s \notin L /\ L \subseteq Slots /\ rec[s] = id
      /\ \A t \in L : rec[t] = recordId[t]
      /\ InUseSlots' = L \cup {s}
  <2>1. /\ recordId'[s] = id
        /\ \A t \in Slots : t # s => recordId'[t] = recordId[t]
    BY <1>1, <1>3, <1>4
  <2> QED BY <1>4, <1>5, <1>6, <1>8, <2>1 DEF InUseSlots
<1>10. Named(rec, L \cup {s})
  <2>1. \A t \in Slots : rec[t] \in Nat
    BY <1>6, <1>7, <1>8
  <2>2. \A t, u \in Slots : rec[t] = rec[u] /\ rec[t] # 0 => t = u
    BY <1>8 DEF EntriesInv
  <2>3. \A t \in L \cup {s} : rec[t] # 0
    BY <1>6, <1>8, <1>9 DEF InUseSlots
  <2> QED BY <1>4, <1>9, <2>1, <2>2, <2>3 DEF Named
<1>11. PICK tab : tab = table
  OBVIOUS
<1>12. TableOf(tab, rec, L)
  BY <1>1, <1>8, <1>9, <1>11, SameNames
<1>13. \E p \in Idx!Places : tab.at[p] = Idx!Empty
  <2>1. tab.deleted <= TaskCapacity
    BY <1>1, <1>11, <1>12, GravesBounded
  <2> QED BY <1>12, <2>1, PlaceLeft
<1>14. PICK new : new = Idx!IndexTask(tab, rec, rec[s], s)
  OBVIOUS
<1>15. /\ TableOf(new, rec, L \cup {s})
       /\ new.size = tab.size + 1 /\ new.deleted <= tab.deleted
  BY <1>4, <1>9, <1>10, <1>12, <1>13, <1>14, IndexTaskEnters
<1>16. FewGraves(new)
  <2>1. tab.size \in Nat /\ tab.deleted \in Nat /\ new.deleted \in Nat
    BY <1>12, <1>15 DEF TableOf, TableType
  <2>2. PICK q \in Int : q = (Idx!IndexCapacity + 3) \div 4
    BY IndexPlaces
  <2>3. tab.deleted <= tab.size \/ tab.deleted < q
    BY <1>1, <1>11, <2>2 DEF FewGraves
  <2>4. new.deleted <= new.size \/ new.deleted < q
    BY <1>15, <2>1, <2>3
  <2> QED BY <2>2, <2>4 DEF FewGraves
<1>17. new = table'
  BY <1>3, <1>8, <1>9, <1>11, <1>14
<1> QED BY <1>7, <1>8, <1>9, <1>15, <1>16, <1>17 DEF IndexInv

\* A retirement forgets its record.
LEMMA RetireIndex ==
    ASSUME StorageInv, IndexInv, NEW s \in Slots, Idx!Retire(s)
    PROVE  IndexInv'
<1>1. /\ recordId \in [Slots -> 0..MaxId] /\ nextId \in 1..(MaxId + 1)
      /\ TableOf(table, recordId, InUseSlots) /\ FewGraves(table)
      /\ EntriesInv
  BY DEF StorageInv, IndexInv
<1>2. /\ recordId[s] # 0 /\ recordId' = [recordId EXCEPT ![s] = 0]
      /\ table' = Idx!ForgetTask(table, recordId, recordId[s])
      /\ nextId' = nextId
  BY DEF Idx!Retire
<1>3. 0 \in 0..MaxId
  BY StorageAssumption
<1>4. recordId' \in [Slots -> 0..MaxId] /\ nextId' \in 1..(MaxId + 1)
  BY <1>1, <1>2, <1>3
<1>5. PICK tab, rec, L : tab = table /\ rec = recordId /\ L = InUseSlots
  OBVIOUS
<1>6. /\ recordId'[s] = 0
      /\ \A t \in Slots : t # s => recordId'[t] = rec[t]
  BY <1>1, <1>2, <1>5
<1>7. s \in L /\ L = {t \in Slots : rec[t] # 0} /\ InUseSlots' = L \ {s}
  BY <1>2, <1>5, <1>6 DEF InUseSlots
<1>8. Named(rec, L)
  BY <1>1, <1>5, SlotsNamed
<1>9. PICK new : new = Idx!ForgetTask(tab, rec, rec[s])
  OBVIOUS
<1>10. TableOf(tab, rec, L) /\ FewGraves(tab)
  BY <1>1, <1>5
<1>11. TableOf(new, rec, L \ {s}) /\ FewGraves(new)
  BY ONLY <1>7, <1>8, <1>9, <1>10, ForgetLeaves
<1>12. TableOf(new, recordId', L \ {s})
  <2>1. PICK ren : ren = recordId'
    OBVIOUS
  <2>2. \A t \in L \ {s} : ren[t] = rec[t]
    BY <1>6, <1>7, <2>1
  <2> QED BY <1>11, <2>1, <2>2, SameNames
<1>13. new = table'
  BY <1>2, <1>5, <1>9
<1> QED BY <1>4, <1>7, <1>11, <1>12, <1>13 DEF IndexInv

\* The invariant holds at the start.
LEMMA InitIndex == Init => IndexInv
<1> SUFFICES ASSUME Init PROVE IndexInv
  OBVIOUS
<1>1. /\ recordId = [s \in Slots |-> 0] /\ nextId = 1
      /\ table = Idx!EmptyTable
  BY IndexPlaces DEF Init, Idx!Init
<1> QED BY <1>1, NothingIndexed DEF IndexInv, InUseSlots

\* Every step keeps it.
LEMMA NextIndex ==
    ASSUME StorageInv, StorageInv', IndexInv, [Next]_vars
    PROVE  IndexInv'
<1>1. RecordType /\ EntriesInv'
  BY DEF StorageInv, ResultInv
<1>2. CASE Spawn \/ SpawnObserved
  <2>1. \E id \in Nat : Idx!Spawn(id)
    <3>1. nextId \in Nat /\ \A gap \in Gaps : nextId + gap \in Nat
      BY <1>1, StorageAssumption DEF RecordType
    <3> QED BY <1>2, <3>1 DEF Spawn, SpawnObserved
  <2> QED BY <1>1, <2>1, SpawnIndex
<1>3. CASE \E s \in Slots : Retire(s)
  BY <1>3, RetireIndex DEF Retire
<1>4. CASE Reset
  <2>1. /\ recordId' = [s \in Slots |-> 0] /\ nextId' = 1
        /\ table' = Idx!EmptyTable
    BY <1>4, IndexPlaces DEF Reset, Idx!Clear
  <2> QED BY <2>1, NothingIndexed DEF IndexInv, InUseSlots
<1>5. ASSUME UNCHANGED index PROVE IndexInv'
  BY <1>5 DEF index, IndexInv, InUseSlots
<1>6. CASE Pick \/ ReleaseFrame \/ ObserverWaits \/ ObserverLeaves \/ UNCHANGED vars
  BY <1>5, <1>6 DEF Pick, ReleaseFrame, ObserverWaits, ObserverLeaves, vars
<1>7. ASSUME NEW s \in Slots,
             \/ Restore(s) \/ Resume(s) \/ Suspend(s) \/ Wake(s)
             \/ Finish(s) \/ Commit(s) \/ FailBody(s) \/ Publish(s) \/ EndQuantum(s)
      PROVE  UNCHANGED index
  BY <1>7 DEF Restore, Resume, Suspend, Wake, Finish, Commit, FailBody, Publish,
              EndQuantum
<1> QED BY <1>2, <1>3, <1>4, <1>5, <1>6, <1>7 DEF Next

\* Spawns, retirements and resets leave a sound table in every state.
LEMMA Indexed == Spec => []IndexInv
BY InitIndex, NextIndex, Stored, PTL DEF Spec

\* A lookup in a sound table is exact.
LEMMA LookupFollows ==
    ASSUME StorageInv, IndexInv
    PROVE  LookupExact
<1>1. PICK tab, at, rec, L : /\ tab = table /\ at = table.at /\ rec = recordId
                             /\ L = InUseSlots
  OBVIOUS
<1>2. /\ TableOf(tab, rec, L) /\ FewGraves(tab) /\ Named(rec, L) /\ at = tab.at
      /\ L = {s \in Slots : rec[s] # 0}
  BY <1>1, SlotsNamed DEF StorageInv, IndexInv, InUseSlots
<1>3. /\ at \in TableAt /\ Entered(at, L)
      /\ \A s \in L : Reached(at, rec[s], s)
  BY <1>2 DEF TableOf, TableType
<1>4. Idx!EmptyPlaceLeft
  <2>1. tab.deleted <= TaskCapacity
    BY <1>2, GravesBounded
  <2>2. \E p \in Idx!Places : tab.at[p] = Idx!Empty
    BY <1>2, <2>1, PlaceLeft
  <2> QED BY <1>1, <2>2 DEF Idx!EmptyPlaceLeft
<1>5. ASSUME NEW s \in L PROVE Idx!IndexFor(tab, rec, rec[s]) = s
  <2>1. s \in Slots /\ rec[s] \in Nat /\ Reached(at, rec[s], s)
    BY <1>2, <1>3 DEF Named
  <2>2. PICK id : id = rec[s]
    OBVIOUS
  <2>3. \A p \in Idx!Places : at[p] \in Slots /\ rec[at[p]] = id => at[p] = s
    BY <1>2, <1>3, <2>2 DEF Entered, Named
  <2>4. /\ Idx!Found(at, rec, id)
        /\ \E p \in Idx!Places :
              /\ p = Idx!Probe(id, Idx!First(Idx!Hits(at, rec, id)))
              /\ at[p] = s
    BY <1>3, <2>1, <2>2, <2>3, LookupFinds
  <2> QED BY <1>2, <2>2, <2>4 DEF Idx!IndexFor
<1>6. ASSUME NEW id \in Nat, \A s \in L : rec[s] # id
      PROVE  Idx!IndexFor(tab, rec, id) = Idx!NoSlot
  <2>1. \A p \in Idx!Places : at[p] \in Slots => rec[at[p]] # id
    BY <1>3, <1>6 DEF Entered
  <2>2. ~Idx!Found(at, rec, id)
    BY <1>3, <2>1, LookupMisses
  <2> QED BY <1>2, <2>2 DEF Idx!IndexFor
<1>7. Idx!LookupExact
  <2> SUFFICES ASSUME NEW id \in 1..MaxId
               PROVE  LET hs == {s \in Slots : rec[s] = id}
                      IN  IF hs = {} THEN Idx!IndexFor(tab, rec, id) = Idx!NoSlot
                          ELSE hs = {Idx!IndexFor(tab, rec, id)}
    BY <1>1, IndexPlaces DEF Idx!LookupExact, Idx!Ids
  <2>1. id \in Nat /\ id # 0
    BY StorageAssumption
  <2>2. CASE \A s \in Slots : rec[s] # id
    BY <1>2, <1>6, <2>1, <2>2
  <2>3. ASSUME NEW s \in Slots, rec[s] = id
        PROVE  {t \in Slots : rec[t] = id} = {Idx!IndexFor(tab, rec, id)}
    <3>1. s \in L /\ \A t \in Slots : rec[t] = id => t \in L
      BY <1>2, <2>1, <2>3
    <3>2. {t \in Slots : rec[t] = id} = {s}
      BY <1>2, <2>3, <3>1 DEF Named
    <3> QED BY <1>5, <2>3, <3>1, <3>2
  <2> QED BY <2>2, <2>3
<1>8. ASSUME NEW id \in Queued
      PROVE  LET s == Idx!IndexFor(table, recordId, id)
             IN  s # Idx!NoSlot /\ task[s].state = "Ready" /\ task[s].step = "rest"
  <2>1. PICK x \in Slots : ids[x] = id /\ id # 0
    BY QueuedBy
  <2>2. PICK r \in Slots : rec[r] = id /\ Waiting(r)
    BY <1>1, <2>1 DEF StorageInv, EntriesInv
  <2>3. Idx!IndexFor(table, recordId, id) = r
    BY <1>1, <1>2, <1>5, <2>1, <2>2
  <2>4. r # Idx!NoSlot
    BY IndexPlaces
  <2> QED BY <2>2, <2>3, <2>4 DEF Waiting
<1> QED BY <1>4, <1>7, <1>8 DEF LookupExact

\* Find in state/task/index.cpp is exact for every capacity: it returns the
\* record of a live task and nothing for any other id, through collisions,
\* tombstones, the wipe and the rebuild; tombstones never fill the table, so a
\* search ends; and PopReady finds the record of every id in the ready queue.
THEOREM LookupsExact == Spec => []LookupExact
BY Stored, Indexed, LookupFollows, PTL

\* No more references than the owners of all cells.
LEMMA ReferencesBounded ==
    ASSUME ResultInv
    PROVE  refs \in 0..(1 + 2 * TaskCapacity)
<1>1. refs = Base + Cardinality(Producers(cells)) + Cardinality(Observed(cells))
  BY PoolFields DEF ResultInv, PoolInv, Counted
<1>2. PICK a \in Int, b \in Int : a = 1 /\ b = TaskCapacity
  BY IndexPlaces
<1>3. IsFiniteSet(a..b) /\ Cardinality(a..b) = IF a > b THEN 0 ELSE b - a + 1
  BY FS_Interval
<1>4. IsFiniteSet(Slots) /\ Cardinality(Slots) = TaskCapacity
  BY <1>2, <1>3, IndexPlaces
<1>5. ASSUME NEW A \in SUBSET Slots PROVE Cardinality(A) \in 0..TaskCapacity
  BY <1>4, FS_Subset, FS_CardinalityType
<1>6. /\ Cardinality(Producers(cells)) \in 0..TaskCapacity
      /\ Cardinality(Observed(cells)) \in 0..TaskCapacity
  BY <1>5 DEF Producers, Observed
<1>7. Base \in 0..1
  BY DEF Base
<1> QED BY <1>1, <1>6, <1>7, IndexPlaces

\* The types follow from the invariants.
LEMMA TypesFollow ==
    ASSUME StorageInv, IndexInv
    PROVE  TypeOK
<1>1. ResultInv /\ QueueInv /\ RecordType /\ out \in 0..MaxId
  BY DEF StorageInv, ResultInv
<1>2. Idx!TypeOK
  <2>1. /\ table.at \in TableAt /\ table.deleted \in Nat
        /\ TableOf(table, recordId, InUseSlots) /\ FewGraves(table)
    BY DEF IndexInv, TableOf, TableType
  <2>2. table.deleted <= TaskCapacity /\ table.size \in 0..TaskCapacity
    BY <2>1, GravesBounded
  <2>3. table.deleted \in 0..Idx!IndexCapacity
    BY <2>1, <2>2, IndexPlaces
  <2>4. /\ recordId \in [Slots -> 0..MaxId] /\ nextId \in 1..(MaxId + 1)
        /\ freeSlots \in Seq(Slots)
    BY <1>1 DEF IndexInv, RecordType
  <2> QED BY <2>1, <2>2, <2>3, <2>4, IndexPlaces DEF Idx!TypeOK, TableAt
<1>3. Ready!TypeOK
  <2>1. PICK q, f : ListsOf(next, head, tail, free, size, q, f)
    BY <1>1 DEF QueueInv
  <2>2. /\ next \in [Slots -> 0..TaskCapacity] /\ size = Len(q)
        /\ tail = At(q, Len(q)) /\ q \in Seq(Slots) /\ f \in Seq(Slots)
        /\ head = At(q, 1) /\ free = At(f, 1) /\ Linked(next, head, q)
    BY <2>1 DEF ListsOf, Linked
  <2>3. head \in 0..TaskCapacity /\ tail \in 0..TaskCapacity /\ free \in 0..TaskCapacity
    <3>1. ASSUME NEW r \in Seq(Slots), NEW i \in Int PROVE At(r, i) \in 0..TaskCapacity
      BY IndexPlaces DEF At
    <3>2. Len(q) \in Int
      BY <2>2
    <3> QED BY <2>2, <3>1, <3>2
  <2>4. size \in 0..TaskCapacity
    <3>1. IsInjective(q)
      BY <2>2 DEF Linked
    <3> QED BY <2>2, <3>1, SlotsBound
  <2>5. ids \in [Slots -> 1..MaxId \cup {0}]
    BY <1>1, StorageAssumption DEF QueueInv
  <2>6. out \in 1..MaxId \cup {0}
    BY <1>1, StorageAssumption
  <2> QED BY <2>2, <2>3, <2>4, <2>5, <2>6 DEF Ready!TypeOK, Ready!Slots, Slots
<1>4. Done!TypeOK
  <2>1. /\ cells \in [Slots -> CellType] /\ freeCells \in Seq(Slots)
    BY <1>1, PoolFields DEF ResultInv, PoolInv, PoolType
  <2>2. \A h \in Holders : handle[h].lease.cell \in 0..TaskCapacity
    BY <1>1, IndexPlaces DEF RecordType, Lease, Done!NoLease
  <2> QED BY <1>1, <2>1, <2>2, ReferencesBounded, IndexPlaces
          DEF Done!TypeOK, Done!Cells, CellType
<1>5. \A s \in Slots : task[s].step \in Steps
  BY <1>1 DEF RecordType
<1> QED BY <1>2, <1>3, <1>4, <1>5 DEF TypeOK

\* Records, index, lists and cells keep their types: in particular the counters
\* of the index stay within the table and the references within the owners.
THEOREM TypeCorrect == Spec => []TypeOK
BY Stored, Indexed, TypesFollow, PTL
=============================================================================
