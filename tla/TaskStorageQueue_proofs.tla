---------------------- MODULE TaskStorageQueue_proofs ----------------------
(***************************************************************************)
(* The ready queue of TaskStorage implements ReadyFifo, for every capacity  *)
(* and every set of predicates: the links spell the sequence the abstract   *)
(* queue holds, and the free slots are a second list apart from it.         *)
(***************************************************************************)
EXTENDS TaskStorage_proofs

-----------------------------------------------------------------------------
(* Entries of sequences.                                                   *)

\* The entries of a concatenation.
LEMMA ConcatEntries ==
    ASSUME NEW S, NEW s \in Seq(S), NEW t \in Seq(S)
    PROVE  /\ s \o t \in Seq(S)
           /\ Len(s \o t) = Len(s) + Len(t)
           /\ \A i \in 1..Len(s) : (s \o t)[i] = s[i]
           /\ \A i \in (Len(s) + 1)..(Len(s) + Len(t)) :
                 (s \o t)[i] = t[i - Len(s)]
OBVIOUS

\* The entries behind a new first one.
LEMMA ConsEntries ==
    ASSUME NEW S, NEW e \in S, NEW q \in Seq(S)
    PROVE  /\ <<e>> \o q \in Seq(S)
           /\ Len(<<e>> \o q) = Len(q) + 1
           /\ (<<e>> \o q)[1] = e
           /\ \A i \in 1..Len(q) : (<<e>> \o q)[i + 1] = q[i]
<1>1. PICK E : E = <<e>>
  OBVIOUS
<1>2. E \in Seq(S) /\ Len(E) = 1 /\ E[1] = e
  BY <1>1
<1>3. PICK c : c = E \o q
  OBVIOUS
<1>4. PICK n \in Nat : n = Len(q)
  OBVIOUS
<1>5. /\ c \in Seq(S) /\ Len(c) = Len(E) + Len(q)
      /\ \A i \in 1..Len(E) : c[i] = E[i]
      /\ \A i \in (Len(E) + 1)..(Len(E) + Len(q)) : c[i] = q[i - Len(E)]
  BY <1>2, <1>3, ConcatEntries
<1>6. ASSUME NEW i \in 1..n PROVE c[i + 1] = q[i]
  <2>1. i + 1 \in (1 + 1)..(1 + n) /\ (i + 1) - 1 = i
    OBVIOUS
  <2> QED BY <1>2, <1>4, <1>5, <2>1
<1>7. c[1] = e /\ Len(c) = n + 1
  BY <1>2, <1>4, <1>5
<1> QED BY <1>1, <1>3, <1>4, <1>5, <1>6, <1>7

\* The entries left by a removal.
LEMMA RemoveEntries ==
    ASSUME NEW S, NEW q \in Seq(S), NEW i \in 1..Len(q)
    PROVE  /\ RemoveAt(q, i) \in Seq(S)
           /\ Len(RemoveAt(q, i)) = Len(q) - 1
           /\ \A j \in 1..(Len(q) - 1) :
                 RemoveAt(q, i)[j] = IF j < i THEN q[j] ELSE q[j + 1]
<1>1. PICK n \in Nat : n = Len(q)
  OBVIOUS
<1>2. PICK a, b : a = SubSeq(q, 1, i - 1) /\ b = SubSeq(q, i + 1, Len(q))
  OBVIOUS
<1>3. i \in 1..n /\ i \in Nat
  BY <1>1
<1>4. /\ a \in Seq(S) /\ Len(a) = i - 1
      /\ \A j \in 1..(i - 1) : a[j] = q[j]
  BY <1>1, <1>2, <1>3
<1>5. /\ b \in Seq(S) /\ Len(b) = n - i
      /\ \A j \in 1..(n - i) : b[j] = q[i + j]
  BY <1>1, <1>2, <1>3
<1>6. PICK c : c = a \o b
  OBVIOUS
<1>7. c = RemoveAt(q, i)
  BY <1>2, <1>6 DEF RemoveAt
<1>8. /\ c \in Seq(S) /\ Len(c) = Len(a) + Len(b)
      /\ \A j \in 1..Len(a) : c[j] = a[j]
      /\ \A j \in (Len(a) + 1)..(Len(a) + Len(b)) : c[j] = b[j - Len(a)]
  <2>1. a \in Seq(S) /\ b \in Seq(S)
    BY <1>4, <1>5
  <2>2. /\ a \o b \in Seq(S) /\ Len(a \o b) = Len(a) + Len(b)
        /\ \A j \in 1..Len(a) : (a \o b)[j] = a[j]
        /\ \A j \in (Len(a) + 1)..(Len(a) + Len(b)) :
              (a \o b)[j] = b[j - Len(a)]
    BY ONLY <2>1, ConcatEntries
  <2> QED BY ONLY <1>6, <2>2
<1>9. Len(c) = n - 1
  BY <1>3, <1>4, <1>5, <1>8
<1>10. ASSUME NEW j \in 1..(n - 1) PROVE c[j] = IF j < i THEN q[j] ELSE q[j + 1]
  <2>1. CASE j < i
    <3>1. j \in 1..(i - 1)
      BY <1>3, <2>1
    <3> QED BY <1>4, <1>8, <2>1, <3>1
  <2>2. CASE ~(j < i)
    <3>1. PICK k : k = j - (i - 1)
      OBVIOUS
    <3>2. k \in 1..(n - i) /\ j \in ((i - 1) + 1)..((i - 1) + (n - i))
          /\ i + k = j + 1
      BY <1>3, <2>2, <3>1
    <3>3. c[j] = b[k]
      BY <1>4, <1>5, <1>8, <3>1, <3>2
    <3>4. b[k] = q[i + k]
      BY <1>5, <3>2
    <3> QED BY <2>2, <3>2, <3>3, <3>4
  <2> QED BY <2>1, <2>2
<1> QED BY <1>1, <1>7, <1>8, <1>9, <1>10

-----------------------------------------------------------------------------
(* Lists of links.                                                         *)

\* The i-th slot of a list, 0 after its end.
At(q, i) == IF i \in 1..Len(q) THEN q[i] ELSE 0

\* The links nx spell the slots q, each once, from a first one.
Linked(nx, first, q) ==
    /\ q \in Seq(Slots) /\ IsInjective(q)
    /\ first = At(q, 1)
    /\ \A i \in 1..Len(q) : nx[q[i]] = At(q, i + 1)

\* The links of other slots do not matter.
LEMMA LinkedFrame ==
    ASSUME NEW nx, NEW first, NEW q, Linked(nx, first, q),
           NEW ny, \A s \in Range(q) : ny[s] = nx[s]
    PROVE  Linked(ny, first, q)
<1>1. DOMAIN q = 1..Len(q)
  BY DEF Linked
<1>2. \A i \in 1..Len(q) : q[i] \in Range(q)
  BY <1>1 DEF Range
<1> QED BY <1>2 DEF Linked

\* A list that does not end at once has a first slot and a rest.
LEMMA LinkedTail ==
    ASSUME NEW nx, NEW first, NEW q, Linked(nx, first, q), first # 0
    PROVE  /\ q # <<>> /\ first = Head(q) /\ first = q[1] /\ first \in Slots
           /\ Linked(nx, nx[first], Tail(q))
           /\ Range(q) = Range(Tail(q)) \cup {first}
           /\ first \notin Range(Tail(q))
<1>1. q \in Seq(Slots) /\ IsInjective(q) /\ Len(q) \in Nat /\ DOMAIN q = 1..Len(q)
  BY DEF Linked
<1>2. 1 \in 1..Len(q) /\ first = q[1]
  BY DEF Linked, At
<1>3. q # <<>> /\ first = Head(q)
  BY <1>1, <1>2
<1>4. /\ Head(q) \in Slots /\ Tail(q) \in Seq(Slots)
      /\ Range(q) = Range(Tail(q)) \cup {Head(q)}
      /\ IsInjective(Tail(q)) /\ Head(q) \notin Range(Tail(q))
  BY <1>1, <1>3, TailOnce
<1>5. /\ Len(Tail(q)) = Len(q) - 1
      /\ \A i \in 1..(Len(q) - 1) : Tail(q)[i] = q[i + 1]
  BY <1>1, <1>3
<1>6. \A i \in Nat \ {0} : At(Tail(q), i) = At(q, i + 1)
  BY <1>1, <1>5 DEF At
<1>7. nx[first] = At(Tail(q), 1)
  BY <1>2, <1>6 DEF Linked
<1>8. \A i \in 1..Len(Tail(q)) : nx[Tail(q)[i]] = At(Tail(q), i + 1)
  <2> SUFFICES ASSUME NEW i \in 1..Len(Tail(q))
               PROVE  nx[Tail(q)[i]] = At(Tail(q), i + 1)
    OBVIOUS
  <2>1. PICK n \in Nat : n = Len(q)
    BY <1>1
  <2>2. i \in 1..(n - 1) /\ i \in Nat \ {0}
    BY <1>5, <2>1
  <2>3. PICK j : j = i + 1
    OBVIOUS
  <2>4. j \in 1..n /\ j \in Nat \ {0}
    BY <2>2, <2>3
  <2>5. nx[q[j]] = At(q, j + 1) /\ Tail(q)[i] = q[j]
    BY <1>5, <2>1, <2>2, <2>3, <2>4 DEF Linked
  <2>6. At(Tail(q), j) = At(q, j + 1)
    BY <1>6, <2>4
  <2> QED BY <2>3, <2>5, <2>6
<1> QED BY <1>2, <1>3, <1>4, <1>7, <1>8 DEF Linked

\* A slot in front of a list.
LEMMA LinkedCons ==
    ASSUME NEW nx, NEW first, NEW q, Linked(nx, first, q),
           NEW s \in Slots, s \notin Range(q), nx[s] = first
    PROVE  /\ Linked(nx, s, <<s>> \o q)
           /\ Range(<<s>> \o q) = {s} \cup Range(q)
           /\ Len(<<s>> \o q) = Len(q) + 1
           /\ (<<s>> \o q)[1] = s
           /\ \A i \in 1..Len(q) : (<<s>> \o q)[i + 1] = q[i]
<1>1. q \in Seq(Slots) /\ IsInjective(q) /\ Len(q) \in Nat /\ DOMAIN q = 1..Len(q)
  BY DEF Linked
<1> DEFINE c == <<s>> \o q
<1>2. /\ c \in Seq(Slots) /\ Len(c) = Len(q) + 1 /\ c[1] = s
      /\ \A i \in 1..Len(q) : c[i + 1] = q[i]
  BY <1>1, ConsEntries
<1>3. Range(c) = {s} \cup Range(q) /\ IsInjective(c)
  <2>1. PICK E : E = <<s>>
    OBVIOUS
  <2>2. /\ E \in Seq(Slots) /\ IsInjective(E) /\ Range(E) = {s}
        /\ Range(E) \cap Range(q) = {}
    BY <2>1 DEF Range, IsInjective
  <2>3. Range(E \o q) = {s} \cup Range(q) /\ IsInjective(E \o q)
    BY <1>1, <2>2, ConcatOnce
  <2> QED BY <2>1, <2>3
<1> HIDE DEF c
<1>4. Len(c) = Len(q) + 1 /\ c[1] = s /\ \A i \in 1..Len(q) : c[i + 1] = q[i]
  BY <1>2
<1>5. \A i \in Nat \ {0} : At(c, i + 1) = At(q, i)
  <2> SUFFICES ASSUME NEW i \in Nat \ {0} PROVE At(c, i + 1) = At(q, i)
    OBVIOUS
  <2>1. CASE i \in 1..Len(q)
    BY <1>1, <1>4, <2>1 DEF At
  <2>2. CASE i \notin 1..Len(q)
    BY <1>1, <1>4, <2>2 DEF At
  <2> QED BY <2>1, <2>2
<1>6. s = At(c, 1)
  BY <1>1, <1>4 DEF At
<1>7. ASSUME NEW i \in 1..Len(c) PROVE nx[c[i]] = At(c, i + 1)
  <2>1. CASE i = 1
    <3>1. At(c, 1 + 1) = At(q, 1)
      BY <1>5
    <3> QED BY <1>4, <2>1, <3>1 DEF Linked
  <2>2. CASE i # 1
    <3>1. PICK j : j = i - 1
      OBVIOUS
    <3>2. j \in 1..Len(q) /\ i = j + 1 /\ c[i] = q[j]
      BY <1>1, <1>4, <2>2, <3>1
    <3>3. At(c, (j + 1) + 1) = At(q, j + 1)
      BY <1>5, <3>2
    <3> QED BY <3>2, <3>3 DEF Linked
  <2> QED BY <2>1, <2>2
<1>8. Linked(nx, s, c)
  BY <1>2, <1>3, <1>6, <1>7 DEF Linked
<1> QED BY <1>3, <1>4, <1>8 DEF c

\* A slot behind a list, whose last link is set to it.
LEMMA LinkedAppend ==
    ASSUME NEW nx, NEW first, NEW q, Linked(nx, first, q),
           NEW s \in Slots, s \notin Range(q),
           NEW ny, ny[s] = 0, q # <<>> => ny[q[Len(q)]] = s,
           \A i \in 1..(Len(q) - 1) : ny[q[i]] = nx[q[i]]
    PROVE  /\ Linked(ny, IF q = <<>> THEN s ELSE first, Append(q, s))
           /\ Range(Append(q, s)) = Range(q) \cup {s}
<1>1. q \in Seq(Slots) /\ IsInjective(q) /\ Len(q) \in Nat /\ DOMAIN q = 1..Len(q)
  BY DEF Linked
<1> DEFINE c == Append(q, s)
<1>2. c \in Seq(Slots) /\ Range(c) = Range(q) \cup {s} /\ IsInjective(c)
  BY <1>1, AppendOnce
<1>3. /\ Len(c) = Len(q) + 1 /\ c[Len(q) + 1] = s
      /\ \A i \in 1..Len(q) : c[i] = q[i]
  BY <1>1
<1> HIDE DEF c
<1>4. At(c, 1) = IF q = <<>> THEN s ELSE first
  <2>1. CASE q = <<>>
    <3>1. Len(q) = 0
      BY <2>1
    <3> QED BY <1>3, <2>1, <3>1 DEF At
  <2>2. CASE q # <<>>
    <3>1. 1 \in 1..Len(q) /\ 1 \in 1..Len(c)
      BY <1>1, <1>3, <2>2
    <3> QED BY <1>3, <2>2, <3>1 DEF At, Linked
  <2> QED BY <2>1, <2>2
<1>5. ASSUME NEW i \in 1..Len(c) PROVE ny[c[i]] = At(c, i + 1)
  <2>1. CASE i = Len(q) + 1
    BY <1>1, <1>3, <2>1 DEF At
  <2>2. CASE i = Len(q)
    <3>1. q # <<>> /\ i \in 1..Len(q)
      BY <1>1, <2>2
    <3>2. At(c, i + 1) = s
      BY <1>1, <1>3, <2>2 DEF At
    <3> QED BY <1>3, <2>2, <3>1, <3>2
  <2>3. CASE i < Len(q)
    <3>1. i \in 1..(Len(q) - 1) /\ i \in 1..Len(q) /\ i + 1 \in 1..Len(q)
          /\ i + 1 \in 1..Len(c)
      BY <1>1, <1>3, <2>3
    <3>2. ny[c[i]] = At(q, i + 1)
      BY <1>3, <3>1 DEF Linked
    <3> QED BY <1>3, <3>1, <3>2 DEF At
  <2>4. i = Len(q) + 1 \/ i = Len(q) \/ i < Len(q)
    <3>1. PICK n \in Nat : n = Len(q)
      BY <1>1
    <3>2. i \in 1..(n + 1)
      BY <1>3, <3>1
    <3>3. i = n + 1 \/ i = n \/ i < n
      BY <3>2
    <3> QED BY <3>1, <3>3
  <2> QED BY <2>1, <2>2, <2>3, <2>4
<1>6. Linked(ny, IF q = <<>> THEN s ELSE first, c)
  BY <1>2, <1>4, <1>5 DEF Linked
<1> QED BY <1>2, <1>6 DEF c

\* The list without one of its slots, the link before it led past it.
LEMMA LinkedRemove ==
    ASSUME NEW nx, NEW first, NEW q, Linked(nx, first, q), NEW i \in 1..Len(q),
           NEW ny, i > 1 => ny[q[i - 1]] = nx[q[i]],
           \A j \in 1..Len(q) : j # i /\ j # i - 1 => ny[q[j]] = nx[q[j]]
    PROVE  /\ Linked(ny, IF i = 1 THEN nx[first] ELSE first, RemoveAt(q, i))
           /\ Range(RemoveAt(q, i)) = Range(q) \ {q[i]}
<1>1. q \in Seq(Slots) /\ IsInjective(q) /\ Len(q) \in Nat /\ DOMAIN q = 1..Len(q)
  BY DEF Linked
<1>2. PICK n \in Nat : n = Len(q)
  BY <1>1
<1>3. i \in 1..n /\ i \in Nat /\ n - 1 \in Nat
  BY <1>2
<1>4. PICK c : c = RemoveAt(q, i)
  OBVIOUS
<1>5. c \in Seq(Slots) /\ IsInjective(c) /\ Range(c) = Range(q) \ {q[i]}
  BY <1>1, <1>4, RemoveAtOnce
<1>6. /\ Len(c) = n - 1
      /\ \A j \in 1..(n - 1) : c[j] = IF j < i THEN q[j] ELSE q[j + 1]
  BY <1>1, <1>2, <1>4, RemoveEntries
<1>7. ASSUME NEW j \in Nat \ {0}
      PROVE  At(c, j) = IF j < i THEN At(q, j) ELSE At(q, j + 1)
  <2>1. CASE j < i
    <3>1. j \in 1..n /\ j \in 1..(n - 1)
      BY <1>3, <2>1
    <3> QED BY <1>2, <1>6, <2>1, <3>1 DEF At
  <2>2. CASE ~(j < i)
    <3>1. j \in 1..(n - 1) <=> j + 1 \in 1..n
      BY <1>3
    <3> QED BY <1>2, <1>6, <2>2, <3>1 DEF At
  <2> QED BY <2>1, <2>2
<1>8. \A j \in 1..n : nx[q[j]] = At(q, j + 1)
  BY <1>2 DEF Linked
<1>9. At(c, 1) = IF i = 1 THEN nx[first] ELSE first
  <2>1. 1 \in 1..n /\ 1 \in Nat \ {0} /\ (1 < i <=> i # 1)
    BY <1>3
  <2>2. first = At(q, 1) /\ first = q[1]
    BY <1>2, <2>1 DEF Linked, At
  <2>3. nx[first] = At(q, 1 + 1)
    BY <1>8, <2>1, <2>2
  <2> QED BY <1>7, <2>1, <2>2, <2>3
<1>10. ASSUME NEW j \in 1..(n - 1) PROVE ny[c[j]] = At(c, j + 1)
  <2>1. PICK k : k = j + 1
    OBVIOUS
  <2>2. /\ j \in 1..n /\ k \in 1..n /\ k \in Nat \ {0} /\ j \in Nat \ {0}
        /\ k - 1 = j
    BY <1>3, <2>1
  <2>3. CASE k < i
    <3>1. j < i /\ j # i /\ j # i - 1
      BY <1>3, <2>1, <2>3
    <3>2. c[j] = q[j] /\ ny[q[j]] = nx[q[j]]
      BY <1>2, <1>6, <2>2, <3>1
    <3>3. At(c, k) = At(q, k)
      BY <1>7, <2>2, <2>3
    <3> QED BY <1>8, <2>1, <2>2, <3>2, <3>3
  <2>4. CASE k = i
    <3>1. j < i /\ i > 1 /\ i - 1 = j /\ ~(k < i)
      BY <1>3, <2>1, <2>2, <2>4
    <3>2. c[j] = q[j] /\ ny[q[j]] = nx[q[k]]
      BY <1>6, <2>4, <3>1
    <3>3. At(c, k) = At(q, k + 1)
      BY <1>7, <2>2, <3>1
    <3> QED BY <1>8, <2>1, <2>2, <3>2, <3>3
  <2>5. CASE k > i
    <3>1. ~(j < i) /\ k # i /\ k # i - 1 /\ ~(k < i)
      BY <1>3, <2>1, <2>2, <2>5
    <3>2. c[j] = q[k] /\ ny[q[k]] = nx[q[k]]
      BY <1>2, <1>6, <2>1, <2>2, <3>1
    <3>3. At(c, k) = At(q, k + 1)
      BY <1>7, <2>2, <3>1
    <3> QED BY <1>8, <2>1, <2>2, <3>2, <3>3
  <2>6. k < i \/ k = i \/ k > i
    BY <1>3, <2>2
  <2> QED BY <2>3, <2>4, <2>5, <2>6
<1>11. Linked(ny, IF i = 1 THEN nx[first] ELSE first, c)
  BY <1>5, <1>6, <1>9, <1>10 DEF Linked
<1> QED BY <1>4, <1>5, <1>11

\* A list is no longer than the array it is laid in.
LEMMA SlotsBound ==
    ASSUME NEW q \in Seq(Slots), IsInjective(q)
    PROVE  Len(q) \in 0..TaskCapacity
<1>1. TaskCapacity \in Nat
  BY StorageAssumption
<1>2. PICK n \in Nat : n = Len(q)
  OBVIOUS
<1>3. q \in [1..n -> Slots] /\ DOMAIN q = 1..n
  BY <1>2
<1>4. q \in Injection(1..n, Slots)
  BY <1>3 DEF IsInjective, Injection
<1>5. IsFiniteSet(Slots) /\ Cardinality(Slots) = TaskCapacity
  <2>1. PICK a \in Int, b \in Int : a = 1 /\ b = TaskCapacity
    BY <1>1
  <2>2. /\ IsFiniteSet(a..b)
        /\ Cardinality(a..b) = IF a > b THEN 0 ELSE b - a + 1
    BY FS_Interval
  <2> QED BY <1>1, <2>1, <2>2 DEF Slots
<1>6. Cardinality(1..n) = n
  <2>1. PICK a \in Int, b \in Int : a = 1 /\ b = n
    OBVIOUS
  <2>2. /\ IsFiniteSet(a..b)
        /\ Cardinality(a..b) = IF a > b THEN 0 ELSE b - a + 1
    BY FS_Interval
  <2> QED BY <2>1, <2>2
<1>7. Cardinality(1..n) <= Cardinality(Slots)
  BY <1>4, <1>5, FS_Injection
<1> QED BY <1>1, <1>2, <1>5, <1>6, <1>7

-----------------------------------------------------------------------------
(* The list a chain of links spells.                                       *)

\* The operators of ReadyQueue over any links, first slot and entries.
ChainOf(nx, first) ==
    LET at[n \in 0..TaskCapacity] ==
          IF n = 0 THEN first
          ELSE IF at[n - 1] = 0 THEN 0 ELSE nx[at[n - 1]]
    IN  at

ChainSlotsOf(nx, first) ==
    LET at == ChainOf(nx, first)
        len == Cardinality({n \in 0..(TaskCapacity - 1) : at[n] # 0})
    IN  [i \in 1..len |-> at[i - 1]]

QueueOf(nx, first, is) ==
    LET slots == ChainSlotsOf(nx, first)
    IN  [i \in DOMAIN slots |-> is[slots[i]]]

\* ReadyQueue counts with the same operator.
LEMMA CardinalityCopy == ASSUME NEW S PROVE Ready!Cardinality(S) = Cardinality(S)
BY DEF Ready!Cardinality, Cardinality

\* ReadyQueue's chain and queue are the ones these lemmas speak of.
LEMMA QueueIsOf ==
    /\ Ready!Chain(head) = ChainOf(next, head)
    /\ Ready!Queue = QueueOf(next, head, ids)
    /\ Ready!Queue' = QueueOf(next', head', ids')
<1>1. Ready!Chain(head) = ChainOf(next, head)
  BY DEF Ready!Chain, ChainOf
<1>2. Ready!Chain(head)' = ChainOf(next', head')
  BY DEF Ready!Chain, ChainOf
<1>3. Ready!ChainSlots(head) = ChainSlotsOf(next, head)
  <2>1. PICK at : at = ChainOf(next, head)
    OBVIOUS
  <2>2. PICK W : W = {n \in 0..(TaskCapacity - 1) : at[n] # 0}
    OBVIOUS
  <2>3. Ready!ChainSlots(head) = [i \in 1..Ready!Cardinality(W) |-> at[i - 1]]
    BY <1>1, <2>1, <2>2 DEF Ready!ChainSlots
  <2>4. ChainSlotsOf(next, head) = [i \in 1..Cardinality(W) |-> at[i - 1]]
    BY <2>1, <2>2 DEF ChainSlotsOf
  <2>5. Ready!Cardinality(W) = Cardinality(W)
    BY CardinalityCopy
  <2> QED BY <2>3, <2>4, <2>5
<1>4. Ready!ChainSlots(head)' = ChainSlotsOf(next', head')
  <2>1. PICK at : at = ChainOf(next', head')
    OBVIOUS
  <2>2. PICK W : W = {n \in 0..(TaskCapacity - 1) : at[n] # 0}
    OBVIOUS
  <2>3. Ready!ChainSlots(head)' = [i \in 1..Ready!Cardinality(W) |-> at[i - 1]]
    BY <1>2, <2>1, <2>2 DEF Ready!ChainSlots
  <2>4. ChainSlotsOf(next', head') = [i \in 1..Cardinality(W) |-> at[i - 1]]
    BY <2>1, <2>2 DEF ChainSlotsOf
  <2>5. Ready!Cardinality(W) = Cardinality(W)
    BY CardinalityCopy
  <2> QED BY <2>3, <2>4, <2>5
<1>5. Ready!Queue = QueueOf(next, head, ids)
  BY <1>3 DEF Ready!Queue, QueueOf
<1>6. Ready!Queue' = QueueOf(next', head', ids')
  BY <1>4 DEF Ready!Queue, QueueOf
<1> QED BY <1>1, <1>5, <1>6

\* Following the links meets the slots of the list, and then 0.
LEMMA ChainMeets ==
    ASSUME NEW nx, NEW first, NEW q, Linked(nx, first, q)
    PROVE  \A n \in 0..TaskCapacity : ChainOf(nx, first)[n] = At(q, n + 1)
<1>1. q \in Seq(Slots) /\ Len(q) \in Nat /\ TaskCapacity \in Nat
  BY StorageAssumption DEF Linked
<1> DEFINE N == TaskCapacity
           D(K) == [n \in 0..N |-> IF n = 0 THEN first
                       ELSE IF K[n - 1] = 0 THEN 0 ELSE nx[K[n - 1]]]
           f == [n \in 0..N |-> At(q, n + 1)]
<1>2. ASSUME NEW n \in 1..N
      PROVE  At(q, n + 1) = IF At(q, n) = 0 THEN 0 ELSE nx[At(q, n)]
  <2>1. PICK m \in Nat : m = Len(q)
    BY <1>1
  <2>2. CASE n \in 1..m
    <3>1. At(q, n) = q[n] /\ q[n] \in Slots
      BY <1>1, <2>1, <2>2 DEF At
    <3>2. q[n] # 0
      BY <1>1, <3>1 DEF Slots
    <3> QED BY <2>1, <2>2, <3>1, <3>2 DEF Linked
  <2>3. CASE n \notin 1..m
    <3>1. n + 1 \notin 1..m
      BY <1>1, <2>1, <2>3
    <3> QED BY <2>1, <2>3, <3>1 DEF At
  <2> QED BY <2>2, <2>3
<1>3. f = D(f)
  <2>1. ASSUME NEW n \in 0..N PROVE f[n] = D(f)[n]
    <3>1. CASE n = 0
      <4>1. f[n] = At(q, 1)
        BY <3>1
      <4> QED BY <3>1, <4>1 DEF Linked
    <3>2. CASE n # 0
      <4>1. n \in 1..N /\ n - 1 \in 0..N /\ (n - 1) + 1 = n
        BY <1>1, <3>2
      <4>2. f[n] = At(q, n + 1) /\ f[n - 1] = At(q, n)
        BY <4>1
      <4> HIDE DEF f, N
      <4>3. D(f)[n] = IF f[n - 1] = 0 THEN 0 ELSE nx[f[n - 1]]
        BY <3>2
      <4> QED BY <1>2, <4>1, <4>2, <4>3
    <3> QED BY <3>1, <3>2
  <2>2. f = [n \in 0..N |-> f[n]]
    OBVIOUS
  <2> HIDE DEF f
  <2> QED BY <2>1, <2>2
<1> DEFINE K == ChainOf(nx, first)
<1>4. K = D(K)
  <2>1. K = CHOOSE g : g = D(g)
    BY DEF ChainOf
  <2> HIDE DEF D, K, f
  <2> QED BY <1>3, <2>1
<1> HIDE DEF K, N
<1>5. /\ K[0] = first
      /\ \A n \in 1..N : K[n] = IF K[n - 1] = 0 THEN 0 ELSE nx[K[n - 1]]
  <2>1. 0 \in 0..N /\ \A n \in 1..N : n \in 0..N /\ n # 0
    BY <1>1 DEF N
  <2> QED BY <1>4, <2>1
<1> HIDE DEF D, f
<1> DEFINE P == {n \in Nat : n \in 0..N => K[n] = At(q, n + 1)}
<1>6. 0 \in P
  BY <1>5 DEF Linked
<1>7. ASSUME NEW n \in Nat, n \in P PROVE n + 1 \in P
  <2> SUFFICES ASSUME n + 1 \in 0..N PROVE K[n + 1] = At(q, (n + 1) + 1)
    OBVIOUS
  <2>1. PICK m : m = n + 1
    OBVIOUS
  <2>2. m \in 1..N /\ n \in 0..N /\ m - 1 = n
    BY <1>1, <2>1 DEF N
  <2>3. K[n] = At(q, m)
    BY <1>7, <2>1, <2>2
  <2>4. K[m] = IF K[n] = 0 THEN 0 ELSE nx[K[n]]
    BY <1>5, <2>2
  <2> QED BY <1>2, <2>1, <2>2, <2>3, <2>4
<1>8. Nat \subseteq P
  <2> HIDE DEF P
  <2> QED BY <1>6, <1>7, NatSetInduction
<1>9. \A n \in 0..N : n \in Nat
  BY <1>1 DEF N
<1> QED BY <1>8, <1>9 DEF K, N

\* The queue is the entries of the listed slots.
LEMMA QueueSpelled ==
    ASSUME NEW nx, NEW first, NEW q, Linked(nx, first, q), NEW is
    PROVE  QueueOf(nx, first, is) = Image(q, is)
<1>1. q \in Seq(Slots) /\ IsInjective(q) /\ TaskCapacity \in Nat
  BY StorageAssumption DEF Linked
<1>2. PICK m \in Nat : m = Len(q)
  BY <1>1
<1>3. m <= TaskCapacity /\ DOMAIN q = 1..m
  BY <1>1, <1>2, SlotsBound
<1> DEFINE at == ChainOf(nx, first)
           W == {n \in 0..(TaskCapacity - 1) : at[n] # 0}
<1>4. \A n \in 0..TaskCapacity : at[n] = At(q, n + 1)
  BY ChainMeets
<1> HIDE DEF at
<1>5. W = 0..(m - 1)
  <2>1. ASSUME NEW n \in 0..(TaskCapacity - 1) PROVE at[n] # 0 <=> n \in 0..(m - 1)
    <3>1. n \in 0..TaskCapacity /\ (n + 1 \in 1..m <=> n \in 0..(m - 1))
      BY <1>1
    <3>2. CASE n + 1 \in 1..m
      <4>1. at[n] = q[n + 1] /\ q[n + 1] \in Slots
        BY <1>1, <1>2, <1>4, <3>1, <3>2 DEF At
      <4> QED BY <1>1, <3>1, <3>2, <4>1 DEF Slots
    <3>3. CASE n + 1 \notin 1..m
      BY <1>2, <1>4, <3>1, <3>3 DEF At
    <3> QED BY <3>2, <3>3
  <2>2. \A n \in 0..(m - 1) : n \in 0..(TaskCapacity - 1)
    BY <1>1, <1>3
  <2> QED BY <2>1, <2>2
<1>6. Cardinality(W) = m
  <2>1. PICK a \in Int, b \in Int : a = 0 /\ b = m - 1
    OBVIOUS
  <2>2. /\ IsFiniteSet(a..b)
        /\ Cardinality(a..b) = IF a > b THEN 0 ELSE b - a + 1
    BY FS_Interval
  <2> HIDE DEF W
  <2> QED BY <1>5, <2>1, <2>2
<1> DEFINE slots == [i \in 1..m |-> at[i - 1]]
<1>7. QueueOf(nx, first, is) = [i \in DOMAIN slots |-> is[slots[i]]]
  <2>1. QueueOf(nx, first, is) =
          LET sl == [i \in 1..Cardinality(W) |-> at[i - 1]]
          IN  [i \in DOMAIN sl |-> is[sl[i]]]
    BY DEF QueueOf, ChainSlotsOf, at
  <2> HIDE DEF W
  <2> QED BY <1>6, <2>1
<1>8. ASSUME NEW i \in 1..m PROVE slots[i] = q[i]
  <2>1. PICK n : n = i - 1
    OBVIOUS
  <2>2. n \in 0..TaskCapacity /\ n + 1 = i
    BY <1>1, <1>3, <2>1
  <2>3. slots[i] = at[n]
    BY <2>1
  <2> QED BY <1>2, <1>4, <2>2, <2>3 DEF At
<1>9. DOMAIN slots = 1..m
  OBVIOUS
<1> HIDE DEF slots
<1> QED BY <1>3, <1>7, <1>8, <1>9 DEF Image

-----------------------------------------------------------------------------
(* The two lists under each operation.                                     *)

\* The links nx hold the list q, from head to tail and of the size counted,
\* and the list f of free slots: each slot is in one of them.
ListsOf(nx, hd, tl, fr, sz, q, f) ==
    /\ nx \in [Slots -> 0..TaskCapacity]
    /\ Linked(nx, hd, q) /\ Linked(nx, fr, f)
    /\ Range(q) \cap Range(f) = {} /\ Range(q) \cup Range(f) = Slots
    /\ tl = At(q, Len(q)) /\ sz = Len(q)

\* The tail is the last slot of a list that has one.
LEMMA TailSlot ==
    ASSUME NEW nx, NEW hd, NEW tl, NEW fr, NEW sz, NEW q, NEW f,
           ListsOf(nx, hd, tl, fr, sz, q, f)
    PROVE  /\ q \in Seq(Slots) /\ IsInjective(q) /\ Len(q) \in Nat
           /\ DOMAIN q = 1..Len(q) /\ 0 \notin Slots
           /\ \A i \in 1..Len(q) : q[i] \in Range(q) /\ q[i] \in Slots
           /\ q = <<>> <=> tl = 0
           /\ q = <<>> => Len(q) = 0
           /\ q # <<>> => Len(q) \in 1..Len(q) /\ tl = q[Len(q)]
<1>1. /\ q \in Seq(Slots) /\ IsInjective(q) /\ Len(q) \in Nat
      /\ DOMAIN q = 1..Len(q)
  BY DEF ListsOf, Linked
<1>2. \A i \in 1..Len(q) : q[i] \in Range(q) /\ q[i] \in Slots
  BY <1>1 DEF Range
<1>3. 0 \notin Slots
  BY StorageAssumption DEF Slots
<1>4. q = <<>> => Len(q) = 0
  OBVIOUS
<1>5. q # <<>> => Len(q) \in 1..Len(q)
  BY <1>1
<1>6. tl = At(q, Len(q))
  BY DEF ListsOf
<1>7. q # <<>> => tl = q[Len(q)]
  BY <1>5, <1>6 DEF At
<1>8. q = <<>> => tl = 0
  BY <1>4, <1>6 DEF At
<1> QED BY <1>1, <1>2, <1>3, <1>4, <1>5, <1>7, <1>8

\* push_back takes the first free slot behind the tail.
LEMMA PushBackLists ==
    ASSUME NEW nx, NEW hd, NEW tl, NEW fr, NEW sz, NEW q, NEW f,
           ListsOf(nx, hd, tl, fr, sz, q, f), fr # 0,
           NEW ny, ny = IF tl = 0 THEN [nx EXCEPT ![fr] = 0]
                        ELSE [[nx EXCEPT ![fr] = 0] EXCEPT ![tl] = fr]
    PROVE  /\ ListsOf(ny, IF tl = 0 THEN fr ELSE hd, fr, nx[fr], sz + 1,
                      Append(q, fr), Tail(f))
           /\ fr \in Slots /\ fr \notin Range(q) /\ Len(q) < TaskCapacity
<1>1. /\ q \in Seq(Slots) /\ IsInjective(q) /\ Len(q) \in Nat
      /\ DOMAIN q = 1..Len(q) /\ 0 \notin Slots
      /\ \A i \in 1..Len(q) : q[i] \in Range(q) /\ q[i] \in Slots
      /\ q = <<>> <=> tl = 0
      /\ q = <<>> => Len(q) = 0
      /\ q # <<>> => Len(q) \in 1..Len(q) /\ tl = q[Len(q)]
  BY TailSlot
<1>2. /\ nx \in [Slots -> 0..TaskCapacity]
      /\ Linked(nx, hd, q) /\ Linked(nx, fr, f)
      /\ Range(q) \cap Range(f) = {} /\ Range(q) \cup Range(f) = Slots
      /\ sz = Len(q)
  BY DEF ListsOf
<1>3. /\ fr \in Slots /\ Linked(nx, nx[fr], Tail(f))
      /\ Range(f) = Range(Tail(f)) \cup {fr} /\ fr \notin Range(Tail(f))
  BY <1>2, LinkedTail
<1>4. fr \notin Range(q) /\ \A s \in Range(Tail(f)) : s \notin Range(q) /\ s # fr
  BY <1>2, <1>3
<1>5. tl # 0 => tl \in Range(q) /\ tl \in Slots /\ tl # fr
  BY <1>1, <1>4
<1>6. /\ ny \in [Slots -> 0..TaskCapacity] /\ ny[fr] = 0
      /\ tl # 0 => ny[tl] = fr
      /\ \A s \in Slots : s # fr /\ s # tl => ny[s] = nx[s]
  <2>1. fr \in 0..TaskCapacity /\ 0 \in 0..TaskCapacity
    BY <1>3, StorageAssumption DEF Slots
  <2>2. CASE tl = 0
    BY <1>2, <1>3, <2>1, <2>2
  <2>3. CASE tl # 0
    BY <1>2, <1>3, <1>5, <2>1, <2>3
  <2> QED BY <2>2, <2>3
<1>7. ASSUME NEW i \in 1..(Len(q) - 1) PROVE ny[q[i]] = nx[q[i]]
  <2>1. i \in 1..Len(q) /\ Len(q) \in 1..Len(q) /\ i # Len(q) /\ q # <<>>
    <3>1. PICK n \in Nat : n = Len(q)
      BY <1>1
    <3>2. i \in 1..n /\ n \in 1..n /\ i # n /\ n # 0
      BY <3>1
    <3> QED BY <1>1, <3>1, <3>2
  <2>2. q[i] # q[Len(q)]
    BY <1>1, <2>1 DEF IsInjective
  <2>3. q[i] \in Slots /\ q[i] # fr /\ q[i] # tl
    BY <1>1, <1>4, <2>1, <2>2
  <2> QED BY <1>6, <2>3
<1>8. /\ Linked(ny, IF q = <<>> THEN fr ELSE hd, Append(q, fr))
      /\ Range(Append(q, fr)) = Range(q) \cup {fr}
  <2>1. q # <<>> => ny[q[Len(q)]] = fr
    BY <1>1, <1>6
  <2>2. fr \in Slots /\ fr \notin Range(q) /\ ny[fr] = 0
    BY <1>3, <1>4, <1>6
  <2>3. \A i \in 1..(Len(q) - 1) : ny[q[i]] = nx[q[i]]
    BY <1>7
  <2>4. Linked(nx, hd, q)
    BY <1>2
  <2> QED BY ONLY <2>1, <2>2, <2>3, <2>4, LinkedAppend
<1>9. Linked(ny, nx[fr], Tail(f))
  <2>1. \A s \in Range(Tail(f)) : s \in Slots
    BY <1>2, <1>3
  <2>2. \A s \in Range(Tail(f)) : ny[s] = nx[s]
    BY <1>4, <1>5, <1>6, <2>1
  <2> QED BY <1>3, <2>2, LinkedFrame
<1>10. /\ Append(q, fr) \in Seq(Slots) /\ Len(Append(q, fr)) = Len(q) + 1
       /\ Append(q, fr)[Len(q) + 1] = fr
  BY <1>1, <1>3
<1>11. At(Append(q, fr), Len(Append(q, fr))) = fr
  <2>1. PICK c, n : c = Append(q, fr) /\ n = Len(q)
    OBVIOUS
  <2>2. n \in Nat /\ Len(c) = n + 1 /\ c[n + 1] = fr
    BY <1>1, <1>10, <2>1
  <2>3. At(c, Len(c)) = fr
    BY <2>2 DEF At
  <2> QED BY <2>1, <2>3
<1>12. Len(q) < TaskCapacity
  <2>1. IsInjective(Append(q, fr))
    BY <1>8 DEF Linked
  <2>2. Len(Append(q, fr)) \in 0..TaskCapacity
    BY <1>10, <2>1, SlotsBound
  <2> QED BY <1>1, <1>10, <2>2, StorageAssumption
<1>13. /\ Range(Append(q, fr)) \cap Range(Tail(f)) = {}
       /\ Range(Append(q, fr)) \cup Range(Tail(f)) = Slots
  BY <1>2, <1>3, <1>4, <1>8
<1>14. ListsOf(ny, IF tl = 0 THEN fr ELSE hd, fr, nx[fr], sz + 1,
               Append(q, fr), Tail(f))
  <2>1. (IF q = <<>> THEN fr ELSE hd) = (IF tl = 0 THEN fr ELSE hd)
    BY <1>1
  <2>2. sz + 1 = Len(Append(q, fr))
    BY <1>2, <1>10
  <2> QED BY <1>6, <1>8, <1>9, <1>11, <1>13, <2>1, <2>2 DEF ListsOf
<1> QED BY <1>3, <1>4, <1>12, <1>14

\* push_front takes the first free slot before the head.
LEMMA PushFrontLists ==
    ASSUME NEW nx, NEW hd, NEW tl, NEW fr, NEW sz, NEW q, NEW f,
           ListsOf(nx, hd, tl, fr, sz, q, f), fr # 0,
           NEW ny, ny = [nx EXCEPT ![fr] = hd]
    PROVE  /\ ListsOf(ny, fr, IF tl = 0 THEN fr ELSE tl, nx[fr], sz + 1,
                      <<fr>> \o q, Tail(f))
           /\ fr \in Slots /\ fr \notin Range(q) /\ Len(q) < TaskCapacity
<1>1. /\ q \in Seq(Slots) /\ IsInjective(q) /\ Len(q) \in Nat
      /\ DOMAIN q = 1..Len(q) /\ 0 \notin Slots
      /\ \A i \in 1..Len(q) : q[i] \in Range(q) /\ q[i] \in Slots
      /\ q = <<>> <=> tl = 0
      /\ q = <<>> => Len(q) = 0
      /\ q # <<>> => Len(q) \in 1..Len(q) /\ tl = q[Len(q)]
  BY TailSlot
<1>2. /\ nx \in [Slots -> 0..TaskCapacity]
      /\ Linked(nx, hd, q) /\ Linked(nx, fr, f)
      /\ Range(q) \cap Range(f) = {} /\ Range(q) \cup Range(f) = Slots
      /\ sz = Len(q)
  BY DEF ListsOf
<1>3. /\ fr \in Slots /\ Linked(nx, nx[fr], Tail(f))
      /\ Range(f) = Range(Tail(f)) \cup {fr} /\ fr \notin Range(Tail(f))
  BY <1>2, LinkedTail
<1>4. fr \notin Range(q) /\ \A s \in Range(Tail(f)) : s \notin Range(q) /\ s # fr
  BY <1>2, <1>3
<1>5. hd \in 0..TaskCapacity
  <2>1. hd = At(q, 1)
    BY <1>2 DEF Linked
  <2>2. hd \in Slots \cup {0}
    BY <1>1, <2>1 DEF At
  <2> QED BY <2>2, StorageAssumption DEF Slots
<1>6. /\ ny \in [Slots -> 0..TaskCapacity] /\ ny[fr] = hd
      /\ \A s \in Slots : s # fr => ny[s] = nx[s]
  BY <1>2, <1>3, <1>5
<1>7. Linked(ny, hd, q)
  <2>1. \A s \in Range(q) : ny[s] = nx[s]
    BY <1>2, <1>4, <1>6
  <2> QED BY <1>2, <2>1, LinkedFrame
<1>8. Linked(ny, nx[fr], Tail(f))
  <2>1. \A s \in Range(Tail(f)) : s \in Slots /\ ny[s] = nx[s]
    BY <1>2, <1>3, <1>4, <1>6
  <2> QED BY <1>3, <2>1, LinkedFrame
<1>9. PICK c : c = <<fr>> \o q
  OBVIOUS
<1>10. /\ Linked(ny, fr, c) /\ Range(c) = {fr} \cup Range(q)
       /\ Len(c) = Len(q) + 1 /\ c[1] = fr
       /\ \A i \in 1..Len(q) : c[i + 1] = q[i]
  <2>1. fr \in Slots /\ fr \notin Range(q) /\ ny[fr] = hd
    BY <1>3, <1>4, <1>6
  <2>2. /\ Linked(ny, fr, <<fr>> \o q)
        /\ Range(<<fr>> \o q) = {fr} \cup Range(q)
        /\ Len(<<fr>> \o q) = Len(q) + 1
        /\ (<<fr>> \o q)[1] = fr
        /\ \A i \in 1..Len(q) : (<<fr>> \o q)[i + 1] = q[i]
    BY ONLY <1>7, <2>1, LinkedCons
  <2> QED BY ONLY <1>9, <2>2
<1>11. At(c, Len(c)) = IF tl = 0 THEN fr ELSE tl
  <2>1. PICK n \in Nat : n = Len(q)
    BY <1>1
  <2>2. Len(c) = n + 1 /\ n + 1 \in 1..(n + 1)
    BY <1>10, <2>1
  <2>3. At(c, Len(c)) = c[n + 1]
    BY <2>2 DEF At
  <2>4. CASE q = <<>>
    <3>1. n = 0
      BY <1>1, <2>1, <2>4
    <3> QED BY <1>1, <1>10, <2>3, <2>4, <3>1
  <2>5. CASE q # <<>>
    <3>1. c[n + 1] = q[n]
      BY <1>1, <1>10, <2>1, <2>5
    <3> QED BY <1>1, <2>1, <2>3, <2>5, <3>1
  <2> QED BY <2>4, <2>5
<1>12. Len(q) < TaskCapacity
  <2>1. c \in Seq(Slots) /\ IsInjective(c)
    BY <1>10 DEF Linked
  <2>2. Len(c) \in 0..TaskCapacity
    BY <2>1, SlotsBound
  <2> QED BY <1>1, <1>10, <2>2, StorageAssumption
<1>13. /\ Range(c) \cap Range(Tail(f)) = {}
       /\ Range(c) \cup Range(Tail(f)) = Slots
  BY <1>2, <1>3, <1>4, <1>10
<1>14. ListsOf(ny, fr, IF tl = 0 THEN fr ELSE tl, nx[fr], sz + 1, c, Tail(f))
  BY <1>2, <1>6, <1>8, <1>10, <1>11, <1>13 DEF ListsOf
<1> QED BY <1>3, <1>4, <1>9, <1>12, <1>14

\* What unlink and release make of the links, the head and the tail.
IsUnlink(nx, hd, tl, fr, previous, s, ny, hdn, tln) ==
    /\ hdn = (IF previous = 0 THEN nx[s] ELSE hd)
    /\ tln = (IF tl = s THEN previous ELSE tl)
    /\ ny = [(IF previous = 0 THEN nx ELSE [nx EXCEPT ![previous] = nx[s]])
              EXCEPT ![s] = fr]

\* unlink takes the i-th slot out of the list and puts it before the free ones.
LEMMA UnlinkLists ==
    ASSUME NEW nx, NEW hd, NEW tl, NEW fr, NEW sz, NEW q, NEW f,
           ListsOf(nx, hd, tl, fr, sz, q, f), NEW i \in 1..Len(q),
           NEW ny, NEW hdn, NEW tln,
           IsUnlink(nx, hd, tl, fr, At(q, i - 1), q[i], ny, hdn, tln)
    PROVE  /\ ListsOf(ny, hdn, tln, q[i], sz - 1, RemoveAt(q, i), <<q[i]>> \o f)
           /\ q[i] \in Slots /\ q[i] \notin Range(RemoveAt(q, i))
<1>s. PICK s, previous : s = q[i] /\ previous = At(q, i - 1)
  OBVIOUS
<1>z. PICK nz : nz = IF previous = 0 THEN nx
                     ELSE [nx EXCEPT ![previous] = nx[s]]
  OBVIOUS
<1>y. /\ ny = [nz EXCEPT ![s] = fr]
      /\ hdn = (IF previous = 0 THEN nx[s] ELSE hd)
      /\ tln = (IF tl = s THEN previous ELSE tl)
  BY <1>s, <1>z DEF IsUnlink
<1>1. /\ q \in Seq(Slots) /\ IsInjective(q) /\ Len(q) \in Nat
      /\ DOMAIN q = 1..Len(q) /\ 0 \notin Slots
      /\ \A j \in 1..Len(q) : q[j] \in Range(q) /\ q[j] \in Slots
      /\ q # <<>> => tl = q[Len(q)]
  BY TailSlot
<1>2. /\ nx \in [Slots -> 0..TaskCapacity]
      /\ Linked(nx, hd, q) /\ Linked(nx, fr, f)
      /\ Range(q) \cap Range(f) = {} /\ Range(q) \cup Range(f) = Slots
      /\ sz = Len(q)
  BY DEF ListsOf
<1>3. PICK n \in Nat : n = Len(q)
  BY <1>1
<1>4. i \in 1..n /\ i \in Nat /\ n \in 1..n
  BY <1>3
<1>5. s \in Slots /\ s \in Range(q) /\ s \notin Range(f)
  BY <1>1, <1>2, <1>s
<1>6. /\ i = 1 => previous = 0
      /\ i > 1 => /\ i - 1 \in 1..n /\ previous = q[i - 1]
                  /\ previous \in Slots /\ previous \in Range(q)
                  /\ previous # 0 /\ previous # s
  <2>1. CASE i = 1
    BY <1>3, <1>s, <2>1 DEF At
  <2>2. CASE i > 1
    <3>1. i - 1 \in 1..n /\ i - 1 # i
      BY <1>4, <2>2
    <3>2. previous = q[i - 1]
      BY <1>3, <1>s, <3>1 DEF At
    <3>3. q[i - 1] # q[i]
      BY <1>1, <1>3, <1>4, <3>1 DEF IsInjective
    <3>4. previous \in Slots /\ previous \in Range(q)
      BY <1>1, <1>3, <3>1, <3>2
    <3> QED BY <1>1, <1>s, <2>2, <3>1, <3>2, <3>3, <3>4
  <2> QED BY <1>4, <2>1, <2>2
<1>7. fr \in 0..TaskCapacity /\ nx[s] \in 0..TaskCapacity
  <2>1. fr = At(f, 1) /\ f \in Seq(Slots)
    BY <1>2 DEF Linked
  <2>2. fr \in Slots \cup {0}
    BY <2>1 DEF At
  <2> QED BY <1>2, <1>5, <2>2, StorageAssumption DEF Slots
<1>8. /\ ny \in [Slots -> 0..TaskCapacity] /\ ny[s] = fr
      /\ i > 1 => ny[previous] = nx[s]
      /\ \A x \in Slots : x # s /\ x # previous => ny[x] = nx[x]
  <2>1. CASE i = 1
    BY <1>2, <1>5, <1>6, <1>7, <1>y, <1>z, <2>1
  <2>2. CASE i > 1
    <3>1. /\ nz \in [Slots -> 0..TaskCapacity] /\ nz[previous] = nx[s]
          /\ \A x \in Slots : x # previous => nz[x] = nx[x]
      BY <1>2, <1>5, <1>6, <1>7, <1>z, <2>2
    <3>2. /\ ny \in [Slots -> 0..TaskCapacity] /\ ny[s] = fr
          /\ \A x \in Slots : x # s => ny[x] = nz[x]
      BY <1>5, <1>7, <1>y, <3>1
    <3>3. previous \in Slots /\ previous # s
      BY <1>6, <2>2
    <3>4. ny[previous] = nx[s]
      BY <3>1, <3>2, <3>3
    <3>5. \A x \in Slots : x # s /\ x # previous => ny[x] = nx[x]
      BY <3>1, <3>2
    <3> QED BY ONLY <3>2, <3>4, <3>5
  <2>3. i = 1 \/ i > 1
    BY <1>4
  <2> QED BY ONLY <2>1, <2>2, <2>3
<1>9. PICK c : c = RemoveAt(q, i)
  OBVIOUS
<1>10. /\ Linked(ny, IF i = 1 THEN nx[hd] ELSE hd, c)
       /\ Range(c) = Range(q) \ {s}
  <2>1. i > 1 => ny[q[i - 1]] = nx[q[i]]
    BY <1>6, <1>8, <1>s
  <2>2. ASSUME NEW j \in 1..Len(q), j # i, j # i - 1 PROVE ny[q[j]] = nx[q[j]]
    <3>1. q[j] # s
      BY <1>1, <1>s, <2>2 DEF IsInjective
    <3>2. q[j] # previous
      <4>1. CASE i = 1
        BY <1>1, <1>6, <4>1
      <4>2. CASE i > 1
        <5>1. i - 1 \in 1..Len(q)
          BY <1>3, <1>6, <4>2
        <5>2. q[j] # q[i - 1]
          BY <1>1, <2>2, <5>1 DEF IsInjective
        <5> QED BY <1>6, <4>2, <5>2
      <4> QED BY <1>4, <4>1, <4>2
    <3> QED BY <1>1, <1>8, <3>1, <3>2
  <2>3. \A j \in 1..Len(q) : j # i /\ j # i - 1 => ny[q[j]] = nx[q[j]]
    BY <2>2
  <2>4. Linked(nx, hd, q)
    BY <1>2
  <2>5. /\ Linked(ny, IF i = 1 THEN nx[hd] ELSE hd, RemoveAt(q, i))
        /\ Range(RemoveAt(q, i)) = Range(q) \ {q[i]}
    BY ONLY <2>1, <2>3, <2>4, i \in 1..Len(q), LinkedRemove
  <2> QED BY <1>9, <1>s, <2>5
<1>11. (IF i = 1 THEN nx[hd] ELSE hd) = (IF previous = 0 THEN nx[s] ELSE hd)
  <2>1. CASE i = 1
    <3>1. hd = q[1]
      BY <1>2, <1>3, <1>4, <2>1 DEF Linked, At
    <3> QED BY <1>6, <1>s, <2>1, <3>1
  <2>2. CASE i > 1
    BY <1>6, <2>2
  <2> QED BY <1>4, <2>1, <2>2
<1>12. Linked(ny, fr, f)
  <2>1. \A x \in Range(f) : x \in Slots /\ x # s /\ (i > 1 => x # previous)
    BY <1>2, <1>5, <1>6
  <2>2. \A x \in Range(f) : x # previous
    BY <1>1, <1>4, <1>6, <2>1
  <2>3. \A x \in Range(f) : ny[x] = nx[x]
    BY <1>8, <2>1, <2>2
  <2>4. Linked(nx, fr, f)
    BY <1>2
  <2> QED BY <2>3, <2>4, LinkedFrame
<1>13. Linked(ny, s, <<s>> \o f) /\ Range(<<s>> \o f) = {s} \cup Range(f)
  <2>1. s \in Slots /\ s \notin Range(f) /\ ny[s] = fr
    BY <1>5, <1>8
  <2>2. /\ Linked(ny, s, <<s>> \o f)
        /\ Range(<<s>> \o f) = {s} \cup Range(f)
        /\ Len(<<s>> \o f) = Len(f) + 1
        /\ (<<s>> \o f)[1] = s
        /\ \A j \in 1..Len(f) : (<<s>> \o f)[j + 1] = f[j]
    BY ONLY <1>12, <2>1, LinkedCons
  <2> QED BY ONLY <2>2
<1>14. /\ Len(c) = n - 1
       /\ \A j \in 1..(n - 1) : c[j] = IF j < i THEN q[j] ELSE q[j + 1]
  BY <1>1, <1>3, <1>9, RemoveEntries
<1>15. At(c, Len(c)) = IF tl = s THEN previous ELSE tl
  <2>1. q # <<>> /\ tl = q[n]
    <3>1. q # <<>>
      BY <1>3, <1>4
    <3> QED BY <1>1, <1>3, <3>1
  <2>2. CASE i = n
    <3>1. tl = s
      BY <1>s, <2>1, <2>2
    <3>2. CASE n = 1
      BY <1>6, <1>14, <2>2, <3>1, <3>2 DEF At
    <3>3. CASE n > 1
      <4>1. n - 1 \in 1..(n - 1) /\ n - 1 < i
        BY <2>2, <3>3
      <4>2. At(c, Len(c)) = q[n - 1]
        BY <1>14, <4>1 DEF At
      <4> QED BY <1>6, <2>2, <3>1, <3>3, <4>2
    <3> QED BY <1>4, <3>2, <3>3
  <2>3. CASE i # n
    <3>1. n - 1 \in 1..(n - 1) /\ ~(n - 1 < i) /\ (n - 1) + 1 = n
      BY <1>4, <2>3
    <3>2. At(c, Len(c)) = q[n]
      BY <1>14, <3>1 DEF At
    <3>3. q[i] # q[n]
      BY <1>1, <1>3, <1>4, <2>3 DEF IsInjective
    <3> QED BY <1>s, <2>1, <3>2, <3>3
  <2> QED BY <2>2, <2>3
<1>16. Range(c) \cap Range(<<s>> \o f) = {} /\ Range(c) \cup Range(<<s>> \o f) = Slots
  BY <1>2, <1>5, <1>10, <1>13
<1>17. sz - 1 = Len(c)
  BY <1>2, <1>3, <1>14
<1>18. ListsOf(ny, hdn, tln, s, sz - 1, c, <<s>> \o f)
  BY <1>8, <1>10, <1>11, <1>13, <1>15, <1>16, <1>17, <1>y DEF ListsOf
<1> QED BY <1>5, <1>9, <1>10, <1>18, <1>s

\* pop_front is the removal of the first slot: the list is then empty exactly
\* if that slot was its last.
LEMMA FirstIsLast ==
    ASSUME NEW nx, NEW hd, NEW tl, NEW fr, NEW sz, NEW q, NEW f,
           ListsOf(nx, hd, tl, fr, sz, q, f), hd # 0
    PROVE  1 \in 1..Len(q) /\ hd = q[1] /\ (nx[hd] = 0 <=> tl = hd)
<1>1. /\ q \in Seq(Slots) /\ IsInjective(q) /\ Len(q) \in Nat
      /\ DOMAIN q = 1..Len(q) /\ 0 \notin Slots
      /\ \A j \in 1..Len(q) : q[j] \in Range(q) /\ q[j] \in Slots
      /\ q # <<>> => tl = q[Len(q)]
  BY TailSlot
<1>2. Linked(nx, hd, q)
  BY DEF ListsOf
<1>3. PICK n \in Nat : n = Len(q)
  BY <1>1
<1>4. 1 \in 1..n /\ hd = q[1] /\ n \in 1..n
  <2>1. hd = At(q, 1)
    BY <1>2 DEF Linked
  <2>2. 1 \in 1..n /\ hd = q[1]
    BY <1>3, <2>1 DEF At
  <2> QED BY <2>2
<1>5. tl = q[n]
  <2>1. q # <<>>
    BY <1>3, <1>4
  <2> QED BY <1>1, <1>3, <2>1
<1>6. nx[hd] = At(q, 1 + 1)
  BY <1>2, <1>3, <1>4 DEF Linked
<1>7. CASE n = 1
  BY <1>3, <1>4, <1>5, <1>6, <1>7 DEF At
<1>8. CASE n # 1
  <2>1. 1 + 1 \in 1..n
    BY <1>4, <1>8
  <2>2. nx[hd] \in Slots
    BY <1>1, <1>3, <1>6, <2>1 DEF At
  <2>3. q[1] # q[n]
    BY <1>1, <1>3, <1>4, <1>8 DEF IsInjective
  <2> QED BY <1>1, <1>3, <1>4, <1>5, <2>2, <2>3
<1> QED BY <1>7, <1>8

\* clear leaves the slots on the free list, in order.
LEMMA ClearLists ==
    ASSUME NEW nx, nx = [s \in Slots |-> IF s < TaskCapacity THEN s + 1 ELSE 0]
    PROVE  ListsOf(nx, 0, 0, 1, 0, <<>>, [s \in Slots |-> s])
<1>1. TaskCapacity \in Nat \ {0}
  BY StorageAssumption
<1>2. PICK f : f = [s \in Slots |-> s]
  OBVIOUS
<1>3. /\ f \in Seq(Slots) /\ Len(f) = TaskCapacity
      /\ \A i \in 1..TaskCapacity : f[i] = i
  BY <1>1, <1>2 DEF Slots
<1>4. IsInjective(f) /\ Range(f) = Slots
  BY <1>2 DEF IsInjective, Range
<1>5. nx \in [Slots -> 0..TaskCapacity]
  BY <1>1 DEF Slots
<1>6. Linked(nx, 1, f)
  <2>1. 1 = At(f, 1)
    BY <1>1, <1>3 DEF At
  <2>2. ASSUME NEW i \in 1..TaskCapacity PROVE nx[f[i]] = At(f, i + 1)
    <3>1. nx[f[i]] = IF i < TaskCapacity THEN i + 1 ELSE 0
      BY <1>3 DEF Slots
    <3>2. CASE i < TaskCapacity
      <4>1. i + 1 \in 1..TaskCapacity
        BY <1>1, <3>2
      <4> QED BY <1>3, <3>1, <3>2, <4>1 DEF At
    <3>3. CASE ~(i < TaskCapacity)
      <4>1. i + 1 \notin 1..TaskCapacity
        BY <1>1, <3>3
      <4> QED BY <1>3, <3>1, <3>3, <4>1 DEF At
    <3> QED BY <3>2, <3>3
  <2> QED BY <1>3, <1>4, <2>1, <2>2 DEF Linked
<1>7. PICK e : e = <<>>
  OBVIOUS
<1>8. e \in Seq(Slots) /\ Len(e) = 0 /\ IsInjective(e) /\ Range(e) = {}
  BY <1>7 DEF IsInjective, Range
<1>9. Linked(nx, 0, e)
  BY <1>8 DEF Linked, At
<1>10. At(e, Len(e)) = 0
  BY <1>8 DEF At
<1>11. ListsOf(nx, 0, 0, 1, 0, e, f)
  BY <1>4, <1>5, <1>6, <1>8, <1>9, <1>10 DEF ListsOf
<1> QED BY <1>2, <1>7, <1>11

-----------------------------------------------------------------------------
(* The abstract queue under each operation.                                *)

\* The queue a list spells: its length and its entries.
LEMMA ImageEntries ==
    ASSUME NEW q \in Seq(Slots), NEW is \in [Slots -> 0..MaxId]
    PROVE  /\ Image(q, is) \in Seq(0..MaxId)
           /\ Len(Image(q, is)) = Len(q)
           /\ \A i \in 1..Len(q) : Image(q, is)[i] = is[q[i]]
<1>1. PICK n \in Nat : n = Len(q)
  OBVIOUS
<1>2. DOMAIN q = 1..n /\ \A i \in 1..n : q[i] \in Slots
  BY <1>1
<1>3. PICK c : c = Image(q, is)
  OBVIOUS
<1>4. c = [i \in 1..n |-> is[q[i]]]
  BY <1>2, <1>3 DEF Image
<1>5. c \in [1..n -> 0..MaxId]
  BY <1>2, <1>4
<1>6. c \in Seq(0..MaxId) /\ Len(c) = n
  <2>1. PICK T : T = 0..MaxId
    OBVIOUS
  <2>2. c \in [1..n -> T]
    BY <1>5, <2>1
  <2>3. c \in Seq(T) /\ Len(c) = n
    BY ONLY <2>2, n \in Nat
  <2> QED BY <2>1, <2>3
<1> QED BY <1>1, <1>3, <1>4, <1>6

\* Sequences with the same entries are the same.
LEMMA SameEntries ==
    ASSUME NEW S, NEW a \in Seq(S), NEW b \in Seq(S), Len(a) = Len(b),
           \A i \in 1..Len(a) : a[i] = b[i]
    PROVE  a = b
OBVIOUS

\* The entries with one of them written.
Writes(is, s, id, iz) == iz = [is EXCEPT ![s] = id]

\* An entry written for a slot behind the list.
LEMMA ImageAppend ==
    ASSUME NEW q \in Seq(Slots), NEW is \in [Slots -> 0..MaxId],
           NEW s \in Slots, s \notin Range(q), NEW id \in 0..MaxId,
           NEW iz, Writes(is, s, id, iz)
    PROVE  Image(Append(q, s), iz) = Append(Image(q, is), id)
<1>1. PICK n \in Nat : n = Len(q)
  OBVIOUS
<1>2. PICK c : c = Append(q, s)
  OBVIOUS
<1>3. /\ c \in Seq(Slots) /\ Len(c) = n + 1 /\ c[n + 1] = s
      /\ \A i \in 1..n : c[i] = q[i]
  BY <1>1, <1>2
<1>4. /\ iz \in [Slots -> 0..MaxId] /\ iz[s] = id
      /\ \A x \in Slots : x # s => iz[x] = is[x]
  BY DEF Writes
<1>5. \A i \in 1..n : q[i] \in Slots /\ q[i] # s
  BY <1>1 DEF Range
<1>6. PICK a, b : a = Image(c, iz) /\ b = Image(q, is)
  OBVIOUS
<1>7. /\ a \in Seq(0..MaxId) /\ Len(a) = n + 1
      /\ \A i \in 1..(n + 1) : a[i] = iz[c[i]]
  <2>1. c \in Seq(Slots) /\ iz \in [Slots -> 0..MaxId]
    BY <1>3, <1>4
  <2>2. /\ Image(c, iz) \in Seq(0..MaxId)
        /\ Len(Image(c, iz)) = Len(c)
        /\ \A j \in 1..Len(c) : Image(c, iz)[j] = iz[c[j]]
    BY ONLY <2>1, ImageEntries
  <2> QED BY <1>3, <1>6, <2>2
<1>8. b \in Seq(0..MaxId) /\ Len(b) = n /\ \A i \in 1..n : b[i] = is[q[i]]
  BY <1>1, <1>6, ImageEntries
<1>9. PICK d : d = Append(b, id)
  OBVIOUS
<1>10. /\ d \in Seq(0..MaxId) /\ Len(d) = n + 1 /\ d[n + 1] = id
       /\ \A i \in 1..n : d[i] = b[i]
  BY <1>8, <1>9
<1>11. ASSUME NEW i \in 1..(n + 1) PROVE a[i] = d[i]
  <2>1. CASE i = n + 1
    BY <1>3, <1>4, <1>7, <1>10, <2>1
  <2>2. CASE i # n + 1
    <3>1. i \in 1..n
      BY <2>2
    <3>2. iz[q[i]] = is[q[i]]
      BY <1>4, <1>5, <3>1
    <3>3. a[i] = iz[q[i]] /\ d[i] = is[q[i]]
      BY <1>3, <1>7, <1>8, <1>10, <3>1
    <3> QED BY ONLY <3>2, <3>3
  <2> QED BY <2>1, <2>2
<1>12. a = d
  BY <1>7, <1>10, <1>11, SameEntries
<1> QED BY <1>2, <1>6, <1>9, <1>12

\* A sequence is another one behind a new first entry.
IsCons(c, e, q) == c = <<e>> \o q

\* An entry written for a slot before the list.
LEMMA ImageCons ==
    ASSUME NEW q \in Seq(Slots), NEW is \in [Slots -> 0..MaxId],
           NEW s \in Slots, s \notin Range(q), NEW id \in 0..MaxId,
           NEW iz, Writes(is, s, id, iz), NEW c, IsCons(c, s, q)
    PROVE  IsCons(Image(c, iz), id, Image(q, is))
<1>1. PICK n \in Nat : n = Len(q)
  OBVIOUS
<1>2. c = <<s>> \o q
  BY DEF IsCons
<1>3. /\ c \in Seq(Slots) /\ Len(c) = n + 1 /\ c[1] = s
      /\ \A i \in 1..n : c[i + 1] = q[i]
  BY <1>1, <1>2, ConsEntries
<1>4. /\ iz \in [Slots -> 0..MaxId] /\ iz[s] = id
      /\ \A x \in Slots : x # s => iz[x] = is[x]
  BY DEF Writes
<1>5. \A i \in 1..n : q[i] \in Slots /\ q[i] # s
  BY <1>1 DEF Range
<1>6. PICK a, b : a = Image(c, iz) /\ b = Image(q, is)
  OBVIOUS
<1>7. /\ a \in Seq(0..MaxId) /\ Len(a) = n + 1
      /\ \A i \in 1..(n + 1) : a[i] = iz[c[i]]
  <2>1. c \in Seq(Slots) /\ iz \in [Slots -> 0..MaxId]
    BY <1>3, <1>4
  <2>2. /\ Image(c, iz) \in Seq(0..MaxId)
        /\ Len(Image(c, iz)) = Len(c)
        /\ \A j \in 1..Len(c) : Image(c, iz)[j] = iz[c[j]]
    BY ONLY <2>1, ImageEntries
  <2> QED BY <1>3, <1>6, <2>2
<1>8. b \in Seq(0..MaxId) /\ Len(b) = n /\ \A i \in 1..n : b[i] = is[q[i]]
  BY <1>1, <1>6, ImageEntries
<1>9. PICK d : d = <<id>> \o b
  OBVIOUS
<1>10. /\ d \in Seq(0..MaxId) /\ Len(d) = n + 1 /\ d[1] = id
       /\ \A i \in 1..n : d[i + 1] = b[i]
  BY <1>8, <1>9, ConsEntries
<1>11. ASSUME NEW i \in 1..(n + 1) PROVE a[i] = d[i]
  <2>1. CASE i = 1
    BY <1>3, <1>4, <1>7, <1>10, <2>1
  <2>2. CASE i # 1
    <3>1. PICK j : j = i - 1
      OBVIOUS
    <3>2. j \in 1..n /\ j + 1 = i
      BY <2>2, <3>1
    <3>3. a[i] = iz[q[j]] /\ d[i] = is[q[j]]
      <4>1. a[i] = iz[c[i]]
        BY <1>7
      <4>2. c[i] = q[j]
        BY <1>3, <3>2
      <4>3. d[i] = b[j]
        BY <1>10, <3>2
      <4>4. b[j] = is[q[j]]
        BY <1>8, <3>2
      <4> QED BY ONLY <4>1, <4>2, <4>3, <4>4
    <3>4. iz[q[j]] = is[q[j]]
      BY <1>4, <1>5, <3>2
    <3> QED BY ONLY <3>3, <3>4
  <2> QED BY <2>1, <2>2
<1>12. a = d
  BY <1>7, <1>10, <1>11, SameEntries
<1> QED BY <1>6, <1>9, <1>12 DEF IsCons

\* The entry of a slot that left the list is erased.
LEMMA ImageRemove ==
    ASSUME NEW q \in Seq(Slots), NEW is \in [Slots -> 0..MaxId],
           NEW i \in 1..Len(q), NEW s \in Slots, s \notin Range(RemoveAt(q, i)),
           NEW iz, Writes(is, s, 0, iz)
    PROVE  Image(RemoveAt(q, i), iz) = RemoveAt(Image(q, is), i)
<1>1. PICK n \in Nat : n = Len(q)
  OBVIOUS
<1>2. PICK c : c = RemoveAt(q, i)
  OBVIOUS
<1>3. /\ c \in Seq(Slots) /\ Len(c) = n - 1 /\ i \in 1..n /\ n - 1 \in Nat
      /\ \A j \in 1..(n - 1) : c[j] = IF j < i THEN q[j] ELSE q[j + 1]
  <2>1. /\ c \in Seq(Slots) /\ Len(c) = Len(q) - 1
        /\ \A j \in 1..(Len(q) - 1) : c[j] = IF j < i THEN q[j] ELSE q[j + 1]
    BY <1>2, RemoveEntries
  <2>2. i \in 1..n /\ n - 1 \in Nat
    BY <1>1
  <2> QED BY <1>1, <2>1, <2>2
<1>4. /\ iz \in [Slots -> 0..MaxId]
      /\ \A x \in Slots : x # s => iz[x] = is[x]
  BY StorageAssumption DEF Writes
<1>5. \A j \in 1..(n - 1) : c[j] \in Slots /\ c[j] # s
  BY <1>2, <1>3 DEF Range
<1>6. PICK a, b : a = Image(c, iz) /\ b = Image(q, is)
  OBVIOUS
<1>7. /\ a \in Seq(0..MaxId) /\ Len(a) = n - 1
      /\ \A j \in 1..(n - 1) : a[j] = iz[c[j]]
  <2>1. c \in Seq(Slots) /\ iz \in [Slots -> 0..MaxId]
    BY <1>3, <1>4
  <2>2. /\ Image(c, iz) \in Seq(0..MaxId)
        /\ Len(Image(c, iz)) = Len(c)
        /\ \A j \in 1..Len(c) : Image(c, iz)[j] = iz[c[j]]
    BY ONLY <2>1, ImageEntries
  <2> QED BY <1>3, <1>6, <2>2
<1>8. b \in Seq(0..MaxId) /\ Len(b) = n /\ \A j \in 1..n : b[j] = is[q[j]]
  BY <1>1, <1>6, ImageEntries
<1>9. PICK d : d = RemoveAt(b, i)
  OBVIOUS
<1>10. /\ d \in Seq(0..MaxId) /\ Len(d) = n - 1
       /\ \A j \in 1..(n - 1) : d[j] = IF j < i THEN b[j] ELSE b[j + 1]
  <2>1. i \in 1..Len(b)
    BY <1>3, <1>8
  <2> QED BY <1>8, <1>9, <2>1, RemoveEntries
<1>11. ASSUME NEW j \in 1..(n - 1) PROVE a[j] = d[j]
  <2>1. a[j] = is[c[j]]
    BY <1>4, <1>5, <1>7
  <2>2. j \in 1..n /\ j + 1 \in 1..n
    BY <1>3
  <2> QED BY <1>3, <1>8, <1>10, <2>1, <2>2
<1>12. a = d
  BY <1>7, <1>10, <1>11, SameEntries
<1> QED BY <1>2, <1>6, <1>9, <1>12

-----------------------------------------------------------------------------
(* The operations on the state.                                            *)

\* The arrays hold task ids and the two lists.
QueueInv ==
    /\ ids \in [Slots -> 0..MaxId]
    /\ \E q, f : ListsOf(next, head, tail, free, size, q, f)

\* The abstract queue is what the listed slots hold, before and after a step.
LEMMA QueueNow ==
    ASSUME NEW q, NEW f, ListsOf(next, head, tail, free, size, q, f)
    PROVE  Ready!Queue = Image(q, ids)
<1>1. Linked(next, head, q)
  BY DEF ListsOf
<1>2. QueueOf(next, head, ids) = Image(q, ids)
  BY <1>1, QueueSpelled
<1> QED BY <1>2, QueueIsOf

\* The abstract queue after a step is what the listed slots then hold.
LEMMA QueueThen ==
    ASSUME NEW q, NEW f, ListsOf(next', head', tail', free', size', q, f)
    PROVE  Ready!Queue' = Image(q, ids')
<1>1. PICK nx, hd, tl, fr, sz, is : /\ nx = next' /\ hd = head' /\ tl = tail'
                                    /\ fr = free' /\ sz = size' /\ is = ids'
  OBVIOUS
<1>2. ListsOf(nx, hd, tl, fr, sz, q, f)
  BY <1>1
<1>3. Linked(nx, hd, q)
  BY <1>2 DEF ListsOf
<1>4. QueueOf(nx, hd, is) = Image(q, is)
  BY <1>3, QueueSpelled
<1> QED BY <1>1, <1>4, QueueIsOf

\* Lists found after a step show that the invariant holds there.
LEMMA QueueInvThen ==
    ASSUME ids' \in [Slots -> 0..MaxId], NEW q, NEW f,
           ListsOf(next', head', tail', free', size', q, f)
    PROVE  QueueInv'
BY DEF QueueInv, ListsOf, Linked, At

\* push_back appends, and only when there is room.
LEMMA PushBackStep ==
    ASSUME QueueInv, NEW id \in 1..MaxId, Ready!PushBack(id)
    PROVE  QueueInv' /\ Ready!Fifo!Next
<1>1. ids \in [Slots -> 0..MaxId]
  BY DEF QueueInv
<1>2. PICK q, f : ListsOf(next, head, tail, free, size, q, f)
  BY DEF QueueInv
<1>3. /\ free # 0 /\ free' = next[free] /\ size' = size + 1 /\ out' = 0
      /\ ids' = [ids EXCEPT ![free] = id]
      /\ head' = (IF tail = 0 THEN free ELSE head) /\ tail' = free
      /\ next' = IF tail = 0 THEN [next EXCEPT ![free] = 0]
                 ELSE [[next EXCEPT ![free] = 0] EXCEPT ![tail] = free]
  BY DEF Ready!PushBack, Ready!Claim, Ready!Cut
<1>4. PICK ny : ny = next'
  OBVIOUS
<1>5. /\ ListsOf(ny, IF tail = 0 THEN free ELSE head, free, next[free], size + 1,
                 Append(q, free), Tail(f))
      /\ free \in Slots /\ free \notin Range(q) /\ Len(q) < TaskCapacity
  <2>1. free # 0 /\ ny = IF tail = 0 THEN [next EXCEPT ![free] = 0]
                        ELSE [[next EXCEPT ![free] = 0] EXCEPT ![tail] = free]
    BY <1>3, <1>4
  <2> QED BY ONLY <1>2, <2>1, PushBackLists
<1>6. ListsOf(next', head', tail', free', size', Append(q, free), Tail(f))
  BY <1>3, <1>4, <1>5
<1>7. q \in Seq(Slots) /\ id \in 0..MaxId
  BY <1>2, StorageAssumption DEF ListsOf, Linked
<1>8. QueueInv'
  <2>1. ids' \in [Slots -> 0..MaxId]
    BY <1>1, <1>3, <1>7
  <2> QED BY <1>6, <2>1, QueueInvThen
<1>9. Image(Append(q, free), ids') = Append(Image(q, ids), id)
  <2>1. Writes(ids, free, id, ids')
    BY <1>3 DEF Writes
  <2> QED BY <1>1, <1>5, <1>7, <2>1, ImageAppend
<1>10. Ready!Queue = Image(q, ids) /\ Ready!Queue' = Image(Append(q, free), ids')
  BY <1>2, <1>6, QueueNow, QueueThen
<1>11. Len(Image(q, ids)) = Len(q)
  BY <1>1, <1>7, ImageEntries
<1>12. Ready!Fifo!PushBack(id)
  BY <1>3, <1>5, <1>9, <1>10, <1>11 DEF Ready!Fifo!PushBack
<1> QED BY <1>8, <1>12 DEF Ready!Fifo!Next

\* push_front puts the id before the others, and only when there is room.
LEMMA PushFrontStep ==
    ASSUME QueueInv, NEW id \in 1..MaxId, Ready!PushFront(id)
    PROVE  QueueInv' /\ Ready!Fifo!Next
<1>1. ids \in [Slots -> 0..MaxId]
  BY DEF QueueInv
<1>2. PICK q, f : ListsOf(next, head, tail, free, size, q, f)
  BY DEF QueueInv
<1>3. /\ free # 0 /\ free' = next[free] /\ size' = size + 1 /\ out' = 0
      /\ ids' = [ids EXCEPT ![free] = id]
      /\ head' = free /\ tail' = (IF tail = 0 THEN free ELSE tail)
      /\ next' = [next EXCEPT ![free] = head]
  BY DEF Ready!PushFront, Ready!Claim
<1>4. PICK ny : ny = next'
  OBVIOUS
<1>5. /\ ListsOf(ny, free, IF tail = 0 THEN free ELSE tail, next[free], size + 1,
                 <<free>> \o q, Tail(f))
      /\ free \in Slots /\ free \notin Range(q) /\ Len(q) < TaskCapacity
  <2>1. free # 0 /\ ny = [next EXCEPT ![free] = head]
    BY <1>3, <1>4
  <2> QED BY ONLY <1>2, <2>1, PushFrontLists
<1>6. ListsOf(next', head', tail', free', size', <<free>> \o q, Tail(f))
  BY <1>3, <1>4, <1>5
<1>7. q \in Seq(Slots) /\ id \in 0..MaxId
  BY <1>2, StorageAssumption DEF ListsOf, Linked
<1>8. QueueInv'
  <2>1. ids' \in [Slots -> 0..MaxId]
    BY <1>1, <1>3, <1>7
  <2> QED BY <1>6, <2>1, QueueInvThen
<1>9. Image(<<free>> \o q, ids') = <<id>> \o Image(q, ids)
  <2>1. Writes(ids, free, id, ids')
    BY <1>3 DEF Writes
  <2>2. free \in Slots /\ free \notin Range(q)
    BY <1>5
  <2>3. PICK c : c = <<free>> \o q
    OBVIOUS
  <2>4. IsCons(c, free, q)
    BY <2>3 DEF IsCons
  <2>5. IsCons(Image(c, ids'), id, Image(q, ids))
    BY ONLY <1>1, <1>7, <2>1, <2>2, <2>4, ImageCons
  <2> QED BY <2>3, <2>5 DEF IsCons
<1>10. Ready!Queue = Image(q, ids) /\ Ready!Queue' = Image(<<free>> \o q, ids')
  BY <1>2, <1>6, QueueNow, QueueThen
<1>11. Len(Image(q, ids)) = Len(q)
  BY <1>1, <1>7, ImageEntries
<1>12. Ready!Fifo!PushFront(id)
  BY <1>3, <1>5, <1>9, <1>10, <1>11 DEF Ready!Fifo!PushFront
<1> QED BY <1>8, <1>12 DEF Ready!Fifo!Next

\* unlink and release take one entry out of the queue.
LEMMA UnlinkStep ==
    ASSUME ids \in [Slots -> 0..MaxId], NEW q, NEW f,
           ListsOf(next, head, tail, free, size, q, f),
           NEW i \in 1..Len(q), Ready!Unlink(At(q, i - 1), q[i])
    PROVE  /\ QueueInv' /\ Ready!Queue = Image(q, ids)
           /\ Ready!Queue' = RemoveAt(Ready!Queue, i)
<1>1. PICK s : s = q[i]
  OBVIOUS
<1>2. PICK ny, hd, tl : ny = next' /\ hd = head' /\ tl = tail'
  OBVIOUS
<1>3. /\ IsUnlink(next, head, tail, free, At(q, i - 1), q[i], ny, hd, tl)
      /\ ids' = [ids EXCEPT ![s] = 0] /\ free' = s /\ size' = size - 1
  BY <1>1, <1>2 DEF Ready!Unlink, Ready!Release, IsUnlink
<1>4. /\ ListsOf(ny, hd, tl, q[i], size - 1, RemoveAt(q, i), <<q[i]>> \o f)
      /\ q[i] \in Slots /\ q[i] \notin Range(RemoveAt(q, i))
  BY <1>3, UnlinkLists
<1>5. s \in Slots /\ s \notin Range(RemoveAt(q, i))
  BY <1>1, <1>4
<1>6. ListsOf(next', head', tail', free', size', RemoveAt(q, i), <<q[i]>> \o f)
  BY <1>1, <1>2, <1>3, <1>4
<1>7. QueueInv'
  <2>1. ids' \in [Slots -> 0..MaxId]
    BY <1>3, <1>5, StorageAssumption
  <2> QED BY <1>6, <2>1, QueueInvThen
<1>8. Image(RemoveAt(q, i), ids') = RemoveAt(Image(q, ids), i)
  <2>1. q \in Seq(Slots)
    BY DEF ListsOf, Linked
  <2>2. Writes(ids, s, 0, ids')
    BY <1>3 DEF Writes
  <2> QED BY <1>5, <2>1, <2>2, ImageRemove
<1>9. /\ Ready!Queue = Image(q, ids)
      /\ Ready!Queue' = Image(RemoveAt(q, i), ids')
  BY <1>6, QueueNow, QueueThen
<1> QED BY <1>7, <1>8, <1>9

\* The sequence without its first entry.
LEMMA FirstRemoved ==
    ASSUME NEW S, NEW b \in Seq(S), 1 \in 1..Len(b)
    PROVE  b # <<>> /\ Head(b) = b[1] /\ RemoveAt(b, 1) = Tail(b)
<1>1. PICK n \in Nat : n = Len(b)
  OBVIOUS
<1>2. n >= 1 /\ b # <<>> /\ n - 1 \in Nat
  BY <1>1
<1>3. PICK one : one = 1
  OBVIOUS
<1>4. one \in 1..Len(b)
  BY <1>3
<1>5. PICK c, d : c = RemoveAt(b, one) /\ d = Tail(b)
  OBVIOUS
<1>6. /\ c \in Seq(S) /\ Len(c) = Len(b) - 1
      /\ \A j \in 1..(Len(b) - 1) : c[j] = IF j < one THEN b[j] ELSE b[j + 1]
  BY <1>4, <1>5, RemoveEntries
<1>7. /\ d \in Seq(S) /\ Len(d) = n - 1
      /\ \A j \in 1..(n - 1) : d[j] = b[j + 1]
  BY <1>1, <1>2, <1>5
<1>8. ASSUME NEW j \in 1..(n - 1) PROVE c[j] = d[j]
  <2>1. ~(j < one)
    BY <1>3
  <2> QED BY <1>1, <1>6, <1>7, <2>1
<1>9. Len(c) = Len(d) /\ \A j \in 1..Len(c) : c[j] = d[j]
  BY <1>1, <1>6, <1>7, <1>8
<1>10. c = d
  BY <1>6, <1>7, <1>9, SameEntries
<1>11. Head(b) = b[1]
  BY <1>2
<1> QED BY <1>2, <1>3, <1>5, <1>10, <1>11

\* pop_front returns and removes the first entry.
LEMMA PopFrontStep ==
    ASSUME QueueInv, Ready!PopFront
    PROVE  QueueInv' /\ Ready!Fifo!Next
<1>1. ids \in [Slots -> 0..MaxId]
  BY DEF QueueInv
<1>2. PICK q, f : ListsOf(next, head, tail, free, size, q, f)
  BY DEF QueueInv
<1>3. head # 0 /\ out' = ids[head]
  BY DEF Ready!PopFront
<1>4. 1 \in 1..Len(q) /\ head = q[1] /\ (next[head] = 0 <=> tail = head)
  BY <1>2, <1>3, FirstIsLast
<1>5. Ready!Unlink(0, head)
  BY <1>4 DEF Ready!PopFront, Ready!Unlink
<1>6. PICK i : i = 1
  OBVIOUS
<1>7. i \in 1..Len(q) /\ Ready!Unlink(At(q, i - 1), q[i])
  <2>1. At(q, i - 1) = 0
    BY <1>6 DEF At
  <2> QED BY <1>4, <1>5, <1>6, <2>1
<1>8. /\ QueueInv' /\ Ready!Queue = Image(q, ids)
      /\ Ready!Queue' = RemoveAt(Ready!Queue, i)
  BY <1>1, <1>2, <1>7, UnlinkStep
<1>9. q \in Seq(Slots)
  BY <1>2 DEF ListsOf, Linked
<1>10. PICK b : b = Image(q, ids)
  OBVIOUS
<1>11. /\ b \in Seq(0..MaxId) /\ Len(b) = Len(q)
       /\ \A j \in 1..Len(q) : b[j] = ids[q[j]]
  BY <1>1, <1>9, <1>10, ImageEntries
<1>12. b # <<>> /\ Head(b) = b[1] /\ RemoveAt(b, 1) = Tail(b)
  BY <1>4, <1>11, FirstRemoved
<1>13. out' = Head(b)
  BY <1>3, <1>4, <1>11, <1>12
<1>14. Ready!Fifo!PopFront
  BY <1>6, <1>8, <1>10, <1>12, <1>13 DEF Ready!Fifo!PopFront
<1> QED BY <1>8, <1>14 DEF Ready!Fifo!Next

\* take_first returns and removes the first entry its predicate accepts.
LEMMA TakeFirstStep ==
    ASSUME QueueInv, NEW accepted \in Accepts, Ready!TakeFirst(accepted)
    PROVE  QueueInv' /\ Ready!Fifo!Next
<1>1. ids \in [Slots -> 0..MaxId]
  BY DEF QueueInv
<1>2. PICK q, f : ListsOf(next, head, tail, free, size, q, f)
  BY DEF QueueInv
<1>3. Linked(next, head, q) /\ q \in Seq(Slots) /\ IsInjective(q)
  BY <1>2 DEF ListsOf, Linked
<1>4. TaskCapacity \in Nat /\ Len(q) \in 0..TaskCapacity
  BY <1>3, SlotsBound, StorageAssumption
<1> DEFINE at == Ready!Chain(head)
           hits == {n \in 0..(TaskCapacity - 1) :
                      at[n] # 0 /\ ids[at[n]] \in accepted}
<1>5. \A n \in 0..TaskCapacity : at[n] = At(q, n + 1)
  BY <1>3, ChainMeets, QueueIsOf
<1>6. PICK n \in hits : /\ \A m \in hits : n <= m
                        /\ out' = ids[at[n]]
                        /\ Ready!Unlink(IF n = 0 THEN 0 ELSE at[n - 1], at[n])
  BY DEF Ready!TakeFirst
<1> HIDE DEF at
<1>7. PICK i : i = n + 1
  OBVIOUS
<1>8. n \in 0..(TaskCapacity - 1) /\ at[n] # 0 /\ ids[at[n]] \in accepted
  OBVIOUS
<1>9. n \in 0..TaskCapacity /\ i - 1 = n /\ i \in Nat
  BY <1>4, <1>7, <1>8
<1>10. i \in 1..Len(q) /\ at[n] = q[i]
  BY <1>5, <1>7, <1>8, <1>9 DEF At
<1>11. (IF n = 0 THEN 0 ELSE at[n - 1]) = At(q, i - 1)
  <2>1. CASE n = 0
    BY <1>9, <2>1 DEF At
  <2>2. CASE n # 0
    <3>1. n - 1 \in 0..TaskCapacity /\ (n - 1) + 1 = i - 1
      BY <1>4, <1>8, <1>9, <2>2
    <3> QED BY <1>5, <2>2, <3>1
  <2> QED BY <2>1, <2>2
<1>12. Ready!Unlink(At(q, i - 1), q[i])
  BY <1>6, <1>10, <1>11
<1>13. /\ QueueInv' /\ Ready!Queue = Image(q, ids)
       /\ Ready!Queue' = RemoveAt(Ready!Queue, i)
  BY <1>1, <1>2, <1>10, <1>12, UnlinkStep
<1>14. PICK b : b = Image(q, ids)
  OBVIOUS
<1>15. /\ b \in Seq(0..MaxId) /\ Len(b) = Len(q)
       /\ \A j \in 1..Len(q) : b[j] = ids[q[j]]
  BY <1>1, <1>3, <1>14, ImageEntries
<1>16. i \in DOMAIN b /\ b[i] = ids[at[n]] /\ b[i] \in accepted
  BY <1>8, <1>10, <1>15
<1>17. ASSUME NEW j \in 1..(i - 1) PROVE b[j] \notin accepted
  <2> SUFFICES ASSUME b[j] \in accepted PROVE FALSE
    OBVIOUS
  <2>1. PICK m : m = j - 1
    OBVIOUS
  <2>2. /\ j \in 1..Len(q) /\ m \in 0..(TaskCapacity - 1) /\ m + 1 = j
        /\ m \in 0..TaskCapacity /\ ~(n <= m)
    <3>1. PICK k \in Nat : k = Len(q)
      BY <1>4
    <3>2. k <= TaskCapacity /\ i \in 1..k
      BY <1>4, <1>10, <3>1
    <3> QED BY <1>4, <1>8, <1>9, <2>1, <3>1, <3>2
  <2>3. at[m] = q[j] /\ q[j] \in Slots
    BY <1>3, <1>5, <2>2 DEF At
  <2>4. at[m] # 0
    BY <1>4, <2>3 DEF Slots
  <2>5. ids[at[m]] \in accepted
    BY <1>15, <2>2, <2>3
  <2>6. m \in hits
    BY <2>2, <2>4, <2>5
  <2> HIDE DEF hits
  <2> QED BY <1>6, <2>2, <2>6
<1>18. Ready!Fifo!RemoveAt(b, i) = RemoveAt(b, i)
  BY DEF Ready!Fifo!RemoveAt, RemoveAt
<1>19. Ready!Queue = b /\ out' = b[i] /\ Ready!Queue' = Ready!Fifo!RemoveAt(b, i)
  BY <1>6, <1>13, <1>14, <1>16, <1>18
<1>20. Ready!Fifo!TakeFirst(accepted)
  BY <1>16, <1>17, <1>19 DEF Ready!Fifo!TakeFirst
<1> QED BY <1>13, <1>20 DEF Ready!Fifo!Next

\* clear leaves an empty queue.
LEMMA ClearStep ==
    ASSUME Ready!Clear
    PROVE  QueueInv' /\ Ready!Fifo!Next
<1>1. /\ head' = 0 /\ tail' = 0 /\ size' = 0 /\ free' = 1 /\ out' = 0
      /\ ids' = [s \in Slots |-> 0]
      /\ next' = [s \in Slots |-> IF s < TaskCapacity THEN s + 1 ELSE 0]
  BY DEF Ready!Clear, Ready!Cleared, Ready!Slots, Slots
<1>2. ListsOf(next', 0, 0, 1, 0, <<>>, [s \in Slots |-> s])
  <2>1. PICK nx : nx = next'
    OBVIOUS
  <2>2. nx = [s \in Slots |-> IF s < TaskCapacity THEN s + 1 ELSE 0]
    BY <1>1, <2>1
  <2>3. ListsOf(nx, 0, 0, 1, 0, <<>>, [s \in Slots |-> s])
    BY ONLY <2>2, ClearLists
  <2> QED BY <2>1, <2>3
<1>3. PICK q, f : q = <<>> /\ f = [s \in Slots |-> s]
  OBVIOUS
<1>4. ListsOf(next', head', tail', free', size', q, f)
  BY <1>1, <1>2, <1>3
<1>5. QueueInv'
  <2>1. ids' \in [Slots -> 0..MaxId]
    BY <1>1, StorageAssumption
  <2> QED BY <1>4, <2>1, QueueInvThen
<1>6. Ready!Queue' = Image(q, ids')
  BY <1>4, QueueThen
<1>7. Ready!Queue' = <<>>
  BY <1>3, <1>6 DEF Image
<1>8. Ready!Fifo!Clear
  BY <1>1, <1>7 DEF Ready!Fifo!Clear
<1> QED BY <1>5, <1>8 DEF Ready!Fifo!Next

\* The queue starts empty, all its slots free.
LEMMA InitQueue ==
    ASSUME Ready!Init
    PROVE  QueueInv /\ Ready!Fifo!Init
<1>1. /\ head = 0 /\ tail = 0 /\ size = 0 /\ free = 1 /\ out = 0
      /\ ids = [s \in Slots |-> 0]
      /\ next = [s \in Slots |-> IF s < TaskCapacity THEN s + 1 ELSE 0]
  BY DEF Ready!Init, Ready!Slots, Slots
<1>2. ListsOf(next, 0, 0, 1, 0, <<>>, [s \in Slots |-> s])
  BY <1>1, ClearLists
<1>3. PICK q, f : q = <<>> /\ f = [s \in Slots |-> s]
  OBVIOUS
<1>4. ListsOf(next, head, tail, free, size, q, f)
  BY <1>1, <1>2, <1>3
<1>5. QueueInv
  <2>1. ids \in [Slots -> 0..MaxId]
    BY <1>1, StorageAssumption
  <2> QED BY <1>4, <2>1 DEF QueueInv
<1>6. Ready!Queue = Image(q, ids)
  BY <1>4, QueueNow
<1>7. Ready!Queue = <<>>
  BY <1>3, <1>6 DEF Image
<1> QED BY <1>1, <1>5, <1>7 DEF Ready!Fifo!Init

-----------------------------------------------------------------------------
(* The steps of the scheduler.                                             *)

\* A record in use has a task id.
IdsLive == \A s \in Slots : task[s] # NoTask => recordId[s] \in 1..MaxId

\* A step that only changes records in use keeps their ids.
LEMMA IdsStep ==
    ASSUME IdsLive, recordId' = recordId,
           \A s \in Slots : task'[s] = task[s] \/ task[s] # NoTask
    PROVE  IdsLive'
BY DEF IdsLive, NoTask, Task, Done!NoLease

\* A record that is anywhere but at rest, unused, is in use.
LEMMA InUse ==
    ASSUME IdsLive, NEW s \in Slots,
           task[s].state # "none" \/ task[s].step # "rest"
    PROVE  task[s] # NoTask /\ recordId[s] \in 1..MaxId
<1>1. task[s] # NoTask
  BY DEF NoTask, Task
<1> QED BY <1>1 DEF IdsLive

\* A spawn gives a new id to a free record.
LEMMA SpawnIds ==
    ASSUME ResultInv, IdsLive, NEW id \in Nat, id >= nextId, Idx!Spawn(id),
           NEW r, task' = [task EXCEPT ![Head(freeSlots)] = r]
    PROVE  IdsLive' /\ id \in 1..MaxId
<1>1. RecordType
  BY DEF ResultInv
<1>2. freeSlots # <<>> /\ id \in nextId..MaxId
  BY DEF Idx!Spawn
<1>3. id \in 1..MaxId
  BY <1>1, <1>2, StorageAssumption DEF RecordType
<1>4. PICK t : t = Head(freeSlots)
  OBVIOUS
<1>5. t \in Slots
  BY <1>1, <1>2, <1>4 DEF RecordType
<1>6. recordId' = [recordId EXCEPT ![t] = id]
  BY <1>4 DEF Idx!Spawn
<1>7. /\ recordId'[t] = id
      /\ \A s \in Slots : s # t => recordId'[s] = recordId[s] /\ task'[s] = task[s]
  BY <1>1, <1>4, <1>5, <1>6 DEF RecordType
<1>8. IdsLive'
  BY <1>3, <1>7 DEF IdsLive, NoTask, Task, Done!NoLease
<1> QED BY <1>3, <1>8

\* What each step does to the ready queue: nothing, or an operation of it.
QueueStep ==
    IdsLive' /\ QueueInv' /\ (Ready!Fifo!Next \/ UNCHANGED Ready!Fifo!vars)

\* A step that leaves the storage alone leaves the abstract queue alone.
LEMMA QueueLeft ==
    ASSUME QueueInv, UNCHANGED queue
    PROVE  QueueInv' /\ UNCHANGED Ready!Fifo!vars
<1>1. /\ ids' = ids /\ next' = next /\ head' = head /\ tail' = tail
      /\ free' = free /\ size' = size /\ out' = out
  BY DEF queue
<1>2. QueueInv'
  <2>1. ids \in [Slots -> 0..MaxId]
    BY DEF QueueInv
  <2>2. PICK q, f : ListsOf(next, head, tail, free, size, q, f)
    BY DEF QueueInv
  <2>3. ListsOf(next', head', tail', free', size', q, f)
    BY <1>1, <2>2
  <2> QED BY <1>1, <2>1, <2>3, QueueInvThen
<1>3. Ready!Queue' = Ready!Queue
  BY <1>1, QueueIsOf
<1> QED BY <1>1, <1>2, <1>3 DEF Ready!Fifo!vars

\* Spawns queue the new task.
LEMMA SpawnQueue ==
    ASSUME ResultInv, IdsLive, QueueInv, Spawn \/ SpawnObserved
    PROVE  QueueStep
<1>1. nextId \in Nat \ {0}
  BY DEF ResultInv, RecordType
<1>2. CASE Spawn
  <2>1. PICK gap \in Gaps :
          /\ Idx!Spawn(nextId + gap) /\ Ready!PushBack(nextId + gap)
          /\ task' = [task EXCEPT ![Head(freeSlots)] =
                         Task("Ready", "rest", Done!NoLease)]
    BY <1>2 DEF Spawn
  <2>2. PICK id : id = nextId + gap
    OBVIOUS
  <2>3. id \in Nat /\ id >= nextId
    BY <1>1, <2>2, StorageAssumption
  <2>4. IdsLive' /\ id \in 1..MaxId
    BY <2>1, <2>2, <2>3, SpawnIds
  <2>5. QueueInv' /\ Ready!Fifo!Next
    BY <2>1, <2>2, <2>4, PushBackStep
  <2> QED BY <2>4, <2>5 DEF QueueStep
<1>3. CASE SpawnObserved
  <2>1. PICK r : task' = [task EXCEPT ![Head(freeSlots)] = r]
    BY <1>3 DEF SpawnObserved
  <2>2. Idx!Spawn(nextId) /\ Ready!PushBack(nextId)
    BY <1>3 DEF SpawnObserved
  <2>3. nextId \in Nat /\ nextId >= nextId
    BY <1>1
  <2>4. IdsLive' /\ nextId \in 1..MaxId
    BY <2>1, <2>2, <2>3, SpawnIds
  <2>5. QueueInv' /\ Ready!Fifo!Next
    BY <2>2, <2>4, PushBackStep
  <2> QED BY <2>4, <2>5 DEF QueueStep
<1> QED BY <1>2, <1>3

\* Picks, restores, yields and wakes move a task that has its id.
LEMMA MoveQueue ==
    ASSUME ResultInv, IdsLive, QueueInv,
           \/ Pick
           \/ \E s \in Slots : Restore(s) \/ Suspend(s) \/ Wake(s)
    PROVE  QueueStep
<1>1. task \in [Slots -> [state : States, step : Steps,
                          lease : Lease \cup {Done!NoLease}]]
  BY DEF ResultInv, RecordType
<1>2. CASE Pick
  <2>1. QueueInv' /\ Ready!Fifo!Next
    BY <1>2, PopFrontStep, TakeFirstStep DEF Pick
  <2>2. IdsLive'
    BY <1>2, IdsStep DEF Pick, index
  <2> QED BY <2>1, <2>2 DEF QueueStep
<1>3. ASSUME NEW s \in Slots, Restore(s) PROVE QueueStep
  <2>1. recordId[s] \in 1..MaxId
    BY <1>3, InUse DEF Restore, Picked
  <2>2. Ready!PushFront(recordId[s])
    BY <1>3 DEF Restore
  <2>3. QueueInv' /\ Ready!Fifo!Next
    BY <2>1, <2>2, PushFrontStep
  <2>4. IdsLive'
    BY <1>3, IdsStep DEF Restore, index
  <2> QED BY <2>3, <2>4 DEF QueueStep
<1>4. ASSUME NEW s \in Slots, Suspend(s) PROVE QueueStep
  <2>1. task[s] # NoTask /\ recordId[s] \in 1..MaxId
    BY <1>4, InUse DEF Suspend, InBody
  <2>2. IdsLive'
    <3>1. recordId' = recordId /\ \A t \in Slots : t # s => task'[t] = task[t]
      BY <1>1, <1>4 DEF Suspend, index
    <3> QED BY <2>1, <3>1, IdsStep
  <2>3. Ready!PushBack(recordId[s]) \/ UNCHANGED queue
    BY <1>4 DEF Suspend
  <2>4. QueueInv' /\ (Ready!Fifo!Next \/ UNCHANGED Ready!Fifo!vars)
    BY <2>1, <2>3, PushBackStep, QueueLeft
  <2> QED BY <2>2, <2>4 DEF QueueStep
<1>5. ASSUME NEW s \in Slots, Wake(s) PROVE QueueStep
  <2>1. task[s] # NoTask /\ recordId[s] \in 1..MaxId
    BY <1>5, InUse DEF Wake
  <2>2. IdsLive'
    <3>1. recordId' = recordId /\ \A t \in Slots : t # s => task'[t] = task[t]
      BY <1>1, <1>5 DEF Wake, index
    <3> QED BY <2>1, <3>1, IdsStep
  <2>3. Ready!PushBack(recordId[s])
    BY <1>5 DEF Wake
  <2>4. QueueInv' /\ Ready!Fifo!Next
    BY <2>1, <2>3, PushBackStep
  <2> QED BY <2>2, <2>4 DEF QueueStep
<1> QED BY <1>2, <1>3, <1>4, <1>5

\* The steps that leave the queue alone.
LEMMA RestQueue ==
    ASSUME ResultInv, IdsLive, QueueInv,
           \/ \E s \in Slots : \/ Resume(s) \/ Finish(s) \/ Commit(s)
                               \/ FailBody(s) \/ Publish(s) \/ EndQuantum(s)
                               \/ Retire(s)
           \/ ReleaseFrame \/ ObserverWaits \/ ObserverLeaves
    PROVE  QueueStep
<1>1. /\ recordId \in [Slots -> Nat]
      /\ task \in [Slots -> [state : States, step : Steps,
                             lease : Lease \cup {Done!NoLease}]]
  BY DEF ResultInv, RecordType
<1>2. UNCHANGED queue
  BY DEF Resume, Finish, Commit, FailBody, Publish, EndQuantum, Retire,
         ReleaseFrame, ObserverWaits, ObserverLeaves, queue
<1>3. IdsLive'
  <2>1. ASSUME NEW s \in Slots,
               \/ Resume(s) \/ Finish(s) \/ Commit(s) \/ FailBody(s)
               \/ Publish(s) \/ EndQuantum(s)
        PROVE  IdsLive'
    <3>1. task[s].state # "none" \/ task[s].step # "rest"
      BY <2>1 DEF Resume, Finish, Commit, FailBody, Publish, EndQuantum, InBody,
                  Picked
    <3>2. task[s] # NoTask
      BY <3>1, InUse
    <3>3. recordId' = recordId
      BY <2>1 DEF Resume, Finish, Commit, FailBody, Publish, EndQuantum, index
    <3>4. \A t \in Slots : t # s => task'[t] = task[t]
      BY <1>1, <2>1 DEF Resume, Finish, Commit, FailBody, Publish, EndQuantum
    <3> QED BY <3>2, <3>3, <3>4, IdsStep
  <2>2. ASSUME NEW s \in Slots, Retire(s) PROVE IdsLive'
    <3>1. /\ task'[s] = NoTask
          /\ \A t \in Slots : t # s => task'[t] = task[t] /\ recordId'[t] = recordId[t]
      BY <1>1, <2>2 DEF Retire, Idx!Retire
    <3> QED BY <3>1 DEF IdsLive, NoTask, Task, Done!NoLease
  <2>3. CASE ReleaseFrame \/ ObserverWaits \/ ObserverLeaves
    <3>1. task' = task /\ recordId' = recordId
      BY <2>3 DEF ReleaseFrame, ObserverWaits, ObserverLeaves, index
    <3> QED BY <3>1, IdsStep
  <2> QED BY <2>1, <2>2, <2>3
<1>4. QueueInv' /\ UNCHANGED Ready!Fifo!vars
  BY <1>2, QueueLeft
<1> QED BY <1>3, <1>4 DEF QueueStep

\* Reset clears the queue.
LEMMA ResetQueue == ASSUME Reset PROVE QueueStep
<1>1. Ready!Clear /\ task' = [s \in Slots |-> NoTask]
  BY DEF Reset
<1>2. QueueInv' /\ Ready!Fifo!Next
  BY <1>1, ClearStep
<1>3. IdsLive'
  BY <1>1 DEF IdsLive, NoTask, Task, Done!NoLease
<1> QED BY <1>2, <1>3 DEF QueueStep

\* Every step is one abstract step on the queue, or none.
LEMMA NextQueue ==
    ASSUME ResultInv, IdsLive, QueueInv, [Next]_vars
    PROVE  QueueStep
<1>1. CASE Next
  BY <1>1, SpawnQueue, MoveQueue, RestQueue, ResetQueue DEF Next
<1>2. CASE UNCHANGED vars
  <2>1. UNCHANGED queue /\ recordId' = recordId /\ task' = task
    BY <1>2 DEF vars, queue, index
  <2>2. IdsLive'
    BY <2>1, IdsStep
  <2>3. QueueInv' /\ UNCHANGED Ready!Fifo!vars
    BY <2>1, QueueLeft
  <2> QED BY <2>2, <2>3 DEF QueueStep
<1> QED BY <1>1, <1>2

-----------------------------------------------------------------------------
(* Room in the queue.                                                      *)

Waiting(r) == task[r].state = "Ready" /\ task[r].step = "rest"

\* Entries are the ids of waiting tasks, each once, and ids are not reused.
EntriesInv ==
    /\ \A s, t \in Slots : ids[s] = ids[t] /\ ids[s] # 0 => s = t
    /\ \A s \in Slots : ids[s] # 0 =>
         \E r \in Slots : recordId[r] = ids[s] /\ Waiting(r)
    /\ \A r, u \in Slots : recordId[r] = recordId[u] /\ recordId[r] # 0 => r = u
    /\ \A r \in Slots : recordId[r] < nextId

\* A parked task is off its lane.
BlockedRests ==
    \A s \in Slots : task[s].state = "Blocked" => task[s].step = "rest"

\* A blocked task is at rest after every step.
LEMMA NextBlocked ==
    ASSUME ResultInv, BlockedRests, [Next]_vars
    PROVE  BlockedRests'
<1>1. task \in [Slots -> [state : States, step : Steps,
                          lease : Lease \cup {Done!NoLease}]]
  BY DEF ResultInv, RecordType
<1>2. CASE Spawn \/ SpawnObserved
  <2>1. \E t, l : task' = [task EXCEPT ![t] = Task("Ready", "rest", l)]
    BY <1>2 DEF Spawn, SpawnObserved
  <2> QED BY <1>1, <2>1 DEF BlockedRests, Task
<1>3. ASSUME NEW s \in Slots, Suspend(s) PROVE BlockedRests'
  BY <1>1, <1>3 DEF Suspend, BlockedRests
<1>4. ASSUME NEW s \in Slots,
             Resume(s) \/ Wake(s) \/ Finish(s) \/ Commit(s) \/ FailBody(s)
      PROVE  BlockedRests'
  <2>1. /\ task'[s].state # "Blocked"
        /\ \A t \in Slots : t # s => task'[t] = task[t]
    BY <1>1, <1>4 DEF Resume, Wake, Finish, Commit, FailBody
  <2> QED BY <2>1 DEF BlockedRests
<1>5. ASSUME NEW s \in Slots, Publish(s) \/ EndQuantum(s) PROVE BlockedRests'
  <2>1. task[s].step # "rest"
    BY <1>5 DEF Publish, EndQuantum
  <2>2. task[s].state # "Blocked"
    BY <2>1 DEF BlockedRests
  <2>3. /\ task'[s].state # "Blocked"
        /\ \A t \in Slots : t # s => task'[t] = task[t]
    BY <1>1, <1>5, <2>2 DEF Publish, EndQuantum
  <2> QED BY <2>3 DEF BlockedRests
<1>6. ASSUME NEW s \in Slots, Retire(s) PROVE BlockedRests'
  BY <1>1, <1>6 DEF Retire, BlockedRests, NoTask, Task
<1>7. CASE Reset
  BY <1>7 DEF Reset, BlockedRests, NoTask, Task
<1>8. CASE \/ Pick \/ ReleaseFrame \/ ObserverWaits \/ ObserverLeaves
           \/ UNCHANGED vars \/ \E s \in Slots : Restore(s)
  <2>1. task' = task
    BY <1>8 DEF Pick, ReleaseFrame, ObserverWaits, ObserverLeaves, Restore, vars
  <2> QED BY <2>1 DEF BlockedRests
<1> QED BY <1>2, <1>3, <1>4, <1>5, <1>6, <1>7, <1>8 DEF Next

\* A queued id is the id of some slot of the storage.
LEMMA QueuedBy ==
    ASSUME NEW id PROVE id \in Queued <=> id # 0 /\ \E x \in Slots : ids[x] = id
BY DEF Queued

\* A task that does not wait is not in the queue.
LEMMA NotQueued ==
    ASSUME EntriesInv, NEW s \in Slots, ~Waiting(s)
    PROVE  recordId[s] \notin Queued
<1> SUFFICES ASSUME recordId[s] \in Queued PROVE FALSE
  OBVIOUS
<1>1. PICK x \in Slots : ids[x] = recordId[s] /\ ids[x] # 0
  BY QueuedBy
<1>2. PICK r \in Slots : recordId[r] = ids[x] /\ Waiting(r)
  BY <1>1 DEF EntriesInv
<1>3. r = s
  BY <1>1, <1>2 DEF EntriesInv
<1> QED BY <1>2, <1>3

\* Entries are erased, and one task that is not queued changes.
LEMMA EntriesKept ==
    ASSUME EntriesInv, recordId' = recordId, nextId' = nextId,
           \A x \in Slots : ids'[x] = 0 \/ ids'[x] = ids[x],
           NEW s, recordId[s] \notin Queued,
           \A t \in Slots : t # s => task'[t] = task[t]
    PROVE  EntriesInv'
<1>1. ASSUME NEW x \in Slots, ids'[x] # 0
      PROVE  \E r \in Slots : recordId'[r] = ids'[x] /\ Waiting(r)'
  <2>1. ids'[x] = ids[x] /\ ids[x] # 0
    BY <1>1
  <2>2. PICK r \in Slots : recordId[r] = ids[x] /\ Waiting(r)
    BY <2>1 DEF EntriesInv
  <2>3. r # s
    BY <2>1, <2>2, QueuedBy
  <2>4. Waiting(r)'
    BY <2>2, <2>3 DEF Waiting
  <2> QED BY <2>1, <2>2, <2>4
<1>2. \A x, y \in Slots : ids'[x] = ids'[y] /\ ids'[x] # 0 => x = y
  BY DEF EntriesInv
<1> QED BY <1>1, <1>2 DEF EntriesInv

\* The same with no task changed.
LEMMA EntriesFewer ==
    ASSUME EntriesInv, recordId' = recordId, nextId' = nextId, task' = task,
           \A x \in Slots : ids'[x] = 0 \/ ids'[x] = ids[x]
    PROVE  EntriesInv'
<1>1. ASSUME NEW x \in Slots, ids'[x] # 0
      PROVE  \E r \in Slots : recordId'[r] = ids'[x] /\ Waiting(r)'
  <2>1. ids'[x] = ids[x] /\ ids[x] # 0
    BY <1>1
  <2>2. PICK r \in Slots : recordId[r] = ids[x] /\ Waiting(r)
    BY <2>1 DEF EntriesInv
  <2> QED BY <2>1, <2>2 DEF Waiting
<1>2. \A x, y \in Slots : ids'[x] = ids'[y] /\ ids'[x] # 0 => x = y
  BY DEF EntriesInv
<1> QED BY <1>1, <1>2 DEF EntriesInv

\* A task that waits now is entered.
LEMMA EntriesPushed ==
    ASSUME EntriesInv, ids \in [Slots -> 0..MaxId],
           recordId' = recordId, nextId' = nextId,
           NEW s \in Slots, recordId[s] \notin Queued,
           NEW x, ids' = [ids EXCEPT ![x] = recordId[s]],
           \A t \in Slots : t # s => task'[t] = task[t], Waiting(s)'
    PROVE  EntriesInv'
<1>1. \A y \in Slots : ids'[y] = ids[y] \/ (y = x /\ ids'[y] = recordId[s])
  OBVIOUS
<1>2. \A y \in Slots : ids[y] # 0 => ids[y] # recordId[s]
  BY QueuedBy
<1>3. ASSUME NEW y \in Slots, ids'[y] # 0
      PROVE  \E r \in Slots : recordId'[r] = ids'[y] /\ Waiting(r)'
  <2>1. CASE ids'[y] = ids[y]
    <3>1. PICK r \in Slots : recordId[r] = ids[y] /\ Waiting(r)
      BY <1>3, <2>1 DEF EntriesInv
    <3>2. r # s
      BY <1>2, <1>3, <2>1, <3>1
    <3>3. Waiting(r)'
      BY <3>1, <3>2 DEF Waiting
    <3> QED BY <2>1, <3>1, <3>3
  <2>2. CASE ids'[y] = recordId[s]
    BY <2>2
  <2> QED BY <1>1, <2>1, <2>2
<1>4. \A y, z \in Slots : ids'[y] = ids'[z] /\ ids'[y] # 0 => y = z
  BY <1>1, <1>2 DEF EntriesInv
<1> QED BY <1>3, <1>4 DEF EntriesInv

\* A new task is entered under a new id.
LEMMA EntriesSpawned ==
    ASSUME ResultInv, EntriesInv, ids \in [Slots -> 0..MaxId],
           NEW id \in Nat, id >= nextId, Idx!Spawn(id),
           NEW x, ids' = [ids EXCEPT ![x] = id],
           NEW l, task' = [task EXCEPT ![Head(freeSlots)] = Task("Ready", "rest", l)]
    PROVE  EntriesInv'
<1>1. RecordType /\ SlotsFree
  BY DEF ResultInv
<1>2. freeSlots # <<>> /\ nextId' = id + 1 /\ nextId \in Nat
  BY <1>1 DEF Idx!Spawn, RecordType
<1>3. PICK t : t = Head(freeSlots)
  OBVIOUS
<1>4. t \in Slots /\ recordId[t] = 0
  <2>1. freeSlots \in Seq(Slots)
    BY <1>1 DEF RecordType
  <2>2. t \in Slots /\ t \in Range(freeSlots)
    BY <1>2, <1>3, <2>1, TailOnce
  <2> QED BY <1>1, <2>2 DEF SlotsFree
<1>5. recordId' = [recordId EXCEPT ![t] = id]
  BY <1>3 DEF Idx!Spawn
<1>6. /\ recordId'[t] = id
      /\ \A s \in Slots : s # t => recordId'[s] = recordId[s]
      /\ \A s \in Slots : s # t => task'[s] = task[s]
  BY <1>1, <1>3, <1>4, <1>5 DEF RecordType
<1>7. Waiting(t)'
  BY <1>1, <1>3, <1>4 DEF Waiting, RecordType, Task
<1>8. \A r \in Slots : recordId[r] \in Nat /\ recordId[r] < id /\ recordId[r] # id
  BY <1>1, <1>2 DEF EntriesInv, RecordType
<1>9. \A y \in Slots : ids'[y] = ids[y] \/ (y = x /\ ids'[y] = id)
  OBVIOUS
<1>10. \A y \in Slots : ids[y] # 0 => ids[y] # id
  BY <1>8 DEF EntriesInv
<1>11. ASSUME NEW y \in Slots, ids'[y] # 0
       PROVE  \E r \in Slots : recordId'[r] = ids'[y] /\ Waiting(r)'
  <2>1. CASE ids'[y] = ids[y]
    <3>1. PICK r \in Slots : recordId[r] = ids[y] /\ Waiting(r)
      BY <1>11, <2>1 DEF EntriesInv
    <3>2. r # t
      BY <1>4, <1>11, <2>1, <3>1
    <3>3. Waiting(r)' /\ recordId'[r] = ids'[y]
      BY <1>6, <2>1, <3>1, <3>2 DEF Waiting
    <3> QED BY <3>3
  <2>2. CASE ids'[y] = id
    BY <1>4, <1>6, <1>7, <2>2
  <2> QED BY <1>9, <2>1, <2>2
<1>12. \A y, z \in Slots : ids'[y] = ids'[z] /\ ids'[y] # 0 => y = z
  BY <1>9, <1>10 DEF EntriesInv
<1>13. \A r, u \in Slots :
          recordId'[r] = recordId'[u] /\ recordId'[r] # 0 => r = u
  BY <1>6, <1>8 DEF EntriesInv
<1>14. \A r \in Slots : recordId'[r] < nextId'
  <2>1. \A r \in Slots : recordId'[r] \in Nat /\ recordId'[r] <= id
    BY <1>6, <1>8
  <2> QED BY <1>2, <2>1
<1> QED BY <1>11, <1>12, <1>13, <1>14 DEF EntriesInv

\* Each step keeps the entries.
LEMMA NextEntries ==
    ASSUME ResultInv, EntriesInv, BlockedRests, ids \in [Slots -> 0..MaxId],
           [Next]_vars
    PROVE  EntriesInv'
<1>1. /\ recordId \in [Slots -> Nat] /\ nextId \in Nat \ {0}
      /\ task \in [Slots -> [state : States, step : Steps,
                             lease : Lease \cup {Done!NoLease}]]
  BY DEF ResultInv, RecordType
<1>2. CASE Spawn
  <2>1. PICK gap \in Gaps :
          /\ Idx!Spawn(nextId + gap) /\ Ready!PushBack(nextId + gap)
          /\ task' = [task EXCEPT ![Head(freeSlots)] =
                         Task("Ready", "rest", Done!NoLease)]
    BY <1>2 DEF Spawn
  <2>2. PICK id : id = nextId + gap
    OBVIOUS
  <2>3. id \in Nat /\ id >= nextId
    BY <1>1, <2>2, StorageAssumption
  <2>4. ids' = [ids EXCEPT ![free] = id]
    BY <2>1, <2>2 DEF Ready!PushBack, Ready!Claim
  <2> QED BY <2>1, <2>2, <2>3, <2>4, EntriesSpawned
<1>3. CASE SpawnObserved
  <2>1. PICK l : task' = [task EXCEPT ![Head(freeSlots)] = Task("Ready", "rest", l)]
    BY <1>3 DEF SpawnObserved
  <2>2. Idx!Spawn(nextId) /\ Ready!PushBack(nextId)
    BY <1>3 DEF SpawnObserved
  <2>3. nextId \in Nat /\ nextId >= nextId
    BY <1>1
  <2>4. ids' = [ids EXCEPT ![free] = nextId]
    BY <2>2 DEF Ready!PushBack, Ready!Claim
  <2> QED BY <2>1, <2>2, <2>3, <2>4, EntriesSpawned
<1>4. CASE Pick
  <2>1. recordId' = recordId /\ nextId' = nextId /\ task' = task
    BY <1>4 DEF Pick, index
  <2>2. \E x : ids' = [ids EXCEPT ![x] = 0]
    BY <1>4 DEF Pick, Ready!PopFront, Ready!TakeFirst, Ready!Unlink, Ready!Release
  <2>3. \A x \in Slots : ids'[x] = 0 \/ ids'[x] = ids[x]
    BY <2>2
  <2> QED BY <2>1, <2>3, EntriesFewer
<1>5. ASSUME NEW s \in Slots, Restore(s) PROVE EntriesInv'
  <2>1. /\ recordId' = recordId /\ nextId' = nextId /\ task' = task
        /\ ids' = [ids EXCEPT ![free] = recordId[s]]
        /\ recordId[s] \notin Queued /\ Waiting(s)
    BY <1>5 DEF Restore, Picked, index, Ready!PushFront, Ready!Claim, Waiting
  <2>2. Waiting(s)'
    BY <2>1 DEF Waiting
  <2> QED BY <2>1, <2>2, EntriesPushed
<1>6. ASSUME NEW s \in Slots, Suspend(s) PROVE EntriesInv'
  <2>1. PICK state \in {"Ready", "Blocked"} :
          /\ task' = [task EXCEPT ![s].state = state, ![s].step = "rest"]
          /\ IF state = "Ready" THEN Ready!PushBack(recordId[s])
             ELSE UNCHANGED queue
    BY <1>6 DEF Suspend
  <2>2. recordId' = recordId /\ nextId' = nextId /\ ~Waiting(s)
    BY <1>6 DEF Suspend, index, InBody, Waiting
  <2>3. recordId[s] \notin Queued
    BY <2>2, NotQueued
  <2>4. \A t \in Slots : t # s => task'[t] = task[t]
    BY <1>1, <2>1
  <2>5. CASE state = "Ready"
    <3>1. ids' = [ids EXCEPT ![free] = recordId[s]]
      BY <2>1, <2>5 DEF Ready!PushBack, Ready!Claim
    <3>2. Waiting(s)'
      BY <1>1, <2>1, <2>5 DEF Waiting
    <3> QED BY <2>2, <2>3, <2>4, <3>1, <3>2, EntriesPushed
  <2>6. CASE state # "Ready"
    <3>1. ids' = ids
      BY <2>1, <2>6 DEF queue
    <3> QED BY <2>2, <2>3, <2>4, <3>1, EntriesKept
  <2> QED BY <2>5, <2>6
<1>7. ASSUME NEW s \in Slots, Wake(s) PROVE EntriesInv'
  <2>1. /\ recordId' = recordId /\ nextId' = nextId /\ ~Waiting(s)
        /\ ids' = [ids EXCEPT ![free] = recordId[s]]
    BY <1>7 DEF Wake, index, Waiting, Ready!PushBack, Ready!Claim
  <2>2. recordId[s] \notin Queued
    BY <2>1, NotQueued
  <2>3. \A t \in Slots : t # s => task'[t] = task[t]
    BY <1>1, <1>7 DEF Wake
  <2>4. task[s].step = "rest"
    BY <1>7 DEF Wake, BlockedRests
  <2>5. Waiting(s)'
    BY <1>1, <1>7, <2>4 DEF Wake, Waiting
  <2> QED BY <2>1, <2>2, <2>3, <2>5, EntriesPushed
<1>8. ASSUME NEW s \in Slots,
             \/ Resume(s) \/ Finish(s) \/ Commit(s) \/ FailBody(s)
             \/ Publish(s) \/ EndQuantum(s)
      PROVE  EntriesInv'
  <2>1. recordId' = recordId /\ nextId' = nextId /\ ids' = ids
    BY <1>8 DEF Resume, Finish, Commit, FailBody, Publish, EndQuantum, index, queue
  <2>2. recordId[s] \notin Queued
    <3>1. CASE Resume(s)
      BY <3>1 DEF Resume, Picked
    <3>2. CASE ~Resume(s)
      <4>1. ~Waiting(s)
        BY <1>8, <3>2 DEF Finish, Commit, FailBody, Publish, EndQuantum, InBody,
                          Waiting
      <4> QED BY <4>1, NotQueued
    <3> QED BY <3>1, <3>2
  <2>3. \A t \in Slots : t # s => task'[t] = task[t]
    BY <1>1, <1>8 DEF Resume, Finish, Commit, FailBody, Publish, EndQuantum
  <2> QED BY <2>1, <2>2, <2>3, EntriesKept
<1>9. ASSUME NEW s \in Slots, Retire(s) PROVE EntriesInv'
  <2>1. /\ nextId' = nextId /\ ids' = ids /\ ~Waiting(s)
        /\ recordId' = [recordId EXCEPT ![s] = 0]
    BY <1>9 DEF Retire, Idx!Retire, queue, Ended, Waiting
  <2>2. recordId[s] \notin Queued
    BY <2>1, NotQueued
  <2>3. \A t \in Slots : t # s => task'[t] = task[t] /\ recordId'[t] = recordId[t]
    BY <1>1, <1>9, <2>1 DEF Retire
  <2>4. recordId'[s] = 0
    BY <1>1, <2>1
  <2>5. ASSUME NEW x \in Slots, ids'[x] # 0
        PROVE  \E r \in Slots : recordId'[r] = ids'[x] /\ Waiting(r)'
    <3>1. PICK r \in Slots : recordId[r] = ids[x] /\ Waiting(r)
      BY <2>1, <2>5 DEF EntriesInv
    <3>2. r # s
      BY <2>1, <3>1
    <3> QED BY <2>1, <2>3, <3>1, <3>2 DEF Waiting
  <2>6. \A r \in Slots : recordId'[r] < nextId'
    BY <1>1, <2>1, <2>3, <2>4 DEF EntriesInv
  <2>7. \A r, u \in Slots :
          recordId'[r] = recordId'[u] /\ recordId'[r] # 0 => r = u
    BY <2>3, <2>4 DEF EntriesInv
  <2>8. \A x, y \in Slots : ids'[x] = ids'[y] /\ ids'[x] # 0 => x = y
    BY <2>1 DEF EntriesInv
  <2> QED BY <2>5, <2>6, <2>7, <2>8 DEF EntriesInv
<1>10. CASE Reset
  <2>1. /\ \A s \in Slots : ids'[s] = 0 /\ recordId'[s] = 0
        /\ nextId' = 1
    BY <1>10 DEF Reset, Idx!Clear, Idx!RecordSlots, Ready!Clear, Ready!Cleared,
                 Ready!Slots, Slots
  <2> QED BY <2>1 DEF EntriesInv
<1>11. CASE ReleaseFrame \/ ObserverWaits \/ ObserverLeaves \/ UNCHANGED vars
  <2>1. /\ recordId' = recordId /\ nextId' = nextId /\ task' = task
        /\ ids' = ids
    BY <1>11 DEF ReleaseFrame, ObserverWaits, ObserverLeaves, index, queue, vars
  <2> QED BY <2>1, EntriesFewer
<1> QED BY <1>2, <1>3, <1>4, <1>5, <1>6, <1>7, <1>8, <1>9, <1>10, <1>11 DEF Next

\* The entries in the queue are task ids: the abstract steps keep that.
LEMMA QueueIds ==
    ASSUME Ready!Queue \in Seq(1..MaxId), QueueStep
    PROVE  Ready!Queue' \in Seq(1..MaxId)
<1>1. PICK b, c : b = Ready!Queue /\ c = Ready!Queue'
  OBVIOUS
<1>2. PICK T : T = 1..MaxId
  OBVIOUS
<1>3. b \in Seq(T)
  BY <1>1, <1>2
<1>4. ASSUME UNCHANGED Ready!Fifo!vars PROVE c \in Seq(T)
  BY <1>1, <1>3, <1>4 DEF Ready!Fifo!vars
<1>5. ASSUME NEW id \in 1..MaxId, Ready!Fifo!PushBack(id) PROVE c \in Seq(T)
  <2>1. c = Append(b, id) /\ id \in T
    BY <1>1, <1>2, <1>5 DEF Ready!Fifo!PushBack
  <2> QED BY ONLY <1>3, <2>1
<1>6. ASSUME NEW id \in 1..MaxId, Ready!Fifo!PushFront(id) PROVE c \in Seq(T)
  <2>1. c = <<id>> \o b /\ id \in T
    BY <1>1, <1>2, <1>6 DEF Ready!Fifo!PushFront
  <2> QED BY ONLY <1>3, <2>1, ConsEntries
<1>7. ASSUME Ready!Fifo!PopFront PROVE c \in Seq(T)
  <2>1. c = Tail(b) /\ b # <<>>
    BY <1>1, <1>7 DEF Ready!Fifo!PopFront
  <2> QED BY ONLY <1>3, <2>1
<1>8. ASSUME NEW accepted, Ready!Fifo!TakeFirst(accepted) PROVE c \in Seq(T)
  <2>1. PICK i \in DOMAIN b : c = Ready!Fifo!RemoveAt(b, i)
    BY <1>1, <1>8 DEF Ready!Fifo!TakeFirst
  <2>2. Ready!Fifo!RemoveAt(b, i) = RemoveAt(b, i)
    BY DEF Ready!Fifo!RemoveAt, RemoveAt
  <2>3. i \in 1..Len(b)
    BY <1>3
  <2>4. RemoveAt(b, i) \in Seq(T)
    BY <1>3, <2>3, RemoveEntries
  <2> QED BY <2>1, <2>2, <2>4
<1>9. ASSUME Ready!Fifo!Clear PROVE c \in Seq(T)
  <2>1. c = <<>>
    BY <1>1, <1>9 DEF Ready!Fifo!Clear
  <2> QED BY <2>1
<1>10. c \in Seq(T)
  BY <1>4, <1>5, <1>6, <1>7, <1>8, <1>9 DEF QueueStep, Ready!Fifo!Next
<1> QED BY <1>1, <1>2, <1>10

\* The queue is full only when every other record is in it.
LEMMA RoomFollows ==
    ASSUME EntriesInv, QueueInv, Ready!Queue \in Seq(1..MaxId)
    PROVE  RoomLeft
<1> SUFFICES ASSUME NEW s \in Slots, recordId[s] \notin Queued, free = 0
             PROVE  FALSE
  BY DEF RoomLeft
<1>1. ids \in [Slots -> 0..MaxId]
  BY DEF QueueInv
<1>2. PICK q, f : ListsOf(next, head, tail, free, size, q, f)
  BY DEF QueueInv
<1>3. /\ Linked(next, free, f) /\ Range(q) \cup Range(f) = Slots
      /\ q \in Seq(Slots)
  BY <1>2 DEF ListsOf, Linked
<1>4. Range(f) = {}
  <2>1. f \in Seq(Slots) /\ At(f, 1) = 0
    BY <1>3 DEF Linked
  <2>2. PICK n \in Nat : n = Len(f)
    BY <2>1
  <2>3. n = 0
    <3>1. CASE 1 \in 1..n
      <4>1. f[1] = 0 /\ f[1] \in Slots
        BY <2>1, <2>2, <3>1 DEF At
      <4> QED BY <4>1, StorageAssumption DEF Slots
    <3> QED BY <3>1
  <2>4. DOMAIN f = {}
    <3>1. DOMAIN f = 1..Len(f)
      BY <2>1
    <3> QED BY <2>2, <2>3, <3>1
  <2> QED BY <2>4 DEF Range
<1>5. Ready!Queue = Image(q, ids)
  BY <1>2, QueueNow
<1>6. \A x \in Slots : ids[x] # 0
  <2> SUFFICES ASSUME NEW x \in Slots PROVE ids[x] # 0
    OBVIOUS
  <2>1. x \in Range(q)
    BY <1>3, <1>4
  <2>2. PICK i \in 1..Len(q) : x = q[i]
    BY <1>3, <2>1 DEF Range
  <2>3. PICK b : b = Image(q, ids)
    OBVIOUS
  <2>4. Len(b) = Len(q) /\ b[i] = ids[x]
    BY <1>1, <1>3, <2>2, <2>3, ImageEntries
  <2>5. b \in Seq(1..MaxId)
    BY <1>5, <2>3
  <2>6. PICK T : T = 1..MaxId
    OBVIOUS
  <2>7. b \in Seq(T) /\ i \in 1..Len(b)
    BY <2>4, <2>5, <2>6
  <2>8. b[i] \in T
    BY ONLY <2>7
  <2> QED BY <2>4, <2>6, <2>8, StorageAssumption
<1> DEFINE g == [x \in Slots |-> CHOOSE r \in Slots : recordId[r] = ids[x]]
<1>7. \A x \in Slots : g[x] \in Slots /\ recordId[g[x]] = ids[x]
  <2> SUFFICES ASSUME NEW x \in Slots
               PROVE  g[x] \in Slots /\ recordId[g[x]] = ids[x]
    OBVIOUS
  <2>1. \E r \in Slots : recordId[r] = ids[x]
    BY <1>6 DEF EntriesInv
  <2> QED BY <2>1
<1>8. g = [x \in Slots |-> g[x]]
  OBVIOUS
<1> HIDE DEF g
<1>9. \A x \in Slots : g[x] # s
  BY <1>6, <1>7, QueuedBy
<1>10. g \in Injection(Slots, Slots \ {s})
  <2>1. g \in [Slots -> Slots \ {s}]
    BY <1>7, <1>8, <1>9
  <2>2. \A x, y \in Slots : g[x] = g[y] => x = y
    BY <1>6, <1>7 DEF EntriesInv
  <2> QED BY <2>1, <2>2 DEF Injection, IsInjective
<1>11. IsFiniteSet(Slots)
  <2>1. PICK a \in Int, b \in Int : a = 1 /\ b = TaskCapacity
    BY StorageAssumption
  <2>2. IsFiniteSet(a..b)
    BY FS_Interval
  <2> QED BY <2>1, <2>2 DEF Slots
<1>12. /\ IsFiniteSet(Slots \ {s}) /\ Cardinality(Slots) \in Nat
       /\ Cardinality(Slots \ {s}) = Cardinality(Slots) - 1
  BY <1>11, FS_RemoveElement, FS_CardinalityType
<1>13. Cardinality(Slots) <= Cardinality(Slots \ {s})
  BY <1>10, <1>12, FS_Injection
<1> QED BY <1>12, <1>13

\* What an operation returns is an id or 0.
LEMMA ReturnsId ==
    ASSUME Ready!Queue \in Seq(1..MaxId), out \in 0..MaxId, QueueStep
    PROVE  out' \in 0..MaxId
<1>1. PICK b : b = Ready!Queue
  OBVIOUS
<1>2. PICK T : T = 1..MaxId
  OBVIOUS
<1>3. b \in Seq(T) /\ T \subseteq 0..MaxId /\ 0 \in 0..MaxId
  BY <1>1, <1>2, StorageAssumption
<1>4. ASSUME UNCHANGED Ready!Fifo!vars PROVE out' \in 0..MaxId
  BY <1>4 DEF Ready!Fifo!vars
<1>5. ASSUME \/ \E id \in 1..MaxId : Ready!Fifo!PushBack(id) \/ Ready!Fifo!PushFront(id)
             \/ Ready!Fifo!Clear
      PROVE  out' \in 0..MaxId
  BY <1>3, <1>5 DEF Ready!Fifo!PushBack, Ready!Fifo!PushFront, Ready!Fifo!Clear
<1>6. ASSUME Ready!Fifo!PopFront PROVE out' \in 0..MaxId
  <2>1. out' = Head(b) /\ b # <<>>
    BY <1>1, <1>6 DEF Ready!Fifo!PopFront
  <2>2. Head(b) \in T
    BY ONLY <1>3, <2>1
  <2> QED BY <1>3, <2>1, <2>2
<1>7. ASSUME NEW accepted, Ready!Fifo!TakeFirst(accepted) PROVE out' \in 0..MaxId
  <2>1. PICK i \in DOMAIN b : out' = b[i]
    BY <1>1, <1>7 DEF Ready!Fifo!TakeFirst
  <2>2. b[i] \in T
    BY ONLY <1>3, <2>1
  <2> QED BY <1>3, <2>1, <2>2
<1> QED BY <1>4, <1>5, <1>6, <1>7 DEF QueueStep, Ready!Fifo!Next

\* The inductive invariant of the queue and the records behind its entries.
StorageInv ==
    /\ ResultInv
    /\ IdsLive /\ QueueInv /\ EntriesInv /\ BlockedRests
    /\ Ready!Queue \in Seq(1..MaxId) /\ out \in 0..MaxId

\* It holds at the start, where the abstract queue is empty.
LEMMA InitStorage == Init => StorageInv /\ Ready!Fifo!Init
<1> SUFFICES ASSUME Init PROVE StorageInv /\ Ready!Fifo!Init
  OBVIOUS
<1>1. Ready!Init /\ Idx!Init /\ task = [s \in Slots |-> NoTask]
  BY DEF Init
<1>2. IdsLive /\ BlockedRests
  BY <1>1 DEF IdsLive, BlockedRests, NoTask, Task
<1>3. QueueInv /\ Ready!Fifo!Init
  BY <1>1, InitQueue
<1>4. Ready!Queue \in Seq(1..MaxId) /\ out \in 0..MaxId
  BY <1>3, StorageAssumption DEF Ready!Fifo!Init
<1>5. EntriesInv
  BY <1>1 DEF EntriesInv, Ready!Init, Ready!Slots, Idx!Init, Idx!RecordSlots, Slots
<1> QED BY <1>2, <1>3, <1>4, <1>5, InitResult DEF StorageInv

\* Every step keeps it and is a step of the abstract queue, or none.
LEMMA NextStorage ==
    ASSUME StorageInv, [Next]_vars
    PROVE  StorageInv' /\ [Ready!Fifo!Next]_(Ready!Fifo!vars)
<1>1. /\ ResultInv /\ IdsLive /\ QueueInv /\ EntriesInv /\ BlockedRests
      /\ Ready!Queue \in Seq(1..MaxId) /\ out \in 0..MaxId
  BY DEF StorageInv
<1>2. ResultInv'
  BY <1>1, NextResult
<1>3. QueueStep
  BY <1>1, NextQueue
<1>4. Ready!Queue' \in Seq(1..MaxId)
  BY <1>1, <1>3, QueueIds
<1>5. out' \in 0..MaxId
  BY <1>1, <1>3, ReturnsId
<1>6. EntriesInv' /\ BlockedRests'
  BY <1>1, NextEntries, NextBlocked DEF QueueInv
<1> QED BY <1>2, <1>3, <1>4, <1>5, <1>6 DEF QueueStep, StorageInv

\* The queue and the records behind its entries fit together in every state.
THEOREM Stored == Spec => []StorageInv
BY InitStorage, NextStorage, PTL DEF Spec

\* The ready queue of state/storage/ready/queue.hpp, used as the scheduler uses
\* it, implements the bounded sequence of ReadyFifo for every capacity: a push
\* adds one entry at its end and finds room only if there is, a pop or a scoped
\* pick returns and removes the entry it should, and every other step leaves
\* the sequence alone.
THEOREM QueueImplementsFifo == Spec => ImplementsFifo
<1>1. StorageInv => RoomLeft
  BY RoomFollows DEF StorageInv
<1>2. Spec => /\ Ready!Fifo!Init /\ [][Ready!Fifo!Next]_(Ready!Fifo!vars)
              /\ []RoomLeft
  BY <1>1, InitStorage, NextStorage, Stored, PTL DEF Spec
<1>3. ImplementsFifo <=> /\ Ready!Fifo!Init
                         /\ [][Ready!Fifo!Next]_(Ready!Fifo!vars)
                         /\ []RoomLeft
  BY DEF ImplementsFifo, Ready!ImplementsFifo, Ready!Fifo!Spec
<1> QED BY <1>2, <1>3
=============================================================================
