--------------------------- MODULE SequenceLemmas ---------------------------
(***************************************************************************)
(* Lemmas about the sequence operators the scheduler's queues are built    *)
(* from: what Append, concatenation, SubSeq, Tail, RemoveAt, InsertAt,     *)
(* Reverse and the filter loop Keep do to the set of elements and to the   *)
(* absence of repeats.  The lemmas about Keep need induction over its      *)
(* recursive function; NatSetInduction supplies it for sets, from the      *)
(* well-foundedness of < on the naturals.                                  *)
(***************************************************************************)
EXTENDS Subsequence, SequencesExt, SequenceTheorems, WellFoundedInduction,
        NaturalsInduction, TLAPS

\* Induction over the naturals for a set: it holds zero and, with n, n + 1.
LEMMA NatSetInduction ==
    ASSUME NEW P, 0 \in P, \A n \in Nat : n \in P => n + 1 \in P
    PROVE  Nat \subseteq P
<1> DEFINE T == Nat \ P
           R == OpToRel(<, Nat)
<1> SUFFICES ASSUME T # {} PROVE FALSE
    OBVIOUS
<1>1. \E x \in T : \A y \in T : ~(<<y, x>> \in R)
    BY NatLessThanWellFounded, WFMin
<1>2. PICK x \in T : \A y \in T : ~(<<y, x>> \in R)
    BY <1>1
<1>3. x \in Nat /\ x # 0
    OBVIOUS
<1>4. x - 1 \in T
    BY <1>3
<1>5. <<x - 1, x>> \in R
    BY <1>3, <1>4 DEF OpToRel
<1> QED BY <1>2, <1>4, <1>5


\* A nonempty set of naturals has a least element.
LEMMA NatMinimum ==
    ASSUME NEW A \in SUBSET Nat, A # {}
    PROVE  \E m \in A : \A n \in A : m <= n
<1> DEFINE R == OpToRel(<, Nat)
<1>1. \E x \in A : \A y \in A : ~(<<y, x>> \in R)
    BY NatLessThanWellFounded, WFMin
<1>2. PICK x \in A : \A y \in A : ~(<<y, x>> \in R)
    BY <1>1
<1>3. ASSUME NEW y \in A PROVE x <= y
  <2>1. x \in Nat /\ y \in Nat
    OBVIOUS
  <2>2. y < x => <<y, x>> \in R
    BY <2>1 DEF OpToRel
  <2>3. ~(y < x)
    BY <1>2, <2>2, Zenon
  <2> QED BY <2>1, <2>3
<1> QED BY <1>3

\* f is what a loop that starts with x and does g[n] in round n has after
\* each of N rounds.
Iterates(f, x, g, N) == f[0] = x /\ \A n \in 1..N : f[n] = g[n][f[n - 1]]

\* A loop of N rounds defines what it has after each round: a function
\* that starts at x0 and obeys the rounds exists.
LEMMA Iteration ==
    ASSUME NEW X, NEW x0 \in X, NEW g \in [Nat -> [X -> X]], NEW N \in Nat
    PROVE  \E f \in [0..N -> X] : Iterates(f, x0, g, N)
<1> DEFINE Good(m) == \E f \in [0..m -> X] :
                        f[0] = x0 /\ \A n \in 1..m : f[n] = g[n][f[n - 1]]
           P == {m \in Nat : Good(m)}
<1>1. 0 \in P
  <2> DEFINE f == [n \in 0..0 |-> x0]
  <2>1. f \in [0..0 -> X] /\ f[0] = x0 /\ \A n \in 1..0 : f[n] = g[n][f[n - 1]]
    OBVIOUS
  <2> QED BY <2>1
<1>2. ASSUME NEW m \in Nat, m \in P PROVE m + 1 \in P
  <2>1. PICK f \in [0..m -> X] :
              f[0] = x0 /\ \A n \in 1..m : f[n] = g[n][f[n - 1]]
    BY <1>2
  <2> DEFINE h == [n \in 0..(m + 1) |-> IF n = m + 1 THEN g[m + 1][f[m]]
                                        ELSE f[n]]
  <2>2. h \in [0..(m + 1) -> X]
    OBVIOUS
  <2>3. h[0] = x0
    BY <2>1
  <2>4. ASSUME NEW n \in 1..(m + 1) PROVE h[n] = g[n][h[n - 1]]
    <3>1. CASE n = m + 1
      BY <3>1
    <3>2. CASE n \in 1..m
      <4>1. h[n] = f[n] /\ h[n - 1] = f[n - 1]
        BY <3>2
      <4> QED BY <4>1, <2>1, <3>2
    <3> QED BY <3>1, <3>2
  <2>5. Good(m + 1)
    BY <2>2, <2>3, <2>4
  <2> QED BY <2>5
<1>3. Nat \subseteq P
  <2> HIDE DEF P
  <2> QED BY <1>1, <1>2, NatSetInduction
<1>4. Good(N)
  BY <1>3
<1> QED BY <1>4 DEF Iterates

\* The recursive definition of Kept describes a function: after entry n the
\* filter loop has what KeepOne makes of what it had after entry n - 1.
LEMMA KeptUnfolds ==
    ASSUME NEW S, NEW T, NEW s \in Seq(S)
    PROVE  /\ Kept(s, T) \in [0..Len(s) -> Seq(S)]
           /\ Kept(s, T)[0] = <<>>
           /\ \A n \in 1..Len(s) :
                 Kept(s, T)[n] = KeepOne(s, T, n, Kept(s, T)[n - 1])
<1> DEFINE X == Seq(S)
           N == Len(s)
           g == [n \in Nat |->
                   [k \in X |-> IF n \in 1..N THEN KeepOne(s, T, n, k) ELSE k]]
           D(K) == [n \in 0..N |->
                      IF n = 0 THEN <<>> ELSE KeepOne(s, T, n, K[n - 1])]
<1>1. ASSUME NEW n \in 1..N, NEW k \in X PROVE KeepOne(s, T, n, k) \in X
  BY DEF KeepOne
<1>2. <<>> \in X /\ N \in Nat
  OBVIOUS
<1>3. \E f \in [0..N -> X] :
          f[0] = <<>> /\ \A n \in 1..N : f[n] = KeepOne(s, T, n, f[n - 1])
  <2> HIDE DEF X, N
  <2>1. g \in [Nat -> [X -> X]]
    BY <1>1
  <2>2. \E f \in [0..N -> X] :
          f[0] = <<>> /\ \A n \in 1..N : f[n] = g[n][f[n - 1]]
    <3> HIDE DEF g
    <3>1. \E f \in [0..N -> X] : Iterates(f, <<>>, g, N)
      BY <2>1, <1>2, Iteration
    <3> QED BY <3>1 DEF Iterates
  <2>3. PICK f \in [0..N -> X] :
          f[0] = <<>> /\ \A n \in 1..N : f[n] = g[n][f[n - 1]]
    BY <2>2
  <2>4. ASSUME NEW n \in 1..N PROVE f[n] = KeepOne(s, T, n, f[n - 1])
    <3>1. n \in Nat /\ n - 1 \in 0..N
      BY <1>2
    <3>2. f[n - 1] \in X
      BY <3>1
    <3> QED BY <2>3, <3>1, <3>2
  <2> QED BY <2>3, <2>4
<1>4. PICK f \in [0..N -> X] :
          f[0] = <<>> /\ \A n \in 1..N : f[n] = KeepOne(s, T, n, f[n - 1])
  BY <1>3
<1>5. f = D(f)
  <2> HIDE DEF X, N
  <2> QED BY <1>4, <1>2
<1>6. Kept(s, T) = D(Kept(s, T))
  <2>1. Kept(s, T) = CHOOSE K : K = D(K)
    BY DEF Kept
  <2> HIDE DEF D
  <2> QED BY <1>5, <2>1
<1> DEFINE K == Kept(s, T)
<1>7. DOMAIN K = 0..N /\ K[0] = <<>>
  <2> HIDE DEF K, N
  <2> QED BY <1>2, <1>6 DEF K
<1>8. \A n \in 1..N : K[n] = KeepOne(s, T, n, K[n - 1])
  <2> HIDE DEF K, N
  <2> QED BY <1>2, <1>6 DEF K
<1>9. \A n \in 0..N : K[n] \in X
  <2> DEFINE P == {m \in Nat : m \in 0..N => K[m] \in X}
  <2> HIDE DEF K, N, X
  <2>1. 0 \in P
    BY <1>7, <1>2
  <2>2. ASSUME NEW m \in Nat, m \in P PROVE m + 1 \in P
    <3> SUFFICES ASSUME m + 1 \in 0..N PROVE K[m + 1] \in X
      OBVIOUS
    <3>1. m + 1 \in 1..N /\ K[m] \in X /\ (m + 1) - 1 = m
      BY <2>2, <1>2
    <3> QED BY <3>1, <1>1, <1>8
  <2>3. Nat \subseteq P
    <3> HIDE DEF P
    <3> QED BY <2>1, <2>2, NatSetInduction
  <2> QED BY <2>3, <1>2
<1>10. K \in [0..N -> X]
  <2>1. K = [n \in 0..N |-> K[n]]
    BY <1>6
  <2> HIDE DEF K, N, X
  <2> QED BY <2>1, <1>9
<1> QED BY <1>7, <1>8, <1>10

\* Rises(g, m, n): g maps 1..m into 1..n and ascends.
Rises(g, m, n) ==
    g \in [1..m -> 1..n] /\ \A i, j \in 1..m : i < j => g[i] < g[j]

\* What Keep returns: there is an ascending map from its places to the places
\* of s, onto those that hold an element of T.
KeepsBy(s, T, k, n, g) ==
    /\ Rises(g, Len(k), n)
    /\ \A i \in 1..Len(k) : k[i] = s[g[i]] /\ s[g[i]] \in T
    /\ \A j \in 1..n : s[j] \in T => \E i \in 1..Len(k) : g[i] = j

\* One round of the filter loop: the entry is kept if it is in T.
LEMMA KeepOneKeeps ==
    ASSUME NEW S, NEW T, NEW s \in Seq(S), NEW n \in 1..Len(s),
           NEW k \in Seq(S), NEW g, KeepsBy(s, T, k, n - 1, g)
    PROVE  \E h : KeepsBy(s, T, KeepOne(s, T, n, k), n, h)
<1>0. n \in Nat /\ n - 1 \in Nat /\ Len(s) \in Nat /\ Len(k) \in Nat /\ s[n] \in S
  OBVIOUS
<1>1. CASE s[n] \notin T
  <2>1. KeepOne(s, T, n, k) = k
    BY <1>1 DEF KeepOne
  <2>2. KeepsBy(s, T, k, n, g)
    <3>1. Rises(g, Len(k), n)
      BY <1>0 DEF KeepsBy, Rises
    <3>2. \A j \in 1..n : s[j] \in T => j \in 1..(n - 1)
      BY <1>0, <1>1
    <3> QED BY <3>1, <3>2 DEF KeepsBy
  <2> QED BY <2>1, <2>2
<1>2. CASE s[n] \in T
  <2> DEFINE m == Len(k)
             k2 == Append(k, s[n])
             h == [i \in 1..(m + 1) |-> IF i = m + 1 THEN n ELSE g[i]]
  <2>1. KeepOne(s, T, n, k) = k2
    BY <1>2 DEF KeepOne
  <2>2. Len(k2) = m + 1 /\ k2[m + 1] = s[n] /\ \A i \in 1..m : k2[i] = k[i]
    BY <1>0
  <2>3. \A i \in 1..m : g[i] \in 1..(n - 1)
    BY DEF KeepsBy, Rises
  <2>4. Rises(h, m + 1, n)
    <3>1. h \in [1..(m + 1) -> 1..n]
      BY <1>0, <2>3
    <3>2. ASSUME NEW i \in 1..(m + 1), NEW j \in 1..(m + 1), i < j
          PROVE  h[i] < h[j]
      <4>1. i \in 1..m /\ g[i] \in 1..(n - 1)
        BY <1>0, <2>3, <3>2
      <4>2. CASE j = m + 1
        BY <4>1, <4>2, <1>0, <3>2
      <4>3. CASE j \in 1..m
        <5>1. h[i] = g[i] /\ h[j] = g[j]
          BY <4>1, <4>3, <1>0
        <5> QED BY <5>1, <4>1, <4>3, <3>2 DEF KeepsBy, Rises
      <4> QED BY <4>2, <4>3, <1>0
    <3> QED BY <3>1, <3>2 DEF Rises
  <2>5. \A i \in 1..(m + 1) : k2[i] = s[h[i]] /\ s[h[i]] \in T
    <3> SUFFICES ASSUME NEW i \in 1..(m + 1)
                 PROVE  k2[i] = s[h[i]] /\ s[h[i]] \in T
      OBVIOUS
    <3>1. CASE i = m + 1
      BY <3>1, <2>2, <1>2
    <3>2. CASE i \in 1..m
      <4>1. h[i] = g[i]
        BY <3>2, <1>0
      <4> HIDE DEF h, k2
      <4> QED BY <4>1, <3>2, <2>2 DEF KeepsBy
    <3> QED BY <3>1, <3>2, <1>0
  <2>6. ASSUME NEW j \in 1..n, s[j] \in T
        PROVE  \E i \in 1..(m + 1) : h[i] = j
    <3>1. CASE j = n
      <4>1. m + 1 \in 1..(m + 1) /\ h[m + 1] = n
        BY <1>0
      <4> QED BY <4>1, <3>1
    <3>2. CASE j \in 1..(n - 1)
      <4>1. PICK i \in 1..m : g[i] = j
        BY <3>2, <2>6 DEF KeepsBy
      <4>2. i \in 1..(m + 1) /\ h[i] = j
        BY <4>1, <1>0
      <4> QED BY <4>2
    <3> QED BY <3>1, <3>2, <1>0
  <2>7. KeepsBy(s, T, k2, n, h)
    <3> HIDE DEF h, k2
    <3> QED BY <2>2, <2>4, <2>5, <2>6 DEF KeepsBy
  <2> QED BY <2>1, <2>7
<1> QED BY <1>1, <1>2

\* The whole filter loop: an ascending map from the places of the result
\* to exactly the places of s that hold an element of T.
LEMMA KeepKeeps ==
    ASSUME NEW S, NEW T, NEW s \in Seq(S)
    PROVE  /\ Keep(s, T) \in Seq(S)
           /\ \E g : KeepsBy(s, T, Keep(s, T), Len(s), g)
<1> DEFINE K == Kept(s, T)
           Good(m) == m \in 0..Len(s) => \E g : KeepsBy(s, T, K[m], m, g)
           P == {m \in Nat : Good(m)}
<1>1. /\ K \in [0..Len(s) -> Seq(S)] /\ K[0] = <<>>
      /\ \A n \in 1..Len(s) : K[n] = KeepOne(s, T, n, K[n - 1])
      /\ Len(s) \in Nat
  BY KeptUnfolds
<1> HIDE DEF K
<1>2. 0 \in P
  <2> DEFINE g == [i \in 1..0 |-> 0]
  <2>1. KeepsBy(s, T, <<>>, 0, g)
    BY DEF KeepsBy, Rises
  <2>2. Good(0)
    BY <2>1, <1>1
  <2> QED BY <2>2
<1>3. ASSUME NEW m \in Nat, m \in P PROVE m + 1 \in P
  <2> SUFFICES ASSUME m + 1 \in 0..Len(s)
               PROVE  \E g : KeepsBy(s, T, K[m + 1], m + 1, g)
    OBVIOUS
  <2>1. m + 1 \in 1..Len(s) /\ m \in 0..Len(s) /\ (m + 1) - 1 = m
    BY <1>1
  <2>2. K[m] \in Seq(S) /\ K[m + 1] = KeepOne(s, T, m + 1, K[m])
    BY <2>1, <1>1
  <2>3. PICK g : KeepsBy(s, T, K[m], (m + 1) - 1, g)
    BY <2>1, <1>3
  <2>4. \E h : KeepsBy(s, T, KeepOne(s, T, m + 1, K[m]), m + 1, h)
    BY <2>1, <2>2, <2>3, KeepOneKeeps
  <2> QED BY <2>2, <2>4
<1>4. Nat \subseteq P
  <2> HIDE DEF P
  <2> QED BY <1>2, <1>3, NatSetInduction
<1>5. Good(Len(s))
  BY <1>4, <1>1
<1> QED BY <1>1, <1>5 DEF Keep, K

\* KeepExact: Keep returns the elements of s in T and no others, keeps a
\* sequence without repetition free of it, and leaves the order as it was.
LEMMA KeepExact ==
    ASSUME NEW S, NEW T, NEW s \in Seq(S)
    PROVE  /\ Keep(s, T) \in Seq(S)
           /\ Range(Keep(s, T)) = Range(s) \cap T
           /\ IsInjective(s) => IsInjective(Keep(s, T))
<1> DEFINE k == Keep(s, T)
<1>1. k \in Seq(S) /\ Len(k) \in Nat /\ Len(s) \in Nat
      /\ DOMAIN k = 1..Len(k) /\ DOMAIN s = 1..Len(s)
  BY KeepKeeps
<1>2. PICK g : KeepsBy(s, T, k, Len(s), g)
  BY KeepKeeps
<1> HIDE DEF k
<1>3. \A i \in 1..Len(k) : g[i] \in 1..Len(s) /\ k[i] = s[g[i]] /\ k[i] \in T
  BY <1>2 DEF KeepsBy, Rises
<1>4. Range(k) \subseteq Range(s) \cap T
  BY <1>1, <1>3 DEF Range
<1>5. ASSUME NEW x \in Range(s) \cap T PROVE x \in Range(k)
  <2>1. PICK j \in 1..Len(s) : s[j] = x
    BY <1>1 DEF Range
  <2>2. PICK i \in 1..Len(k) : g[i] = j
    BY <2>1, <1>2 DEF KeepsBy
  <2> QED BY <2>1, <2>2, <1>3, <1>1 DEF Range
<1>6. ASSUME IsInjective(s) PROVE IsInjective(k)
  <2> SUFFICES ASSUME NEW i \in 1..Len(k), NEW j \in 1..Len(k), k[i] = k[j]
               PROVE  i = j
    BY <1>1 DEF IsInjective
  <2>1. g[i] = g[j]
    BY <1>3, <1>6, <1>1 DEF IsInjective
  <2>2. \A a, b \in 1..Len(k) : a < b => g[a] < g[b]
    BY <1>2 DEF KeepsBy, Rises
  <2>3. g[i] \in Int /\ g[j] \in Int /\ i \in Int /\ j \in Int
    BY <1>3
  <2> QED BY <2>1, <2>2, <2>3
<1> QED BY <1>1, <1>4, <1>5, <1>6 DEF k

\* Append adds one element; a new one leaves the sequence free of repeats.
LEMMA AppendOnce ==
    ASSUME NEW S, NEW s \in Seq(S), NEW e \in S
    PROVE  /\ Append(s, e) \in Seq(S)
           /\ Range(Append(s, e)) = Range(s) \cup {e}
           /\ IsInjective(s) /\ e \notin Range(s) => IsInjective(Append(s, e))
<1> DEFINE a == Append(s, e)
           n == Len(s)
<1>1. /\ a \in Seq(S) /\ Len(a) = n + 1 /\ n \in Nat
      /\ DOMAIN a = 1..(n + 1) /\ DOMAIN s = 1..n
      /\ \A i \in 1..n : a[i] = s[i]
      /\ a[n + 1] = e
  OBVIOUS
<1> HIDE DEF a, n
<1>2. Range(a) = Range(s) \cup {e}
  BY <1>1 DEF Range
<1>3. ASSUME IsInjective(s), e \notin Range(s) PROVE IsInjective(a)
  BY <1>1, <1>3 DEF Range, IsInjective
<1> QED BY <1>1, <1>2, <1>3 DEF a

\* Concatenation unites the elements; disjoint sequences without repeats
\* give one without repeats.
LEMMA ConcatOnce ==
    ASSUME NEW S, NEW s \in Seq(S), NEW t \in Seq(S)
    PROVE  /\ s \o t \in Seq(S)
           /\ Range(s \o t) = Range(s) \cup Range(t)
           /\ IsInjective(s) /\ IsInjective(t) /\ Range(s) \cap Range(t) = {}
                => IsInjective(s \o t)
<1> DEFINE c == s \o t
           m == Len(s)
           n == Len(t)
<1>1. /\ c \in Seq(S) /\ Len(c) = m + n /\ m \in Nat /\ n \in Nat
      /\ DOMAIN c = 1..(m + n) /\ DOMAIN s = 1..m /\ DOMAIN t = 1..n
      /\ \A i \in 1..m : c[i] = s[i]
      /\ \A i \in (m + 1)..(m + n) : c[i] = t[i - m]
  OBVIOUS
<1> HIDE DEF c, m, n
<1>2. \A i \in 1..n : m + i \in 1..(m + n) /\ c[m + i] = t[i]
  BY <1>1
<1>3. \A i \in 1..(m + n) : \/ i \in 1..m /\ c[i] = s[i]
                            \/ i > m /\ i - m \in 1..n /\ c[i] = t[i - m]
  BY <1>1
<1>4. Range(c) = Range(s) \cup Range(t)
  BY RangeConcatenation DEF c
<1>5. ASSUME IsInjective(s), IsInjective(t), Range(s) \cap Range(t) = {}
      PROVE IsInjective(c)
  <2> SUFFICES ASSUME NEW i \in 1..(m + n), NEW j \in 1..(m + n), c[i] = c[j]
               PROVE  i = j
    BY <1>1 DEF IsInjective
  <2>0. \A a \in 1..m, b \in 1..n : s[a] # t[b]
    BY <1>5, <1>1 DEF Range
  <2>1. CASE i \in 1..m /\ j \in 1..m
    BY <2>1, <1>5, <1>1 DEF IsInjective
  <2>2. CASE i > m /\ j > m
    <3>1. i - m \in 1..n /\ j - m \in 1..n /\ t[i - m] = t[j - m]
      BY <2>2, <1>1, <1>3
    <3>2. i - m = j - m
      BY <3>1, <1>5, <1>1 DEF IsInjective
    <3> QED BY <3>2, <1>1
  <2> QED BY <2>0, <2>1, <2>2, <1>1, <1>3
<1> QED BY <1>1, <1>4, <1>5 DEF c

\* A piece of a sequence: its elements, and what is left on both sides.
LEMMA PieceOnce ==
    ASSUME NEW S, NEW s \in Seq(S), NEW a \in Int, NEW b \in Int,
           a >= 1, b <= Len(s)
    PROVE  /\ SubSeq(s, a, b) \in Seq(S)
           /\ Len(SubSeq(s, a, b)) = IF a <= b THEN b - a + 1 ELSE 0
           /\ Range(SubSeq(s, a, b)) = {s[i] : i \in a..b}
           /\ IsInjective(s) => IsInjective(SubSeq(s, a, b))
<1> DEFINE p == SubSeq(s, a, b)
           n == IF a <= b THEN b - a + 1 ELSE 0
<1>1. \A i \in a..b : i \in 1..Len(s) /\ s[i] \in S
  OBVIOUS
<1>2. /\ p \in Seq(S) /\ Len(p) = n /\ n \in Nat
      /\ \A i \in 1..(b - a + 1) : p[i] = s[a + i - 1]
  BY <1>1, SubSeqProperties
<1>3. DOMAIN p = 1..n /\ DOMAIN s = 1..Len(s) /\ Len(s) \in Nat
  BY <1>2
<1> HIDE DEF p
<1>4. \A i \in 1..n : a + i - 1 \in a..b /\ p[i] = s[a + i - 1]
  BY <1>2
<1>5. \A j \in a..b : j - a + 1 \in 1..n /\ p[j - a + 1] = s[j]
  BY <1>2
<1>6. Range(p) = {s[i] : i \in a..b}
  <2>1. \A x \in Range(p) : \E i \in a..b : x = s[i]
    BY <1>3, <1>4 DEF Range
  <2>2. \A i \in a..b : s[i] \in Range(p)
    BY <1>3, <1>5 DEF Range
  <2> QED BY <2>1, <2>2
<1>7. ASSUME IsInjective(s) PROVE IsInjective(p)
  <2> SUFFICES ASSUME NEW i \in 1..n, NEW j \in 1..n, p[i] = p[j]
               PROVE  i = j
    BY <1>3 DEF IsInjective
  <2>1. a + i - 1 = a + j - 1
    BY <1>1, <1>3, <1>4, <1>7 DEF IsInjective
  <2> QED BY <2>1
<1> QED BY <1>2, <1>6, <1>7 DEF p

\* Cutting a sequence without repetition: no element is on both sides.
LEMMA CutOnce ==
    ASSUME NEW S, NEW s \in Seq(S), NEW k \in 0..Len(s)
    PROVE  LET p == SubSeq(s, 1, k)
               q == SubSeq(s, k + 1, Len(s))
           IN  /\ p \in Seq(S) /\ q \in Seq(S)
               /\ Len(p) = k /\ Len(q) = Len(s) - k
               /\ Range(p) \cup Range(q) = Range(s)
               /\ IsInjective(s) => /\ IsInjective(p) /\ IsInjective(q)
                                    /\ Range(p) \cap Range(q) = {}
<1> DEFINE p == SubSeq(s, 1, k)
           q == SubSeq(s, k + 1, Len(s))
<1>1. Len(s) \in Nat /\ DOMAIN s = 1..Len(s)
  OBVIOUS
<1>2. /\ p \in Seq(S) /\ Len(p) = k /\ Range(p) = {s[i] : i \in 1..k}
      /\ IsInjective(s) => IsInjective(p)
  <2>1. PICK a \in Int, b \in Int : a = 1 /\ b = k
    BY <1>1
  <2>2. a >= 1 /\ b <= Len(s)
    BY <1>1, <2>1
  <2>3. /\ SubSeq(s, a, b) \in Seq(S)
        /\ Len(SubSeq(s, a, b)) = IF a <= b THEN b - a + 1 ELSE 0
        /\ Range(SubSeq(s, a, b)) = {s[j] : j \in a..b}
        /\ IsInjective(s) => IsInjective(SubSeq(s, a, b))
    BY <2>2, PieceOnce
  <2>4. (IF a <= b THEN b - a + 1 ELSE 0) = k
    BY <2>1
  <2> QED BY <2>1, <2>3, <2>4
<1>3. /\ q \in Seq(S) /\ Len(q) = Len(s) - k
      /\ Range(q) = {s[i] : i \in (k + 1)..Len(s)}
      /\ IsInjective(s) => IsInjective(q)
  <2>1. k + 1 \in Int /\ Len(s) \in Int /\ k + 1 >= 1 /\ Len(s) <= Len(s)
    BY <1>1
  <2>2. /\ q \in Seq(S)
        /\ Len(q) = IF k + 1 <= Len(s) THEN Len(s) - (k + 1) + 1 ELSE 0
        /\ Range(q) = {s[i] : i \in (k + 1)..Len(s)}
        /\ IsInjective(s) => IsInjective(q)
    BY <2>1, PieceOnce
  <2>3. (IF k + 1 <= Len(s) THEN Len(s) - (k + 1) + 1 ELSE 0) = Len(s) - k
    <3>1. \A n \in Nat : \A m \in 0..n :
             (IF m + 1 <= n THEN n - (m + 1) + 1 ELSE 0) = n - m
      OBVIOUS
    <3> QED BY <3>1, <1>1
  <2> HIDE DEF q
  <2> QED BY <2>2, <2>3
<1> HIDE DEF p, q
<1>4. Range(s) = {s[i] : i \in 1..Len(s)}
  BY <1>1 DEF Range
<1>5. Range(p) \cup Range(q) = Range(s)
  <2>1. \A i \in 1..Len(s) : i \in 1..k \/ i \in (k + 1)..Len(s)
    BY <1>1
  <2>2. \A i \in 1..k : i \in 1..Len(s)
    BY <1>1
  <2>3. \A i \in (k + 1)..Len(s) : i \in 1..Len(s)
    BY <1>1
  <2> QED BY <2>1, <2>2, <2>3, <1>2, <1>3, <1>4
<1>6. ASSUME IsInjective(s) PROVE Range(p) \cap Range(q) = {}
  <2>1. \A i \in 1..k, j \in (k + 1)..Len(s) : s[i] # s[j]
    BY <1>1, <1>6 DEF IsInjective
  <2> QED BY <2>1, <1>2, <1>3
<1> QED BY <1>2, <1>3, <1>5, <1>6 DEF p, q

\* Head and Tail split a sequence; without repeats, the head is gone.
LEMMA TailOnce ==
    ASSUME NEW S, NEW s \in Seq(S), s # <<>>
    PROVE  /\ Head(s) \in S /\ Tail(s) \in Seq(S) /\ Head(s) \in Range(s)
           /\ Range(s) = Range(Tail(s)) \cup {Head(s)}
           /\ IsInjective(s) => /\ IsInjective(Tail(s))
                                /\ Head(s) \notin Range(Tail(s))
<1>1. Len(s) \in Nat /\ Len(s) # 0 /\ DOMAIN s = 1..Len(s)
  OBVIOUS
<1>2. Tail(s) = SubSeq(s, 1 + 1, Len(s))
  BY TailIsSubSeq
<1>3. /\ Head(s) = s[1] /\ 1 \in 0..Len(s)
  BY <1>1
<1>4. Range(SubSeq(s, 1, 1)) = {s[1]}
  <2>1. PICK a \in Int : a = 1
    OBVIOUS
  <2>2. a >= 1 /\ a <= Len(s)
    BY <1>1, <2>1
  <2>3. /\ SubSeq(s, a, a) \in Seq(S)
        /\ Len(SubSeq(s, a, a)) = IF a <= a THEN a - a + 1 ELSE 0
        /\ Range(SubSeq(s, a, a)) = {s[j] : j \in a..a}
        /\ IsInjective(s) => IsInjective(SubSeq(s, a, a))
    BY <2>2, PieceOnce
  <2>4. a..a = {a}
    OBVIOUS
  <2> QED BY <2>1, <2>3, <2>4
<1>5. s[1] \in S /\ s[1] \in Range(s)
  BY <1>1 DEF Range
<1> DEFINE p == SubSeq(s, 1, 1)
           q == SubSeq(s, 1 + 1, Len(s))
<1>6. /\ p \in Seq(S) /\ q \in Seq(S) /\ Range(p) \cup Range(q) = Range(s)
      /\ IsInjective(s) => IsInjective(q) /\ Range(p) \cap Range(q) = {}
  BY <1>3, CutOnce
<1> HIDE DEF p, q
<1> QED BY <1>2, <1>3, <1>4, <1>5, <1>6 DEF p, q

\* RemoveAt takes out exactly the element at its place.
LEMMA RemoveAtOnce ==
    ASSUME NEW S, NEW s \in Seq(S), NEW i \in 1..Len(s), IsInjective(s)
    PROVE  /\ RemoveAt(s, i) \in Seq(S) /\ IsInjective(RemoveAt(s, i))
           /\ Range(RemoveAt(s, i)) = Range(s) \ {s[i]}
<1> DEFINE p == SubSeq(s, 1, i - 1)
           q == SubSeq(s, i + 1, Len(s))
<1>1. Len(s) \in Nat /\ DOMAIN s = 1..Len(s)
  OBVIOUS
<1>2. p \in Seq(S) /\ IsInjective(p) /\ Range(p) = {s[j] : j \in 1..(i - 1)}
  <2>1. PICK a \in Int, b \in Int : a = 1 /\ b = i - 1
    BY <1>1
  <2>2. a >= 1 /\ b <= Len(s)
    BY <1>1, <2>1
  <2>3. /\ SubSeq(s, a, b) \in Seq(S)
        /\ Len(SubSeq(s, a, b)) = IF a <= b THEN b - a + 1 ELSE 0
        /\ Range(SubSeq(s, a, b)) = {s[j] : j \in a..b}
        /\ IsInjective(s) => IsInjective(SubSeq(s, a, b))
    BY <2>2, PieceOnce
  <2> QED BY <2>1, <2>3
<1>3. q \in Seq(S) /\ IsInjective(q) /\ Range(q) = {s[j] : j \in (i + 1)..Len(s)}
  <2>0. i + 1 \in Int /\ Len(s) \in Int
    BY <1>1
  <2>1. PICK a \in Int, b \in Int : a = i + 1 /\ b = Len(s)
    BY <2>0
  <2>2. a >= 1 /\ b <= Len(s)
    BY <1>1, <2>1
  <2>3. /\ SubSeq(s, a, b) \in Seq(S)
        /\ Len(SubSeq(s, a, b)) = IF a <= b THEN b - a + 1 ELSE 0
        /\ Range(SubSeq(s, a, b)) = {s[j] : j \in a..b}
        /\ IsInjective(s) => IsInjective(SubSeq(s, a, b))
    BY <2>2, PieceOnce
  <2> QED BY <2>1, <2>3
<1>4. RemoveAt(s, i) = p \o q
  BY DEF RemoveAt
<1> HIDE DEF p, q
<1>5. Range(p) \cap Range(q) = {}
  <2>1. \A a \in 1..(i - 1), b \in (i + 1)..Len(s) : s[a] # s[b]
    BY <1>1 DEF IsInjective
  <2> QED BY <2>1, <1>2, <1>3
<1>6. Range(p) \cup Range(q) = Range(s) \ {s[i]}
  <2>1. Range(s) = {s[j] : j \in 1..Len(s)}
    BY <1>1 DEF Range
  <2>2. \A j \in 1..Len(s) : j = i \/ j \in 1..(i - 1) \/ j \in (i + 1)..Len(s)
    BY <1>1
  <2>3. \A j \in 1..(i - 1) : j \in 1..Len(s) /\ s[j] # s[i]
    BY <1>1 DEF IsInjective
  <2>4. \A j \in (i + 1)..Len(s) : j \in 1..Len(s) /\ s[j] # s[i]
    BY <1>1 DEF IsInjective
  <2> QED BY <2>1, <2>2, <2>3, <2>4, <1>2, <1>3
<1>7. /\ p \o q \in Seq(S) /\ IsInjective(p \o q)
      /\ Range(p \o q) = Range(p) \cup Range(q)
  <2>1. p \in Seq(S) /\ q \in Seq(S) /\ IsInjective(p) /\ IsInjective(q)
    BY <1>2, <1>3
  <2>2. /\ p \o q \in Seq(S)
        /\ Range(p \o q) = Range(p) \cup Range(q)
        /\ IsInjective(p) /\ IsInjective(q) /\ Range(p) \cap Range(q) = {}
             => IsInjective(p \o q)
    BY ONLY <2>1, ConcatOnce
  <2> QED BY <1>5, <2>1, <2>2
<1> QED BY <1>4, <1>6, <1>7

\* InsertAt adds one element at any place.
LEMMA InsertAtOnce ==
    ASSUME NEW S, NEW s \in Seq(S), NEW i \in 1..(Len(s) + 1), NEW e \in S
    PROVE  /\ InsertAt(s, i, e) \in Seq(S)
           /\ Range(InsertAt(s, i, e)) = Range(s) \cup {e}
           /\ IsInjective(s) /\ e \notin Range(s)
                => IsInjective(InsertAt(s, i, e))
<1> DEFINE k == i - 1
           p == SubSeq(s, 1, k)
           q == SubSeq(s, k + 1, Len(s))
           o == <<e>>
<1>1. k \in 0..Len(s) /\ k + 1 = i
  OBVIOUS
<1>2. InsertAt(s, i, e) = (p \o o) \o q
  BY <1>1 DEF InsertAt
<1>3. /\ p \in Seq(S) /\ q \in Seq(S) /\ Range(p) \cup Range(q) = Range(s)
      /\ IsInjective(s) => /\ IsInjective(p) /\ IsInjective(q)
                           /\ Range(p) \cap Range(q) = {}
  BY <1>1, CutOnce
<1>4. o \in Seq(S) /\ Range(o) = {e} /\ IsInjective(o)
  BY DEF Range, IsInjective
<1> HIDE DEF p, q, o
<1>5. /\ p \o o \in Seq(S) /\ Range(p \o o) = Range(p) \cup {e}
      /\ IsInjective(s) /\ e \notin Range(s) => IsInjective(p \o o)
  BY <1>3, <1>4, ConcatOnce
<1>6. /\ (p \o o) \o q \in Seq(S)
      /\ Range((p \o o) \o q) = Range(p \o o) \cup Range(q)
      /\ IsInjective(s) /\ e \notin Range(s) => IsInjective((p \o o) \o q)
  <2> DEFINE r == p \o o
  <2> HIDE DEF r
  <2>1. /\ r \in Seq(S) /\ Range(r) = Range(p) \cup {e}
        /\ IsInjective(s) /\ e \notin Range(s) => IsInjective(r)
    BY <1>5 DEF r
  <2>2. /\ r \o q \in Seq(S) /\ Range(r \o q) = Range(r) \cup Range(q)
        /\ IsInjective(r) /\ IsInjective(q) /\ Range(r) \cap Range(q) = {}
             => IsInjective(r \o q)
    BY <2>1, <1>3, ConcatOnce
  <2>3. IsInjective(s) /\ e \notin Range(s) => Range(r) \cap Range(q) = {}
    BY <2>1, <1>3
  <2> QED BY <2>1, <2>2, <2>3, <1>3 DEF r
<1> QED BY <1>2, <1>3, <1>5, <1>6

\* Reverse keeps the elements and their number of occurrences.
LEMMA ReverseOnce ==
    ASSUME NEW S, NEW s \in Seq(S)
    PROVE  /\ Reverse(s) \in Seq(S) /\ Range(Reverse(s)) = Range(s)
           /\ IsInjective(s) => IsInjective(Reverse(s))
<1> DEFINE n == Len(s)
           r == Reverse(s)
<1>1. n \in Nat /\ DOMAIN s = 1..n /\ \A i \in 1..n : s[i] \in S
  OBVIOUS
<1>2. r = [i \in 1..n |-> s[(n - i) + 1]]
  BY DEF Reverse
<1> HIDE DEF n, r
<1>3. \A i \in 1..n : (n - i) + 1 \in 1..n /\ (n - ((n - i) + 1)) + 1 = i
  BY <1>1
<1>4. r \in [1..n -> S]
  BY <1>1, <1>2, <1>3
<1>5. r \in Seq(S) /\ DOMAIN r = 1..n
  BY <1>1, <1>4
<1>6. Range(r) = Range(s)
  <2>1. ASSUME NEW i \in 1..n PROVE s[i] \in Range(r)
    <3>1. r[(n - i) + 1] = s[i] /\ (n - i) + 1 \in DOMAIN r
      BY <1>2, <1>3, <1>5
    <3> QED BY <3>1 DEF Range
  <2>2. ASSUME NEW i \in 1..n PROVE r[i] \in Range(s)
    BY <1>1, <1>2, <1>3 DEF Range
  <2> QED BY <1>1, <1>5, <2>1, <2>2 DEF Range
<1>7. ASSUME IsInjective(s) PROVE IsInjective(r)
  <2> SUFFICES ASSUME NEW i \in 1..n, NEW j \in 1..n, r[i] = r[j] PROVE i = j
    BY <1>5 DEF IsInjective
  <2>1. s[(n - i) + 1] = s[(n - j) + 1]
    BY <1>2
  <2>2. (n - i) + 1 = (n - j) + 1
    BY <1>1, <1>3, <1>7, <2>1 DEF IsInjective
  <2> QED BY <1>1, <2>2
<1> QED BY <1>5, <1>6, <1>7 DEF r

\* The sequence of the values of f at the elements of s.
Image(s, f) == [i \in DOMAIN s |-> f[s[i]]]

\* The image under a map that is injective on the elements has no repeats.
LEMMA ImageOnce ==
    ASSUME NEW S, NEW T, NEW s \in Seq(S), NEW f, \A x \in Range(s) : f[x] \in T
    PROVE  /\ Image(s, f) \in Seq(T)
           /\ \A y : y \in Range(Image(s, f)) <=> \E x \in Range(s) : y = f[x]
           /\ IsInjective(s) /\ (\A x, y \in Range(s) : f[x] = f[y] => x = y)
                => IsInjective(Image(s, f))
<1> DEFINE n == Len(s)
           m == Image(s, f)
<1>1. n \in Nat /\ DOMAIN s = 1..n /\ \A i \in 1..n : s[i] \in Range(s)
  BY DEF Range
<1>2. m = [i \in 1..n |-> f[s[i]]]
  BY <1>1 DEF Image
<1> HIDE DEF n, m
<1>3. m \in [1..n -> T]
  BY <1>1, <1>2
<1>4. m \in Seq(T) /\ DOMAIN m = 1..n
  BY <1>1, <1>3
<1>5. \A y : y \in Range(m) <=> \E x \in Range(s) : y = f[x]
  BY <1>1, <1>2, <1>4 DEF Range
<1>6. ASSUME IsInjective(s), \A x, y \in Range(s) : f[x] = f[y] => x = y
      PROVE  IsInjective(m)
  <2> SUFFICES ASSUME NEW i \in 1..n, NEW j \in 1..n, m[i] = m[j] PROVE i = j
    BY <1>4 DEF IsInjective
  <2>1. s[i] = s[j]
    BY <1>1, <1>2, <1>6
  <2> QED BY <1>1, <1>6, <2>1 DEF IsInjective
<1> QED BY <1>4, <1>5, <1>6 DEF m

\* Two parts of a sequence without repeats have none and share nothing.
LEMMA SplitOnce ==
    ASSUME NEW S, NEW s \in Seq(S), NEW t \in Seq(S), IsInjective(s \o t)
    PROVE  IsInjective(s) /\ IsInjective(t) /\ Range(s) \cap Range(t) = {}
<1> DEFINE c == s \o t
           m == Len(s)
           n == Len(t)
<1>1. /\ c \in Seq(S) /\ Len(c) = m + n /\ m \in Nat /\ n \in Nat
      /\ DOMAIN c = 1..(m + n) /\ DOMAIN s = 1..m /\ DOMAIN t = 1..n
  OBVIOUS
<1>2. /\ \A i \in 1..m : i \in 1..(m + n) /\ c[i] = s[i]
      /\ \A i \in 1..n : m + i \in 1..(m + n) /\ c[m + i] = t[i]
  BY <1>1
<1>3. \A i, j \in 1..(m + n) : c[i] = c[j] => i = j
  BY <1>1 DEF IsInjective
<1> HIDE DEF c
<1>4. IsInjective(s)
  BY <1>1, <1>2, <1>3 DEF IsInjective
<1>5. IsInjective(t)
  <2> SUFFICES ASSUME NEW i \in 1..n, NEW j \in 1..n, t[i] = t[j] PROVE i = j
    BY <1>1 DEF IsInjective
  <2>1. m + i = m + j
    BY <1>2, <1>3
  <2> QED BY <2>1, <1>1
<1>6. Range(s) \cap Range(t) = {}
  <2> SUFFICES ASSUME NEW i \in 1..m, NEW j \in 1..n, s[i] = t[j] PROVE FALSE
    BY <1>1 DEF Range
  <2>1. i = m + j
    BY <1>2, <1>3
  <2> QED BY <2>1, <1>1
<1> QED BY <1>4, <1>5, <1>6

\* The filter loop keeps a front part that is wanted and drops the rest.
LEMMA KeepFront ==
    ASSUME NEW S, NEW T, NEW s \in Seq(S), NEW t \in Seq(S),
           Range(s) \subseteq T, Range(t) \cap T = {}
    PROVE  Keep(s \o t, T) = s
<1>1. PICK c : c = s \o t
  OBVIOUS
<1>2. PICK m \in Nat, n \in Nat : m = Len(s) /\ n = Len(t)
  OBVIOUS
<1>3. /\ c \in Seq(S) /\ Len(c) = m + n /\ DOMAIN s = 1..m /\ DOMAIN t = 1..n
      /\ \A i \in 1..m : c[i] = s[i]
      /\ \A i \in (m + 1)..(m + n) : c[i] = t[i - m]
  BY <1>1, <1>2
<1>4. PICK K : K = Kept(c, T)
  OBVIOUS
<1>5. /\ K \in [0..(m + n) -> Seq(S)] /\ K[0] = <<>>
      /\ \A i \in 1..(m + n) : K[i] = KeepOne(c, T, i, K[i - 1])
  <2>1. /\ Kept(c, T) \in [0..Len(c) -> Seq(S)] /\ Kept(c, T)[0] = <<>>
        /\ \A i \in 1..Len(c) :
              Kept(c, T)[i] = KeepOne(c, T, i, Kept(c, T)[i - 1])
    BY <1>3, KeptUnfolds
  <2> QED BY <2>1, <1>3, <1>4
<1> DEFINE Part(i) == IF i <= m THEN Len(K[i]) = i /\ \A j \in 1..i : K[i][j] = s[j]
                       ELSE K[i] = s
           P == {i \in Nat : i \in 0..(m + n) => Part(i)}
<1>6. 0 \in P
  BY <1>5
<1>7. ASSUME NEW i \in Nat, i \in P PROVE i + 1 \in P
  <2> SUFFICES ASSUME i + 1 \in 0..(m + n) PROVE Part(i + 1)
    OBVIOUS
  <2>1. i \in 0..(m + n) /\ i + 1 \in 1..(m + n) /\ (i + 1) - 1 = i /\ Part(i)
    BY <1>7
  <2>2. K[i + 1] = KeepOne(c, T, i + 1, K[i]) /\ K[i] \in Seq(S)
    BY <2>1, <1>5
  <2>3. CASE i < m
    <3>1. i + 1 \in 1..m /\ i <= m /\ i + 1 <= m
      BY <2>3
    <3>2. c[i + 1] = s[i + 1] /\ s[i + 1] \in Range(s)
      BY <3>1, <1>3 DEF Range
    <3>3. c[i + 1] \in T /\ c[i + 1] \in S
      BY <3>1, <3>2, <1>2
    <3>4. K[i + 1] = Append(K[i], c[i + 1])
      BY <2>2, <3>3 DEF KeepOne
    <3>5. Len(K[i]) = i /\ \A j \in 1..i : K[i][j] = s[j]
      BY <2>1, <3>1
    <3>6. Len(K[i + 1]) = i + 1
      BY <2>2, <3>3, <3>4, <3>5
    <3>7. ASSUME NEW j \in 1..(i + 1) PROVE K[i + 1][j] = s[j]
      <4>1. CASE j = i + 1
        BY <4>1, <2>2, <3>2, <3>3, <3>4, <3>5
      <4>2. CASE j # i + 1
        <5>1. j \in 1..i
          BY <4>2
        <5>2. \A l \in 1..Len(K[i]) : Append(K[i], c[i + 1])[l] = K[i][l]
          BY <2>2, <3>3, AppendProperties
        <5>3. K[i + 1][j] = K[i][j]
          BY <5>1, <5>2, <3>4, <3>5
        <5> QED BY <5>1, <5>3, <3>5
      <4> QED BY <4>1, <4>2
    <3> QED BY <3>1, <3>6, <3>7
  <2>4. CASE ~(i < m)
    <3>1. i + 1 \in (m + 1)..(m + n) /\ (i + 1) - m \in 1..n /\ ~(i + 1 <= m)
      BY <2>1, <2>4
    <3>2. c[i + 1] = t[(i + 1) - m] /\ t[(i + 1) - m] \in Range(t)
      BY <3>1, <1>3 DEF Range
    <3>3. K[i + 1] = K[i]
      BY <2>2, <3>2 DEF KeepOne
    <3>4. K[i] = s
      <4>1. CASE i = m
        <5>1. Len(K[i]) = Len(s) /\ \A j \in 1..Len(K[i]) : K[i][j] = s[j]
          BY <4>1, <2>1, <1>2
        <5> QED BY <5>1, <2>2, SeqEqual
      <4>2. CASE i # m
        <5>1. ~(i <= m)
          BY <4>2, <2>4
        <5> QED BY <5>1, <2>1
      <4> QED BY <4>1, <4>2
    <3> QED BY <3>1, <3>3, <3>4
  <2> QED BY <2>3, <2>4
<1> HIDE DEF P
<1>8. m + n \in P
  BY <1>6, <1>7, NatSetInduction
<1>9. Part(m + n)
  BY <1>8 DEF P
<1>10. K[m + n] = s
  <2>1. K[m + n] \in Seq(S)
    BY <1>5
  <2>2. CASE n = 0
    <3>1. Len(K[m + n]) = Len(s) /\ \A j \in 1..Len(K[m + n]) : K[m + n][j] = s[j]
      BY <2>2, <1>2, <1>9
    <3> QED BY <3>1, <2>1, SeqEqual
  <2>3. CASE n # 0
    BY <2>3, <1>9
  <2> QED BY <2>2, <2>3
<1> QED BY <1>1, <1>3, <1>4, <1>10 DEF Keep
=============================================================================
