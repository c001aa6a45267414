---------------------------- MODULE Subsequence ----------------------------
(***************************************************************************)
(* The loops that copy, in order, the entries of a list that satisfy a     *)
(* condition: what a filter of the scheduler's queues keeps.               *)
(***************************************************************************)
EXTENDS Integers, Sequences

\* What the loop has collected, after entry n, if it had k before.
KeepOne(s, T, n, k) == IF s[n] \in T THEN Append(k, s[n]) ELSE k

\* What the loop has collected after each number of entries.
Kept(s, T) ==
    LET K[n \in 0..Len(s)] ==
          IF n = 0 THEN <<>> ELSE KeepOne(s, T, n, K[n - 1])
    IN  K

\* The elements of s that are in T, in their order.
Keep(s, T) == Kept(s, T)[Len(s)]
=============================================================================
