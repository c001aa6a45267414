------------------------- MODULE LaneCommit_proofs -------------------------
(***************************************************************************)
(* Proofs about LaneCommit for any set of lanes and any bounds: its types, *)
(* its inductive invariant, and what follows from it: turns are exclusive  *)
(* and in ticket order, no abort branch is reachable, and no completion is *)
(* lost between racing lanes.                                              *)
(***************************************************************************)
EXTENDS LaneCommit, TLAPS

(* The type invariant holds initially. *)
LEMMA TypeInit == Init => TypeOK
  <1> SUFFICES ASSUME Init PROVE TypeOK
    OBVIOUS
  <1>1. TypeWords
    <2>1. active \in BOOLEAN
      BY Zenon DEF Init
    <2> QED
      BY <2>1 DEF Init, TypeWords
  <1>2. TypeRange
    BY DEF Init, TypeRange
  <1>3. TypeJobs
    BY DEF Init, TypeJobs, Places, AllBodies
  <1>4. TypeSeen
    BY DEF Init, TypeSeen
  <1> QED
    BY <1>1, <1>2, <1>3, <1>4 DEF TypeOK

(* Handing out a batch keeps the types of the lanes' jobs. *)
LEMMA TypeHandOut ==
  ASSUME TypeOK, NEW n \in 1..MaxRange, NEW a \in [0..(n - 1) -> Lanes],
         HandOut(n, a)
  PROVE  toIssue' \in Nat \ {0} /\ TypeJobs'
  <1>1. toIssue' \in Nat \ {0}
    BY BoundsAssumption DEF TypeOK, TypeWords, HandOut
  <1>2. \A l \in Lanes : TicketsOf(a, l) \in SUBSET Nat
    BY DEF TicketsOf, TypeOK, TypeWords
  <1>3. TypeJobs'
    BY <1>2 DEF TypeOK, TypeJobs, HandOut, Places, AllBodies
  <1> QED
    BY <1>1, <1>3

(* Every step of the root keeps the types. *)
LEMMA TypeRoot ==
  ASSUME TypeOK, RootStart \/ RootFinish \/ Finished
  PROVE  TypeOK'
  <1> USE DEF TypeOK
  <1>1. CASE ControlIssue
    BY <1>1 DEF ControlIssue, TypeWords, TypeRange, TypeJobs, TypeSeen, local,
                seen
  <1>2. CASE ControlAcquire
    BY <1>2 DEF ControlAcquire, TypeWords, TypeRange, TypeJobs, TypeSeen,
                shared, words, local, seen
  <1>3. CASE ControlRelease
    BY <1>3 DEF ControlRelease, TypeWords, TypeRange, TypeJobs, TypeSeen,
                local, seen
  <1>4. CASE DrainLanes
    BY <1>4 DEF DrainLanes, TypeWords, TypeRange, TypeJobs, TypeSeen, Places,
                shared, words, seen
  <1>5. CASE Finished
    BY <1>5 DEF Finished, vars, TypeWords, TypeRange, TypeJobs, TypeSeen,
                shared, words, local, seen
  <1>6. ASSUME NEW n \in 1..MaxRange, NEW a \in [0..(n - 1) -> Lanes],
               RunLaneOwnedSegments(n, a)
        PROVE  TypeOK'
    <2>1. HandOut(n, a)
      BY <1>6 DEF RunLaneOwnedSegments
    <2>2. TypeWords'
      BY <1>6, <2>1, TypeHandOut, BoundsAssumption
         DEF RunLaneOwnedSegments, HandOut, TypeWords
    <2>3. TypeRange'
      BY <1>6, BoundsAssumption DEF RunLaneOwnedSegments, TypeRange
    <2>4. TypeSeen'
      BY <2>1 DEF HandOut, TypeSeen, seen
    <2> QED
      BY <2>1, <2>2, <2>3, <2>4, TypeHandOut
  <1>7. ASSUME NEW n \in 1..MaxRange, NEW a \in [0..(n - 1) -> Lanes],
               RunReadyBatch(n, a)
        PROVE  TypeOK'
    <2>1. HandOut(n, a)
      BY <1>7 DEF RunReadyBatch
    <2>2. TypeWords'
      BY <1>7, <2>1, TypeHandOut DEF RunReadyBatch, HandOut, TypeWords
    <2>3. TypeRange'
      BY <1>7 DEF RunReadyBatch, TypeRange
    <2>4. TypeSeen'
      BY <2>1 DEF HandOut, TypeSeen, seen
    <2> QED
      BY <2>1, <2>2, <2>3, <2>4, TypeHandOut
  <1> QED
    BY <1>1, <1>2, <1>3, <1>4, <1>5, <1>6, <1>7 DEF RootStart, RootFinish

(* Every step of a lane keeps the types. *)
LEMMA TypeLane ==
  ASSUME TypeOK, NEW l \in Lanes, LaneStep(l) \/ AdvCasSpurious(l)
  PROVE  TypeOK'
  <1> USE DEF TypeOK, TypeWords, TypeRange, TypeJobs, TypeSeen, shared, words,
              seen, SharedQuiet, Quiet, Goto, Places, BeforeStore, Advancing
  <1>1. CASE PickJob(l)
    <2>1. TypeSeen'
      BY <1>1 DEF PickJob, ForgetLocals
    <2>2. CASE todo[l] = {} \/ body[l] = "effect"
      <3>1. TypeWords'
        BY <1>1, <2>2 DEF PickJob
      <3>2. TypeRange'
        BY <1>1, <2>2 DEF PickJob
      <3>3. TypeJobs'
        BY <1>1, <2>2 DEF PickJob
      <3> QED
        BY <3>1, <3>2, <3>3, <2>1
    <2>3. CASE ~(todo[l] = {} \/ body[l] = "effect")
      <3>1. TypeWords'
        BY <1>1, <2>3 DEF PickJob
      <3>2. TypeRange'
        BY <1>1, <2>3 DEF PickJob
      <3>3. TypeJobs'
        <4>1. PICK t \in todo[l] : /\ cur' = [cur EXCEPT ![l] = t]
                                  /\ todo' = [todo EXCEPT ![l] = @ \ {t}]
                                  /\ Goto(l, "calc")
          BY <1>1, <2>3 DEF PickJob
        <4>2. t \in Nat
          OBVIOUS
        <4> QED
          BY <1>1, <4>1, <4>2 DEF PickJob
      <3> QED
        BY <3>1, <3>2, <3>3, <2>1
    <2> QED
      BY <2>2, <2>3
  <1>2. CASE RunLeaf(l)
    BY <1>2, BodiesAssumption DEF RunLeaf, AllBodies
  <1>3. CASE AcquirePlain(l)
    BY <1>3 DEF AcquirePlain
  <1>4. CASE WaitFirst(l)
    BY <1>4 DEF WaitFirst
  <1>5. CASE WaitAnnounce(l)
    BY <1>5 DEF WaitAnnounce
  <1>6. CASE WaitLoad(l)
    BY <1>6 DEF WaitLoad
  <1>7. CASE WaitSleep(l)
    BY <1>7 DEF WaitSleep
  <1>8. CASE WaitWithdraw(l)
    BY <1>8 DEF WaitWithdraw
  <1>9. CASE ReleaseQuantumCommit(l)
    <2>1. CASE LaneCommitContains(cur[l])
      BY <1>9, <2>1 DEF ReleaseQuantumCommit
    <2>2. CASE ~LaneCommitContains(cur[l])
      <3>1. TypeWords'
        BY <1>9, <2>2 DEF ReleaseQuantumCommit
      <3>2. TypeRange'
        BY <1>9, <2>2 DEF ReleaseQuantumCommit
      <3>3. TypeJobs'
        BY <1>9, <2>2 DEF ReleaseQuantumCommit
      <3>4. TypeSeen'
        BY <1>9, <2>2 DEF ReleaseQuantumCommit
      <3> QED
        BY <3>1, <3>2, <3>3, <3>4
    <2> QED
      BY <2>1, <2>2
  <1>10. CASE CompleteLaneCommit(l)
    BY <1>10 DEF CompleteLaneCommit
  <1>11. CASE AdvLoadActive(l)
    BY <1>11 DEF AdvLoadActive
  <1>12. CASE AdvLoadFirst(l)
    BY <1>12 DEF AdvLoadFirst
  <1>13. CASE AdvLoadEnd(l)
    BY <1>13 DEF AdvLoadEnd
  <1>14. CASE AdvLoadFrontier(l)
    BY <1>14 DEF AdvLoadFrontier
  <1>15. CASE AdvLoop(l)
    BY <1>15 DEF AdvLoop
  <1>16. CASE AdvScan(l)
    <2>1. pc' \in [Lanes -> Places]
      BY <1>16 DEF AdvScan
    <2>2. cand' \in [Lanes -> Nat]
      BY <1>16 DEF AdvScan
    <2> QED
      BY <1>16, <2>1, <2>2 DEF AdvScan
  <1>17. CASE AdvCas(l)
    <2>1. CASE cand[l] = seenFrontier[l]
      BY <1>17, <2>1 DEF AdvCas
    <2>2. CASE cand[l] # seenFrontier[l] /\ frontier = seenFrontier[l]
      <3>1. TypeWords'
        BY <1>17, <2>2 DEF AdvCas
      <3>2. TypeRange'
        BY <1>17, <2>2 DEF AdvCas
      <3>3. TypeJobs'
        BY <1>17, <2>2 DEF AdvCas
      <3>4. TypeSeen'
        BY <1>17, <2>2 DEF AdvCas
      <3> QED
        BY <3>1, <3>2, <3>3, <3>4
    <2>3. CASE cand[l] # seenFrontier[l] /\ frontier # seenFrontier[l]
      BY <1>17, <2>3 DEF AdvCas
    <2> QED
      BY <2>1, <2>2, <2>3
  <1>18. CASE AdvCasSpurious(l)
    BY <1>18 DEF AdvCasSpurious
  <1>19. CASE AdvNotify(l)
    BY <1>19 DEF AdvNotify
  <1>20. CASE AdvFinal(l)
    BY <1>20 DEF AdvFinal
  <1>21. CASE AdvDeactivate(l)
    BY <1>21 DEF AdvDeactivate
  <1>22. CASE AdvPublish(l)
    <2>1. CASE next = seenFirst[l]
      <3>1. TypeWords'
        BY <1>22, <2>1 DEF AdvPublish
      <3>2. TypeRange'
        BY <1>22, <2>1 DEF AdvPublish
      <3>3. TypeJobs'
        BY <1>22, <2>1 DEF AdvPublish
      <3>4. TypeSeen'
        BY <1>22, <2>1 DEF AdvPublish
      <3> QED
        BY <3>1, <3>2, <3>3, <3>4
    <2>2. CASE next # seenFirst[l]
      BY <1>22, <2>2 DEF AdvPublish
    <2> QED
      BY <2>1, <2>2
  <1>23. CASE AdvZeroFirst(l)
    BY <1>23 DEF AdvZeroFirst
  <1>24. CASE AdvZeroEnd(l)
    BY <1>24 DEF AdvZeroEnd
  <1> QED
    BY <1>1, <1>2, <1>3, <1>4, <1>5, <1>6, <1>7, <1>8, <1>9, <1>10,
       <1>11, <1>12, <1>13, <1>14, <1>15, <1>16, <1>17, <1>18, <1>19, <1>20,
       <1>21, <1>22, <1>23, <1>24 DEF LaneStep

(* The scheduler's commit state stays well-typed in every reachable state. *)
THEOREM TypeCorrect == Spec => []TypeOK
  <1>1. TypeOK /\ [Next]_vars => TypeOK'
    <2> SUFFICES ASSUME TypeOK, [Next]_vars PROVE TypeOK'
      OBVIOUS
    <2>1. CASE UNCHANGED vars
      BY <2>1 DEF TypeOK, TypeWords, TypeRange, TypeJobs, TypeSeen, vars,
                  shared, words, local, seen
    <2> QED
      BY <2>1, TypeRoot, TypeLane DEF Next
  <1> QED
    BY TypeInit, <1>1, PTL DEF Spec

-----------------------------------------------------------------------------
(* The inductive invariant and its consequences.                           *)

(* What a ticket that is not complete tells about the live range: the      *)
(* frontier has not passed it, so the range is still open.                 *)
LEMMA OpenRange ==
  ASSUME IndInv, root = "segment", NEW l \in Lanes, NEW u \in Outstanding(l)
  PROVE  /\ u \in Nat /\ Base <= u /\ u < toIssue /\ frontier <= u
         /\ active /\ first = Base /\ end = toIssue /\ next = Base
         /\ LaneCommitContains(u)
  <1>1. u \in Nat
    BY DEF IndInv, TypeOK, TypeJobs, Outstanding
  <1>2. u >= Base /\ commitLanes[u - Base] = l /\ completed[l] < u
    BY DEF IndInv, SegmentJobs
  <1>3. u < toIssue
    BY DEF IndInv, JobOrder
  <1>4. frontier <= u
    <2>1. (u - Base) \in 0..(size - 1)
      BY <1>1, <1>2, <1>3 DEF Base, IndInv, TypeOK, TypeWords, TypeRange
    <2>2. Base + (u - Base) = u
      BY <1>1 DEF Base, IndInv, TypeOK, TypeWords, TypeRange
    <2>3. ~(u < frontier)
      <3>1. completed[l] \in Nat
        BY DEF IndInv, TypeOK, TypeRange
      <3> QED
        BY <1>1, <1>2, <2>1, <2>2, <3>1 DEF IndInv, FrontierSound
    <2> QED
      BY <1>1, <2>3 DEF IndInv, TypeOK, TypeWords
  <1>5. active
    BY <1>1, <1>3, <1>4 DEF IndInv, RangeWords, TypeOK, TypeWords
  <1>6. first = Base /\ end = toIssue /\ next = Base
    BY <1>5 DEF IndInv, RangeWords
  <1> QED
    BY <1>1, <1>2, <1>3, <1>4, <1>5, <1>6 DEF LaneCommitContains

(* A lane that is not idle works for a segment or a batch. *)
LEMMA AtWork ==
  ASSUME IndInv, NEW l \in Lanes, pc[l] # "idle"
  PROVE  root \in {"segment", "batch"}
  BY DEF IndInv, PlainWords, TypeOK, TypeWords

(* The current ticket of a lane before its completion store. *)
LEMMA Current ==
  ASSUME NEW l \in Lanes, pc[l] \in BeforeStore
  PROVE  cur[l] \in Outstanding(l)
  BY DEF Outstanding

(* A frame for the steps that change no word of the commit protocol, no    *)
(* job and no history.                                                     *)
LEMMA JobsKept ==
  ASSUME NEW m \in Lanes, todo'[m] = todo[m], cur'[m] = cur[m],
         pc'[m] \in BeforeStore <=> pc[m] \in BeforeStore
  PROVE  Outstanding(m)' = Outstanding(m)
  BY DEF Outstanding, BeforeStore

WordsKept ==
    UNCHANGED <<toIssue, next, active, first, frontier, end, commitLanes,
                size, completed, root, rootTicket, todo, cur>>

(* A step that keeps the words and the jobs keeps the conjuncts about them. *)
LEMMA QuietStep ==
  ASSUME IndInv, WordsKept, root \in {"segment", "batch"},
         \A m \in Lanes : pc'[m] \in BeforeStore <=> pc[m] \in BeforeStore
  PROVE  /\ \A m \in Lanes : Outstanding(m)' = Outstanding(m)
         /\ Base' = Base
         /\ RangeWords' /\ JobOrder' /\ FrontierSound'
         /\ last' < toIssue => PlainWords'
  <1>1. \A m \in Lanes : Outstanding(m)' = Outstanding(m)
    BY JobsKept DEF WordsKept
  <1>2. Base' = Base
    BY DEF Base, WordsKept
  <1>3. RangeWords'
    BY <1>2 DEF IndInv, RangeWords, WordsKept
  <1>4. JobOrder'
    BY <1>1 DEF IndInv, JobOrder, WordsKept
  <1>5. FrontierSound'
    BY <1>2 DEF IndInv, FrontierSound, WordsKept
  <1>6. last' < toIssue => PlainWords'
    BY DEF IndInv, PlainWords, WordsKept
  <1> QED
    BY <1>1, <1>2, <1>3, <1>4, <1>5, <1>6

(* The locals of a lane that does not move survive the steps of the others *)
(* as long as the frontier grows and the range is not reopened.            *)
LEMMA LocalsKept ==
  ASSUME IndInv, TypeOK', root = "segment", NEW m \in Lanes,
         \/ pc'[m] = pc[m]
         \/ pc'[m] \in BeforeStore \cup {"pick", "done", "idle", "advActive",
                                         "advFirst"},
         UNCHANGED <<toIssue, size, commitLanes>>,
         seenFirst'[m] = seenFirst[m], seenEnd'[m] = seenEnd[m],
         seenFrontier'[m] = seenFrontier[m], cand'[m] = cand[m],
         frontier <= frontier', frontier' <= toIssue,
         active' => active,
         next' = next \/ pc[m] # "advPublish",
         \A k \in Lanes : completed[k] <= completed'[k]
  PROVE  LaneLocals(m)'
  <1>1. Base' = Base /\ Base \in Int
    BY DEF Base, IndInv, TypeOK, TypeWords, TypeRange
  <1>2. CASE pc'[m] \in BeforeStore \cup {"pick", "done", "idle", "advActive",
                                          "advFirst"}
    BY <1>2 DEF LaneLocals, BeforeStore, Closing
  <1>3. CASE pc'[m] = pc[m]
    <2>1. LaneLocals(m)
      BY DEF IndInv, Locals
    <2>2. FirstRead(m) => FirstRead(m)'
      BY <1>1 DEF FirstRead
    <2>3. EndRead(m) => EndRead(m)'
      BY <1>1 DEF EndRead
    <2>4. Running(m) => Running(m)'
      BY <1>1 DEF Running
    <2>5. CompleteBefore(cand[m]) => CompleteBefore(cand[m])'
      <3> SUFFICES ASSUME CompleteBefore(cand[m]), NEW i \in 0..(size - 1),
                          Base + i < cand[m]
                   PROVE  completed'[commitLanes[i]] >= Base + i
        BY <1>1 DEF CompleteBefore
      <3>1. commitLanes[i] \in Lanes
        BY DEF IndInv, TypeOK, TypeRange
      <3>2. completed[commitLanes[i]] >= Base + i
        BY DEF CompleteBefore
      <3>3. completed[commitLanes[i]] \in Nat
           /\ completed'[commitLanes[i]] \in Nat
        BY <3>1 DEF IndInv, TypeOK, TypeRange
      <3> QED
        BY <1>1, <3>1, <3>2, <3>3
    <2>6. frontier \in Nat /\ frontier' \in Nat /\ toIssue \in Nat
      BY DEF IndInv, TypeOK, TypeWords
    <2>7. seenFrontier[m] \in Base..frontier
            => seenFrontier'[m] \in Base'..frontier'
      BY <1>1, <2>6
    <2>8. pc'[m] \in Closing => ~active'
      BY <1>3, <2>1 DEF LaneLocals
    <2>9. frontier = toIssue => frontier' = toIssue'
      BY <2>6
    <2>10. pc[m] = "advPublish" => next' = next
      OBVIOUS
    <2> QED
      BY <1>1, <1>3, <2>1, <2>2, <2>3, <2>4, <2>5, <2>7, <2>8, <2>9, <2>10
         DEF LaneLocals, CompleteBefore
  <1> QED
    BY <1>2, <1>3

(* What the step of lane l leaves of the other lanes: only a wake-up.      *)
OthersKept(l) ==
    \A m \in Lanes \ {l} :
      /\ pc'[m] = pc[m] \/ (pc[m] = "asleep" /\ pc'[m] = "waitLoad")
      /\ seenFirst'[m] = seenFirst[m] /\ seenEnd'[m] = seenEnd[m]
      /\ seenFrontier'[m] = seenFrontier[m] /\ cand'[m] = cand[m]

(* A lane step that changes neither words nor jobs keeps the invariant if  *)
(* the lane itself arrives where it may be.                                *)
LEMMA QuietInv ==
  ASSUME IndInv, TypeOK', NEW l \in Lanes, pc[l] # "idle", WordsKept,
         OthersKept(l), pc'[l] # "idle",
         pc'[l] \in BeforeStore <=> pc[l] \in BeforeStore,
         pc'[l] # "abort", LastBelow', last' < toIssue,
         root = "segment" =>
           /\ pc'[l] # "turn"
           /\ pc'[l] \in {"crit", "waitSub"} => frontier = cur[l]
           /\ pc'[l] \in Closing => pc[l] \in Closing
           /\ LaneLocals(l)',
         root = "batch" =>
           /\ pc'[l] \in {"idle", "pick", "calc", "turn", "crit", "done"}
           /\ pc'[l] = "crit" => next = cur[l]
  PROVE  IndInv'
  <1>1. root \in {"segment", "batch"}
    BY AtWork
  <1>2. \A m \in Lanes : pc'[m] \in BeforeStore <=> pc[m] \in BeforeStore
    BY DEF OthersKept, BeforeStore
  <1>3. /\ \A m \in Lanes : Outstanding(m)' = Outstanding(m)
        /\ Base' = Base
        /\ RangeWords' /\ JobOrder' /\ FrontierSound' /\ PlainWords'
    BY <1>1, <1>2, QuietStep
  <1>4. NoAbort'
    BY DEF IndInv, NoAbort, OthersKept
  <1>5. SegmentJobs'
    <2> SUFFICES ASSUME root = "segment", NEW m \in Lanes
                 PROVE  /\ pc'[m] # "turn"
                        /\ \A u \in Outstanding(m) :
                             /\ u >= Base /\ commitLanes[u - Base] = m
                             /\ completed[m] < u
                        /\ pc'[m] \in {"crit", "waitSub"} => frontier = cur[m]
      BY <1>3 DEF SegmentJobs, WordsKept
    <2> QED
      BY DEF IndInv, SegmentJobs, OthersKept
  <1>6. BatchJobs'
    <2> SUFFICES ASSUME root = "batch", NEW m \in Lanes
                 PROVE  /\ pc'[m] \in {"idle", "pick", "calc", "turn", "crit",
                                       "done"}
                        /\ \A u \in Outstanding(m) : end <= u
                        /\ pc'[m] = "crit" => next = cur[m]
      BY <1>3 DEF BatchJobs, WordsKept
    <2> QED
      BY DEF IndInv, BatchJobs, OthersKept
  <1>7. Locals'
    <2> SUFFICES ASSUME root = "segment", NEW m \in Lanes \ {l}
                 PROVE  LaneLocals(m)'
      BY DEF Locals, WordsKept
    <2>1. frontier <= frontier' /\ frontier' <= toIssue
      BY DEF WordsKept, IndInv, RangeWords, TypeOK, TypeWords, Base, TypeRange
    <2>2. \A k \in Lanes : completed[k] <= completed'[k]
      BY DEF WordsKept, IndInv, TypeOK, TypeRange
    <2>3. pc'[m] = pc[m] \/ pc'[m] \in BeforeStore
      BY DEF OthersKept, BeforeStore
    <2> QED
      BY <2>1, <2>2, <2>3, LocalsKept DEF WordsKept, OthersKept
  <1>8. OneCloser'
    <2>1. \A m \in Lanes : root = "segment" /\ pc'[m] \in Closing
                             => pc[m] \in Closing
      BY DEF OthersKept, Closing
    <2> QED
      BY <2>1 DEF IndInv, OneCloser, WordsKept
  <1> QED
    BY <1>3, <1>4, <1>5, <1>6, <1>7, <1>8 DEF IndInv

(* The history is untouched ...                                            *)
LEMMA LastKept ==
  ASSUME IndInv, NEW l \in Lanes, WordsKept, OthersKept(l), last' = last,
         pc'[l] \in BeforeStore <=> pc[l] \in BeforeStore,
         pc[l] \in {"crit", "store"} => pc'[l] \in {"crit", "store"}
  PROVE  LastBelow' /\ last' < toIssue
  <1>1. \A m \in Lanes : Outstanding(m)' = Outstanding(m)
    <2>1. \A m \in Lanes : pc'[m] \in BeforeStore <=> pc[m] \in BeforeStore
      BY DEF OthersKept, BeforeStore
    <2> QED
      BY <2>1, JobsKept DEF WordsKept
  <1>2. \A m \in Lanes : pc[m] \in {"crit", "store"}
                           => pc'[m] \in {"crit", "store"}
    BY DEF OthersKept
  <1>3. LastBelow'
    BY <1>1, <1>2 DEF IndInv, LastBelow, WordsKept
  <1> QED
    BY <1>3 DEF IndInv, PlainWords

(* ... or it takes the ticket of a lane whose turn it is.                  *)
LEMMA LastTaken ==
  ASSUME IndInv, NEW l \in Lanes, WordsKept, OthersKept(l), last' = cur[l],
         pc[l] \in BeforeStore, pc'[l] = "crit",
         \A m \in Lanes : \A u \in Outstanding(m) : cur[l] <= u
  PROVE  LastBelow' /\ last' < toIssue
  <1>1. \A m \in Lanes : Outstanding(m)' = Outstanding(m)
    <2>1. \A m \in Lanes : pc'[m] \in BeforeStore <=> pc[m] \in BeforeStore
      BY DEF OthersKept, BeforeStore
    <2> QED
      BY <2>1, JobsKept DEF WordsKept
  <1>2. cur[l] \in Outstanding(l)
    BY Current
  <1>3. \A m \in Lanes : cur[l] \in Outstanding(m) => m = l
    BY <1>2 DEF IndInv, JobOrder
  <1>4. LastBelow'
    BY <1>1, <1>3 DEF LastBelow, WordsKept
  <1> QED
    BY <1>2, <1>4 DEF IndInv, JobOrder

(* Goto moves the one lane.                                                *)
LEMMA Moved ==
  ASSUME TypeOK, NEW l \in Lanes, NEW p, Goto(l, p)
  PROVE  pc'[l] = p /\ \A m \in Lanes \ {l} : pc'[m] = pc[m]
  BY DEF TypeOK, TypeJobs, Goto

-----------------------------------------------------------------------------
(* Running a body, and waiting for a turn.                                 *)

(* A body that needs its turn waits on the frontier in a segment and on    *)
(* commit_cv in a batch.                                                   *)
LEMMA RunLeafInv ==
  ASSUME IndInv, TypeOK', NEW l \in Lanes, RunLeaf(l)
  PROVE  IndInv'
  <1> USE DEF RunLeaf
  <1>1. TypeOK /\ pc[l] = "calc"
    BY DEF IndInv
  <1>2. cur[l] \in Outstanding(l)
    BY <1>1, Current DEF BeforeStore
  <1>3. WordsKept /\ last' = last
    BY DEF SharedQuiet, Quiet, shared, words, WordsKept
  <1>4. PICK b \in Bodies :
          Goto(l, IF root = "segment" /\ b = "pure" THEN "store"
                  ELSE IF LaneCommitContains(cur[l]) THEN "wait" ELSE "turn")
    BY Zenon
  <1>5. /\ pc'[l] = (IF root = "segment" /\ b = "pure" THEN "store"
                     ELSE IF LaneCommitContains(cur[l]) THEN "wait"
                     ELSE "turn")
        /\ \A m \in Lanes \ {l} : pc'[m] = pc[m]
    BY <1>1, <1>4, Moved
  <1>6. OthersKept(l)
    BY <1>5 DEF OthersKept, seen
  <1>7. root = "segment" => pc'[l] \in {"store", "wait"}
    BY <1>2, <1>5, OpenRange
  <1>8. root = "batch" => pc'[l] = "turn"
    <2> SUFFICES ASSUME root = "batch" PROVE ~LaneCommitContains(cur[l])
      BY <1>5
    <2>1. end <= cur[l]
      BY <1>2 DEF IndInv, BatchJobs
    <2> QED
      BY <1>1, <2>1 DEF LaneCommitContains, TypeOK, TypeWords, TypeJobs
  <1>9. root \in {"segment", "batch"}
    BY <1>1, AtWork
  <1>10. pc'[l] \in {"store", "wait", "turn"}
    BY <1>7, <1>8, <1>9
  <1>11. LastBelow' /\ last' < toIssue
    BY <1>1, <1>3, <1>6, <1>10, LastKept DEF BeforeStore
  <1>12. root = "segment" => LaneLocals(l)'
    BY <1>7 DEF LaneLocals, Closing
  <1> QED
    BY <1>1, <1>3, <1>6, <1>7, <1>8, <1>10, <1>11, <1>12, QuietInv
       DEF BeforeStore, Closing

(* A plain ticket acquires when next_commit_ticket reaches it.             *)
LEMMA AcquirePlainInv ==
  ASSUME IndInv, TypeOK', NEW l \in Lanes, AcquirePlain(l)
  PROVE  IndInv'
  <1> USE DEF AcquirePlain
  <1>1. TypeOK /\ pc[l] = "turn" /\ next = cur[l]
    BY DEF IndInv
  <1>2. pc'[l] = "crit" /\ \A m \in Lanes \ {l} : pc'[m] = pc[m]
    BY <1>1, Moved
  <1>3. WordsKept /\ last' = cur[l]
    BY DEF SharedQuiet, Quiet, shared, words, WordsKept
  <1>4. OthersKept(l)
    BY <1>2 DEF OthersKept, seen
  <1>5. root = "batch"
    BY <1>1, AtWork DEF IndInv, SegmentJobs
  <1>6. \A m \in Lanes : \A u \in Outstanding(m) : cur[l] <= u
    BY <1>1 DEF IndInv, JobOrder
  <1>7. LastBelow' /\ last' < toIssue
    BY <1>1, <1>2, <1>3, <1>4, <1>6, LastTaken DEF BeforeStore
  <1> QED
    BY <1>1, <1>2, <1>3, <1>4, <1>5, <1>7, QuietInv DEF BeforeStore

(* The frontier is the least ticket that is not complete.                  *)
LEMMA FrontierTurn ==
  ASSUME IndInv, root = "segment", NEW l \in Lanes, frontier = cur[l]
  PROVE  \A m \in Lanes : \A u \in Outstanding(m) : cur[l] <= u
  BY OpenRange

(* Only a lane of a segment looks at the frontier.                         *)
LEMMA InSegment ==
  ASSUME IndInv, NEW l \in Lanes,
         pc[l] \notin {"idle", "pick", "calc", "turn", "crit", "done"}
  PROVE  root = "segment"
  BY AtWork DEF IndInv, BatchJobs

(* The first look of WaitLaneCommit enters the effect at the frontier, and *)
(* never finds it beyond its ticket.                                       *)
LEMMA WaitFirstInv ==
  ASSUME IndInv, TypeOK', NEW l \in Lanes, WaitFirst(l)
  PROVE  IndInv'
  <1> USE DEF WaitFirst
  <1>1. TypeOK /\ pc[l] = "wait"
    BY DEF IndInv
  <1>2. root = "segment"
    BY <1>1, InSegment
  <1>3. cur[l] \in Outstanding(l)
    BY <1>1, Current DEF BeforeStore
  <1>4. frontier <= cur[l] /\ frontier \in Nat /\ cur[l] \in Nat
    BY <1>1, <1>2, <1>3, OpenRange DEF TypeOK, TypeWords
  <1>5. /\ pc'[l] = (IF frontier = cur[l] THEN "crit" ELSE "waitAdd")
        /\ \A m \in Lanes \ {l} : pc'[m] = pc[m]
    <2>1. Goto(l, IF frontier = cur[l] THEN "crit" ELSE "waitAdd")
      BY <1>4
    <2> QED
      BY <1>1, <2>1, Moved
  <1>6. WordsKept
    BY DEF SharedQuiet, Quiet, shared, words, WordsKept
  <1>7. OthersKept(l)
    BY <1>5 DEF OthersKept, seen
  <1>8. LastBelow' /\ last' < toIssue
    <2>1. CASE frontier = cur[l]
      BY <1>1, <1>2, <1>5, <1>6, <1>7, <2>1, FrontierTurn, LastTaken
         DEF BeforeStore
    <2>2. CASE frontier # cur[l]
      BY <1>1, <1>5, <1>6, <1>7, <2>2, LastKept DEF BeforeStore
    <2> QED
      BY <2>1, <2>2
  <1>9. LaneLocals(l)'
    BY <1>5 DEF LaneLocals, Closing
  <1> QED
    BY <1>1, <1>2, <1>5, <1>6, <1>7, <1>8, <1>9, QuietInv
       DEF BeforeStore, Closing

(* A woken waiter enters the effect while the frontier is its ticket.      *)
LEMMA WaitWithdrawInv ==
  ASSUME IndInv, TypeOK', NEW l \in Lanes, WaitWithdraw(l)
  PROVE  IndInv'
  <1> USE DEF WaitWithdraw
  <1>1. TypeOK /\ pc[l] = "waitSub"
    BY DEF IndInv
  <1>2. root = "segment"
    BY <1>1, InSegment
  <1>3. frontier = cur[l]
    BY <1>1, <1>2 DEF IndInv, SegmentJobs
  <1>4. pc'[l] = "crit" /\ \A m \in Lanes \ {l} : pc'[m] = pc[m]
    BY <1>1, Moved
  <1>5. WordsKept
    BY DEF Quiet, WordsKept
  <1>6. OthersKept(l)
    BY <1>4 DEF OthersKept, seen
  <1>7. LastBelow' /\ last' < toIssue
    BY <1>1, <1>2, <1>3, <1>4, <1>5, <1>6, FrontierTurn, LastTaken
       DEF BeforeStore
  <1>8. LaneLocals(l)'
    BY <1>4 DEF LaneLocals, Closing
  <1> QED
    BY <1>1, <1>2, <1>3, <1>4, <1>5, <1>6, <1>7, <1>8, QuietInv
       DEF BeforeStore, Closing

(* The other steps of WaitLaneCommit.                                      *)
LEMMA WaitInv ==
  ASSUME IndInv, TypeOK', NEW l \in Lanes,
         WaitAnnounce(l) \/ WaitLoad(l) \/ WaitSleep(l)
  PROVE  IndInv'
  <1> USE DEF WaitAnnounce, WaitLoad, WaitSleep
  <1>1. TypeOK /\ pc[l] \in {"waitAdd", "waitLoad", "waitSleep"}
    BY DEF IndInv
  <1>2. root = "segment"
    BY <1>1, InSegment
  <1>3. cur[l] \in Outstanding(l)
    BY <1>1, Current DEF BeforeStore
  <1>4. frontier <= cur[l] /\ frontier \in Nat /\ cur[l] \in Nat
    BY <1>1, <1>2, <1>3, OpenRange DEF TypeOK, TypeWords
  <1>5. /\ pc'[l] \in {"waitLoad", "waitSub", "waitSleep", "asleep"}
        /\ pc'[l] = "waitSub" => frontier = cur[l]
        /\ \A m \in Lanes \ {l} : pc'[m] = pc[m]
    <2>1. CASE WaitAnnounce(l)
      BY <1>1, <2>1, Moved
    <2>2. CASE WaitLoad(l)
      <3>1. Goto(l, IF frontier = cur[l] THEN "waitSub" ELSE "waitSleep")
        BY <1>4, <2>2
      <3> QED
        BY <1>1, <3>1, Moved
    <2>3. CASE WaitSleep(l)
      <3>1. Goto(l, IF frontier = seenFrontier[l] THEN "asleep"
                    ELSE "waitLoad")
        BY <2>3
      <3> QED
        BY <1>1, <3>1, Moved
    <2> QED
      BY <2>1, <2>2, <2>3
  <1>6. WordsKept /\ last' = last
    BY DEF SharedQuiet, Quiet, shared, words, WordsKept
  <1>7. OthersKept(l)
    BY <1>1, <1>5 DEF OthersKept, seen, TypeOK, TypeSeen
  <1>8. LastBelow' /\ last' < toIssue
    BY <1>1, <1>5, <1>6, <1>7, LastKept DEF BeforeStore
  <1>9. LaneLocals(l)'
    BY <1>5 DEF LaneLocals, Closing
  <1> QED
    BY <1>1, <1>2, <1>5, <1>6, <1>7, <1>8, <1>9, QuietInv
       DEF BeforeStore, Closing

-----------------------------------------------------------------------------
(* AdvanceLaneCommit: the reads, the scan and the attempts that fail.      *)

(* The numbers of a live range.                                            *)
LEMMA RangeNumbers ==
  ASSUME IndInv, root = "segment"
  PROVE  /\ Base \in Nat /\ Base > 0 /\ size \in Nat /\ size > 0
         /\ toIssue \in Nat /\ toIssue = Base + size
         /\ frontier \in Nat /\ Base <= frontier /\ frontier <= toIssue
         /\ first \in {0, Base} /\ end \in {0, toIssue}
         /\ active => first = Base /\ end = toIssue /\ next = Base
         /\ ~active => frontier = toIssue
  BY DEF IndInv, RangeWords, TypeOK, TypeWords, TypeRange, Base

(* A lane that reads inside AdvanceLaneCommit keeps the invariant if what  *)
(* it relies on afterwards holds.                                          *)
LEMMA AdvanceInv ==
  ASSUME IndInv, TypeOK', NEW l \in Lanes, pc[l] \in Advancing,
         WordsKept, last' = last, OthersKept(l),
         pc'[l] \in (Advancing \ Closing) \cup {"pick"},
         LaneLocals(l)'
  PROVE  IndInv'
  <1>1. root = "segment" /\ pc[l] # "idle"
    BY InSegment DEF Advancing
  <1>2. pc[l] \notin BeforeStore /\ pc'[l] \notin BeforeStore
    BY DEF Advancing, BeforeStore
  <1>3. LastBelow' /\ last' < toIssue
    BY <1>2, LastKept DEF BeforeStore
  <1>4. /\ pc'[l] \notin {"idle", "abort", "turn", "crit", "waitSub"}
        /\ pc'[l] \notin Closing
    BY DEF Advancing, Closing
  <1> QED
    BY <1>1, <1>2, <1>3, <1>4, QuietInv

(* AdvanceLaneCommit reads active ...                                      *)
LEMMA AdvLoadActiveInv ==
  ASSUME IndInv, TypeOK', NEW l \in Lanes, AdvLoadActive(l)
  PROVE  IndInv'
  <1> USE DEF AdvLoadActive
  <1>1. TypeOK /\ pc[l] = "advActive"
    BY DEF IndInv
  <1>2. /\ pc'[l] \in {"advFirst", "pick"}
        /\ \A m \in Lanes \ {l} : pc'[m] = pc[m]
    BY <1>1, Moved
  <1>3. WordsKept /\ last' = last
    BY DEF SharedQuiet, Quiet, shared, words, WordsKept
  <1>4. OthersKept(l)
    BY <1>2 DEF OthersKept, seen
  <1>5. LaneLocals(l)'
    BY <1>2 DEF LaneLocals, Closing
  <1> QED
    BY <1>1, <1>2, <1>3, <1>4, <1>5, AdvanceInv DEF Advancing, Closing

(* ... first: the base, or the zero of a closed range ...                  *)
LEMMA AdvLoadFirstInv ==
  ASSUME IndInv, TypeOK', NEW l \in Lanes, AdvLoadFirst(l)
  PROVE  IndInv'
  <1> USE DEF AdvLoadFirst
  <1>1. TypeOK /\ pc[l] = "advFirst" /\ root = "segment"
    BY InSegment DEF IndInv
  <1>2. pc'[l] = "advEnd" /\ \A m \in Lanes \ {l} : pc'[m] = pc[m]
    BY <1>1, Moved
  <1>3. WordsKept /\ last' = last
    BY DEF SharedQuiet, Quiet, shared, words, WordsKept
  <1>4. OthersKept(l)
    BY <1>1, <1>2 DEF OthersKept, TypeOK, TypeSeen
  <1>5. FirstRead(l)'
    <2>1. seenFirst'[l] = first /\ active' = active /\ Base' = Base
      BY <1>1, <1>3 DEF WordsKept, Base, TypeOK, TypeSeen
    <2> QED
      BY <1>1, <2>1, RangeNumbers DEF FirstRead
  <1>6. LaneLocals(l)'
    BY <1>2, <1>5 DEF LaneLocals, Closing
  <1> QED
    BY <1>1, <1>2, <1>3, <1>4, <1>6, AdvanceInv DEF Advancing, Closing

(* ... end, likewise ...                                                   *)
LEMMA AdvLoadEndInv ==
  ASSUME IndInv, TypeOK', NEW l \in Lanes, AdvLoadEnd(l)
  PROVE  IndInv'
  <1> USE DEF AdvLoadEnd
  <1>1. TypeOK /\ pc[l] = "advEnd" /\ root = "segment"
    BY InSegment DEF IndInv
  <1>2. pc'[l] = "advFrontier" /\ \A m \in Lanes \ {l} : pc'[m] = pc[m]
    BY <1>1, Moved
  <1>3. WordsKept /\ last' = last
    BY DEF SharedQuiet, Quiet, shared, words, WordsKept
  <1>4. OthersKept(l)
    BY <1>1, <1>2 DEF OthersKept, TypeOK, TypeSeen
  <1>5. EndRead(l)'
    <2>1. seenEnd'[l] = end /\ active' = active /\ toIssue' = toIssue
      BY <1>1, <1>3 DEF WordsKept, TypeOK, TypeSeen
    <2> QED
      BY <1>1, <2>1, RangeNumbers DEF EndRead
  <1>6. FirstRead(l)'
    <2>1. FirstRead(l)
      BY <1>1 DEF IndInv, Locals, LaneLocals
    <2> QED
      BY <2>1, <1>3 DEF FirstRead, WordsKept, Base
  <1>7. LaneLocals(l)'
    BY <1>2, <1>5, <1>6 DEF LaneLocals, Closing
  <1> QED
    BY <1>1, <1>2, <1>3, <1>4, <1>7, AdvanceInv DEF Advancing, Closing

(* ... and the frontier, which is short of the end only while the range is *)
(* open.                                                                   *)
LEMMA AdvLoadFrontierInv ==
  ASSUME IndInv, TypeOK', NEW l \in Lanes, AdvLoadFrontier(l)
  PROVE  IndInv'
  <1> USE DEF AdvLoadFrontier
  <1>1. TypeOK /\ pc[l] = "advFrontier" /\ root = "segment"
    BY InSegment DEF IndInv
  <1>2. pc'[l] = "advLoop" /\ \A m \in Lanes \ {l} : pc'[m] = pc[m]
    BY <1>1, Moved
  <1>3. WordsKept /\ last' = last
    BY DEF SharedQuiet, Quiet, shared, words, WordsKept
  <1>4. OthersKept(l)
    BY <1>1, <1>2 DEF OthersKept, TypeOK, TypeSeen
  <1>5. FirstRead(l) /\ EndRead(l)
    BY <1>1 DEF IndInv, Locals, LaneLocals
  <1>6. FirstRead(l)' /\ EndRead(l)'
    BY <1>5, <1>3 DEF FirstRead, EndRead, WordsKept, Base
  <1>7. seenFrontier'[l] = frontier /\ frontier' = frontier
        /\ Base' = Base /\ toIssue' = toIssue
    BY <1>1, <1>3 DEF WordsKept, Base, TypeOK, TypeSeen
  <1>8. seenFrontier'[l] \in Base'..frontier'
    BY <1>1, <1>7, RangeNumbers
  <1>9. seenFrontier'[l] < toIssue' => Running(l)'
    <2> SUFFICES ASSUME frontier < toIssue PROVE Running(l)'
      BY <1>7
    <2>1. active
      BY <1>1, RangeNumbers
    <2> QED
      BY <1>3, <1>5, <1>7, <2>1 DEF FirstRead, EndRead, Running
  <1>10. LaneLocals(l)'
    BY <1>2, <1>6, <1>8, <1>9 DEF LaneLocals, Closing
  <1> QED
    BY <1>1, <1>2, <1>3, <1>4, <1>10, AdvanceInv DEF Advancing, Closing

(* The outer loop goes on only with consistent reads.                      *)
LEMMA AdvLoopInv ==
  ASSUME IndInv, TypeOK', NEW l \in Lanes, AdvLoop(l)
  PROVE  IndInv'
  <1> USE DEF AdvLoop
  <1>1. TypeOK /\ pc[l] = "advLoop" /\ root = "segment"
    BY InSegment DEF IndInv
  <1>2. /\ pc'[l] = (IF seenFrontier[l] < seenEnd[l] THEN "advScan"
                     ELSE "advFinal")
        /\ \A m \in Lanes \ {l} : pc'[m] = pc[m]
    BY <1>1, Moved
  <1>3. WordsKept /\ last' = last
    BY DEF SharedQuiet, Quiet, shared, words, WordsKept
  <1>4. OthersKept(l)
    BY <1>1, <1>2 DEF OthersKept, TypeOK, TypeSeen
  <1>5. /\ FirstRead(l) /\ EndRead(l) /\ seenFrontier[l] \in Base..frontier
        /\ seenFrontier[l] < toIssue => Running(l)
    BY <1>1 DEF IndInv, Locals, LaneLocals
  <1>6. /\ FirstRead(l)' /\ EndRead(l)' /\ Base' = Base
        /\ Running(l) => Running(l)'
    BY <1>5, <1>3 DEF FirstRead, EndRead, Running, WordsKept, Base
  <1>7. CASE seenFrontier[l] < seenEnd[l]
    <2>1. seenFrontier[l] \in Nat /\ seenEnd[l] \in Nat
      BY <1>1 DEF TypeOK, TypeSeen
    <2>2. seenFrontier[l] < toIssue
      BY <1>5, <1>7, <2>1 DEF EndRead
    <2>3. cand'[l] = seenFrontier[l]
      BY <1>1 DEF TypeOK, TypeSeen
    <2>4. cand'[l] \in seenFrontier'[l]..toIssue'
      BY <1>1, <1>3, <2>1, <2>2, <2>3, RangeNumbers DEF WordsKept
    <2>5. CompleteBefore(cand[l])'
      <3> SUFFICES ASSUME NEW i \in 0..(size - 1), Base + i < seenFrontier[l]
                   PROVE  completed[commitLanes[i]] >= Base + i
        BY <1>3, <1>6, <2>3 DEF CompleteBefore, WordsKept
      <3>1. Base + i < frontier
        BY <1>1, <1>5, <2>1, RangeNumbers
      <3> QED
        BY <1>1, <3>1 DEF IndInv, FrontierSound
    <2>6. seenFrontier'[l] \in Base'..frontier' /\ seenFrontier'[l] < toIssue'
      BY <1>3, <1>5, <1>6, <2>2 DEF WordsKept
    <2>7. LaneLocals(l)'
      BY <1>2, <1>5, <1>6, <1>7, <2>2, <2>4, <2>5, <2>6
         DEF LaneLocals, Closing
    <2> QED
      BY <1>1, <1>2, <1>3, <1>4, <1>7, <2>7, AdvanceInv DEF Advancing, Closing
  <1>8. CASE ~(seenFrontier[l] < seenEnd[l])
    <2>1. LaneLocals(l)'
      BY <1>2, <1>6, <1>8 DEF LaneLocals, Closing
    <2> QED
      BY <1>1, <1>2, <1>3, <1>4, <1>8, <2>1, AdvanceInv DEF Advancing, Closing
  <1> QED
    BY <1>7, <1>8

(* What a lane that scans or is about to exchange relies on.               *)
LEMMA Scanning ==
  ASSUME IndInv, NEW l \in Lanes, pc[l] \in {"advScan", "advCas"}
  PROVE  /\ root = "segment" /\ Running(l)
         /\ seenFrontier[l] \in Nat /\ cand[l] \in Nat
         /\ Base <= seenFrontier[l] /\ seenFrontier[l] <= frontier
         /\ seenFrontier[l] < toIssue
         /\ seenFrontier[l] <= cand[l] /\ cand[l] <= toIssue
         /\ CompleteBefore(cand[l])
  <1>1. root = "segment"
    BY InSegment
  <1>2. LaneLocals(l)
    BY <1>1 DEF IndInv, Locals
  <1>3. seenFrontier[l] \in Nat /\ cand[l] \in Nat
    BY DEF IndInv, TypeOK, TypeSeen
  <1> QED
    BY <1>1, <1>2, <1>3, RangeNumbers DEF LaneLocals

(* The scan passes complete tickets only, and never leaves                 *)
(* segment_commit_lanes.                                                   *)
LEMMA AdvScanInv ==
  ASSUME IndInv, TypeOK', NEW l \in Lanes, AdvScan(l)
  PROVE  IndInv'
  <1> USE DEF AdvScan
  <1>1. TypeOK /\ pc[l] = "advScan"
    BY DEF IndInv
  <1>2. /\ root = "segment" /\ Running(l)
        /\ seenFrontier[l] \in Nat /\ cand[l] \in Nat
        /\ Base <= seenFrontier[l] /\ seenFrontier[l] <= frontier
        /\ seenFrontier[l] < toIssue
        /\ seenFrontier[l] <= cand[l] /\ cand[l] <= toIssue
        /\ CompleteBefore(cand[l])
    BY <1>1, Scanning
  <1>3. seenFirst[l] = Base /\ seenEnd[l] = toIssue
    BY <1>2 DEF Running
  <1>4. WordsKept /\ last' = last
    BY DEF SharedQuiet, Quiet, shared, words, WordsKept
  <1>5. Running(l)' /\ Base' = Base
    BY <1>3, <1>4 DEF Running, WordsKept, Base
  <1>6. seenFrontier'[l] \in Base'..frontier' /\ seenFrontier'[l] < toIssue'
    BY <1>2, <1>4, <1>5, RangeNumbers DEF WordsKept
  <1>7. CASE \/ cand[l] >= toIssue
             \/ completed[commitLanes[cand[l] - Base]] < cand[l]
    <2>1. Goto(l, "advCas") /\ cand' = cand
      BY <1>2, <1>3, <1>7, RangeNumbers
    <2>2. pc'[l] = "advCas" /\ \A m \in Lanes \ {l} : pc'[m] = pc[m]
      BY <1>1, <2>1, Moved
    <2>3. OthersKept(l)
      BY <2>1, <2>2 DEF OthersKept
    <2>4. CompleteBefore(cand[l])' /\ cand'[l] \in seenFrontier'[l]..toIssue'
      BY <1>2, <1>4, <1>5, <2>1, RangeNumbers DEF CompleteBefore, WordsKept
    <2>5. LaneLocals(l)'
      BY <1>5, <1>6, <2>2, <2>4 DEF LaneLocals, Closing
    <2> QED
      BY <1>1, <1>4, <2>2, <2>3, <2>5, AdvanceInv DEF Advancing, Closing
  <1>8. CASE ~(\/ cand[l] >= toIssue
               \/ completed[commitLanes[cand[l] - Base]] < cand[l])
    <2>1. cand[l] < toIssue /\ cand[l] - Base < size
      BY <1>2, <1>8, RangeNumbers
    <2>2. cand' = [cand EXCEPT ![l] = @ + 1] /\ pc' = pc
      BY <1>2, <1>3, <1>8, <2>1, RangeNumbers
    <2>3. cand'[l] = cand[l] + 1
      BY <1>1, <2>2 DEF TypeOK, TypeSeen
    <2>4. OthersKept(l)
      BY <1>1, <2>2 DEF OthersKept, TypeOK, TypeSeen
    <2>5. CompleteBefore(cand[l])'
      <3> SUFFICES ASSUME NEW i \in 0..(size - 1), Base + i < cand[l] + 1
                   PROVE  completed[commitLanes[i]] >= Base + i
        BY <1>4, <1>5, <2>3 DEF CompleteBefore, WordsKept
      <3>1. CASE Base + i < cand[l]
        BY <1>2, <3>1 DEF CompleteBefore
      <3>2. CASE Base + i = cand[l]
        <4>1. i = cand[l] - Base
          BY <1>2, <3>2, RangeNumbers
        <4>2. completed[commitLanes[i]] \in Nat
          BY <1>1 DEF TypeOK, TypeRange
        <4> QED
          BY <1>2, <1>8, <3>2, <4>1, <4>2
      <3> QED
        BY <1>2, <3>1, <3>2, RangeNumbers
    <2>6. cand'[l] \in seenFrontier'[l]..toIssue'
      BY <1>2, <1>4, <2>1, <2>3, RangeNumbers DEF WordsKept
    <2>7. LaneLocals(l)'
      BY <1>1, <1>5, <1>6, <2>2, <2>5, <2>6 DEF LaneLocals, Closing
    <2> QED
      BY <1>1, <1>4, <2>2, <2>4, <2>7, AdvanceInv DEF Advancing, Closing
  <1> QED
    BY <1>7, <1>8

(* The exchange is not tried, or it fails.                                 *)
LEMMA AdvCasFails ==
  ASSUME IndInv, TypeOK', NEW l \in Lanes,
         \/ AdvCas(l) /\ (cand[l] = seenFrontier[l]
                          \/ frontier # seenFrontier[l])
         \/ AdvCasSpurious(l)
  PROVE  IndInv'
  <1>1. TypeOK /\ pc[l] = "advCas"
    BY DEF IndInv, AdvCas, AdvCasSpurious
  <1>2. /\ root = "segment" /\ Running(l)
        /\ seenFrontier[l] \in Nat
        /\ Base <= seenFrontier[l] /\ seenFrontier[l] <= frontier
    BY <1>1, Scanning
  <1>3. WordsKept /\ last' = last
    BY DEF AdvCas, AdvCasSpurious, SharedQuiet, Quiet, shared, words, WordsKept
  <1>4. /\ pc'[l] \in {"advFinal", "advLoop"}
        /\ \A m \in Lanes \ {l} : pc'[m] = pc[m]
    <2>1. Goto(l, "advFinal") \/ Goto(l, "advLoop")
      BY DEF AdvCas, AdvCasSpurious
    <2> QED
      BY <1>1, <2>1, Moved
  <1>5. OthersKept(l)
    BY <1>1, <1>4 DEF OthersKept, AdvCas, AdvCasSpurious, seen, TypeOK,
                      TypeSeen
  <1>6. Running(l)' /\ FirstRead(l)' /\ EndRead(l)' /\ Base' = Base
    BY <1>2, <1>3 DEF Running, FirstRead, EndRead, WordsKept, Base, AdvCas,
                      AdvCasSpurious, seen
  <1>7. seenFrontier'[l] \in Base'..frontier'
    <2>1. seenFrontier'[l] \in {seenFrontier[l], frontier}
      BY <1>1 DEF AdvCas, AdvCasSpurious, seen, TypeOK, TypeSeen
    <2> QED
      BY <1>2, <1>3, <1>6, <2>1, RangeNumbers DEF WordsKept
  <1>8. LaneLocals(l)'
    BY <1>4, <1>6, <1>7 DEF LaneLocals, Closing
  <1> QED
    BY <1>1, <1>3, <1>4, <1>5, <1>8, AdvanceInv DEF Advancing, Closing

(* notify_all only wakes sleepers.                                         *)
LEMMA AdvNotifyInv ==
  ASSUME IndInv, TypeOK', NEW l \in Lanes, AdvNotify(l)
  PROVE  IndInv'
  <1> USE DEF AdvNotify
  <1>1. TypeOK /\ pc[l] = "advNotify" /\ root = "segment"
    BY InSegment DEF IndInv
  <1>2. /\ pc'[l] = "advLoop"
        /\ \A m \in Lanes \ {l} :
             pc'[m] = pc[m] \/ (pc[m] = "asleep" /\ pc'[m] = "waitLoad")
    OBVIOUS
  <1>3. WordsKept /\ last' = last
    BY DEF SharedQuiet, Quiet, shared, words, WordsKept
  <1>4. OthersKept(l)
    BY <1>2 DEF OthersKept, seen
  <1>5. Running(l) /\ seenFrontier[l] \in Base..frontier
    BY <1>1 DEF IndInv, Locals, LaneLocals
  <1>6. /\ Running(l)' /\ FirstRead(l)' /\ EndRead(l)'
        /\ seenFrontier'[l] \in Base'..frontier'
    BY <1>3, <1>5 DEF Running, FirstRead, EndRead, WordsKept, Base, seen
  <1>7. LaneLocals(l)'
    BY <1>2, <1>6 DEF LaneLocals, Closing
  <1> QED
    BY <1>1, <1>2, <1>3, <1>4, <1>7, AdvanceInv DEF Advancing, Closing

(* A lane tries to close the range only after the frontier reached its end. *)
LEMMA AdvFinalInv ==
  ASSUME IndInv, TypeOK', NEW l \in Lanes, AdvFinal(l)
  PROVE  IndInv'
  <1> USE DEF AdvFinal
  <1>1. TypeOK /\ pc[l] = "advFinal" /\ root = "segment"
    BY InSegment DEF IndInv
  <1>2. /\ pc'[l] = (IF frontier = seenEnd[l] THEN "advDeact" ELSE "pick")
        /\ \A m \in Lanes \ {l} : pc'[m] = pc[m]
    BY <1>1, Moved
  <1>3. WordsKept /\ last' = last
    BY DEF SharedQuiet, Quiet, shared, words, WordsKept
  <1>4. OthersKept(l)
    BY <1>2 DEF OthersKept, seen
  <1>5. FirstRead(l) /\ EndRead(l)
    BY <1>1 DEF IndInv, Locals, LaneLocals
  <1>6. FirstRead(l)'
    BY <1>3, <1>5 DEF FirstRead, WordsKept, Base, seen
  <1>7. frontier = seenEnd[l] => seenEnd'[l] = toIssue' /\ frontier' = toIssue'
    BY <1>1, <1>3, <1>5, RangeNumbers DEF EndRead, WordsKept, seen
  <1>8. LaneLocals(l)'
    BY <1>2, <1>6, <1>7 DEF LaneLocals, Closing
  <1> QED
    BY <1>1, <1>2, <1>3, <1>4, <1>8, AdvanceInv DEF Advancing, Closing

-----------------------------------------------------------------------------
(* AdvanceLaneCommit: moving the frontier and closing the range.           *)

(* A step on the words of the range keeps the invariant if it neither      *)
(* passes an incomplete ticket nor reopens the range.                      *)
LEMMA RangeStep ==
  ASSUME IndInv, TypeOK', NEW l \in Lanes, pc[l] \in Advancing,
         UNCHANGED <<toIssue, size, commitLanes, completed, root, rootTicket,
                     todo, cur, last>>,
         OthersKept(l), pc'[l] \in Advancing \cup {"pick"},
         RangeWords', LaneLocals(l)', OneCloser',
         frontier <= frontier', frontier' <= toIssue,
         CompleteBefore(frontier'), active' => active,
         \A m \in Lanes : pc[m] \in {"crit", "waitSub"} => frontier' = frontier,
         \A m \in Lanes \ {l} : pc[m] = "advPublish" => next' = next,
         \A m \in Lanes : \A u \in Outstanding(m) : next' <= u,
         next' <= toIssue, end' <= toIssue
  PROVE  IndInv'
  <1>1. root = "segment"
    BY InSegment DEF Advancing
  <1>2. Base' = Base
    BY DEF Base
  <1>3. pc[l] \notin BeforeStore /\ pc'[l] \notin BeforeStore
    BY DEF Advancing, BeforeStore
  <1>4. \A m \in Lanes : Outstanding(m)' = Outstanding(m)
    <2>1. \A m \in Lanes : pc'[m] \in BeforeStore <=> pc[m] \in BeforeStore
      BY <1>3 DEF OthersKept, BeforeStore
    <2> QED
      BY <2>1, JobsKept
  <1>5. NoAbort'
    BY DEF IndInv, NoAbort, OthersKept, Advancing
  <1>6. PlainWords'
    BY <1>1 DEF IndInv, PlainWords
  <1>7. JobOrder'
    <2>1. \A m \in Lanes : pc'[m] \in BeforeStore => pc[m] \in BeforeStore
      BY <1>3 DEF OthersKept, BeforeStore
    <2> QED
      BY <1>4, <2>1 DEF IndInv, JobOrder
  <1>8. SegmentJobs'
    <2> SUFFICES ASSUME NEW m \in Lanes
                 PROVE  /\ pc'[m] # "turn"
                        /\ \A u \in Outstanding(m) :
                             /\ u >= Base /\ commitLanes[u - Base] = m
                             /\ completed[m] < u
                        /\ pc'[m] \in {"crit", "waitSub"} => frontier' = cur[m]
      BY <1>2, <1>4 DEF SegmentJobs
    <2>1. /\ pc[m] # "turn"
          /\ \A u \in Outstanding(m) :
               u >= Base /\ commitLanes[u - Base] = m /\ completed[m] < u
          /\ pc[m] \in {"crit", "waitSub"} => frontier = cur[m]
      BY <1>1 DEF IndInv, SegmentJobs
    <2>2. CASE m = l
      BY <2>1, <2>2 DEF Advancing
    <2>3. CASE m # l
      BY <2>1, <2>3 DEF OthersKept
    <2> QED
      BY <2>2, <2>3
  <1>9. BatchJobs'
    BY <1>1 DEF BatchJobs
  <1>10. FrontierSound'
    BY <1>2 DEF FrontierSound, CompleteBefore
  <1>11. Locals'
    <2> SUFFICES ASSUME NEW m \in Lanes \ {l} PROVE LaneLocals(m)'
      BY DEF Locals
    <2>1. \A k \in Lanes : completed[k] <= completed'[k]
      BY DEF IndInv, TypeOK, TypeRange
    <2>2. pc'[m] = pc[m] \/ pc'[m] \in BeforeStore
      BY DEF OthersKept, BeforeStore
    <2> QED
      BY <1>1, <2>1, <2>2, LocalsKept DEF OthersKept
  <1>12. LastBelow'
    <2>1. \A m \in Lanes : pc[m] \in {"crit", "store"}
                             => pc'[m] \in {"crit", "store"}
      BY <1>3 DEF OthersKept, BeforeStore
    <2> QED
      BY <1>4, <2>1 DEF IndInv, LastBelow
  <1> QED
    BY <1>5, <1>6, <1>7, <1>8, <1>9, <1>10, <1>11, <1>12 DEF IndInv

(* The exchange succeeds: every ticket the frontier passes is complete, so *)
(* nobody is inside an effect for one of them.                             *)
LEMMA AdvCasMoves ==
  ASSUME IndInv, TypeOK', NEW l \in Lanes, AdvCas(l),
         cand[l] # seenFrontier[l], frontier = seenFrontier[l]
  PROVE  IndInv'
  <1> USE DEF AdvCas
  <1>1. TypeOK /\ pc[l] = "advCas" /\ pc[l] \in Advancing
    BY DEF IndInv, Advancing
  <1>2. /\ root = "segment" /\ Running(l)
        /\ seenFrontier[l] \in Nat /\ cand[l] \in Nat
        /\ Base <= seenFrontier[l] /\ seenFrontier[l] <= frontier
        /\ seenFrontier[l] < toIssue
        /\ seenFrontier[l] <= cand[l] /\ cand[l] <= toIssue
        /\ CompleteBefore(cand[l])
    BY <1>1, Scanning
  <1>3. /\ frontier' = cand[l] /\ Goto(l, "advNotify")
        /\ seenFrontier' = [seenFrontier EXCEPT ![l] = cand[l]]
    OBVIOUS
  <1>4. pc'[l] = "advNotify" /\ \A m \in Lanes \ {l} : pc'[m] = pc[m]
    BY <1>1, <1>3, Moved
  <1>5. /\ UNCHANGED <<toIssue, size, commitLanes, completed, root, rootTicket,
                       todo, cur, last>>
        /\ UNCHANGED <<next, active, first, end>>
    BY DEF Quiet
  <1>6. OthersKept(l)
    BY <1>1, <1>3, <1>4 DEF OthersKept, TypeOK, TypeSeen
  <1>7. Base' = Base /\ active /\ frontier < cand[l]
    BY <1>2, <1>5, RangeNumbers DEF Base
  <1>8. RangeWords'
    BY <1>2, <1>3, <1>5, <1>7, RangeNumbers DEF RangeWords
  <1>9. LaneLocals(l)'
    <2>1. Running(l)'
      BY <1>2, <1>5, <1>7 DEF Running
    <2>2. seenFrontier'[l] \in Base'..frontier'
      <3>1. seenFrontier'[l] = cand[l]
        BY <1>1, <1>3 DEF TypeOK, TypeSeen
      <3> QED
        BY <1>2, <1>3, <1>7, <3>1, RangeNumbers
    <2> QED
      BY <1>4, <2>1, <2>2 DEF LaneLocals, Closing
  <1>10. OneCloser'
    BY <1>4, <1>5 DEF IndInv, OneCloser, Closing
  <1>11. \A m \in Lanes : pc[m] \notin {"crit", "waitSub"}
    <2> SUFFICES ASSUME NEW m \in Lanes, pc[m] \in {"crit", "waitSub"}
                 PROVE  FALSE
      OBVIOUS
    <2>1. cur[m] \in Outstanding(m) /\ frontier = cur[m]
      BY <1>2, Current DEF BeforeStore, IndInv, SegmentJobs
    <2>2. commitLanes[cur[m] - Base] = m /\ completed[m] < cur[m]
      BY <1>2, <2>1 DEF IndInv, SegmentJobs
    <2>3. (frontier - Base) \in 0..(size - 1)
          /\ Base + (frontier - Base) = frontier
      BY <1>2, RangeNumbers
    <2>4. completed[m] >= frontier
      BY <1>2, <1>7, <2>1, <2>2, <2>3 DEF CompleteBefore
    <2>5. completed[m] \in Nat /\ frontier \in Nat
      BY <1>1 DEF TypeOK, TypeRange, TypeWords
    <2> QED
      BY <2>1, <2>2, <2>4, <2>5
  <1>12. \A m \in Lanes : \A u \in Outstanding(m) : next' <= u
    BY <1>5 DEF IndInv, JobOrder
  <1>13. next' <= toIssue /\ end' <= toIssue
    BY <1>5 DEF IndInv, PlainWords
  <1>14. frontier <= frontier' /\ frontier' <= toIssue
         /\ CompleteBefore(frontier')
    BY <1>2, <1>3, <1>7
  <1> QED
    BY <1>1, <1>4, <1>5, <1>6, <1>8, <1>9, <1>10, <1>11, <1>12, <1>13, <1>14,
       RangeStep DEF Advancing

(* Once the frontier is at the end nothing is outstanding.                 *)
LEMMA AllComplete ==
  ASSUME IndInv, root = "segment", frontier = toIssue, NEW m \in Lanes
  PROVE  Outstanding(m) = {}
  <1> SUFFICES ASSUME NEW u \in Outstanding(m) PROVE FALSE
    OBVIOUS
  <1> QED
    BY OpenRange, RangeNumbers

(* The frontier covers what it did when the step leaves it alone.          *)
LEMMA FrontierKept ==
  ASSUME IndInv, root = "segment", frontier' = frontier
  PROVE  /\ frontier <= frontier' /\ frontier' <= toIssue
         /\ CompleteBefore(frontier')
  BY RangeNumbers DEF IndInv, FrontierSound, CompleteBefore

(* One lane wins the exchange that closes the range.                       *)
LEMMA AdvDeactivateInv ==
  ASSUME IndInv, TypeOK', NEW l \in Lanes, AdvDeactivate(l)
  PROVE  IndInv'
  <1> USE DEF AdvDeactivate
  <1>1. TypeOK /\ pc[l] = "advDeact" /\ root = "segment"
    BY InSegment DEF IndInv
  <1>2. /\ pc'[l] = (IF active THEN "advPublish" ELSE "pick")
        /\ \A m \in Lanes \ {l} : pc'[m] = pc[m]
    BY <1>1, Moved
  <1>3. /\ UNCHANGED <<toIssue, size, commitLanes, completed, root, rootTicket,
                       todo, cur, last>>
        /\ UNCHANGED <<next, first, end, frontier>>
    BY DEF Quiet
  <1>4. OthersKept(l)
    BY <1>2 DEF OthersKept, seen
  <1>5. FirstRead(l) /\ seenEnd[l] = toIssue /\ frontier = toIssue
    BY <1>1 DEF IndInv, Locals, LaneLocals
  <1>6. ~active' /\ Base' = Base
    BY <1>3 DEF Base
  <1>7. RangeWords'
    BY <1>1, <1>3, <1>5, <1>6, RangeNumbers DEF RangeWords
  <1>8. LaneLocals(l)'
    <2>1. active => Running(l)' /\ next' = Base'
      BY <1>1, <1>3, <1>5, <1>6, RangeNumbers DEF FirstRead, Running, seen
    <2> QED
      BY <1>2, <1>6, <2>1 DEF LaneLocals, Closing
  <1>9. OneCloser'
    <2>1. active => \A m \in Lanes : pc[m] \notin Closing
      BY <1>1 DEF IndInv, Locals, LaneLocals
    <2> QED
      BY <1>2, <1>3, <2>1 DEF IndInv, OneCloser, Closing
  <1>10. \A m \in Lanes : \A u \in Outstanding(m) : next' <= u
    BY <1>3 DEF IndInv, JobOrder
  <1>11. next' <= toIssue /\ end' <= toIssue
    BY <1>3 DEF IndInv, PlainWords
  <1>12. /\ frontier <= frontier' /\ frontier' <= toIssue
         /\ CompleteBefore(frontier')
    BY <1>1, <1>3, FrontierKept
  <1>13. pc[l] \in Advancing /\ pc'[l] \in Advancing \cup {"pick"}
    BY <1>1, <1>2 DEF Advancing
  <1> QED
    BY <1>3, <1>4, <1>6, <1>7, <1>8, <1>9, <1>10, <1>11, <1>12, <1>13,
       RangeStep

(* The winner hands the turn past the range: nothing of it is outstanding. *)
LEMMA AdvPublishInv ==
  ASSUME IndInv, TypeOK', NEW l \in Lanes, AdvPublish(l)
  PROVE  IndInv'
  <1> USE DEF AdvPublish
  <1>1. TypeOK /\ pc[l] = "advPublish" /\ root = "segment"
    BY InSegment DEF IndInv
  <1>2. Running(l) /\ next = Base /\ ~active
    BY <1>1 DEF IndInv, Locals, LaneLocals, Closing
  <1>3. next' = toIssue /\ Goto(l, "advZeroFirst")
    BY <1>2 DEF Running
  <1>4. pc'[l] = "advZeroFirst" /\ \A m \in Lanes \ {l} : pc'[m] = pc[m]
    BY <1>1, <1>3, Moved
  <1>5. /\ UNCHANGED <<toIssue, size, commitLanes, completed, root, rootTicket,
                       todo, cur, last>>
        /\ UNCHANGED <<active, first, end, frontier>>
    BY DEF Quiet
  <1>6. OthersKept(l)
    BY <1>4 DEF OthersKept, seen
  <1>7. Base' = Base /\ frontier = toIssue
    BY <1>1, <1>2, <1>5, RangeNumbers DEF Base
  <1>8. RangeWords'
    BY <1>1, <1>2, <1>5, <1>7, RangeNumbers DEF RangeWords
  <1>9. LaneLocals(l)'
    BY <1>2, <1>4, <1>5 DEF LaneLocals, Closing
  <1>10. \A m \in Lanes \ {l} : pc[m] \notin Closing
    BY <1>1 DEF IndInv, OneCloser, Closing
  <1>11. OneCloser'
    BY <1>4, <1>10 DEF OneCloser
  <1>12. \A m \in Lanes : \A u \in Outstanding(m) : next' <= u
    BY <1>1, <1>7, AllComplete
  <1>13. next' <= toIssue /\ end' <= toIssue
    BY <1>1, <1>3, <1>5 DEF IndInv, PlainWords, TypeOK, TypeWords
  <1>14. /\ frontier <= frontier' /\ frontier' <= toIssue
         /\ CompleteBefore(frontier')
    BY <1>1, <1>5, FrontierKept
  <1>15. pc[l] \in Advancing /\ pc'[l] \in Advancing \cup {"pick"}
    BY <1>1, <1>4 DEF Advancing
  <1>16. \A m \in Lanes \ {l} : pc[m] = "advPublish" => next' = next
    BY <1>10 DEF Closing
  <1> QED
    BY <1>5, <1>6, <1>8, <1>9, <1>11, <1>12, <1>13, <1>14, <1>15, <1>16,
       RangeStep

(* The winner clears first and end.                                        *)
LEMMA AdvZeroInv ==
  ASSUME IndInv, TypeOK', NEW l \in Lanes, AdvZeroFirst(l) \/ AdvZeroEnd(l)
  PROVE  IndInv'
  <1> USE DEF AdvZeroFirst, AdvZeroEnd
  <1>1. TypeOK /\ pc[l] \in {"advZeroFirst", "advZeroEnd"} /\ root = "segment"
    BY InSegment DEF IndInv
  <1>2. ~active
    BY <1>1 DEF IndInv, Locals, LaneLocals, Closing
  <1>3. /\ pc'[l] \in {"advZeroEnd", "pick"}
        /\ \A m \in Lanes \ {l} : pc'[m] = pc[m]
    BY <1>1, Moved
  <1>4. /\ UNCHANGED <<toIssue, size, commitLanes, completed, root, rootTicket,
                       todo, cur, last>>
        /\ UNCHANGED <<active, next, frontier>>
        /\ first' \in {0, first} /\ end' \in {0, end}
    BY DEF Quiet
  <1>5. OthersKept(l)
    BY <1>3 DEF OthersKept, seen
  <1>6. Base' = Base
    BY <1>4 DEF Base
  <1>7. RangeWords'
    BY <1>1, <1>2, <1>4, <1>6, RangeNumbers DEF RangeWords
  <1>8. LaneLocals(l)'
    BY <1>2, <1>3, <1>4 DEF LaneLocals, Closing
  <1>9. \A m \in Lanes \ {l} : pc[m] \notin Closing
    BY <1>1 DEF IndInv, OneCloser, Closing
  <1>10. OneCloser'
    BY <1>3, <1>9 DEF OneCloser
  <1>11. \A m \in Lanes : \A u \in Outstanding(m) : next' <= u
    BY <1>4 DEF IndInv, JobOrder
  <1>12. next' <= toIssue /\ end' <= toIssue
    BY <1>1, <1>4 DEF IndInv, PlainWords, TypeOK, TypeWords
  <1>13. /\ frontier <= frontier' /\ frontier' <= toIssue
         /\ CompleteBefore(frontier')
    BY <1>1, <1>4, FrontierKept
  <1>14. pc[l] \in Advancing /\ pc'[l] \in Advancing \cup {"pick"}
    BY <1>1, <1>3 DEF Advancing
  <1> QED
    BY <1>4, <1>5, <1>7, <1>8, <1>10, <1>11, <1>12, <1>13, <1>14, RangeStep

-----------------------------------------------------------------------------
(* The steps that start, release and complete a ticket.                    *)

(* Lane l completes its current ticket: it is no longer outstanding.       *)
LEMMA Released ==
  ASSUME IndInv, NEW l \in Lanes, pc[l] \in BeforeStore,
         pc'[l] \notin BeforeStore, UNCHANGED <<todo, cur>>,
         \A m \in Lanes \ {l} : pc'[m] = pc[m]
  PROVE  /\ \A m \in Lanes : Outstanding(m)' \subseteq Outstanding(m)
         /\ \A m \in Lanes : \A u \in Outstanding(m)' :
              u # cur[l] /\ (m = l => cur[l] < u)
  <1>1. cur[l] \in Outstanding(l)
    BY Current
  <1>2. Outstanding(l)' = todo[l] /\ todo[l] \subseteq Outstanding(l)
    BY DEF Outstanding
  <1>3. \A u \in todo[l] : u \in Nat /\ cur[l] < u /\ u # cur[l]
    BY DEF IndInv, JobOrder, TypeOK, TypeJobs
  <1>4. \A m \in Lanes \ {l} : Outstanding(m)' = Outstanding(m)
    BY JobsKept
  <1>5. \A m \in Lanes \ {l} : cur[l] \notin Outstanding(m)
    BY <1>1 DEF IndInv, JobOrder
  <1> QED
    BY <1>2, <1>3, <1>4, <1>5

(* CompleteLaneCommit stores a ticket of the live range.                   *)
LEMMA CompleteInv ==
  ASSUME IndInv, TypeOK', NEW l \in Lanes, CompleteLaneCommit(l)
  PROVE  IndInv'
  <1> USE DEF CompleteLaneCommit
  <1>1. TypeOK /\ pc[l] = "store" /\ root = "segment"
    BY InSegment DEF IndInv
  <1>2. cur[l] \in Outstanding(l) /\ pc[l] \in BeforeStore
    BY <1>1, Current DEF BeforeStore
  <1>3. LaneCommitContains(cur[l])
    BY <1>1, <1>2, OpenRange
  <1>4. completed' = [completed EXCEPT ![l] = cur[l]] /\ Goto(l, "advActive")
    BY <1>3
  <1>5. pc'[l] = "advActive" /\ \A m \in Lanes \ {l} : pc'[m] = pc[m]
    BY <1>1, <1>4, Moved
  <1>6. UNCHANGED <<toIssue, next, active, first, frontier, end, commitLanes,
                    size, root, rootTicket, todo, cur, seen, last>>
    BY DEF Quiet
  <1>7. /\ completed'[l] = cur[l]
        /\ \A m \in Lanes \ {l} : completed'[m] = completed[m]
    BY <1>1, <1>4 DEF TypeOK, TypeRange
  <1>8. /\ \A m \in Lanes : Outstanding(m)' \subseteq Outstanding(m)
        /\ \A m \in Lanes : \A u \in Outstanding(m)' :
             u # cur[l] /\ (m = l => cur[l] < u)
    BY <1>2, <1>5, <1>6, Released DEF BeforeStore
  <1>9. Base' = Base
    BY <1>6 DEF Base
  <1>10. \A m \in Lanes : completed[m] <= completed'[m]
    <2>1. completed[l] < cur[l] /\ completed[l] \in Nat /\ cur[l] \in Nat
      BY <1>1, <1>2 DEF IndInv, SegmentJobs, TypeOK, TypeRange, TypeJobs
    <2>2. \A m \in Lanes : completed[m] \in Nat
      BY <1>1 DEF TypeOK, TypeRange
    <2> QED
      BY <1>7, <2>1, <2>2
  <1>11. NoAbort'
    BY <1>5 DEF IndInv, NoAbort
  <1>12. RangeWords'
    BY <1>6, <1>9 DEF IndInv, RangeWords
  <1>13. PlainWords'
    BY <1>1, <1>6 DEF IndInv, PlainWords
  <1>14. JobOrder'
    <2>1. \A m \in Lanes : pc'[m] \in BeforeStore => pc[m] \in BeforeStore
      BY <1>5 DEF BeforeStore
    <2> QED
      BY <1>6, <1>8, <2>1 DEF IndInv, JobOrder
  <1>15. SegmentJobs'
    <2> SUFFICES ASSUME NEW m \in Lanes
                 PROVE  /\ pc'[m] # "turn"
                        /\ \A u \in Outstanding(m)' :
                             /\ u >= Base /\ commitLanes[u - Base] = m
                             /\ completed'[m] < u
                        /\ pc'[m] \in {"crit", "waitSub"} => frontier = cur[m]
      BY <1>6, <1>9 DEF SegmentJobs
    <2>1. /\ pc[m] # "turn"
          /\ \A u \in Outstanding(m) :
               u >= Base /\ commitLanes[u - Base] = m /\ completed[m] < u
          /\ pc[m] \in {"crit", "waitSub"} => frontier = cur[m]
      BY <1>1 DEF IndInv, SegmentJobs
    <2>2. CASE m = l
      BY <1>5, <1>7, <1>8, <2>1, <2>2
    <2>3. CASE m # l
      BY <1>5, <1>7, <1>8, <2>1, <2>3
    <2> QED
      BY <2>2, <2>3
  <1>16. BatchJobs'
    BY <1>1, <1>6 DEF BatchJobs
  <1>17. FrontierSound'
    <2> SUFFICES ASSUME NEW i \in 0..(size - 1), Base + i < frontier
                 PROVE  completed'[commitLanes[i]] >= Base + i
      BY <1>6, <1>9 DEF FrontierSound
    <2>1. commitLanes[i] \in Lanes /\ Base \in Nat
      BY <1>1, RangeNumbers DEF TypeOK, TypeRange
    <2>2. completed[commitLanes[i]] >= Base + i
      BY <1>1 DEF IndInv, FrontierSound
    <2>3. /\ completed[commitLanes[i]] \in Nat
          /\ completed'[commitLanes[i]] \in Nat
      BY <1>1, <2>1 DEF TypeOK, TypeRange
    <2> QED
      BY <1>10, <2>1, <2>2, <2>3
  <1>18. Locals'
    <2> SUFFICES ASSUME NEW m \in Lanes PROVE LaneLocals(m)'
      BY DEF Locals
    <2>1. frontier <= frontier' /\ frontier' <= toIssue
      BY <1>1, <1>6, RangeNumbers
    <2>2. pc'[m] = pc[m] \/ pc'[m] = "advActive"
      BY <1>5
    <2> QED
      BY <1>1, <1>6, <1>10, <2>1, <2>2, LocalsKept DEF seen
  <1>19. OneCloser'
    BY <1>5, <1>6 DEF IndInv, OneCloser, Closing
  <1>20. LastBelow'
    <2> SUFFICES ASSUME NEW m \in Lanes, NEW u \in Outstanding(m)'
                 PROVE  /\ last <= u
                        /\ last = u => u = cur[m] /\ pc'[m] \in {"crit", "store"}
      BY <1>6 DEF LastBelow
    <2>1. /\ last <= u
          /\ last = u => u = cur[m] /\ pc[m] \in {"crit", "store"}
      BY <1>8 DEF IndInv, LastBelow
    <2>2. m = l => u # cur[m]
      BY <1>8
    <2> QED
      BY <1>5, <2>1, <2>2
  <1> QED
    BY <1>11, <1>12, <1>13, <1>14, <1>15, <1>16, <1>17, <1>18, <1>19, <1>20
       DEF IndInv

(* A plain ticket passes the turn on.                                      *)
LEMMA PassTurn ==
  ASSUME IndInv, TypeOK', NEW l \in Lanes, ReleaseQuantumCommit(l),
         root = "batch"
  PROVE  IndInv'
  <1> USE DEF ReleaseQuantumCommit
  <1>1. TypeOK /\ pc[l] = "crit"
    BY DEF IndInv
  <1>2. cur[l] \in Outstanding(l) /\ pc[l] \in BeforeStore
    BY <1>1, Current DEF BeforeStore
  <1>3. next = cur[l] /\ end <= cur[l] /\ cur[l] < toIssue
    BY <1>1, <1>2 DEF IndInv, BatchJobs, JobOrder
  <1>4. /\ next \in Nat /\ cur[l] \in Nat /\ toIssue \in Nat /\ end \in Nat
        /\ last \in Nat
    BY <1>1 DEF TypeOK, TypeWords, TypeJobs
  <1>5. next' = next + 1 /\ Goto(l, "pick")
    BY <1>3, <1>4 DEF LaneCommitContains
  <1>6. pc'[l] = "pick" /\ \A m \in Lanes \ {l} : pc'[m] = pc[m]
    BY <1>1, <1>5, Moved
  <1>7. UNCHANGED <<toIssue, active, first, frontier, end, commitLanes, size,
                    completed, root, rootTicket, todo, cur, seen, last>>
    BY DEF Quiet
  <1>8. /\ \A m \in Lanes : Outstanding(m)' \subseteq Outstanding(m)
        /\ \A m \in Lanes : \A u \in Outstanding(m)' :
             u # cur[l] /\ (m = l => cur[l] < u)
    BY <1>2, <1>6, <1>7, Released DEF BeforeStore
  <1>9. NoAbort'
    BY <1>6 DEF IndInv, NoAbort
  <1>10. RangeWords' /\ SegmentJobs' /\ FrontierSound' /\ Locals' /\ OneCloser'
    BY <1>7 DEF RangeWords, SegmentJobs, FrontierSound, Locals, OneCloser
  <1>11. PlainWords'
    BY <1>3, <1>4, <1>5, <1>7 DEF IndInv, PlainWords
  <1>12. JobOrder'
    <2>1. \A m \in Lanes : pc'[m] \in BeforeStore => pc[m] \in BeforeStore
      BY <1>6 DEF BeforeStore
    <2>2. ASSUME NEW m \in Lanes, NEW u \in Outstanding(m)'
          PROVE  next' <= u /\ u < toIssue
      <3>1. u \in Outstanding(m) /\ u # cur[l]
        BY <1>8
      <3>2. u \in Nat /\ next <= u /\ u < toIssue
        BY <1>1, <3>1 DEF IndInv, JobOrder, Outstanding, TypeOK, TypeJobs
      <3> QED
        BY <1>3, <1>4, <1>5, <3>1, <3>2
    <2> QED
      BY <1>7, <1>8, <2>1, <2>2 DEF IndInv, JobOrder
  <1>13. BatchJobs'
    <2> SUFFICES ASSUME NEW m \in Lanes
                 PROVE  /\ pc'[m] \in {"idle", "pick", "calc", "turn", "crit",
                                       "done"}
                        /\ \A u \in Outstanding(m)' : end <= u
                        /\ pc'[m] # "crit"
      BY <1>7 DEF BatchJobs
    <2>1. /\ pc[m] \in {"idle", "pick", "calc", "turn", "crit", "done"}
          /\ \A u \in Outstanding(m) : end <= u
          /\ pc[m] = "crit" => next = cur[m]
      BY DEF IndInv, BatchJobs
    <2>2. m # l => pc[m] # "crit"
      <3> SUFFICES ASSUME m # l, pc[m] = "crit" PROVE FALSE
        OBVIOUS
      <3>1. cur[m] \in Outstanding(m) /\ cur[m] = cur[l]
        BY <1>3, <2>1, Current DEF BeforeStore
      <3> QED
        BY <1>2, <3>1 DEF IndInv, JobOrder
    <2> QED
      BY <1>6, <1>8, <2>1, <2>2
  <1>14. LastBelow'
    <2> SUFFICES ASSUME NEW m \in Lanes, NEW u \in Outstanding(m)'
                 PROVE  /\ last <= u
                        /\ last = u => u = cur[m] /\ pc'[m] \in {"crit", "store"}
      BY <1>7 DEF LastBelow
    <2>1. /\ last <= u
          /\ last = u => u = cur[m] /\ pc[m] \in {"crit", "store"}
      BY <1>8 DEF IndInv, LastBelow
    <2>2. m = l => u # cur[m]
      BY <1>8
    <2> QED
      BY <1>6, <2>1, <2>2
  <1> QED
    BY <1>9, <1>10, <1>11, <1>12, <1>13, <1>14 DEF IndInv

(* ReleaseQuantumCommit, in a segment and in a batch.                      *)
LEMMA ReleaseInv ==
  ASSUME IndInv, TypeOK', NEW l \in Lanes, ReleaseQuantumCommit(l)
  PROVE  IndInv'
  <1> USE DEF ReleaseQuantumCommit
  <1>1. TypeOK /\ pc[l] = "crit" /\ pc[l] \in BeforeStore
    BY DEF IndInv, BeforeStore
  <1>2. CASE root = "segment"
    <2>1. LaneCommitContains(cur[l])
      BY <1>1, <1>2, Current, OpenRange
    <2>2. Goto(l, "store") /\ next' = next
      BY <2>1
    <2>3. pc'[l] = "store" /\ \A m \in Lanes \ {l} : pc'[m] = pc[m]
      BY <1>1, <2>2, Moved
    <2>4. WordsKept /\ last' = last
      BY <2>2 DEF Quiet, WordsKept
    <2>5. OthersKept(l)
      BY <2>3 DEF OthersKept, seen
    <2>6. LastBelow' /\ last' < toIssue
      BY <1>1, <2>3, <2>4, <2>5, LastKept DEF BeforeStore
    <2>7. LaneLocals(l)'
      BY <2>3 DEF LaneLocals, Closing
    <2> QED
      BY <1>1, <1>2, <2>3, <2>4, <2>5, <2>6, <2>7, QuietInv
         DEF BeforeStore, Closing
  <1>3. CASE root = "batch"
    BY <1>3, PassTurn
  <1> QED
    BY <1>1, <1>2, <1>3, AtWork

(* A lane starts its least ticket: the same tickets are outstanding.       *)
LEMMA StartJob ==
  ASSUME IndInv, TypeOK', NEW l \in Lanes, PickJob(l),
         todo[l] # {}, body[l] # "effect"
  PROVE  IndInv'
  <1> USE DEF PickJob
  <1>1. TypeOK /\ pc[l] = "pick"
    BY DEF IndInv
  <1>2. PICK t \in todo[l] :
          /\ \A u \in todo[l] : t <= u
          /\ cur' = [cur EXCEPT ![l] = t]
          /\ todo' = [todo EXCEPT ![l] = @ \ {t}]
          /\ Goto(l, "calc")
    OBVIOUS
  <1>3. pc'[l] = "calc" /\ \A m \in Lanes \ {l} : pc'[m] = pc[m]
    BY <1>1, <1>2, Moved
  <1>4. UNCHANGED <<toIssue, next, active, first, frontier, end, commitLanes,
                    size, completed, root, rootTicket, last>>
    BY DEF SharedQuiet, Quiet, shared, words
  <1>5. /\ cur'[l] = t /\ todo'[l] = todo[l] \ {t}
        /\ \A m \in Lanes \ {l} : cur'[m] = cur[m] /\ todo'[m] = todo[m]
    BY <1>1, <1>2 DEF TypeOK, TypeJobs
  <1>6. \A m \in Lanes : Outstanding(m)' = Outstanding(m)
    <2>1. Outstanding(l)' = todo[l] /\ Outstanding(l) = todo[l]
      BY <1>1, <1>3, <1>5 DEF Outstanding, BeforeStore
    <2>2. \A m \in Lanes \ {l} : Outstanding(m)' = Outstanding(m)
      BY <1>3, <1>5, JobsKept
    <2> QED
      BY <2>1, <2>2
  <1>7. OthersKept(l)
    BY <1>1, <1>3 DEF OthersKept, ForgetLocals, TypeOK, TypeSeen
  <1>8. Base' = Base
    BY <1>4 DEF Base
  <1>9. root \in {"segment", "batch"}
    BY <1>1, AtWork
  <1>10. NoAbort'
    BY <1>3 DEF IndInv, NoAbort
  <1>11. RangeWords' /\ FrontierSound'
    BY <1>4, <1>8 DEF IndInv, RangeWords, FrontierSound
  <1>12. PlainWords'
    BY <1>4, <1>9 DEF IndInv, PlainWords
  <1>13. JobOrder'
    <2>1. \A u \in todo'[l] : cur'[l] < u
      BY <1>1, <1>2, <1>5 DEF TypeOK, TypeJobs
    <2>2. \A m \in Lanes \ {l} :
            pc'[m] \in BeforeStore => \A u \in todo'[m] : cur'[m] < u
      BY <1>3, <1>5 DEF IndInv, JobOrder
    <2> QED
      BY <1>4, <1>6, <2>1, <2>2 DEF IndInv, JobOrder
  <1>14. SegmentJobs'
    <2> SUFFICES ASSUME root = "segment", NEW m \in Lanes
                 PROVE  /\ pc'[m] # "turn"
                        /\ \A u \in Outstanding(m) :
                             /\ u >= Base /\ commitLanes[u - Base] = m
                             /\ completed[m] < u
                        /\ pc'[m] \in {"crit", "waitSub"} => frontier = cur'[m]
      BY <1>4, <1>6, <1>8 DEF SegmentJobs
    <2> QED
      BY <1>3, <1>5 DEF IndInv, SegmentJobs
  <1>15. BatchJobs'
    <2> SUFFICES ASSUME root = "batch", NEW m \in Lanes
                 PROVE  /\ pc'[m] \in {"idle", "pick", "calc", "turn", "crit",
                                       "done"}
                        /\ \A u \in Outstanding(m) : end <= u
                        /\ pc'[m] = "crit" => next = cur'[m]
      BY <1>4, <1>6 DEF BatchJobs
    <2> QED
      BY <1>3, <1>5 DEF IndInv, BatchJobs
  <1>16. Locals'
    <2> SUFFICES ASSUME root = "segment", NEW m \in Lanes
                 PROVE  LaneLocals(m)'
      BY <1>4 DEF Locals
    <2>1. CASE m = l
      BY <1>3, <2>1 DEF LaneLocals, Closing
    <2>2. CASE m # l
      <3>1. frontier <= frontier' /\ frontier' <= toIssue
        BY <1>4, RangeNumbers
      <3>2. \A k \in Lanes : completed[k] <= completed'[k]
        BY <1>1, <1>4 DEF TypeOK, TypeRange
      <3> QED
        BY <1>3, <1>4, <1>7, <2>2, <3>1, <3>2, LocalsKept DEF OthersKept
    <2> QED
      BY <2>1, <2>2
  <1>17. OneCloser'
    BY <1>3, <1>4 DEF IndInv, OneCloser, Closing
  <1>18. LastBelow'
    <2>1. \A u \in Outstanding(l) : last <= u /\ last # u
      BY <1>1 DEF IndInv, LastBelow
    <2> QED
      BY <1>3, <1>4, <1>5, <1>6, <2>1 DEF IndInv, LastBelow
  <1> QED
    BY <1>10, <1>11, <1>12, <1>13, <1>14, <1>15, <1>16, <1>17, <1>18
       DEF IndInv

(* A lane takes its next job or leaves its segment.                        *)
LEMMA PickJobInv ==
  ASSUME IndInv, TypeOK', NEW l \in Lanes, PickJob(l)
  PROVE  IndInv'
  <1>1. CASE todo[l] = {} \/ body[l] = "effect"
    <2>1. TypeOK /\ pc[l] = "pick"
      BY DEF IndInv, PickJob
    <2>2. Goto(l, "done") /\ UNCHANGED <<todo, cur>>
      BY <1>1 DEF PickJob
    <2>3. pc'[l] = "done" /\ \A m \in Lanes \ {l} : pc'[m] = pc[m]
      BY <2>1, <2>2, Moved
    <2>4. WordsKept /\ last' = last
      BY <2>2 DEF PickJob, SharedQuiet, Quiet, shared, words, WordsKept
    <2>5. OthersKept(l)
      BY <2>1, <2>3 DEF PickJob, ForgetLocals, OthersKept, TypeOK, TypeSeen
    <2>6. LastBelow' /\ last' < toIssue
      BY <2>1, <2>3, <2>4, <2>5, LastKept DEF BeforeStore
    <2>7. LaneLocals(l)'
      BY <2>3 DEF LaneLocals, Closing
    <2> QED
      BY <2>1, <2>3, <2>4, <2>5, <2>6, <2>7, QuietInv DEF BeforeStore, Closing
  <1>2. CASE ~(todo[l] = {} \/ body[l] = "effect")
    BY <1>2, StartJob
  <1> QED
    BY <1>1, <1>2

(* Every step of a lane keeps the invariant.                               *)
LEMMA LaneStepInv ==
  ASSUME IndInv, NEW l \in Lanes, LaneStep(l) \/ AdvCasSpurious(l)
  PROVE  IndInv'
  <1>1. TypeOK'
    BY TypeLane DEF IndInv
  <1>2. CASE AdvCas(l)
    BY <1>1, <1>2, AdvCasFails, AdvCasMoves
  <1>3. CASE WaitAnnounce(l) \/ WaitLoad(l) \/ WaitSleep(l)
    BY <1>1, <1>3, WaitInv
  <1>4. CASE AdvZeroFirst(l) \/ AdvZeroEnd(l)
    BY <1>1, <1>4, AdvZeroInv
  <1> QED
    BY <1>1, <1>2, <1>3, <1>4, PickJobInv, RunLeafInv, AcquirePlainInv,
       WaitFirstInv, WaitWithdrawInv, ReleaseInv, CompleteInv,
       AdvLoadActiveInv, AdvLoadFirstInv, AdvLoadEndInv, AdvLoadFrontierInv,
       AdvLoopInv, AdvScanInv, AdvCasFails, AdvNotifyInv, AdvFinalInv,
       AdvDeactivateInv, AdvPublishInv
       DEF LaneStep

-----------------------------------------------------------------------------
(* The root.                                                               *)

(* What a handed-out batch is: fresh tickets, each with one lane.          *)
LEMMA FreshJobs ==
  ASSUME IndInv, NEW n \in 1..MaxRange, NEW a \in [0..(n - 1) -> Lanes],
         HandOut(n, a)
  PROVE  /\ toIssue' = toIssue + n /\ n \in Nat /\ last' = last
         /\ \A m \in Lanes : pc'[m] \in {"idle", "pick"}
         /\ \A m \in Lanes : \A u \in Outstanding(m)' :
              /\ u \in Nat /\ toIssue <= u /\ u < toIssue'
              /\ a[u - toIssue] = m
  <1>1. toIssue' = toIssue + n /\ n \in Nat /\ last' = last /\ toIssue \in Nat
    BY BoundsAssumption DEF HandOut, IndInv, TypeOK, TypeWords
  <1>2. \A m \in Lanes : pc'[m] \in {"idle", "pick"}
    BY DEF HandOut
  <1>3. \A m \in Lanes : Outstanding(m)' = TicketsOf(a, m)
    BY <1>2 DEF HandOut, Outstanding, BeforeStore
  <1>4. ASSUME NEW m \in Lanes, NEW u \in TicketsOf(a, m)
        PROVE  /\ u \in Nat /\ toIssue <= u /\ u < toIssue'
               /\ a[u - toIssue] = m
    <2>1. PICK i \in {j \in DOMAIN a : a[j] = m} : u = toIssue + i
      BY DEF TicketsOf
    <2>2. i \in 0..(n - 1) /\ a[i] = m
      OBVIOUS
    <2>3. u - toIssue = i /\ u \in Nat /\ toIssue <= u /\ u < toIssue + n
      BY <1>1, <2>1, <2>2
    <2> QED
      BY <1>1, <2>2, <2>3
  <1> QED
    BY <1>1, <1>2, <1>3, <1>4

(* Fresh tickets respect the order of jobs and the history.                *)
LEMMA FreshOrder ==
  ASSUME IndInv, NEW n \in 1..MaxRange, NEW a \in [0..(n - 1) -> Lanes],
         HandOut(n, a), next' = next
  PROVE  JobOrder' /\ LastBelow' /\ NoAbort'
  <1>1. /\ toIssue' = toIssue + n /\ n \in Nat /\ last' = last
        /\ \A m \in Lanes : pc'[m] \in {"idle", "pick"}
        /\ \A m \in Lanes : \A u \in Outstanding(m)' :
             /\ u \in Nat /\ toIssue <= u /\ u < toIssue'
             /\ a[u - toIssue] = m
    BY FreshJobs
  <1>2. /\ next <= toIssue /\ last < toIssue /\ next \in Nat /\ last \in Nat
        /\ toIssue \in Nat
    BY DEF IndInv, PlainWords, TypeOK, TypeWords
  <1>3. JobOrder'
    <2>1. \A m \in Lanes : pc'[m] \notin BeforeStore
      BY <1>1 DEF BeforeStore
    <2>2. ASSUME NEW m \in Lanes, NEW u \in Outstanding(m)'
          PROVE  next' <= u /\ u < toIssue'
      BY <1>1, <1>2
    <2>3. ASSUME NEW k \in Lanes, NEW m \in Lanes, k # m
          PROVE  Outstanding(k)' \cap Outstanding(m)' = {}
      BY <1>1, <2>3
    <2> QED
      BY <2>1, <2>2, <2>3 DEF JobOrder
  <1>4. LastBelow'
    BY <1>1, <1>2 DEF LastBelow
  <1>5. NoAbort'
    BY <1>1 DEF NoAbort
  <1> QED
    BY <1>3, <1>4, <1>5

(* Opening a lane range keeps the invariant.                               *)
LEMMA SegmentStartInv ==
  ASSUME IndInv, TypeOK', NEW n \in 1..MaxRange,
         NEW a \in [0..(n - 1) -> Lanes], RunLaneOwnedSegments(n, a)
  PROVE  IndInv'
  <1> USE DEF RunLaneOwnedSegments
  <1>1. HandOut(n, a) /\ root' = "segment" /\ next' = next /\ next = toIssue
    OBVIOUS
  <1>2. /\ toIssue' = toIssue + n /\ n \in Nat /\ last' = last
        /\ \A m \in Lanes : pc'[m] \in {"idle", "pick"}
        /\ \A m \in Lanes : \A u \in Outstanding(m)' :
             /\ u \in Nat /\ toIssue <= u /\ u < toIssue'
             /\ a[u - toIssue] = m
    BY <1>1, FreshJobs
  <1>3. toIssue \in Nat /\ toIssue > 0 /\ last \in Nat
    BY DEF IndInv, TypeOK, TypeWords
  <1>4. size' = n /\ Base' = toIssue
    BY <1>2, <1>3 DEF Base
  <1>5. JobOrder' /\ LastBelow' /\ NoAbort'
    BY <1>1, FreshOrder
  <1>6. RangeWords'
    BY <1>1, <1>2, <1>3, <1>4 DEF RangeWords
  <1>7. PlainWords'
    BY <1>1, <1>2, <1>3 DEF IndInv, PlainWords
  <1>8. SegmentJobs'
    <2> SUFFICES ASSUME NEW m \in Lanes
                 PROVE  /\ pc'[m] \notin {"turn", "crit", "waitSub"}
                        /\ \A u \in Outstanding(m)' :
                             /\ u >= toIssue /\ a[u - toIssue] = m
                             /\ completed'[m] < u
      BY <1>4 DEF SegmentJobs
    <2>1. completed'[m] = 0
      OBVIOUS
    <2> QED
      BY <1>2, <1>3, <2>1
  <1>9. BatchJobs'
    BY DEF BatchJobs
  <1>10. FrontierSound'
    <2>1. frontier' = Base'
      BY <1>4
    <2>2. \A i \in 0..(size' - 1) : ~(Base' + i < frontier')
      BY <1>2, <1>3, <1>4, <2>1
    <2> QED
      BY <2>2 DEF FrontierSound
  <1>11. Locals' /\ OneCloser'
    BY <1>2 DEF Locals, LaneLocals, OneCloser, Closing
  <1> QED
    BY <1>5, <1>6, <1>7, <1>8, <1>9, <1>10, <1>11 DEF IndInv

(* Dispatching a plain batch keeps the invariant.                          *)
LEMMA BatchStartInv ==
  ASSUME IndInv, TypeOK', NEW n \in 1..MaxRange,
         NEW a \in [0..(n - 1) -> Lanes], RunReadyBatch(n, a)
  PROVE  IndInv'
  <1> USE DEF RunReadyBatch
  <1>1. HandOut(n, a) /\ root' = "batch" /\ next' = next /\ end' = end
    OBVIOUS
  <1>2. /\ toIssue' = toIssue + n /\ n \in Nat /\ last' = last
        /\ \A m \in Lanes : pc'[m] \in {"idle", "pick"}
        /\ \A m \in Lanes : \A u \in Outstanding(m)' :
             /\ u \in Nat /\ toIssue <= u /\ u < toIssue'
             /\ a[u - toIssue] = m
    BY <1>1, FreshJobs
  <1>3. /\ toIssue \in Nat /\ next \in Nat /\ end \in Nat /\ last \in Nat
        /\ next <= toIssue /\ end <= toIssue /\ last < toIssue
    BY DEF IndInv, TypeOK, TypeWords, PlainWords
  <1>4. JobOrder' /\ LastBelow' /\ NoAbort'
    BY <1>1, FreshOrder
  <1>5. PlainWords'
    BY <1>1, <1>2, <1>3 DEF PlainWords
  <1>6. BatchJobs'
    BY <1>1, <1>2, <1>3 DEF BatchJobs
  <1>7. RangeWords' /\ SegmentJobs' /\ FrontierSound' /\ Locals' /\ OneCloser'
    BY <1>1 DEF RangeWords, SegmentJobs, FrontierSound, Locals, OneCloser
  <1> QED
    BY <1>4, <1>5, <1>6, <1>7 DEF IndInv

(* While the root works alone only the plain words matter.                 *)
LEMMA RootAlone ==
  ASSUME TypeOK', root' \in {"idle", "control", "controlCrit"},
         \A m \in Lanes : pc'[m] = "idle" /\ todo'[m] = {},
         next' <= toIssue', end' <= toIssue', last' < toIssue',
         root' \in {"control", "controlCrit"} =>
           next' <= rootTicket' /\ end' <= rootTicket' /\ rootTicket' < toIssue',
         root' = "control" => last' < rootTicket',
         root' = "controlCrit" => next' = rootTicket'
  PROVE  IndInv'
  <1>1. \A m \in Lanes : Outstanding(m)' = {}
    BY DEF Outstanding, BeforeStore
  <1>2. NoAbort' /\ PlainWords'
    BY DEF NoAbort, PlainWords
  <1>3. JobOrder' /\ LastBelow'
    BY <1>1 DEF JobOrder, LastBelow, BeforeStore
  <1>4. RangeWords' /\ SegmentJobs' /\ BatchJobs' /\ FrontierSound' /\ Locals'
        /\ OneCloser'
    BY DEF RangeWords, SegmentJobs, BatchJobs, FrontierSound, Locals, OneCloser
  <1> QED
    BY <1>2, <1>3, <1>4 DEF IndInv

(* Every step of the root keeps the invariant.                             *)
LEMMA RootStepInv ==
  ASSUME IndInv, RootStart \/ RootFinish
  PROVE  IndInv'
  <1>1. TypeOK'
    BY TypeRoot DEF IndInv
  <1>2. /\ toIssue \in Nat /\ next \in Nat /\ end \in Nat /\ last \in Nat
        /\ rootTicket \in Nat
        /\ next <= toIssue /\ end <= toIssue /\ last < toIssue
    BY DEF IndInv, TypeOK, TypeWords, PlainWords
  <1>3. root \in {"idle", "control", "controlCrit"} =>
          \A m \in Lanes : pc[m] = "idle" /\ todo[m] = {}
    BY DEF IndInv, PlainWords
  <1>4. CASE DrainLanes
    <2>1. \A m \in Lanes : pc'[m] = "idle" /\ todo'[m] = {}
      BY <1>4 DEF DrainLanes
    <2> QED
      BY <1>1, <1>2, <1>4, <2>1, RootAlone DEF DrainLanes, shared, words
  <1>5. CASE ControlIssue
    BY <1>1, <1>2, <1>3, <1>5, RootAlone DEF ControlIssue, local
  <1>6. CASE ControlAcquire
    <2>1. next <= rootTicket /\ end <= rootTicket /\ rootTicket < toIssue
      BY <1>6 DEF ControlAcquire, IndInv, PlainWords
    <2> QED
      BY <1>1, <1>2, <1>3, <1>6, <2>1, RootAlone
         DEF ControlAcquire, local, shared, words
  <1>7. CASE ControlRelease
    <2>1. next = rootTicket /\ rootTicket < toIssue
      BY <1>7 DEF ControlRelease, IndInv, PlainWords
    <2>2. next' = next + 1
      BY <1>7, <2>1 DEF ControlRelease
    <2> QED
      BY <1>1, <1>2, <1>3, <1>7, <2>1, <2>2, RootAlone
         DEF ControlRelease, local
  <1>8. CASE \E n \in 1..MaxRange : \E a \in [0..(n - 1) -> Lanes] :
               RunLaneOwnedSegments(n, a) \/ RunReadyBatch(n, a)
    BY <1>1, <1>8, SegmentStartInv, BatchStartInv
  <1> QED
    BY <1>4, <1>5, <1>6, <1>7, <1>8 DEF RootStart, RootFinish

(* The invariant holds initially.                                          *)
LEMMA IndInit == Init => IndInv
  <1> SUFFICES ASSUME Init PROVE IndInv
    OBVIOUS
  <1>1. TypeOK
    BY TypeInit
  <1>2. \A m \in Lanes : Outstanding(m) = {}
    BY DEF Init, Outstanding, BeforeStore
  <1>3. NoAbort /\ PlainWords
    BY DEF Init, NoAbort, PlainWords
  <1>4. JobOrder /\ LastBelow
    BY <1>2 DEF Init, JobOrder, LastBelow, BeforeStore
  <1>5. RangeWords /\ SegmentJobs /\ BatchJobs /\ FrontierSound /\ Locals
        /\ OneCloser
    BY DEF Init, RangeWords, SegmentJobs, BatchJobs, FrontierSound, Locals,
           OneCloser
  <1> QED
    BY <1>1, <1>3, <1>4, <1>5 DEF IndInv

(* It survives stuttering.                                                 *)
LEMMA StutterInv ==
  ASSUME IndInv, UNCHANGED vars
  PROVE  IndInv'
  <1> USE DEF vars, shared, words, local, seen
  <1>1. TypeOK'
    BY DEF IndInv, TypeOK, TypeWords, TypeRange, TypeJobs, TypeSeen
  <1>2. \A m \in Lanes : Outstanding(m)' = Outstanding(m)
    BY JobsKept
  <1>3. Base' = Base
    BY DEF Base
  <1>4. NoAbort' /\ RangeWords' /\ PlainWords'
    BY <1>3 DEF IndInv, NoAbort, RangeWords, PlainWords
  <1>5. JobOrder' /\ SegmentJobs' /\ BatchJobs'
    BY <1>2, <1>3 DEF IndInv, JobOrder, SegmentJobs, BatchJobs
  <1>6. FrontierSound' /\ OneCloser' /\ LastBelow'
    BY <1>2, <1>3 DEF IndInv, FrontierSound, OneCloser, LastBelow
  <1>7. Locals'
    BY <1>3 DEF IndInv, Locals, LaneLocals, FirstRead, EndRead, Running,
                CompleteBefore
  <1> QED
    BY <1>1, <1>4, <1>5, <1>6, <1>7 DEF IndInv

-----------------------------------------------------------------------------
(* IndInv is inductive: whatever the lanes, the bodies and the bounds, the *)
(* words of the range, the jobs and the locals of AdvanceLaneCommit fit    *)
(* together in every reachable state.                                      *)
THEOREM Inductive == Spec => []IndInv
  <1>1. IndInv /\ [Next]_vars => IndInv'
    <2> SUFFICES ASSUME IndInv, [Next]_vars PROVE IndInv'
      OBVIOUS
    <2>1. CASE UNCHANGED vars
      BY <2>1, StutterInv
    <2>2. CASE Next
      BY <2>1, <2>2, RootStepInv, LaneStepInv DEF Next, Finished
    <2> QED
      BY <2>1, <2>2
  <1> QED
    BY IndInit, <1>1, PTL DEF Spec

(* No std::abort() branch of the commit path is ever taken.                *)
THEOREM NeverAborts == Spec => []NoAbort
  <1>1. IndInv => NoAbort
    BY DEF IndInv
  <1> QED
    BY Inductive, <1>1, PTL

(* Whoever is inside a scheduler effect holds the least incomplete ticket  *)
(* (EnsureCurrentCommit), for segments, plain batches and control scopes.  *)
THEOREM TurnRespected == Spec => []CommitTurn
  <1>1. IndInv => CommitTurn
    <2> SUFFICES ASSUME IndInv PROVE CommitTurn
      OBVIOUS
    <2>1. ASSUME NEW l \in Lanes, pc[l] = "crit"
          PROVE  \A m \in Lanes : \A u \in Outstanding(m) : cur[l] <= u
      <3>1. CASE root = "segment"
        BY <2>1, <3>1, FrontierTurn DEF IndInv, SegmentJobs
      <3>2. CASE root = "batch"
        <4>1. next = cur[l]
          BY <2>1, <3>2 DEF IndInv, BatchJobs
        <4> QED
          BY <4>1 DEF IndInv, JobOrder
      <3> QED
        BY <2>1, <3>1, <3>2, AtWork
    <2>2. root = "controlCrit" => \A m \in Lanes : Outstanding(m) = {}
      BY DEF IndInv, PlainWords, Outstanding, BeforeStore
    <2> QED
      BY <2>1, <2>2 DEF CommitTurn
  <1> QED
    BY Inductive, <1>1, PTL

(* Scheduler effects of two lanes never overlap.                           *)
THEOREM Exclusive == Spec => []SequencerExclusive
  <1>1. IndInv => SequencerExclusive
    <2> SUFFICES ASSUME IndInv, NEW l \in Lanes, NEW m \in Lanes,
                        pc[l] = "crit", pc[m] = "crit"
                 PROVE  l = m
      BY DEF SequencerExclusive
    <2>1. cur[l] \in Outstanding(l) /\ cur[m] \in Outstanding(m)
      BY Current DEF BeforeStore
    <2>2. cur[l] = cur[m]
      <3>1. CASE root = "segment"
        BY <3>1 DEF IndInv, SegmentJobs
      <3>2. CASE root = "batch"
        BY <3>2 DEF IndInv, BatchJobs
      <3> QED
        BY <3>1, <3>2, AtWork
    <2> QED
      BY <2>1, <2>2 DEF IndInv, JobOrder
  <1> QED
    BY Inductive, <1>1, PTL

(* A turn is only ever taken for a ticket later than the last one.         *)
LEMMA LaterTurn ==
  ASSUME IndInv, NEW l \in Lanes, pc[l] \in {"turn", "wait", "waitSub"}
  PROVE  last < cur[l]
  <1>1. cur[l] \in Outstanding(l)
    BY Current DEF BeforeStore
  <1>2. last <= cur[l] /\ last # cur[l]
    BY <1>1 DEF IndInv, LastBelow
  <1>3. last \in Nat /\ cur[l] \in Nat
    BY DEF IndInv, TypeOK, TypeWords, TypeJobs
  <1> QED
    BY <1>2, <1>3

(* Scheduler effects happen in increasing ticket order over the whole run, *)
(* across segments, plain batches and control scopes.                      *)
THEOREM OrderedCommits == Spec => CommitOrder
  <1>1. IndInv /\ [Next]_vars => [last' # last => last' > last]_vars
    <2> SUFFICES ASSUME IndInv, Next, last' # last PROVE last' > last
      OBVIOUS
    <2>1. last \in Nat
      BY DEF IndInv, TypeOK, TypeWords
    <2>2. CASE RootStart
      BY <2>2 DEF RootStart, ControlIssue, RunLaneOwnedSegments, RunReadyBatch,
                  HandOut
    <2>3. CASE RootFinish
      <3>1. ControlAcquire
        BY <2>3 DEF RootFinish, DrainLanes, ControlRelease
      <3>2. last < rootTicket /\ last' = rootTicket /\ rootTicket \in Nat
        BY <3>1 DEF ControlAcquire, IndInv, PlainWords, TypeOK, TypeWords
      <3> QED
        BY <2>1, <3>2
    <2>4. ASSUME NEW l \in Lanes, LaneStep(l) \/ AdvCasSpurious(l)
          PROVE  last' > last
      <3>1. AcquirePlain(l) \/ WaitFirst(l) \/ WaitWithdraw(l)
        BY <2>4 DEF LaneStep, PickJob, RunLeaf, WaitAnnounce, WaitLoad,
             WaitSleep, ReleaseQuantumCommit, CompleteLaneCommit,
             AdvLoadActive, AdvLoadFirst, AdvLoadEnd, AdvLoadFrontier, AdvLoop,
             AdvScan, AdvCas, AdvCasSpurious, AdvNotify, AdvFinal,
             AdvDeactivate, AdvPublish, AdvZeroFirst, AdvZeroEnd
      <3>2. last' = cur[l] /\ pc[l] \in {"turn", "wait", "waitSub"}
        BY <3>1 DEF AcquirePlain, WaitFirst, WaitWithdraw
      <3>3. cur[l] \in Nat
        BY DEF IndInv, TypeOK, TypeJobs
      <3> QED
        BY <2>1, <3>2, <3>3, LaterTurn
    <2>5. ~Finished
      BY DEF Finished, vars
    <2> QED
      BY <2>2, <2>3, <2>4, <2>5 DEF Next
  <1> QED
    BY Inductive, <1>1, PTL DEF Spec, CommitOrder

(* Neither next_commit_ticket nor the frontier of a live range moves back. *)
THEOREM TurnNeverBack == Spec => TurnMonotone
  <1> DEFINE Forward == next' >= next /\ (active /\ active' => frontier' >= frontier)
  <1>1. IndInv /\ [Next]_vars => [Forward]_vars
    <2> SUFFICES ASSUME IndInv, Next PROVE Forward
      OBVIOUS
    <2>1. next \in Nat /\ frontier \in Nat
      BY DEF IndInv, TypeOK, TypeWords
    <2>2. CASE RootStart
      BY <2>1, <2>2 DEF RootStart, ControlIssue, RunLaneOwnedSegments,
                        RunReadyBatch
    <2>3. CASE RootFinish
      BY <2>1, <2>3 DEF RootFinish, DrainLanes, ControlAcquire,
                        ControlRelease, shared, words
    <2>4. CASE Finished
      BY <2>1, <2>4 DEF Finished, vars, shared, words
    <2>5. ASSUME NEW l \in Lanes, AdvCas(l) PROVE Forward
      <3>1. pc[l] = "advCas" /\ next' = next
        BY <2>5 DEF AdvCas
      <3>2. seenFrontier[l] <= cand[l] /\ cand[l] \in Nat
        BY <3>1, Scanning
      <3> QED
        BY <2>1, <2>5, <3>1, <3>2 DEF AdvCas
    <2>6. ASSUME NEW l \in Lanes, AdvPublish(l) PROVE Forward
      <3>1. pc[l] = "advPublish" /\ root = "segment" /\ frontier' = frontier
        BY <2>6, InSegment DEF AdvPublish
      <3>2. seenEnd[l] = toIssue
        BY <3>1 DEF IndInv, Locals, LaneLocals, Running
      <3>3. next' \in {next, toIssue}
        BY <2>6, <3>2 DEF AdvPublish
      <3>4. next <= toIssue /\ toIssue \in Nat
        BY DEF IndInv, PlainWords, TypeOK, TypeWords
      <3> QED
        BY <2>1, <3>1, <3>3, <3>4
    <2>7. ASSUME NEW l \in Lanes, ReleaseQuantumCommit(l) PROVE Forward
      <3>1. next' \in {next, next + 1} /\ frontier' = frontier
        BY <2>7 DEF ReleaseQuantumCommit
      <3> QED
        BY <2>1, <3>1
    <2>8. ASSUME NEW l \in Lanes, LaneStep(l) \/ AdvCasSpurious(l),
                 ~AdvCas(l), ~AdvPublish(l), ~ReleaseQuantumCommit(l)
          PROVE  next' = next /\ frontier' = frontier
      BY <2>8 DEF LaneStep, PickJob, RunLeaf, AcquirePlain, WaitFirst,
           WaitAnnounce, WaitLoad, WaitSleep, WaitWithdraw,
           CompleteLaneCommit, AdvLoadActive, AdvLoadFirst, AdvLoadEnd,
           AdvLoadFrontier, AdvLoop, AdvScan, AdvCasSpurious, AdvNotify,
           AdvFinal, AdvDeactivate, AdvZeroFirst, AdvZeroEnd, SharedQuiet,
           shared, words
    <2> QED
      BY <2>1, <2>2, <2>3, <2>4, <2>5, <2>6, <2>7, <2>8 DEF Next
  <1> QED
    BY Inductive, <1>1, PTL DEF Spec, TurnMonotone

-----------------------------------------------------------------------------
(* No completion is lost: whenever the ticket at the frontier is complete, *)
(* some lane inside AdvanceLaneCommit is still going to move the frontier. *)

(* Lane l will look at the frontier again, or is about to move it.         *)
Owing(l) ==
    \/ pc[l] \in {"advActive", "advFirst", "advEnd", "advFrontier", "advLoop",
                  "advScan", "advNotify"}
    \/ pc[l] = "advCas" /\ cand[l] # seenFrontier[l]

(* There is a ticket at the frontier, and it is complete.                  *)
FrontierOpen ==
    frontier < toIssue /\ completed[commitLanes[frontier - Base]] >= frontier

AdvanceOwed ==
    root = "segment" /\ FrontierOpen => \E l \in Lanes : Owing(l)

(* A lane step other than a completion store and a successful exchange     *)
(* changes neither the frontier nor what is complete, nor another lane     *)
(* that owes an advance.                                                   *)
LEMMA OthersOwe ==
  ASSUME IndInv, NEW l \in Lanes, LaneStep(l) \/ AdvCasSpurious(l),
         ~CompleteLaneCommit(l),
         ~(AdvCas(l) /\ cand[l] # seenFrontier[l] /\ frontier = seenFrontier[l])
  PROVE  /\ UNCHANGED <<frontier, completed, toIssue, size, commitLanes>>
         /\ \A m \in Lanes \ {l} : Owing(m) => Owing(m)'
  <1>1. UNCHANGED <<frontier, completed, toIssue, size, commitLanes>>
    BY DEF LaneStep, PickJob, RunLeaf, AcquirePlain, WaitFirst, WaitAnnounce,
       WaitLoad, WaitSleep, WaitWithdraw, ReleaseQuantumCommit, AdvLoadActive,
       AdvLoadFirst, AdvLoadEnd, AdvLoadFrontier, AdvLoop, AdvScan, AdvCas,
       AdvCasSpurious, AdvNotify, AdvFinal, AdvDeactivate, AdvPublish,
       AdvZeroFirst, AdvZeroEnd, SharedQuiet, shared, words
  <1>2. TypeOK
    BY DEF IndInv
  <1>3. ASSUME NEW m \in Lanes \ {l}
        PROVE  /\ cand'[m] = cand[m] /\ seenFrontier'[m] = seenFrontier[m]
               /\ pc'[m] = pc[m] \/ pc[m] = "asleep"
    <2>1. CASE AdvNotify(l)
      BY <2>1 DEF AdvNotify, seen
    <2>2. CASE PickJob(l)
      BY <1>2, <2>2 DEF PickJob, Goto, ForgetLocals, TypeOK, TypeJobs, TypeSeen
    <2>3. CASE RunLeaf(l) \/ AcquirePlain(l) \/ WaitFirst(l) \/ WaitAnnounce(l)
               \/ WaitSleep(l) \/ WaitWithdraw(l) \/ AdvLoadActive(l)
               \/ AdvCasSpurious(l) \/ AdvFinal(l) \/ AdvDeactivate(l)
               \/ AdvZeroFirst(l) \/ AdvZeroEnd(l)
      BY <1>2, <2>3 DEF RunLeaf, AcquirePlain, WaitFirst, WaitAnnounce,
         WaitSleep, WaitWithdraw, AdvLoadActive, AdvCasSpurious, AdvFinal,
         AdvDeactivate, AdvZeroFirst, AdvZeroEnd, Goto, seen, TypeOK, TypeJobs
    <2>4. CASE WaitLoad(l) \/ AdvLoadFirst(l) \/ AdvLoadEnd(l)
               \/ AdvLoadFrontier(l) \/ AdvLoop(l)
      BY <1>2, <2>4 DEF WaitLoad, AdvLoadFirst, AdvLoadEnd, AdvLoadFrontier,
         AdvLoop, Goto, TypeOK, TypeJobs, TypeSeen
    <2>5. CASE ReleaseQuantumCommit(l) \/ AdvPublish(l)
      BY <1>2, <2>5 DEF ReleaseQuantumCommit, AdvPublish, Goto, seen, TypeOK,
         TypeJobs
    <2>6. CASE AdvScan(l)
      BY <1>2, <2>6 DEF AdvScan, Goto, TypeOK, TypeJobs, TypeSeen
    <2>7. CASE AdvCas(l)
      BY <1>2, <2>7 DEF AdvCas, Goto, TypeOK, TypeJobs, TypeSeen
    <2> QED
      BY <2>1, <2>2, <2>3, <2>4, <2>5, <2>6, <2>7 DEF LaneStep
  <1> QED
    BY <1>1, <1>3 DEF Owing

(* A lane that owes an advance gives it up only when the ticket at the     *)
(* frontier is not complete.                                               *)
LEMMA StillOwes ==
  ASSUME IndInv, NEW l \in Lanes, LaneStep(l) \/ AdvCasSpurious(l),
         root = "segment", FrontierOpen, Owing(l)
  PROVE  Owing(l)'
  <1>1. TypeOK
    BY DEF IndInv
  <1>2. active
    BY RangeNumbers DEF FrontierOpen
  <1>3. CASE AdvLoadActive(l)
    BY <1>1, <1>2, <1>3, Moved DEF AdvLoadActive, Owing
  <1>4. CASE AdvLoadFirst(l) \/ AdvLoadEnd(l) \/ AdvLoadFrontier(l)
    BY <1>1, <1>4, Moved DEF AdvLoadFirst, AdvLoadEnd, AdvLoadFrontier, Owing
  <1>5. CASE AdvLoop(l)
    <2>1. pc[l] = "advLoop" /\ seenFrontier[l] \in Nat /\ seenEnd[l] \in Nat
      BY <1>1, <1>5 DEF AdvLoop, TypeOK, TypeSeen
    <2>2. seenFrontier[l] \in Base..frontier /\ EndRead(l)
      BY <2>1 DEF IndInv, Locals, LaneLocals
    <2>3. seenFrontier[l] < seenEnd[l]
      BY <1>2, <2>1, <2>2, RangeNumbers DEF EndRead, FrontierOpen
    <2>4. Goto(l, "advScan")
      BY <1>5, <2>3 DEF AdvLoop
    <2> QED
      BY <1>1, <2>4, Moved DEF Owing
  <1>6. CASE AdvScan(l)
    <2>1. pc[l] = "advScan"
      BY <1>6 DEF AdvScan
    <2>2. /\ root = "segment" /\ Running(l)
          /\ seenFrontier[l] \in Nat /\ cand[l] \in Nat
          /\ Base <= seenFrontier[l] /\ seenFrontier[l] <= frontier
          /\ seenFrontier[l] < toIssue
          /\ seenFrontier[l] <= cand[l] /\ cand[l] <= toIssue
      BY <2>1, Scanning
    <2>3. CASE cand[l] = seenFrontier[l]
      <3>1. (cand[l] - Base) \in 0..(size - 1) /\ cand[l] - Base < size
            /\ Base + (cand[l] - Base) = cand[l]
        BY <2>2, <2>3, RangeNumbers
      <3>2. completed[commitLanes[cand[l] - Base]] \in Nat
        BY <1>1, <3>1 DEF TypeOK, TypeRange
      <3>3. completed[commitLanes[cand[l] - Base]] >= cand[l]
        <4>1. CASE cand[l] < frontier
          BY <2>2, <3>1, <4>1 DEF IndInv, FrontierSound
        <4>2. CASE cand[l] = frontier
          BY <4>2 DEF FrontierOpen
        <4> QED
          BY <2>2, <2>3, <4>1, <4>2, RangeNumbers
      <3>4. ~(cand[l] >= seenEnd[l]) /\ ~(cand[l] - seenFirst[l] >= size)
            /\ ~(completed[commitLanes[cand[l] - seenFirst[l]]] < cand[l])
        BY <2>2, <2>3, <3>1, <3>2, <3>3, RangeNumbers DEF Running
      <3>5. pc' = pc
        BY <1>6, <3>4 DEF AdvScan
      <3> QED
        BY <2>1, <3>5 DEF Owing
    <2>4. CASE cand[l] # seenFrontier[l]
      <3>1. CASE pc' = pc
        BY <2>1, <3>1 DEF Owing
      <3>2. CASE pc' # pc
        <4>1. cand[l] - seenFirst[l] < size \/ cand[l] >= seenEnd[l]
          BY <2>2, RangeNumbers DEF Running
        <4>2. Goto(l, "advCas") /\ cand' = cand /\ seenFrontier' = seenFrontier
          BY <1>6, <2>2, <3>2, <4>1, RangeNumbers DEF AdvScan, Running
        <4> QED
          BY <1>1, <2>4, <4>2, Moved DEF Owing
      <3> QED
        BY <3>1, <3>2
    <2> QED
      BY <2>3, <2>4
  <1>7. CASE AdvCas(l)
    <2>1. cand[l] # seenFrontier[l]
      BY <1>7 DEF AdvCas, Owing
    <2>2. Goto(l, "advNotify") \/ Goto(l, "advLoop")
      BY <1>7, <2>1 DEF AdvCas
    <2> QED
      BY <1>1, <2>2, Moved DEF Owing
  <1>8. CASE AdvCasSpurious(l)
    BY <1>1, <1>8, Moved DEF AdvCasSpurious, Owing
  <1>9. CASE AdvNotify(l)
    BY <1>9 DEF AdvNotify, Owing
  <1>10. AdvLoadActive(l) \/ AdvLoadFirst(l) \/ AdvLoadEnd(l)
         \/ AdvLoadFrontier(l) \/ AdvLoop(l) \/ AdvScan(l) \/ AdvCas(l)
         \/ AdvCasSpurious(l) \/ AdvNotify(l)
    BY DEF Owing, LaneStep, PickJob, RunLeaf, AcquirePlain, WaitFirst,
       WaitAnnounce, WaitLoad, WaitSleep, WaitWithdraw, ReleaseQuantumCommit,
       CompleteLaneCommit, AdvFinal, AdvDeactivate, AdvPublish, AdvZeroFirst,
       AdvZeroEnd
  <1> QED
    BY <1>3, <1>4, <1>5, <1>6, <1>7, <1>8, <1>9, <1>10

(* Every step keeps AdvanceOwed.                                           *)
LEMMA OwedStep ==
  ASSUME IndInv, IndInv', AdvanceOwed, Next
  PROVE  AdvanceOwed'
  <1> SUFFICES ASSUME root' = "segment", FrontierOpen'
               PROVE  \E m \in Lanes : Owing(m)'
    BY DEF AdvanceOwed
  <1>1. CASE Finished
    <2>1. UNCHANGED <<root, frontier, toIssue, size, completed, commitLanes,
                      pc, cand, seenFrontier>>
      BY <1>1 DEF Finished, vars, shared, words, local, seen
    <2>2. root = "segment" /\ FrontierOpen
      BY <2>1 DEF FrontierOpen, Base
    <2> QED
      BY <2>1, <2>2 DEF AdvanceOwed, Owing
  <1>2. ~(RootFinish \/ ControlIssue)
    BY DEF RootFinish, DrainLanes, ControlAcquire, ControlRelease, ControlIssue
  <1>3. ASSUME NEW n \in 1..MaxRange, NEW a \in [0..(n - 1) -> Lanes],
               RunLaneOwnedSegments(n, a) \/ RunReadyBatch(n, a)
        PROVE  FALSE
    <2>1. RunLaneOwnedSegments(n, a)
      BY <1>3 DEF RunReadyBatch
    <2>2. /\ toIssue \in Nat /\ toIssue > 0 /\ n \in Nat /\ n > 0
          /\ toIssue' = toIssue + n
      BY <2>1, BoundsAssumption
         DEF IndInv, TypeOK, TypeWords, RunLaneOwnedSegments, HandOut
    <2>3. frontier' = toIssue /\ Base' = toIssue /\ commitLanes' = a
      BY <2>1, <2>2 DEF RunLaneOwnedSegments, Base
    <2>4. a[0] \in Lanes /\ frontier' - Base' = 0
      BY <2>2, <2>3
    <2>5. completed'[a[0]] = 0
      BY <2>1, <2>4 DEF RunLaneOwnedSegments
    <2> QED
      BY <2>2, <2>3, <2>4, <2>5 DEF FrontierOpen
  <1>4. ASSUME NEW l \in Lanes, LaneStep(l) \/ AdvCasSpurious(l)
        PROVE  \E m \in Lanes : Owing(m)'
    <2>1. TypeOK
      BY DEF IndInv
    <2>2. CASE CompleteLaneCommit(l)
      <3>1. Goto(l, "advActive") \/ Goto(l, "abort")
        BY <2>2 DEF CompleteLaneCommit
      <3>2. pc'[l] = "advActive"
        BY <2>1, <3>1, Moved DEF IndInv, NoAbort
      <3> QED
        BY <3>2 DEF Owing
    <2>3. CASE AdvCas(l) /\ cand[l] # seenFrontier[l]
               /\ frontier = seenFrontier[l]
      <3>1. Goto(l, "advNotify")
        BY <2>3 DEF AdvCas
      <3> QED
        BY <2>1, <3>1, Moved DEF Owing
    <2>4. CASE ~CompleteLaneCommit(l)
               /\ ~(AdvCas(l) /\ cand[l] # seenFrontier[l]
                    /\ frontier = seenFrontier[l])
      <3>1. /\ UNCHANGED <<frontier, completed, toIssue, size, commitLanes>>
            /\ \A m \in Lanes \ {l} : Owing(m) => Owing(m)'
        BY <1>4, <2>4, OthersOwe
      <3>2. root = "segment"
        <4>1. root' = root
          BY <1>4 DEF LaneStep, PickJob, RunLeaf, AcquirePlain, WaitFirst,
             WaitAnnounce, WaitLoad, WaitSleep, WaitWithdraw,
             ReleaseQuantumCommit, CompleteLaneCommit, AdvLoadActive,
             AdvLoadFirst, AdvLoadEnd, AdvLoadFrontier, AdvLoop, AdvScan,
             AdvCas, AdvCasSpurious, AdvNotify, AdvFinal, AdvDeactivate,
             AdvPublish, AdvZeroFirst, AdvZeroEnd, SharedQuiet, Quiet
        <4> QED
          BY <4>1
      <3>3. FrontierOpen
        BY <3>1 DEF FrontierOpen, Base
      <3>4. PICK m \in Lanes : Owing(m)
        BY <3>2, <3>3 DEF AdvanceOwed
      <3> QED
        BY <1>4, <3>1, <3>2, <3>3, <3>4, StillOwes
    <2> QED
      BY <2>2, <2>3, <2>4
  <1> QED
    BY <1>1, <1>2, <1>3, <1>4 DEF Next, RootStart

(* Once no lane is inside AdvanceLaneCommit the frontier has caught up:    *)
(* two completing lanes never each leave the advance to the other.         *)
THEOREM CaughtUp == Spec => []FrontierCaughtUp
  <1>1. Init => AdvanceOwed
    BY DEF Init, AdvanceOwed
  <1>2. IndInv /\ IndInv' /\ AdvanceOwed /\ [Next]_vars => AdvanceOwed'
    <2> SUFFICES ASSUME IndInv, IndInv', AdvanceOwed, UNCHANGED vars
                 PROVE  AdvanceOwed'
      BY OwedStep
    <2> QED
      BY DEF AdvanceOwed, FrontierOpen, Base, Owing, vars, shared, words,
             local, seen
  <1>3. IndInv /\ AdvanceOwed => FrontierCaughtUp
    <2> SUFFICES ASSUME IndInv, AdvanceOwed, root = "segment",
                        \A l \in Lanes : pc[l] \notin Advancing,
                        frontier # toIssue
                 PROVE  completed[commitLanes[frontier - Base]] < frontier
      BY DEF FrontierCaughtUp
    <2>1. ~FrontierOpen
      BY DEF AdvanceOwed, Owing, Advancing
    <2>2. frontier < toIssue /\ (frontier - Base) \in 0..(size - 1)
          /\ frontier \in Nat
      BY RangeNumbers
    <2>3. completed[commitLanes[frontier - Base]] \in Nat
      BY <2>2 DEF IndInv, TypeOK, TypeRange
    <2> QED
      BY <2>1, <2>2, <2>3 DEF FrontierOpen
  <1> QED
    BY Inductive, <1>1, <1>2, <1>3, PTL DEF Spec
=============================================================================
