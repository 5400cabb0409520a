--------------------------- MODULE WorkerLoopProofs ---------------------------
(***************************************************************************)
(* The worker loop runs the callback worker of CallbackDelivery: whatever  *)
(* is proved of that holds of the loop, for any number of workers, jobs    *)
(* and failures.                                                           *)
(***************************************************************************)
EXTENDS WorkerLoop, CallbackDeliveryProofs

USE LoopAssumption

\* An iteration does to the callbacks what a step of the callback worker does,
\* or nothing.
LEMMA IterationStep ==
    ASSUME NEW w \in Workers, run_once(w) \/ run_once_fails(w)
    PROVE  [Next]_vars
<1>1. CASE Serve(w)
  BY <1>1 DEF Serve, Next
<1>2. CASE PopCallback(w) \/ PopCallbackFails(w)
  BY <1>2 DEF PopCallback, PopCallbackFails, Next, WorkerStep, WorkerFails
<1>3. CASE Deliveries(w) \/ DeliveryFails(w)
  BY <1>3 DEF Deliveries, DeliveryFails, Next
<1>4. CASE ServeFails(w)
  BY <1>4 DEF ServeFails, Next
<1>5. CASE PopAhead(w) \/ PassList(w) \/ Fail(w) \/ FindNothing(w)
           \/ PopAheadFails(w) \/ CrashAhead(w)
  BY <1>5 DEF PopAhead, PassList, Fail, FindNothing, PopAheadFails, CrashAhead
<1> QED
  BY <1>1, <1>2, <1>3, <1>4, <1>5 DEF run_once, run_once_fails

\* So does every step of the loop.
LEMMA LoopStep == [LoopNext]_loopVars => [Next]_vars
<1> SUFFICES ASSUME [LoopNext]_loopVars PROVE [Next]_vars
  OBVIOUS
<1>1. CASE UNCHANGED loopVars
  BY <1>1 DEF loopVars
<1>2. ASSUME NEW r \in Refs, Arrive(r) \/ Waiting(r) \/ Expiry(r) PROVE [Next]_vars
  BY <1>2 DEF Arrive, Waiting, Expiry, Next
<1> QED
  BY <1>1, <1>2, IterationStep DEF LoopNext

\* The loop implements the callback worker on its own: jobs/mod.rs run_once adds
\* an order to when callbacks are pushed and popped, and nothing else.
THEOREM LoopImplementsDelivery == LoopSpec => Spec
<1>1. LoopInit => Init
  BY DEF LoopInit
<1> QED
  BY <1>1, LoopStep, PTL DEF LoopSpec, Spec

\* In the loop, too, no two workers post one reference at the same time.
THEOREM LoopHasOneSender == LoopSpec => []OneSender
  BY LoopImplementsDelivery, NeverTwoSenders, PTL

\* In the loop, too, nothing posts a reference that the toko has confirmed.
THEOREM LoopPostsNoneAfterDelivery == LoopSpec => NoPostAfterDelivery
  BY LoopImplementsDelivery, NeverPostedAfterDelivery, PTL

\* In the loop, too, every callback produced ends in a known way.
THEOREM LoopDropsNoneSilently == LoopSpec => []NoSilentDrop
  BY LoopImplementsDelivery, NeverSilentlyDropped, PTL

\* In the loop, too, nothing is given up before its twelve requests ...
THEOREM LoopGivesUpNoneEarly == LoopSpec => []GaveUpAfterAllPosts
  BY LoopImplementsDelivery, NeverGivenUpEarly, PTL

\* ... and no job makes more than twelve.
THEOREM LoopKeepsBudget == LoopSpec => []PostsBounded
  BY LoopImplementsDelivery, PostsNeverExceedBudget, PTL

-----------------------------------------------------------------------------
(* Types of the loop.                                                      *)

LoopTypes ==
    /\ lists \in [1..2 -> Seq(Refs)]
    /\ hand \in [Workers -> Refs \cup {NoJob}]
    /\ look \in [Workers -> 1..3]
    /\ mishaps \in 0..MaxMishaps
    /\ dropped \subseteq Refs

\* A list with one job more, or without its first, is a list.
LEMMA ListUpdates ==
    ASSUME NEW f \in [1..2 -> Seq(Refs)], NEW l \in 1..2, NEW r \in Refs
    PROVE  /\ [f EXCEPT ![l] = Append(@, r)] \in [1..2 -> Seq(Refs)]
           /\ f[l] # <<>> => /\ Head(f[l]) \in Refs
                             /\ [f EXCEPT ![l] = Tail(@)] \in [1..2 -> Seq(Refs)]
<1>1. f[l] \in Seq(Refs)
  OBVIOUS
<1>2. Append(f[l], r) \in Seq(Refs)
  BY <1>1
<1>3. ASSUME f[l] # <<>> PROVE Head(f[l]) \in Refs /\ Tail(f[l]) \in Seq(Refs)
  BY <1>1, <1>3
<1> QED
  BY <1>2, <1>3

\* A job that goes back goes to a list.
LEMMA ReturnType ==
    ASSUME LoopTypes, NEW w \in Workers, hand[w] \in Refs, Return(w, ListOf[hand[w]])
    PROVE  lists' \in [1..2 -> Seq(Refs)]
<1>1. ListOf[hand[w]] \in 1..2
  OBVIOUS
<1> QED
  BY <1>1, ListUpdates DEF LoopTypes, Return

\* An iteration keeps the types of the loop's own variables.
LEMMA IterationTypes ==
    ASSUME LoopTypes, NEW w \in Workers, run_once(w) \/ run_once_fails(w)
    PROVE  LoopTypes'
<1>m. ASSUME NEW kind, Mishap(kind) PROVE mishaps' \in 0..MaxMishaps
  BY <1>m DEF Mishap, LoopTypes
<1>d. Drop(w) => hand' \in [Workers -> Refs \cup {NoJob}]
  BY DEF Drop, LoopTypes
<1>n. look[w] \in 1..2 /\ NextList(w) => look' \in [Workers -> 1..3]
  BY DEF NextList, LoopTypes
<1>l. look[w] \in 1..2 /\ lists[look[w]] # <<>> =>
          /\ Head(lists[look[w]]) \in Refs
          /\ [lists EXCEPT ![look[w]] = Tail(@)] \in [1..2 -> Seq(Refs)]
  <2> SUFFICES ASSUME look[w] \in 1..2, lists[look[w]] # <<>>
               PROVE  /\ Head(lists[look[w]]) \in Refs
                      /\ [lists EXCEPT ![look[w]] = Tail(@)] \in [1..2 -> Seq(Refs)]
    OBVIOUS
  <2>1. lists[look[w]] \in Seq(Refs)
    BY DEF LoopTypes
  <2>2. Head(lists[look[w]]) \in Refs /\ Tail(lists[look[w]]) \in Seq(Refs)
    BY <2>1
  <2> QED
    BY <2>2 DEF LoopTypes
<1>1. CASE PopAhead(w)
  BY <1>1, <1>l DEF PopAhead, LoopTypes
<1>2. CASE PassList(w)
  BY <1>2, <1>n DEF PassList, LoopTypes
<1>3. CASE Serve(w)
  BY <1>3, <1>d DEF Serve, LoopTypes
<1>4. CASE Fail(w)
  <2>1. hand[w] \in Refs
    BY <1>4 DEF Fail
  <2> QED
    BY <1>4, <1>d, <2>1, ReturnType DEF Fail, LoopTypes
<1>5. CASE PopCallback(w) \/ FindNothing(w) \/ PopCallbackFails(w)
  BY <1>5 DEF PopCallback, FindNothing, PopCallbackFails, LoopTypes
<1>6. CASE Deliveries(w) \/ DeliveryFails(w)
  BY <1>6 DEF Deliveries, DeliveryFails, loop, LoopTypes
<1>7. CASE PopAheadFails(w)
  <2>1. lists' \in [1..2 -> Seq(Refs)] /\ dropped' \subseteq Refs
    BY <1>7, <1>l DEF PopAheadFails, LoopTypes
  <2> QED
    BY <1>7, <1>n, <1>m, <2>1 DEF PopAheadFails, LoopTypes
<1>8. CASE ServeFails(w)
  <2>1. lists' \in [1..2 -> Seq(Refs)]
    BY <1>8, ReturnType DEF ServeFails, LoopTypes
  <2>2. dropped' \subseteq Refs
    BY <1>8 DEF ServeFails, LoopTypes
  <2> QED
    BY <1>8, <1>d, <1>m, <2>1, <2>2 DEF ServeFails, LoopTypes
<1>9. CASE CrashAhead(w)
  BY <1>9, <1>d, <1>m DEF CrashAhead, LoopTypes
<1> QED
  BY <1>1, <1>2, <1>3, <1>4, <1>5, <1>6, <1>7, <1>8, <1>9 DEF run_once, run_once_fails

\* The first two lists, the workers' jobs and places in the loop are as jobs/mod.rs
\* and main.rs have them, next to the types of the callback worker.
THEOREM LoopTypeCorrect == LoopSpec => []LoopTypeOK
<1>1. LoopInit => LoopTypes
  BY DEF LoopInit, LoopTypes
<1>2. LoopTypes /\ [LoopNext]_loopVars => LoopTypes'
  <2> SUFFICES ASSUME LoopTypes, [LoopNext]_loopVars PROVE LoopTypes'
    OBVIOUS
  <2>1. CASE UNCHANGED loopVars
    BY <2>1 DEF loopVars, loop, LoopTypes
  <2>2. ASSUME NEW r \in Refs, Arrive(r) PROVE LoopTypes'
    <3>1. ListOf[r] \in 1..2
      OBVIOUS
    <3> QED
      BY <2>2, <3>1, ListUpdates DEF Arrive, LoopTypes
  <2>3. ASSUME NEW r \in Refs, Waiting(r) \/ Expiry(r) PROVE LoopTypes'
    BY <2>3 DEF Waiting, Expiry, loop, LoopTypes
  <2> QED
    BY <2>1, <2>2, <2>3, IterationTypes DEF LoopNext
<1>3. LoopTypes /\ TypeOK <=> LoopTypeOK
  BY DEF LoopTypes, LoopTypeOK
<1> QED
  BY <1>1, <1>2, <1>3, LoopImplementsDelivery, TypeCorrect, PTL DEF LoopSpec
=============================================================================
