----------------------- MODULE CallbackDeliveryProofs -----------------------
(***************************************************************************)
(* Proofs about CallbackDelivery for every number of references, workers,  *)
(* jobs and failures.                                                      *)
(***************************************************************************)
EXTENDS CallbackDelivery, SumTheorems, TLAPS

USE CallbackAssumption DEF CallbackMaxAttempts, InlineSends

Busy == [pc : {"loaded", "requeue", "sending", "release", "retry"},
         job : Job, sends : 0..InlineSends]

\* What makes the types inductive: a worker about to send has sends left, and
\* a job about to be retried has attempts left.
PhaseInv ==
    \A w \in Workers :
        /\ At(w, "loaded") => worker[w].sends = 0
        /\ At(w, "sending") => worker[w].sends < InlineSends
        /\ At(w, "retry") => worker[w].job.attempt < CallbackMaxAttempts

TypeInv == TypeOK /\ PhaseInv

\* A worker that is not idle has a job in hand.
LEMMA BusyWorker ==
    ASSUME TypeOK, NEW w \in Workers, ~At(w, "idle")
    PROVE  worker[w] \in Busy /\ worker[w].job \in Job
  BY DEF TypeOK, At, Idle, Busy

\* Changing one worker keeps the types when the new state of that worker does.
LEMMA WorkerUpdate ==
    ASSUME TypeInv, NEW w \in Workers, NEW s \in {Idle} \cup Busy,
           worker' = [worker EXCEPT ![w] = s],
           s.pc = "loaded" => s.sends = 0,
           s.pc = "sending" => s.sends < InlineSends,
           s.pc = "retry" => s.job.attempt < CallbackMaxAttempts
    PROVE  worker' \in [Workers -> {Idle} \cup Busy] /\ PhaseInv'
  BY DEF TypeInv, TypeOK, PhaseInv, At, Busy

\* A worker that finishes its job keeps the types ...
LEMMA FinishType ==
    ASSUME TypeInv, NEW w \in Workers, Finish(w)
    PROVE  worker' \in [Workers -> {Idle} \cup Busy] /\ PhaseInv'
  BY WorkerUpdate DEF Finish, Idle

\* ... and so does one that moves on to its next phase.
LEMMA GotoType ==
    ASSUME TypeInv, NEW w \in Workers, ~At(w, "idle"),
           NEW pc \in {"requeue", "sending", "release", "retry"}, Goto(w, pc),
           pc = "sending" => worker[w].sends < InlineSends,
           pc = "retry" => worker[w].job.attempt < CallbackMaxAttempts
    PROVE  worker' \in [Workers -> {Idle} \cup Busy] /\ PhaseInv'
<1> DEFINE s == [worker[w] EXCEPT !.pc = pc]
<1>1. worker[w] \in Busy
  BY BusyWorker DEF TypeInv
<1>2. s \in Busy /\ s.pc = pc /\ s.sends = worker[w].sends /\ s.job = worker[w].job
  BY <1>1 DEF Busy
<1>3. worker' = [worker EXCEPT ![w] = s]
  BY DEF Goto
<1> QED
  BY <1>2, <1>3, WorkerUpdate

\* The history of how jobs ended keeps its type ...
LEMMA EndsType ==
    ASSUME TypeOK, NEW r \in Refs, NEW how \in {"delivered", "gave_up", "lost", "forgotten"},
           Ends(r, how)
    PROVE  fate' \in [Refs -> SUBSET {"delivered", "gave_up", "lost", "forgotten"}]
  BY DEF TypeOK, Ends

\* ... and so does the count of failures.
LEMMA FaultType ==
    ASSUME TypeOK, NEW kind, Fault(kind)
    PROVE  faults' \in Nat
  BY DEF TypeOK, Fault

\* Pushing a job back keeps the types, whether Redis fails or not.
LEMMA PushType ==
    ASSUME TypeInv, NEW w \in Workers, NEW j \in Job, Push(w, j)
    PROVE  TypeInv'
<1>1. worker' \in [Workers -> {Idle} \cup Busy] /\ PhaseInv'
  BY FinishType DEF Push
<1>2. TypeOK /\ queue \in Seq(Job) /\ faults \in Nat /\ j.ref \in Refs
  BY DEF TypeInv, TypeOK, Job
<1>3. queue' \in Seq(Job)
  BY <1>2 DEF Push
<1>4. faults' \in Nat
  BY <1>2, FaultType DEF Push
<1>5. fate' \in [Refs -> SUBSET {"delivered", "gave_up", "lost", "forgotten"}]
  BY <1>2, EndsType DEF Push, TypeOK
<1>6. UNCHANGED <<keys, pushed, posts, confirmed, orphaned>>
  BY DEF Push
<1> QED
  BY <1>1, <1>2, <1>3, <1>4, <1>5, <1>6 DEF TypeInv, TypeOK, Busy

\* The types and phases hold initially.
LEMMA TypeInit == Init => TypeInv
  BY DEF Init, TypeInv, TypeOK, PhaseInv, At, Idle, NewJob

\* A worker with another count of sends keeps its type.
LEMMA SendsField ==
    ASSUME NEW b \in Busy, NEW n \in 0..InlineSends, NEW pc \in {"sending", "release"}
    PROVE  [b EXCEPT !.sends = n, !.pc = pc] \in Busy
  BY DEF Busy

\* A job with another count of attempts that is not due yet is a job.
LEMMA AttemptField ==
    ASSUME NEW j \in Job, NEW n \in 1..CallbackMaxAttempts
    PROVE  [j EXCEPT !.attempt = n, !.due = FALSE] \in Job
  BY DEF Job

\* A retry of a job below the attempt limit is a job.
LEMMA OneMoreAttempt ==
    ASSUME NEW j \in Job, j.attempt < CallbackMaxAttempts
    PROVE  RetryJob(j) \in Job
<1>1. j.attempt + 1 \in 1..CallbackMaxAttempts
  BY DEF Job
<1> QED
  BY <1>1, AttemptField DEF RetryJob

\* Counting one more of a reference keeps the type of the counters.
LEMMA CountUp ==
    ASSUME NEW f \in [Refs -> Nat], NEW r \in Refs
    PROVE  [f EXCEPT ![r] = @ + 1] \in [Refs -> Nat]
<1>1. f[r] + 1 \in Nat
  OBVIOUS
<1> QED
  BY <1>1

\* A step inside the send loop counts one send and either stays or leaves.
LEMMA SendType ==
    ASSUME TypeInv, NEW w \in Workers, SendFails(w)
    PROVE  worker' \in [Workers -> {Idle} \cup Busy] /\ PhaseInv'
<1> DEFINE pc == IF worker[w].sends + 1 < InlineSends THEN "sending" ELSE "release"
           s == [worker[w] EXCEPT !.sends = @ + 1, !.pc = pc]
<1>1. worker[w] \in Busy /\ worker[w].sends < InlineSends
  BY BusyWorker DEF TypeInv, PhaseInv, SendFails, Posts, At
<1>2. s \in Busy
  <2>1. worker[w].sends + 1 \in 0..InlineSends
    BY <1>1 DEF Busy
  <2> QED
    BY <1>1, <2>1, SendsField
<1>3. s.pc \in {"sending", "release"} /\ (s.pc = "sending" => s.sends < InlineSends)
  BY <1>1 DEF Busy
<1>4. worker' = [worker EXCEPT ![w] = s]
  BY DEF SendFails
<1> QED
  BY <1>2, <1>3, <1>4, WorkerUpdate

\* After the key is released the job is given up, or has attempts left.
LEMMA ReleaseType ==
    ASSUME TypeInv, NEW w \in Workers, At(w, "release"), AfterRelease(w)
    PROVE  /\ worker' \in [Workers -> {Idle} \cup Busy] /\ PhaseInv'
           /\ fate' \in [Refs -> SUBSET {"delivered", "gave_up", "lost", "forgotten"}]
<1>1. worker[w].job \in Job /\ worker[w].job.ref \in Refs
  BY BusyWorker DEF TypeInv, At, Job
<1>2. CASE GivesUp(worker[w].job)
  BY <1>1, <1>2, FinishType, EndsType DEF AfterRelease, TypeInv
<1>3. CASE ~GivesUp(worker[w].job)
  <2>1. worker[w].job.attempt < CallbackMaxAttempts
    BY <1>1, <1>3 DEF GivesUp, Job
  <2> QED
    BY <2>1, <1>3, GotoType DEF AfterRelease, TypeInv, TypeOK, At
<1> QED
  BY <1>2, <1>3

\* A step outside the workers keeps the types.
LEMMA TypeOutside ==
    ASSUME TypeInv, NEW r \in Refs, Enqueue(r) \/ Elapse(r) \/ KeyExpires(r)
    PROVE  TypeInv'
<1> USE DEF TypeInv
<1>1. CASE Enqueue(r)
  <2>1. NewJob(r) \in Job
    BY DEF NewJob, Job
  <2> QED
    BY <1>1, <2>1 DEF Enqueue, TypeOK, PhaseInv, At, trace
<1>2. CASE Elapse(r)
  <2> DEFINE passed(j) == IF j.ref = r THEN [j EXCEPT !.due = TRUE] ELSE j
  <2>1. \A j \in Job : passed(j) \in Job
    BY DEF Job
  <2> HIDE DEF passed
  <2>2. queue' = [i \in DOMAIN queue |-> passed(queue[i])]
    BY <1>2 DEF Elapse, passed
  <2>3. queue \in Seq(Job) /\ Len(queue) \in Nat /\ DOMAIN queue = 1..Len(queue)
    BY DEF TypeOK
  <2>4. queue' \in Seq(Job)
    <3>1. \A i \in 1..Len(queue) : passed(queue[i]) \in Job
      BY <2>1, <2>3
    <3> QED
      BY <2>2, <2>3, <3>1
  <2>5. worker' = [w \in Workers |-> IF At(w, "loaded") THEN Loaded(passed(worker[w].job))
                                                         ELSE worker[w]]
    BY <1>2 DEF Elapse, passed
  <2>6. \A w \in Workers : At(w, "loaded") => Loaded(passed(worker[w].job)) \in Busy
    BY <2>1, BusyWorker DEF At, Loaded, Busy
  <2>7. worker' \in [Workers -> {Idle} \cup Busy]
    BY <2>5, <2>6 DEF TypeOK, Busy
  <2>8. PhaseInv'
    BY <2>5 DEF PhaseInv, At, Loaded
  <2> QED
    BY <1>2, <2>4, <2>7, <2>8 DEF Elapse, TypeOK, Busy, trace
<1>3. CASE KeyExpires(r)
  BY <1>3 DEF KeyExpires, TypeOK, PhaseInv, At
<1> QED
  BY <1>1, <1>2, <1>3

\* A step of a worker keeps the types.
LEMMA TypeWorker ==
    ASSUME TypeInv, NEW w \in Workers, WorkerStep(w) \/ WorkerFails(w)
    PROVE  TypeInv'
<1> DEFINE Fates == [Refs -> SUBSET {"delivered", "gave_up", "lost", "forgotten"}]
<1>0. TypeOK /\ PhaseInv /\ worker \in [Workers -> {Idle} \cup Busy]
  BY DEF TypeInv, TypeOK, Busy
<1>h. ASSUME queue # <<>>
      PROVE  Head(queue) \in Job /\ Tail(queue) \in Seq(Job) /\ Head(queue).ref \in Refs
  <2>1. queue \in Seq(Job) /\ Len(queue) \in Nat /\ Len(queue) # 0
    BY <1>0, <1>h DEF TypeOK
  <2>2. Head(queue) \in Job /\ Tail(queue) \in Seq(Job)
    BY <1>h, <2>1
  <2> QED
    BY <2>2 DEF Job
<1>j. ~At(w, "idle") => /\ worker[w] \in Busy /\ worker[w].job \in Job
                        /\ worker[w].job.ref \in Refs
  BY <1>0, BusyWorker DEF Job
<1>1. CASE Pop(w)
  <2>1. Loaded(Head(queue)) \in Busy
    BY <1>1, <1>h DEF Pop, Loaded, Busy
  <2>2. worker' \in [Workers -> {Idle} \cup Busy] /\ PhaseInv'
    BY <1>1, <2>1, WorkerUpdate DEF Pop, Loaded
  <2> QED
    BY <1>0, <1>1, <1>h, <2>2 DEF Pop, TypeInv, TypeOK, Busy, trace
<1>2. CASE Defer(w)
  BY <1>2, <1>j, PushType DEF Defer, At
<1>3. CASE AcquireLock(w)
  <2>1. worker' \in [Workers -> {Idle} \cup Busy] /\ PhaseInv'
      <3>1. At(w, "loaded") /\ ~At(w, "idle") /\ Goto(w, "sending")
      BY <1>3 DEF AcquireLock, At
    <3>2. worker[w].sends < InlineSends
      BY <1>0, <3>1 DEF PhaseInv
    <3> QED
      BY <3>1, <3>2, GotoType
  <2> QED
    BY <1>0, <1>3, <1>j, <2>1 DEF AcquireLock, At, TypeInv, TypeOK, Busy, trace
<1>4. CASE SkipDuplicate(w)
  <2>1. worker' \in [Workers -> {Idle} \cup Busy] /\ PhaseInv'
    BY <1>4, FinishType DEF SkipDuplicate
  <2>2. fate' \in Fates
    BY <1>0, <1>4, <1>j, EndsType DEF SkipDuplicate, At, TypeOK
  <2> QED
    BY <1>0, <1>4, <2>1, <2>2 DEF SkipDuplicate, TypeInv, TypeOK, Busy, redis
<1>5. CASE Requeue(w)
  BY <1>5, <1>j, PushType DEF Requeue, At
<1>6. CASE RejectRequest(w)
  <2>1. worker' \in [Workers -> {Idle} \cup Busy] /\ PhaseInv'
    BY <1>6, GotoType DEF RejectRequest, At
  <2> QED
    BY <1>0, <1>6, <2>1 DEF RejectRequest, TypeInv, TypeOK, Busy, redis, trace
<1>7. CASE Deliver(w)
  <2>1. worker' \in [Workers -> {Idle} \cup Busy] /\ PhaseInv'
    BY <1>7, FinishType DEF Deliver
  <2>2. fate' \in Fates
    BY <1>0, <1>7, <1>j, EndsType DEF Deliver, Posts, At
  <2>3. posts' \in [Refs -> Nat]
    <3>1. ~At(w, "idle") /\ posts' = [posts EXCEPT ![worker[w].job.ref] = @ + 1]
      BY <1>7 DEF Deliver, Posts, At
    <3> QED
      BY <1>0, <1>j, <3>1, CountUp DEF TypeOK
  <2>4. confirmed' \subseteq Refs
    BY <1>0, <1>7, <1>j DEF Deliver, Posts, At, TypeOK
  <2> QED
    BY <1>0, <1>7, <2>1, <2>2, <2>3, <2>4
       DEF Deliver, Posts, TypeInv, TypeOK, Busy, redis
<1>8. CASE SendFails(w)
  <2>1. worker' \in [Workers -> {Idle} \cup Busy] /\ PhaseInv'
    BY <1>8, SendType
  <2>2. posts' \in [Refs -> Nat]
    <3>1. ~At(w, "idle") /\ posts' = [posts EXCEPT ![worker[w].job.ref] = @ + 1]
      BY <1>8 DEF SendFails, Posts, At
    <3> QED
      BY <1>0, <1>j, <3>1, CountUp DEF TypeOK
  <2> QED
    BY <1>0, <1>8, <2>1, <2>2 DEF SendFails, Posts, TypeInv, TypeOK, Busy, redis
<1>9. CASE ReleaseLock(w)
  <2>1. worker' \in [Workers -> {Idle} \cup Busy] /\ PhaseInv' /\ fate' \in Fates
    BY <1>9, ReleaseType DEF ReleaseLock
  <2> QED
    BY <1>0, <1>9, <2>1 DEF ReleaseLock, AfterRelease, TypeInv, TypeOK, Busy
<1>10. CASE ScheduleRetry(w)
  <2>1. RetryJob(worker[w].job) \in Job
    <3>1. At(w, "retry") /\ ~At(w, "idle")
      BY <1>10 DEF ScheduleRetry, At
    <3>2. worker[w].job.attempt < CallbackMaxAttempts
      BY <1>0, <3>1 DEF PhaseInv
    <3> QED
      BY <3>1, <3>2, <1>j, OneMoreAttempt
  <2> QED
    BY <1>10, <2>1, PushType DEF ScheduleRetry
<1>11. CASE PopFails(w)
  <2>1. fate' \in Fates
    <3>1. CASE Ends(Head(queue).ref, "lost")
      BY <1>0, <1>11, <1>h, <3>1, EndsType DEF PopFails
    <3>2. CASE fate' = fate
      BY <1>0, <3>2 DEF TypeOK
    <3> QED
      BY <1>11, <3>1, <3>2 DEF PopFails
  <2>2. faults' \in Nat
    BY <1>0, <1>11, FaultType DEF PopFails
  <2> QED
    BY <1>0, <1>11, <1>h, <2>1, <2>2 DEF PopFails, TypeInv, TypeOK, PhaseInv, At
<1>12. CASE AcquireFails(w)
  <2>1. worker' \in [Workers -> {Idle} \cup Busy] /\ PhaseInv'
    BY <1>12, GotoType DEF AcquireFails, At
  <2>2. faults' \in Nat
    BY <1>0, <1>12, FaultType DEF AcquireFails
  <2> QED
    BY <1>0, <1>12, <1>j, <2>1, <2>2
       DEF AcquireFails, At, TypeInv, TypeOK, Busy, trace
<1>13. CASE ClientFails(w)
  <2>1. worker' \in [Workers -> {Idle} \cup Busy] /\ PhaseInv'
    BY <1>13, FinishType DEF ClientFails
  <2>2. fate' \in Fates /\ faults' \in Nat
    BY <1>0, <1>13, <1>j, EndsType, FaultType DEF ClientFails, At
  <2>3. orphaned' \subseteq Refs
    BY <1>0, <1>13, <1>j DEF ClientFails, LeavesKey, At, TypeOK
  <2> QED
    BY <1>0, <1>13, <2>1, <2>2, <2>3 DEF ClientFails, TypeInv, TypeOK, Busy
<1>14. CASE ReleaseFails(w)
  <2>1. worker' \in [Workers -> {Idle} \cup Busy] /\ PhaseInv' /\ fate' \in Fates
    BY <1>14, ReleaseType DEF ReleaseFails
  <2>2. faults' \in Nat
    BY <1>0, <1>14, FaultType DEF ReleaseFails
  <2>3. orphaned' \subseteq Refs
    BY <1>0, <1>14, <1>j DEF ReleaseFails, LeavesKey, At, TypeOK
  <2> QED
    BY <1>0, <1>14, <2>1, <2>2, <2>3
       DEF ReleaseFails, AfterRelease, TypeInv, TypeOK, Busy
<1>15. CASE WorkerCrash(w)
  <2>1. worker' \in [Workers -> {Idle} \cup Busy] /\ PhaseInv'
    BY <1>15, FinishType DEF WorkerCrash
  <2>2. fate' \in Fates /\ faults' \in Nat
    BY <1>0, <1>15, <1>j, EndsType, FaultType DEF WorkerCrash
  <2>3. orphaned' \subseteq Refs
    BY <1>0, <1>15, <1>j DEF WorkerCrash, LeavesKey, TypeOK
  <2> QED
    BY <1>0, <1>15, <2>1, <2>2, <2>3 DEF WorkerCrash, TypeInv, TypeOK, Busy, redis
<1> QED
  BY <1>1, <1>2, <1>3, <1>4, <1>5, <1>6, <1>7, <1>8, <1>9, <1>10, <1>11, <1>12,
     <1>13, <1>14, <1>15 DEF WorkerStep, WorkerFails

\* Every step keeps the types.
LEMMA TypeStep == TypeInv /\ [Next]_vars => TypeInv'
<1> SUFFICES ASSUME TypeInv, [Next]_vars PROVE TypeInv'
  OBVIOUS
<1>1. CASE UNCHANGED vars
  BY <1>1 DEF vars, TypeInv, TypeOK, PhaseInv, At
<1>2. CASE Next
  BY <1>2, TypeOutside, TypeWorker DEF Next
<1> QED
  BY <1>1, <1>2

\* The callback worker keeps its types: no phase sends more than three
\* requests, no queued job claims a fifth attempt.
THEOREM TypeCorrect == Spec => []TypeOK
<1>1. TypeInv => TypeOK
  BY DEF TypeInv
<1> QED
  BY <1>1, TypeInit, TypeStep, PTL DEF Spec

----------------------------------------------------------------------------
\* Why the lock works although a worker deletes the key without looking whose
\* it is: whoever is between the SET NX and the DEL has the key set, alone, and
\* a reference that was delivered has its key set with nobody in between.  A key
\* that is set for neither reason was left behind by a failure.
LockInv ==
    /\ \A w \in Workers, r \in Refs : Holds(w, r) => r \in keys
    /\ OneSender
    /\ confirmed \subseteq keys
    /\ \A w \in Workers, r \in confirmed : ~Holds(w, r)
    /\ \A r \in keys : r \in confirmed \cup orphaned \/ \E w \in Workers : Holds(w, r)

Inv == TypeInv /\ LockInv

\* The four things a worker's step may do to the lock.
Enters(w) ==
    /\ worker[w].job.ref \notin keys
    /\ keys' = keys \cup {worker[w].job.ref}
    /\ confirmed' = confirmed /\ orphaned' = orphaned
    /\ \A r \in Refs : Holds(w, r)' <=> r = worker[w].job.ref
    /\ \A r \in Refs : ~Holds(w, r)
Stays(w) ==
    /\ keys \subseteq keys'
    /\ confirmed' = confirmed
    /\ orphaned \cup (keys' \ keys) \subseteq orphaned'
    /\ \A r \in Refs : Holds(w, r)' => Holds(w, r)
    /\ \A r \in Refs : Holds(w, r) => Holds(w, r)' \/ r \notin keys' \/ r \in orphaned'
Leaves(w) ==
    /\ Holds(w, worker[w].job.ref)
    /\ keys \ {worker[w].job.ref} \subseteq keys' /\ keys' \subseteq keys
    /\ confirmed' = confirmed
    /\ orphaned \subseteq orphaned'
    /\ worker[w].job.ref \in keys' => worker[w].job.ref \in orphaned'
    /\ \A r \in Refs : ~Holds(w, r)'
Confirms(w) ==
    /\ Holds(w, worker[w].job.ref)
    /\ keys' = keys
    /\ confirmed' = confirmed \cup {worker[w].job.ref} /\ orphaned' = orphaned
    /\ \A r \in Refs : ~Holds(w, r)'

\* A finished worker holds nothing ...
LEMMA FinishHolds ==
    ASSUME TypeInv, NEW w \in Workers, Finish(w)
    PROVE  /\ \A r \in Refs : ~Holds(w, r)'
           /\ \A v \in Workers \ {w} : worker'[v] = worker[v]
  BY DEF TypeInv, TypeOK, Finish, Idle, Holds

\* ... and one that changes phase keeps its job.
LEMMA GotoHolds ==
    ASSUME TypeInv, NEW w \in Workers, NEW pc, Goto(w, pc), ~At(w, "idle")
    PROVE  /\ worker'[w].pc = pc /\ worker'[w].job = worker[w].job
           /\ \A v \in Workers \ {w} : worker'[v] = worker[v]
<1>1. worker[w] \in Busy /\ worker \in [Workers -> {Idle} \cup Busy]
  BY BusyWorker DEF TypeInv, TypeOK, Busy
<1> QED
  BY <1>1 DEF Goto, Busy

\* A step of a worker does one of the four and leaves the others alone.
LEMMA LockEffect ==
    ASSUME TypeInv, NEW w \in Workers, WorkerStep(w) \/ WorkerFails(w)
    PROVE  /\ Enters(w) \/ Stays(w) \/ Leaves(w) \/ Confirms(w)
           /\ \A v \in Workers \ {w} : worker'[v] = worker[v]
<1> DEFINE Quiet == \A v \in Workers \ {w} : worker'[v] = worker[v]
<1>0. worker \in [Workers -> {Idle} \cup Busy]
  BY DEF TypeInv, TypeOK, Busy
<1>1. CASE Pop(w)
  BY <1>0, <1>1 DEF Pop, Loaded, Stays, Holds, At, trace
<1>2. CASE Defer(w) \/ Requeue(w) \/ ScheduleRetry(w)
  <2>1. /\ Finish(w) /\ keys' = keys /\ confirmed' = confirmed /\ orphaned' = orphaned
        /\ \A r \in Refs : ~Holds(w, r)
    BY <1>2 DEF Defer, Requeue, ScheduleRetry, Push, At, Holds
  <2> QED
    BY <2>1, FinishHolds DEF Stays
<1>3. CASE AcquireLock(w)
  <2>1. Goto(w, "sending") /\ At(w, "loaded") /\ ~At(w, "idle")
    BY <1>3 DEF AcquireLock, At
  <2>2. worker'[w].pc = "sending" /\ worker'[w].job = worker[w].job /\ Quiet
    BY <2>1, GotoHolds
  <2>3. \A r \in Refs : ~Holds(w, r) /\ (Holds(w, r)' <=> r = worker[w].job.ref)
    BY <2>1, <2>2 DEF Holds, At
  <2> QED
    BY <1>3, <2>2, <2>3 DEF AcquireLock, Enters, trace
<1>4. CASE SkipDuplicate(w) \/ PopFails(w)
  <2>1. /\ keys' = keys /\ confirmed' = confirmed /\ orphaned' = orphaned
        /\ \/ Finish(w) /\ \A r \in Refs : ~Holds(w, r)
           \/ worker' = worker
    BY <1>4 DEF SkipDuplicate, PopFails, Holds, At, redis
  <2> QED
    BY <2>1, FinishHolds DEF Stays, Holds
<1>5. CASE RejectRequest(w)
  <2>1. Goto(w, "release") /\ At(w, "sending") /\ ~At(w, "idle")
    BY <1>5 DEF RejectRequest, At
  <2>2. worker'[w].pc = "release" /\ worker'[w].job = worker[w].job /\ Quiet
    BY <2>1, GotoHolds
  <2>3. \A r \in Refs : Holds(w, r)' <=> Holds(w, r)
    BY <2>1, <2>2 DEF Holds, At
  <2> QED
    BY <1>5, <2>2, <2>3 DEF RejectRequest, Stays, redis, trace
<1>6. CASE Deliver(w)
  <2>1. Finish(w) /\ At(w, "sending")
    BY <1>6 DEF Deliver, Posts
  <2> QED
    BY <1>6, <2>1, FinishHolds DEF Deliver, Posts, Confirms, Holds, At, redis
<1>7. CASE SendFails(w)
  <2>1. At(w, "sending") /\ worker[w] \in Busy
    BY <1>0, <1>7 DEF SendFails, Posts, At, Idle
  <2>2. worker'[w].job = worker[w].job /\ worker'[w].pc \in {"sending", "release"} /\ Quiet
    BY <1>0, <1>7, <2>1 DEF SendFails, Busy
  <2>3. \A r \in Refs : Holds(w, r)' <=> Holds(w, r)
    BY <2>1, <2>2 DEF Holds, At
  <2> QED
    BY <1>7, <2>2, <2>3 DEF SendFails, Posts, Stays, redis
<1>8. CASE ReleaseLock(w) \/ ReleaseFails(w)
  <2>1. At(w, "release") /\ ~At(w, "idle") /\ confirmed' = confirmed
    BY <1>8 DEF ReleaseLock, ReleaseFails, AfterRelease, At
  <2>2. /\ keys \ {worker[w].job.ref} \subseteq keys' /\ keys' \subseteq keys
        /\ orphaned \subseteq orphaned'
        /\ worker[w].job.ref \in keys' => worker[w].job.ref \in orphaned'
    BY <1>8 DEF ReleaseLock, ReleaseFails, LeavesKey
  <2>3. Finish(w) \/ Goto(w, "retry")
    BY <1>8 DEF ReleaseLock, ReleaseFails, AfterRelease
  <2>4. Quiet /\ \A r \in Refs : ~Holds(w, r)'
    BY <2>1, <2>3, FinishHolds, GotoHolds DEF Holds
  <2> QED
    BY <2>1, <2>2, <2>4 DEF Leaves, Holds, At
<1>9. CASE AcquireFails(w)
  <2>1. Goto(w, "requeue") /\ At(w, "loaded") /\ ~At(w, "idle")
    BY <1>9 DEF AcquireFails, At
  <2>2. worker'[w].pc = "requeue" /\ Quiet
    BY <2>1, GotoHolds
  <2>3. \A r \in Refs : ~Holds(w, r) /\ ~Holds(w, r)'
    BY <2>1, <2>2 DEF Holds, At
  <2> QED
    BY <1>9, <2>2, <2>3 DEF AcquireFails, Stays
<1>10. CASE ClientFails(w)
  <2>1. Finish(w) /\ At(w, "sending")
    BY <1>10 DEF ClientFails
  <2> QED
    BY <1>10, <2>1, FinishHolds DEF ClientFails, LeavesKey, Leaves, Holds, At
<1>11. CASE WorkerCrash(w)
  <2>1. Finish(w) /\ keys' = keys /\ confirmed' = confirmed
    BY <1>11 DEF WorkerCrash, redis
  <2>2. orphaned \subseteq orphaned' /\ \A r \in Refs : Holds(w, r) => r \notin keys' \/ r \in orphaned'
    BY <1>11 DEF WorkerCrash, LeavesKey, Holds
  <2> QED
    BY <2>1, <2>2, FinishHolds DEF Stays
<1> QED
  BY <1>1, <1>2, <1>3, <1>4, <1>5, <1>6, <1>7, <1>8, <1>9, <1>10, <1>11
     DEF WorkerStep, WorkerFails

\* None of the four breaks the lock.
LEMMA LockWorker ==
    ASSUME Inv, NEW w \in Workers, WorkerStep(w) \/ WorkerFails(w)
    PROVE  LockInv'
<1> DEFINE q == worker[w].job.ref
<1>1. /\ Enters(w) \/ Stays(w) \/ Leaves(w) \/ Confirms(w)
      /\ \A v \in Workers \ {w} : worker'[v] = worker[v]
  BY LockEffect DEF Inv
<1>2. \A v \in Workers \ {w}, r \in Refs : Holds(v, r)' <=> Holds(v, r)
  BY <1>1 DEF Holds
<1>3. confirmed \subseteq Refs /\ confirmed \subseteq keys
  BY DEF Inv, LockInv, TypeInv, TypeOK
<1>4. \A u, v \in Workers, r \in Refs : Holds(u, r) /\ Holds(v, r) => u = v
  BY DEF Inv, LockInv, OneSender
<1>5. Holds(w, q) => q \in Refs
  BY BusyWorker DEF Inv, TypeInv, Holds, At, Job
<1>6. /\ \A v \in Workers, r \in Refs : Holds(v, r) => r \in keys
      /\ \A v \in Workers, r \in confirmed : ~Holds(v, r)
      /\ \A r \in keys : r \in confirmed \cup orphaned \/ \E v \in Workers : Holds(v, r)
  BY DEF Inv, LockInv
<1>7. /\ \A v \in Workers, r \in Refs : Holds(v, r)' => r \in keys'
      /\ \A u, v \in Workers, r \in Refs : Holds(u, r)' /\ Holds(v, r)' => u = v
      /\ confirmed' \subseteq keys'
      /\ \A v \in Workers, r \in confirmed' : ~Holds(v, r)'
  <2>1. CASE Enters(w)
    BY <1>2, <1>3, <1>4, <1>6, <2>1 DEF Enters
  <2>2. CASE Stays(w)
    BY <1>2, <1>3, <1>4, <1>6, <2>2 DEF Stays
  <2>3. CASE Leaves(w)
    BY <1>2, <1>3, <1>4, <1>5, <1>6, <2>3 DEF Leaves
  <2>4. CASE Confirms(w)
    BY <1>2, <1>3, <1>4, <1>5, <1>6, <2>4 DEF Confirms
  <2> QED
    BY <1>1, <2>1, <2>2, <2>3, <2>4
<1>8. \A r \in keys' : r \in confirmed' \cup orphaned' \/ \E v \in Workers : Holds(v, r)'
  <2> SUFFICES ASSUME NEW r \in keys', r \notin confirmed', r \notin orphaned'
               PROVE  \E v \in Workers : Holds(v, r)'
    OBVIOUS
  <2>0. keys' \subseteq Refs
    BY TypeWorker DEF Inv, TypeInv, TypeOK
  <2>1. CASE Enters(w)
    BY <1>2, <1>6, <2>0, <2>1 DEF Enters
  <2>2. CASE Stays(w)
    BY <1>2, <1>6, <2>0, <2>2 DEF Stays
  <2>3. CASE Leaves(w)
    <3>1. r \in keys /\ r # q /\ r \in Refs
      BY <2>0, <2>3 DEF Leaves
    <3>2. PICK v \in Workers : Holds(v, r)
      BY <1>6, <2>3, <3>1 DEF Leaves
    <3>3. v # w
      BY <2>3, <3>1, <3>2 DEF Holds
    <3> QED
      BY <1>2, <3>1, <3>2, <3>3
  <2>4. CASE Confirms(w)
    <3>1. r \in keys /\ r # q /\ r \in Refs
      BY <2>0, <2>4 DEF Confirms
    <3>2. PICK v \in Workers : Holds(v, r)
      BY <1>6, <2>4, <3>1 DEF Confirms
    <3>3. v # w
      BY <2>4, <3>1, <3>2 DEF Holds
    <3> QED
      BY <1>2, <3>1, <3>2, <3>3
  <2> QED
    BY <1>1, <2>1, <2>2, <2>3, <2>4
<1> QED
  BY <1>7, <1>8 DEF LockInv, OneSender

\* Nor does anything outside the workers: a key expires only between deliveries.
LEMMA LockStep == Inv /\ [Next]_vars => Inv'
<1> SUFFICES ASSUME Inv, [Next]_vars PROVE Inv'
  OBVIOUS
<1>1. TypeInv'
  BY TypeStep DEF Inv
<1>2. CASE UNCHANGED vars
  BY <1>1, <1>2 DEF vars, Inv, LockInv, OneSender, Holds
<1>3. ASSUME NEW w \in Workers, WorkerStep(w) \/ WorkerFails(w) PROVE LockInv'
  BY <1>3, LockWorker
<1>4. ASSUME NEW r \in Refs, Enqueue(r) PROVE LockInv'
  BY <1>4 DEF Enqueue, Inv, LockInv, OneSender, Holds, trace
<1>5. ASSUME NEW r \in Refs, Elapse(r) PROVE LockInv'
  <2>1. \A w \in Workers, q \in Refs : Holds(w, q)' <=> Holds(w, q)
    BY <1>5 DEF Elapse, Holds, At, Loaded
  <2>2. /\ keys' = keys /\ confirmed' = confirmed /\ orphaned' = orphaned
        /\ confirmed \subseteq Refs /\ keys \subseteq Refs
    BY <1>5 DEF Elapse, Inv, TypeInv, TypeOK, trace
  <2>3. /\ \A w \in Workers, q \in Refs : Holds(w, q)' => q \in keys'
        /\ \A u, v \in Workers, q \in Refs : Holds(u, q)' /\ Holds(v, q)' => u = v
        /\ confirmed' \subseteq keys'
        /\ \A w \in Workers, q \in confirmed' : ~Holds(w, q)'
        /\ \A q \in keys' : q \in confirmed' \cup orphaned' \/ \E w \in Workers : Holds(w, q)'
    BY <2>1, <2>2 DEF Inv, LockInv, OneSender
  <2> QED
    BY <2>3 DEF LockInv, OneSender
<1>6. ASSUME NEW r \in Refs, KeyExpires(r) PROVE LockInv'
  BY <1>6 DEF KeyExpires, Inv, LockInv, OneSender, Holds
<1> QED
  BY <1>1, <1>2, <1>3, <1>4, <1>5, <1>6 DEF Inv, Next

\* The lock and the types hold in every state.
LEMMA LockHolds == Spec => []Inv
<1>1. Init => Inv
  BY TypeInit DEF Init, Inv, LockInv, OneSender, Holds, Idle
<1> QED
  BY <1>1, LockStep, PTL DEF Spec

\* Two workers never deliver callbacks of one reference at the same time, for
\* any number of workers and failures, lost Redis replies and crashes included.
THEOREM NeverTwoSenders == Spec => []OneSender
<1>1. Inv => OneSender
  BY DEF Inv, LockInv
<1> QED
  BY <1>1, LockHolds, PTL

\* Requests go out only for the references a worker holds.
LEMMA PostsAreHeld ==
    ASSUME TypeInv, Next
    PROVE  \A r \in Refs : posts'[r] # posts[r] => \E w \in Workers : Holds(w, r)
<1>1. posts' = posts \/ \E w \in Workers : Posts(w)
  BY DEF Next, Enqueue, Elapse, KeyExpires, WorkerStep, WorkerFails, Pop, Defer,
         AcquireLock, SkipDuplicate, Requeue, RejectRequest, Deliver, SendFails,
         ReleaseLock, ScheduleRetry, PopFails, AcquireFails, ClientFails,
         ReleaseFails, WorkerCrash, Push, AfterRelease, trace
<1>2. ASSUME NEW w \in Workers, Posts(w), NEW r \in Refs, posts'[r] # posts[r]
      PROVE  Holds(w, r)
  BY <1>2 DEF Posts, Holds, At, TypeInv, TypeOK
<1> QED
  BY <1>1, <1>2

\* A callback the toko has confirmed is never posted again while its key lives,
\* whatever jobs of the same reference are still queued.
THEOREM NeverPostedAfterDelivery == Spec => NoPostAfterDelivery
<1>1. Inv /\ [Next]_vars => [\A r \in confirmed : posts'[r] = posts[r]]_vars
  <2> SUFFICES ASSUME Inv, Next, NEW r \in confirmed PROVE posts'[r] = posts[r]
    BY DEF vars
  <2>1. r \in Refs /\ \A w \in Workers : ~Holds(w, r)
    BY DEF Inv, LockInv, TypeInv, TypeOK
  <2> QED
    BY <2>1, PostsAreHeld DEF Inv
<1> QED
  BY <1>1, LockHolds, PTL DEF Spec, NoPostAfterDelivery

----------------------------------------------------------------------------
(* What becomes of a job: how many requests it has cost and may still cost, *)
(* and how it ends.                                                        *)

Queued == {queue[i] : i \in DOMAIN queue}
Mine(w) == worker[w].job.ref

\* The requests that the earlier rounds of a job made, and those it has left.
PostsBefore(j) == InlineSends * (j.attempt - 1)
PostsLeft(j) == InlineSends * (CallbackMaxAttempts + 1 - j.attempt)

\* A job goes back either before its first request or after its third.
SendsInv ==
    \A w \in Workers :
        /\ At(w, "requeue") => worker[w].sends = 0
        /\ At(w, "release") /\ Mine(w) \notin InvalidRefs => worker[w].sends = InlineSends
        /\ At(w, "retry") => Mine(w) \notin InvalidRefs /\ worker[w].sends = InlineSends

\* The seven things a worker's step may do to the jobs.
PicksUp(w) ==
    /\ At(w, "idle") /\ queue # <<>>
    /\ queue' = Tail(queue)
    /\ worker'[w] = Loaded(Head(queue))
    /\ UNCHANGED <<posts, confirmed, fate>>
Misses(w) == UNCHANGED <<queue, worker, posts, confirmed, fate>>
LosesHead(w) ==
    /\ queue # <<>>
    /\ queue' = Tail(queue)
    /\ worker' = worker
    /\ Ends(Head(queue).ref, "lost")
    /\ UNCHANGED <<posts, confirmed>>
PutsBack(w) ==
    /\ ~At(w, "idle")
    /\ \E j \in Job : /\ queue' = Append(queue, j)
                      /\ j.ref = Mine(w)
                      /\ PostsBefore(j) = PostsBefore(worker[w].job) + worker[w].sends
    /\ worker'[w] = Idle
    /\ UNCHANGED <<posts, confirmed, fate>>
GoesOn(w) ==
    /\ ~At(w, "idle") /\ worker'[w].pc # "idle"
    /\ worker'[w].job = worker[w].job
    /\ \/ worker'[w].sends = worker[w].sends /\ posts' = posts
       \/ /\ worker'[w].sends = worker[w].sends + 1
          /\ posts' = [posts EXCEPT ![Mine(w)] = @ + 1]
    /\ UNCHANGED <<queue, confirmed, fate>>
EndsJob(w) ==
    /\ ~At(w, "idle") /\ worker'[w] = Idle
    /\ \E how : /\ Ends(Mine(w), how)
                /\ how = "gave_up" => At(w, "release") /\ GivesUp(worker[w].job)
    /\ \/ posts' = posts
       \/ At(w, "sending") /\ posts' = [posts EXCEPT ![Mine(w)] = @ + 1]
    /\ confirmed' \subseteq confirmed \cup {Mine(w)}
    /\ UNCHANGED queue
SkipsJob(w) ==
    /\ At(w, "loaded") /\ worker'[w] = Idle
    /\ Mine(w) \in confirmed \/ \E v \in Workers \ {w} : Holds(v, Mine(w))
    /\ UNCHANGED <<queue, posts, confirmed, fate>>

\* Pushing a job back puts it back or ends it.
LEMMA PushEffect ==
    ASSUME TypeInv, NEW w \in Workers, ~At(w, "idle"), NEW j \in Job, Push(w, j),
           j.ref = Mine(w), PostsBefore(j) = PostsBefore(worker[w].job) + worker[w].sends
    PROVE  PutsBack(w) \/ EndsJob(w)
<1>1. worker'[w] = Idle /\ posts' = posts /\ confirmed' = confirmed
  BY DEF Push, Finish, TypeInv, TypeOK
<1>2. \/ queue' = Append(queue, j) /\ fate' = fate
      \/ queue' = queue /\ Ends(Mine(w), "lost")
  BY DEF Push
<1> QED
  BY <1>1, <1>2 DEF PutsBack, EndsJob

\* A step of a worker does one of the seven, produces nothing and leaves the jobs
\* of the others alone.
LEMMA JobEffect ==
    ASSUME TypeInv, SendsInv, NEW w \in Workers, WorkerStep(w) \/ WorkerFails(w)
    PROVE  /\ \/ PicksUp(w) \/ Misses(w) \/ LosesHead(w) \/ PutsBack(w)
              \/ GoesOn(w) \/ EndsJob(w) \/ SkipsJob(w)
           /\ pushed' = pushed
           /\ \A v \in Workers \ {w} : worker'[v] = worker[v]
<1>0. worker \in [Workers -> {Idle} \cup Busy] /\ Idle.pc = "idle"
  BY DEF TypeInv, TypeOK, Busy, Idle
<1>a. /\ pushed' = pushed
      /\ \A v \in Workers \ {w} : worker'[v] = worker[v]
  <2>1. pushed' = pushed
    BY DEF WorkerStep, WorkerFails, Pop, Defer, AcquireLock, SkipDuplicate, Requeue,
           RejectRequest, Deliver, SendFails, ReleaseLock, ScheduleRetry, PopFails,
           AcquireFails, ClientFails, ReleaseFails, WorkerCrash, Push, Posts, AfterRelease
  <2> QED
    BY <2>1, LockEffect
<1>f. Finish(w) => worker'[w] = Idle
  BY <1>0 DEF Finish
<1>j. ~At(w, "idle") => worker[w] \in Busy /\ worker[w].job \in Job
  BY BusyWorker DEF TypeInv
<1>1. CASE Pop(w)
  BY <1>0, <1>1 DEF Pop, PicksUp, trace
<1>2. CASE Defer(w)
  <2>1. At(w, "loaded") /\ ~At(w, "idle") /\ worker[w].sends = 0
    BY <1>2 DEF Defer, At, TypeInv, PhaseInv
  <2>2. PutsBack(w) \/ EndsJob(w)
    BY <1>2, <1>j, <2>1, PushEffect DEF Defer, Mine, PostsBefore, Job
  <2> QED
    BY <1>a, <2>2
<1>3. CASE AcquireLock(w) \/ AcquireFails(w) \/ RejectRequest(w)
  <2>1. ~At(w, "idle") /\ queue' = queue /\ posts' = posts /\ confirmed' = confirmed /\ fate' = fate
    BY <1>3 DEF AcquireLock, AcquireFails, RejectRequest, At, trace, redis
  <2>2. \E pc \in {"sending", "requeue", "release"} : Goto(w, pc)
    BY <1>3 DEF AcquireLock, AcquireFails, RejectRequest
  <2>3. /\ worker'[w].pc # "idle" /\ worker'[w].job = worker[w].job
        /\ worker'[w].sends = worker[w].sends
    BY <1>0, <1>j, <2>1, <2>2 DEF Goto, Busy
  <2> QED
    BY <1>a, <2>1, <2>3 DEF GoesOn
<1>4. CASE SkipDuplicate(w)
  <2>1. /\ At(w, "loaded") /\ ~At(w, "idle") /\ ~Holds(w, Mine(w)) /\ queue' = queue
        /\ posts' = posts /\ confirmed' = confirmed /\ worker'[w] = Idle
    BY <1>4, <1>f DEF SkipDuplicate, At, Holds, redis
  <2>2. CASE Mine(w) \in confirmed \/ \E v \in Workers : Holds(v, Mine(w))
    BY <1>4, <1>a, <2>1, <2>2 DEF SkipDuplicate, SkipsJob, Mine
  <2>3. CASE ~(Mine(w) \in confirmed \/ \E v \in Workers : Holds(v, Mine(w)))
    <3>1. Ends(Mine(w), "forgotten")
      BY <1>4, <2>3 DEF SkipDuplicate, Mine
    <3> QED
      BY <1>a, <2>1, <3>1 DEF EndsJob
  <2> QED
    BY <2>2, <2>3
<1>5. CASE Requeue(w)
  <2>1. At(w, "requeue") /\ ~At(w, "idle") /\ worker[w].sends = 0
    BY <1>5 DEF Requeue, At, SendsInv
  <2>2. PutsBack(w) \/ EndsJob(w)
    BY <1>5, <1>j, <2>1, PushEffect DEF Requeue, Mine, PostsBefore, Job
  <2> QED
    BY <1>a, <2>2
<1>6. CASE Deliver(w)
  <2>1. /\ At(w, "sending") /\ ~At(w, "idle") /\ queue' = queue /\ worker'[w] = Idle
        /\ posts' = [posts EXCEPT ![Mine(w)] = @ + 1]
        /\ confirmed' = confirmed \cup {Mine(w)} /\ Ends(Mine(w), "delivered")
    BY <1>6, <1>f DEF Deliver, Posts, At, Mine, redis
  <2> QED
    BY <1>a, <2>1 DEF EndsJob
<1>7. CASE SendFails(w)
  <2>1. /\ At(w, "sending") /\ ~At(w, "idle") /\ queue' = queue
        /\ posts' = [posts EXCEPT ![Mine(w)] = @ + 1]
        /\ confirmed' = confirmed /\ fate' = fate
    BY <1>7 DEF SendFails, Posts, At, Mine, redis
  <2>2. /\ worker'[w].pc # "idle" /\ worker'[w].job = worker[w].job
        /\ worker'[w].sends = worker[w].sends + 1
    BY <1>0, <1>7, <1>j, <2>1 DEF SendFails, Busy
  <2> QED
    BY <1>a, <2>1, <2>2 DEF GoesOn
<1>8. CASE ReleaseLock(w) \/ ReleaseFails(w)
  <2>1. At(w, "release") /\ ~At(w, "idle") /\ AfterRelease(w)
    BY <1>8 DEF ReleaseLock, ReleaseFails, At
  <2>2. queue' = queue /\ posts' = posts /\ confirmed' = confirmed
    BY <2>1 DEF AfterRelease
  <2>3. CASE GivesUp(worker[w].job)
    <3>1. worker'[w] = Idle /\ Ends(Mine(w), "gave_up")
      BY <1>f, <2>1, <2>3 DEF AfterRelease, Mine
    <3> QED
      BY <1>a, <2>1, <2>2, <2>3, <3>1 DEF EndsJob
  <2>4. CASE ~GivesUp(worker[w].job)
    <3>1. Goto(w, "retry") /\ fate' = fate
      BY <2>1, <2>4 DEF AfterRelease
    <3>2. /\ worker'[w].pc # "idle" /\ worker'[w].job = worker[w].job
          /\ worker'[w].sends = worker[w].sends
      BY <1>0, <1>j, <2>1, <3>1 DEF Goto, Busy
    <3> QED
      BY <1>a, <2>1, <2>2, <3>1, <3>2 DEF GoesOn
  <2> QED
    BY <2>3, <2>4
<1>9. CASE ScheduleRetry(w)
  <2>1. /\ At(w, "retry") /\ ~At(w, "idle") /\ worker[w].sends = InlineSends
        /\ worker[w].job.attempt < CallbackMaxAttempts
    BY <1>9 DEF ScheduleRetry, At, SendsInv, TypeInv, PhaseInv
  <2>2. RetryJob(worker[w].job) \in Job
    BY <1>j, <2>1, OneMoreAttempt
  <2>3. /\ RetryJob(worker[w].job).ref = Mine(w)
        /\ PostsBefore(RetryJob(worker[w].job)) = PostsBefore(worker[w].job) + worker[w].sends
    <3>1. worker[w].job \in Job
      BY <1>j, <2>1
    <3>2. /\ RetryJob(worker[w].job).ref = worker[w].job.ref
          /\ RetryJob(worker[w].job).attempt = worker[w].job.attempt + 1
          /\ worker[w].job.attempt \in Nat
      BY <3>1 DEF RetryJob, Job
    <3> QED
      BY <2>1, <3>2 DEF Mine, PostsBefore
  <2>4. PutsBack(w) \/ EndsJob(w)
    BY <1>9, <2>1, <2>2, <2>3, PushEffect DEF ScheduleRetry
  <2> QED
    BY <1>a, <2>4
<1>10. CASE PopFails(w)
  BY <1>a, <1>10 DEF PopFails, Misses, LosesHead
<1>11. CASE ClientFails(w) \/ WorkerCrash(w)
  <2>1. /\ ~At(w, "idle") /\ queue' = queue /\ worker'[w] = Idle
        /\ posts' = posts /\ confirmed' = confirmed /\ Ends(Mine(w), "lost")
    BY <1>11, <1>f DEF ClientFails, WorkerCrash, At, Mine, redis
  <2> QED
    BY <1>a, <2>1 DEF EndsJob
<1> QED
  BY <1>1, <1>2, <1>3, <1>4, <1>5, <1>6, <1>7, <1>8, <1>9, <1>10, <1>11, <1>a
     DEF WorkerStep, WorkerFails

\* Time changes neither the reference, the round nor the requests of a job.
LEMMA ElapseKeeps ==
    ASSUME TypeInv, NEW r \in Refs, Elapse(r)
    PROVE  /\ DOMAIN queue' = DOMAIN queue
           /\ \A i \in DOMAIN queue : /\ queue'[i].ref = queue[i].ref
                                      /\ queue'[i].attempt = queue[i].attempt
           /\ \A w \in Workers :
                  /\ worker'[w].pc = worker[w].pc
                  /\ ~At(w, "idle") => /\ worker'[w].job.ref = worker[w].job.ref
                                       /\ worker'[w].job.attempt = worker[w].job.attempt
                                       /\ worker'[w].sends = worker[w].sends
           /\ UNCHANGED <<keys, faults, pushed, posts, confirmed, fate>>
<1> DEFINE passed(j) == IF j.ref = r THEN [j EXCEPT !.due = TRUE] ELSE j
<1>1. \A j \in Job : passed(j).ref = j.ref /\ passed(j).attempt = j.attempt
  BY DEF Job
<1>2. \A i \in DOMAIN queue : queue[i] \in Job
  BY DEF TypeInv, TypeOK
<1>3. queue' = [i \in DOMAIN queue |-> passed(queue[i])]
  BY DEF Elapse
<1>4. worker' = [w \in Workers |-> IF At(w, "loaded") THEN Loaded(passed(worker[w].job))
                                                      ELSE worker[w]]
  BY DEF Elapse
<1>5. UNCHANGED <<keys, faults, pushed, posts, confirmed, fate>>
  BY DEF Elapse, trace
<1> HIDE DEF passed
<1>6. ASSUME NEW w \in Workers
      PROVE  /\ worker'[w].pc = worker[w].pc
             /\ ~At(w, "idle") => /\ worker'[w].job.ref = worker[w].job.ref
                                  /\ worker'[w].job.attempt = worker[w].job.attempt
                                  /\ worker'[w].sends = worker[w].sends
  <2>1. CASE At(w, "loaded")
    <3>1. worker[w].job \in Job /\ worker[w].sends = 0
      BY <2>1, BusyWorker DEF At, TypeInv, PhaseInv
    <3>2. worker'[w] = Loaded(passed(worker[w].job))
      BY <1>4, <2>1
    <3> QED
      BY <1>1, <2>1, <3>1, <3>2 DEF Loaded, At
  <2>2. CASE ~At(w, "loaded")
    BY <1>4, <2>2
  <2> QED
    BY <2>1, <2>2
<1> QED
  BY <1>1, <1>2, <1>3, <1>5, <1>6

\* A job goes back only before its first request or after its third.
LEMMA SendsStep == TypeInv /\ SendsInv /\ [Next]_vars => SendsInv'
<1> SUFFICES ASSUME TypeInv, SendsInv, [Next]_vars PROVE SendsInv'
  OBVIOUS
<1>1. CASE UNCHANGED vars
  BY <1>1 DEF vars, SendsInv, At, Mine
<1>2. ASSUME NEW r \in Refs, Enqueue(r) \/ KeyExpires(r) PROVE SendsInv'
  BY <1>2 DEF Enqueue, KeyExpires, SendsInv, At, Mine
<1>3. ASSUME NEW r \in Refs, Elapse(r) PROVE SendsInv'
  BY <1>3, ElapseKeeps DEF SendsInv, At, Mine
<1>4. ASSUME NEW w \in Workers, WorkerStep(w) \/ WorkerFails(w) PROVE SendsInv'
  <2> DEFINE Good(s) == /\ s.pc = "requeue" => s.sends = 0
                        /\ s.pc = "release" /\ s.job.ref \notin InvalidRefs => s.sends = InlineSends
                        /\ s.pc = "retry" => s.job.ref \notin InvalidRefs /\ s.sends = InlineSends
  <2>0. worker \in [Workers -> {Idle} \cup Busy] /\ (~At(w, "idle") => worker[w] \in Busy)
    BY BusyWorker DEF TypeInv, TypeOK, Busy
  <2>1. Good(worker'[w])
    <3>1. CASE Pop(w)
      BY <2>0, <3>1 DEF Pop, Loaded
    <3>2. CASE Finish(w)
      BY <2>0, <3>2 DEF Finish, Idle
    <3>3. CASE AcquireLock(w) \/ AcquireFails(w)
      <4>1. At(w, "loaded") /\ worker[w].sends = 0 /\ worker[w] \in Busy
        BY <2>0, <3>3 DEF AcquireLock, AcquireFails, At, TypeInv, PhaseInv
      <4>2. Goto(w, "sending") \/ Goto(w, "requeue")
        BY <3>3 DEF AcquireLock, AcquireFails
      <4> QED
        BY <2>0, <4>1, <4>2 DEF Goto, Busy
    <3>4. CASE RejectRequest(w)
      BY <2>0, <3>4 DEF RejectRequest, Goto, Busy, At
    <3>5. CASE SendFails(w)
      <4>1. worker[w] \in Busy /\ worker[w].sends < InlineSends /\ worker[w].sends \in Nat
        BY <2>0, <3>5 DEF SendFails, Posts, At, TypeInv, PhaseInv, Busy
      <4>2. /\ worker'[w].sends = worker[w].sends + 1
            /\ worker'[w].pc = IF worker[w].sends + 1 < InlineSends THEN "sending" ELSE "release"
        BY <2>0, <3>5, <4>1 DEF SendFails, Busy
      <4> QED
        BY <4>1, <4>2
    <3>6. CASE AfterRelease(w) /\ At(w, "release") /\ ~Finish(w)
      <4>1. ~GivesUp(worker[w].job) /\ Goto(w, "retry") /\ worker[w] \in Busy
        BY <2>0, <3>6 DEF AfterRelease, At
      <4>2. worker[w].job.ref \notin InvalidRefs /\ worker[w].sends = InlineSends
        BY <3>6, <4>1 DEF GivesUp, SendsInv, Mine
      <4>3. /\ worker'[w].pc = "retry" /\ worker'[w].job = worker[w].job
            /\ worker'[w].sends = worker[w].sends
        BY <2>0, <4>1 DEF Goto, Busy
      <4> QED
        BY <4>2, <4>3
    <3>7. CASE PopFails(w)
      BY <3>7 DEF PopFails, SendsInv, At, Mine
    <3>8. (Defer(w) \/ Requeue(w) \/ ScheduleRetry(w) \/ SkipDuplicate(w) \/ Deliver(w)
            \/ ClientFails(w) \/ WorkerCrash(w)) => Finish(w)
      BY DEF Defer, Requeue, ScheduleRetry, Push, SkipDuplicate, Deliver, ClientFails, WorkerCrash
    <3>9. ReleaseLock(w) \/ ReleaseFails(w) => AfterRelease(w) /\ At(w, "release")
      BY DEF ReleaseLock, ReleaseFails
    <3> QED
      BY <1>4, <3>1, <3>2, <3>3, <3>4, <3>5, <3>6, <3>7, <3>8, <3>9 DEF WorkerStep, WorkerFails
  <2>2. \A v \in Workers \ {w} : worker'[v] = worker[v]
    BY <1>4, JobEffect
  <2>3. \A v \in Workers : Good(worker[v])
    BY DEF SendsInv, At, Mine
  <2>4. \A v \in Workers : Good(worker'[v])
    BY <2>1, <2>2, <2>3
  <2> QED
    BY <2>4 DEF SendsInv, At, Mine
<1> QED
  BY <1>1, <1>2, <1>3, <1>4 DEF Next

\* Pushing a job adds it to the queue ...
LEMMA QueuedAppend ==
    ASSUME TypeOK, NEW j \in Job, queue' = Append(queue, j)
    PROVE  Queued' = Queued \cup {j}
<1>1. queue \in Seq(Job)
  BY DEF TypeOK
<1>2. /\ DOMAIN queue' = DOMAIN queue \cup {Len(queue) + 1}
      /\ \A i \in DOMAIN queue : queue'[i] = queue[i]
      /\ queue'[Len(queue) + 1] = j
  BY <1>1
<1> QED
  BY <1>2 DEF Queued

\* ... and popping takes the head and leaves the rest.
LEMMA QueuedTail ==
    ASSUME TypeOK, queue # <<>>, queue' = Tail(queue)
    PROVE  Queued = Queued' \cup {Head(queue)} /\ Head(queue) \in Job
<1>1. queue \in Seq(Job) /\ Len(queue) \in Nat /\ Len(queue) > 0
  BY DEF TypeOK
<1>2. /\ DOMAIN queue = 1..Len(queue) /\ DOMAIN queue' = 1..(Len(queue) - 1)
      /\ \A i \in DOMAIN queue' : queue'[i] = queue[i + 1]
      /\ Head(queue) = queue[1]
  BY <1>1
<1>3. ASSUME NEW i \in DOMAIN queue
      PROVE  queue[i] \in Queued' \cup {Head(queue)}
  <2>1. i = 1 \/ (i - 1 \in DOMAIN queue' /\ queue'[i - 1] = queue[i])
    BY <1>1, <1>2
  <2> QED
    BY <1>2, <2>1 DEF Queued
<1>4. Queued' \subseteq Queued /\ Head(queue) \in Queued
  BY <1>1, <1>2 DEF Queued
<1> QED
  BY <1>1, <1>3, <1>4 DEF Queued

\* Whatever phase a worker is in, it is idle or has a job.
LEMMA IdleOrBusy ==
    ASSUME TypeOK, NEW w \in Workers
    PROVE  worker[w] = Idle <=> At(w, "idle")
<1>1. worker[w] = Idle \/ worker[w] \in Busy
  BY DEF TypeOK, Busy
<1> QED
  BY <1>1 DEF Busy, At, Idle

\* What is in flight, without the indices.
Flying(r) ==
    \/ \E j \in Queued : j.ref = r
    \/ \E w \in Workers : ~At(w, "idle") /\ Mine(w) = r

FlyingSays == \A r \in Refs : InFlight(r) <=> Flying(r)

\* Both say the same.
LEMMA FlyingIsInFlight == TypeOK => FlyingSays
<1> SUFFICES ASSUME TypeOK, NEW r \in Refs PROVE InFlight(r) <=> Flying(r)
  BY DEF FlyingSays
<1>1. \A w \in Workers : worker[w] # Idle <=> ~At(w, "idle")
  BY IdleOrBusy
<1> QED
  BY <1>1 DEF InFlight, Flying, Queued, Mine

\* A reference that was ever produced is in flight or its jobs ended in a known
\* way; one that was confirmed was delivered.
FateInv ==
    /\ \A r \in confirmed : fate[r] # {}
    /\ \A r \in Refs : pushed[r] > 0 => InFlight(r) \/ fate[r] # {}

\* The step of a worker that loses sight of a job says how it ended, and a job is
\* skipped only for one that was delivered or is under way.
LEMMA FateWorker ==
    ASSUME TypeInv, TypeOK', SendsInv, FateInv, NEW w \in Workers, WorkerStep(w) \/ WorkerFails(w)
    PROVE  FateInv'
<1>0. TypeOK /\ fate \in [Refs -> SUBSET {"delivered", "gave_up", "lost", "forgotten"}]
      /\ confirmed \subseteq Refs
  BY DEF TypeInv, TypeOK
<1>1. /\ \/ PicksUp(w) \/ Misses(w) \/ LosesHead(w) \/ PutsBack(w)
         \/ GoesOn(w) \/ EndsJob(w) \/ SkipsJob(w)
      /\ pushed' = pushed
      /\ \A v \in Workers \ {w} : worker'[v] = worker[v]
  BY JobEffect
<1>2. ~At(w, "idle") => Mine(w) \in Refs
  BY <1>0, BusyWorker DEF Mine, Job
<1>3. (\A r \in Refs : InFlight(r) <=> Flying(r)) /\ (\A r \in Refs : InFlight(r)' <=> Flying(r)')
  <2>1. TypeOK' => FlyingSays'
    BY FlyingIsInFlight, PTL
  <2> QED
    BY <1>0, <2>1, FlyingIsInFlight DEF FlyingSays
<1>4. \A v \in Workers \ {w} : (At(v, "idle")' <=> At(v, "idle")) /\ Mine(v)' = Mine(v)
  BY <1>1 DEF At, Mine
<1> SUFFICES /\ \A r \in confirmed' : fate'[r] # {}
             /\ \A r \in Refs : pushed[r] > 0 => Flying(r)' \/ fate'[r] # {}
  BY <1>1, <1>3 DEF FateInv
<1>5. /\ \A r \in confirmed : fate[r] # {}
      /\ \A r \in Refs : pushed[r] > 0 => Flying(r) \/ fate[r] # {}
  BY <1>3 DEF FateInv
<1>6. CASE PicksUp(w)
  <2>1. Queued = Queued' \cup {Head(queue)}
    BY <1>0, <1>6, QueuedTail DEF PicksUp
  <2>2. ~At(w, "idle")' /\ Mine(w)' = Head(queue).ref /\ fate' = fate /\ confirmed' = confirmed
    BY <1>6 DEF PicksUp, Loaded, At, Mine
  <2>3. \A r \in Refs : Flying(r) => Flying(r)'
    BY <1>4, <1>6, <2>1, <2>2 DEF PicksUp, Flying
  <2> QED
    BY <1>5, <2>2, <2>3
<1>12. CASE Misses(w)
  <2>1. \A r \in Refs : Flying(r)' <=> Flying(r)
    BY <1>12 DEF Misses, Flying, Queued, At, Mine
  <2> QED
    BY <1>5, <1>12, <2>1 DEF Misses
<1>7. CASE LosesHead(w)
  <2>1. Queued = Queued' \cup {Head(queue)} /\ Head(queue).ref \in Refs
    BY <1>0, <1>7, QueuedTail DEF LosesHead, Job
  <2>2. /\ worker' = worker /\ confirmed' = confirmed
        /\ fate' = [fate EXCEPT ![Head(queue).ref] = @ \cup {"lost"}]
    BY <1>7 DEF LosesHead, Ends
  <2>3. \A r \in Refs : Flying(r) => Flying(r)' \/ r = Head(queue).ref
    BY <2>1, <2>2 DEF Flying, At, Mine
  <2>4. fate'[Head(queue).ref] # {} /\ \A r \in Refs : fate[r] # {} => fate'[r] # {}
    BY <1>0, <2>1, <2>2
  <2> QED
    BY <1>0, <1>5, <2>2, <2>3, <2>4
<1>8. CASE PutsBack(w)
  <2>1. PICK j \in Job : queue' = Append(queue, j) /\ j.ref = Mine(w)
    BY <1>8 DEF PutsBack
  <2>2. Queued' = Queued \cup {j}
    BY <1>0, <2>1, QueuedAppend
  <2>3. \A r \in Refs : Flying(r) => Flying(r)'
    BY <1>4, <2>1, <2>2 DEF Flying
  <2> QED
    BY <1>5, <1>8, <2>3 DEF PutsBack
<1>9. CASE GoesOn(w)
  <2>1. Queued' = Queued /\ Mine(w)' = Mine(w) /\ ~At(w, "idle")' /\ fate' = fate /\ confirmed' = confirmed
    BY <1>9 DEF GoesOn, Queued, Mine, At
  <2>2. \A r \in Refs : Flying(r) => Flying(r)'
    BY <1>4, <2>1 DEF Flying
  <2> QED
    BY <1>5, <2>1, <2>2
<1>10. CASE EndsJob(w)
  <2>1. PICK how : Ends(Mine(w), how)
    BY <1>10 DEF EndsJob
  <2>2. /\ fate' = [fate EXCEPT ![Mine(w)] = @ \cup {how}] /\ Mine(w) \in Refs
        /\ Queued' = Queued /\ confirmed' \subseteq confirmed \cup {Mine(w)}
    BY <1>2, <1>10, <2>1 DEF EndsJob, Ends, Queued
  <2>3. fate'[Mine(w)] # {} /\ \A r \in Refs : fate[r] # {} => fate'[r] # {}
    <3> DEFINE m == Mine(w)
    <3> HIDE DEF m
    <3>1. fate' = [fate EXCEPT ![m] = @ \cup {how}] /\ m \in Refs
      BY <2>2 DEF m
    <3>2. fate'[m] # {} /\ \A r \in Refs : fate[r] # {} => fate'[r] # {}
      BY <1>0, <3>1
    <3> QED
      BY <3>2 DEF m
  <2>4. \A r \in Refs : Flying(r) => Flying(r)' \/ r = Mine(w)
    BY <1>4, <2>2 DEF Flying
  <2> QED
    BY <1>0, <1>5, <2>2, <2>3, <2>4
<1>11. CASE SkipsJob(w)
  <2>1. /\ fate' = fate /\ confirmed' = confirmed /\ Queued' = Queued
        /\ Mine(w) \in confirmed \/ \E v \in Workers \ {w} : Holds(v, Mine(w))
    BY <1>11 DEF SkipsJob, Queued
  <2>2. \A v \in Workers : \A r \in Refs : Holds(v, r) => ~At(v, "idle") /\ Mine(v) = r
    BY DEF Holds, At, Mine
  <2>3. \A r \in Refs : Flying(r) => Flying(r)' \/ r \in confirmed
    BY <1>2, <1>4, <2>1, <2>2 DEF Flying
  <2> QED
    BY <1>5, <2>1, <2>3
<1> QED
  BY <1>1, <1>6, <1>7, <1>8, <1>9, <1>10, <1>11, <1>12

\* Nothing outside the workers loses a job either.
LEMMA FateStep == TypeInv /\ SendsInv /\ FateInv /\ [Next]_vars => FateInv'
<1> SUFFICES ASSUME TypeInv, SendsInv, FateInv, [Next]_vars PROVE FateInv'
  OBVIOUS
<1>0. TypeOK /\ TypeOK'
  BY TypeStep DEF TypeInv
<1>1. CASE UNCHANGED vars
  BY <1>1 DEF vars, FateInv, InFlight
<1>2. ASSUME NEW r \in Refs, Enqueue(r) PROVE FateInv'
  <2>1. NewJob(r) \in Job /\ NewJob(r).ref = r /\ queue' = Append(queue, NewJob(r))
    BY <1>2 DEF Enqueue, NewJob, Job
  <2>2. Queued' = Queued \cup {NewJob(r)}
    BY <1>0, <2>1, QueuedAppend
  <2>3. \A q \in Refs : InFlight(q) <=> Flying(q)
    BY <1>0, FlyingIsInFlight DEF FlyingSays
  <2>4. TypeOK' => FlyingSays'
    BY FlyingIsInFlight, PTL
  <2>5. worker' = worker /\ fate' = fate /\ confirmed' = confirmed
        /\ \A q \in Refs : q # r => pushed'[q] = pushed[q]
    BY <1>0, <1>2 DEF Enqueue, trace, TypeOK
  <2>6. Flying(r)' /\ \A q \in Refs : Flying(q) => Flying(q)'
    BY <2>1, <2>2, <2>5 DEF Flying, At, Mine
  <2>7. InFlight(r)' /\ \A q \in Refs : InFlight(q) => InFlight(q)'
    BY <1>0, <2>3, <2>4, <2>6 DEF FlyingSays
  <2> QED
    BY <1>0, <2>5, <2>7 DEF FateInv, TypeOK
<1>3. ASSUME NEW r \in Refs, Elapse(r) PROVE FateInv'
  <2>1. /\ DOMAIN queue' = DOMAIN queue
        /\ \A i \in DOMAIN queue : queue'[i].ref = queue[i].ref
        /\ \A w \in Workers : worker'[w].pc = worker[w].pc
                              /\ (~At(w, "idle") => worker'[w].job.ref = worker[w].job.ref)
        /\ confirmed' = confirmed /\ fate' = fate /\ pushed' = pushed
    BY <1>3, ElapseKeeps DEF Elapse
  <2>2. /\ \A w \in Workers : worker[w] # Idle => ~At(w, "idle")
        /\ \A w \in Workers : worker'[w].pc # "idle" => worker'[w] # Idle
    BY <1>0, IdleOrBusy DEF Idle
  <2>3. \A q : InFlight(q) => InFlight(q)'
    BY <2>1, <2>2 DEF InFlight, At
  <2> QED
    BY <2>1, <2>3 DEF FateInv
<1>4. ASSUME NEW r \in Refs, KeyExpires(r) PROVE FateInv'
  BY <1>4 DEF KeyExpires, FateInv, InFlight
<1> QED
  BY <1>0, <1>1, <1>2, <1>3, <1>4, FateWorker DEF Next

\* The types, the requests and the ends of the jobs are as they should in every
\* state.
LEMMA FateHolds == Spec => [](TypeInv /\ SendsInv /\ FateInv)
<1>1. Init => TypeInv /\ SendsInv /\ FateInv
  BY TypeInit DEF Init, SendsInv, FateInv, At, Idle
<1> QED
  BY <1>1, TypeStep, SendsStep, FateStep, PTL DEF Spec

\* No callback disappears without a reason: when nothing of a reference is left
\* in the queue or with a worker, one of its jobs was delivered, given up, lost
\* to Redis or a crash, or skipped for a key that a failure left behind; and no
\* key is left behind otherwise.
THEOREM NeverSilentlyDropped == Spec => []NoSilentDrop
<1>1. FateInv /\ LockInv => NoSilentDrop
  BY DEF FateInv, LockInv, NoSilentDrop
<1> QED
  BY <1>1, FateHolds, LockHolds, PTL DEF Inv

----------------------------------------------------------------------------
\* What the rounds of a job that could be sent have cost by now.
RoundsInv ==
    /\ \A j \in Queued : j.ref \notin InvalidRefs => posts[j.ref] >= PostsBefore(j)
    /\ \A w \in Workers :
           ~At(w, "idle") /\ Mine(w) \notin InvalidRefs =>
               posts[Mine(w)] >= PostsBefore(worker[w].job) + worker[w].sends
    /\ GaveUpAfterAllPosts

\* Requests are only ever added.
LEMMA PostsGrow ==
    ASSUME TypeOK, NEW r, posts' = posts \/ (r \in Refs /\ posts' = [posts EXCEPT ![r] = @ + 1])
    PROVE  \A q \in Refs : posts'[q] \in Nat /\ posts[q] \in Nat /\ posts'[q] >= posts[q]
<1>1. posts \in [Refs -> Nat]
  BY DEF TypeOK
<1> QED
  BY <1>1

\* Each request of a round is counted, and only the fourth round is the last.
LEMMA RoundsWorker ==
    ASSUME TypeInv, SendsInv, RoundsInv, NEW w \in Workers, WorkerStep(w) \/ WorkerFails(w)
    PROVE  RoundsInv'
<1>0. /\ TypeOK /\ posts \in [Refs -> Nat]
      /\ fate \in [Refs -> SUBSET {"delivered", "gave_up", "lost", "forgotten"}]
  BY DEF TypeInv, TypeOK
<1>1. /\ \/ PicksUp(w) \/ Misses(w) \/ LosesHead(w) \/ PutsBack(w)
         \/ GoesOn(w) \/ EndsJob(w) \/ SkipsJob(w)
      /\ \A v \in Workers \ {w} : worker'[v] = worker[v]
  BY JobEffect
<1>2. /\ \A v \in Workers : ~At(v, "idle") => worker[v].job \in Job /\ Mine(v) \in Refs
                                              /\ worker[v].sends \in Nat
      /\ \A j \in Queued : j \in Job /\ j.ref \in Refs
  <2>1. \A v \in Workers : ~At(v, "idle") => worker[v] \in Busy /\ worker[v].job \in Job
    BY <1>0, BusyWorker
  <2>2. \A v \in Workers : ~At(v, "idle") => worker[v].sends \in Nat /\ Mine(v) \in Refs
    BY <2>1 DEF Mine, Busy, Job
  <2>3. \A i \in DOMAIN queue : queue[i] \in Job
    BY <1>0 DEF TypeOK
  <2>4. \A j \in Queued : j \in Job /\ j.ref \in Refs
    BY <2>3 DEF Queued, Job
  <2> QED
    BY <2>1, <2>2, <2>4
<1>3. \A j \in Job : PostsBefore(j) \in Nat
  BY DEF Job, PostsBefore
<1>4. \A v \in Workers \ {w} : /\ At(v, "idle")' <=> At(v, "idle")
                               /\ Mine(v)' = Mine(v)
  BY <1>1 DEF At, Mine
<1>5. /\ \A j \in Queued : j.ref \notin InvalidRefs => posts[j.ref] >= PostsBefore(j)
      /\ \A v \in Workers :
             ~At(v, "idle") /\ Mine(v) \notin InvalidRefs =>
                 posts[Mine(v)] >= PostsBefore(worker[v].job) + worker[v].sends
      /\ \A r \in Refs \ InvalidRefs :
             "gave_up" \in fate[r] => posts[r] >= CallbackMaxAttempts * InlineSends
  BY DEF RoundsInv, GaveUpAfterAllPosts
<1>6. \A r \in Refs : posts'[r] \in Nat /\ posts[r] \in Nat /\ posts'[r] >= posts[r]
  <2>1. posts' = posts \/ (~At(w, "idle") /\ posts' = [posts EXCEPT ![Mine(w)] = @ + 1])
    BY <1>1 DEF PicksUp, Misses, LosesHead, PutsBack, GoesOn, EndsJob, SkipsJob
  <2> DEFINE m == Mine(w)
  <2>2. posts' = posts \/ (m \in Refs /\ posts' = [posts EXCEPT ![m] = @ + 1])
    BY <1>2, <2>1
  <2> HIDE DEF m
  <2> QED
    BY <1>0, <2>2, PostsGrow
<1>7. \A v \in Workers \ {w} :
          ~At(v, "idle")' /\ Mine(v)' \notin InvalidRefs =>
              posts'[Mine(v)'] >= PostsBefore(worker'[v].job) + worker'[v].sends
  <2> SUFFICES ASSUME NEW v \in Workers \ {w}, ~At(v, "idle"), Mine(v) \notin InvalidRefs
               PROVE  posts'[Mine(v)] >= PostsBefore(worker[v].job) + worker[v].sends
    BY <1>1, <1>4
  <2>1. posts[Mine(v)] >= PostsBefore(worker[v].job) + worker[v].sends
    BY <1>5
  <2>2. posts'[Mine(v)] >= posts[Mine(v)] /\ posts'[Mine(v)] \in Nat /\ posts[Mine(v)] \in Nat
    BY <1>2, <1>6
  <2>3. PostsBefore(worker[v].job) \in Nat /\ worker[v].sends \in Nat
    BY <1>2, <1>3
  <2> QED
    BY <2>1, <2>2, <2>3
<1>8. ASSUME NEW j \in Queued, j.ref \notin InvalidRefs
      PROVE  posts'[j.ref] >= PostsBefore(j)
  <2>1. posts[j.ref] >= PostsBefore(j) /\ PostsBefore(j) \in Nat /\ j.ref \in Refs
    BY <1>2, <1>3, <1>5, <1>8
  <2> QED
    BY <1>6, <2>1
<1>9. \A r \in Refs \ InvalidRefs :
          "gave_up" \in fate[r] => posts'[r] >= CallbackMaxAttempts * InlineSends
  BY <1>5, <1>6
<1> DEFINE MyRounds == ~At(w, "idle")' /\ Mine(w)' \notin InvalidRefs =>
                           posts'[Mine(w)'] >= PostsBefore(worker'[w].job) + worker'[w].sends
           MyQueue == \A j \in Queued' : j.ref \notin InvalidRefs => posts'[j.ref] >= PostsBefore(j)
           MyFate == \A r \in Refs \ InvalidRefs :
                        "gave_up" \in fate'[r] => posts'[r] >= CallbackMaxAttempts * InlineSends
<1> SUFFICES MyQueue /\ MyRounds /\ MyFate
  <2>1. \A v \in Workers :
            ~At(v, "idle")' /\ Mine(v)' \notin InvalidRefs =>
                posts'[Mine(v)'] >= PostsBefore(worker'[v].job) + worker'[v].sends
    BY <1>7
  <2> QED
    BY <2>1 DEF RoundsInv, GaveUpAfterAllPosts, PostsBefore
<1>10. CASE PicksUp(w)
  <2>1. Queued = Queued' \cup {Head(queue)}
    BY <1>0, <1>10, QueuedTail DEF PicksUp
  <2>2. fate' = fate /\ posts' = posts /\ worker'[w].job = Head(queue) /\ worker'[w].sends = 0
        /\ Mine(w)' = Head(queue).ref
    BY <1>10 DEF PicksUp, Loaded, Mine
  <2>3. MyRounds
    <3>1. Head(queue) \in Job /\ PostsBefore(Head(queue)) + 0 = PostsBefore(Head(queue))
      BY <1>2, <1>3, <2>1
    <3> QED
      BY <1>8, <2>1, <2>2, <3>1
  <2> QED
    BY <1>8, <1>9, <2>1, <2>2, <2>3
<1>11. CASE LosesHead(w)
  <2>1. Queued = Queued' \cup {Head(queue)} /\ Head(queue).ref \in Refs
    BY <1>0, <1>11, QueuedTail DEF LosesHead, Job
  <2>2. /\ worker' = worker /\ posts' = posts
        /\ fate' = [fate EXCEPT ![Head(queue).ref] = @ \cup {"lost"}]
    BY <1>11 DEF LosesHead, Ends
  <2>3. \A r \in Refs : "gave_up" \in fate'[r] => "gave_up" \in fate[r]
    BY <1>0, <2>1, <2>2
  <2> QED
    BY <1>5, <1>8, <1>9, <2>1, <2>2, <2>3 DEF At, Mine
<1>12. CASE PutsBack(w)
  <2>1. PICK j \in Job : /\ queue' = Append(queue, j)
                         /\ j.ref = Mine(w)
                         /\ PostsBefore(j) = PostsBefore(worker[w].job) + worker[w].sends
    BY <1>12 DEF PutsBack
  <2>2. Queued' = Queued \cup {j}
    BY <1>0, <2>1, QueuedAppend
  <2>3. At(w, "idle")' /\ fate' = fate /\ posts' = posts /\ ~At(w, "idle")
    BY <1>12 DEF PutsBack, At, Idle
  <2>4. j.ref \notin InvalidRefs => posts'[j.ref] >= PostsBefore(j)
    BY <1>5, <2>1, <2>3
  <2> QED
    BY <1>8, <1>9, <2>2, <2>3, <2>4
<1>13. CASE GoesOn(w)
  <2>1. /\ Queued' = Queued /\ Mine(w)' = Mine(w) /\ ~At(w, "idle") /\ fate' = fate
        /\ worker'[w].job = worker[w].job
    BY <1>13 DEF GoesOn, Queued, Mine
  <2>2. MyRounds
    <3> SUFFICES ASSUME Mine(w) \notin InvalidRefs
                 PROVE  posts'[Mine(w)] >= PostsBefore(worker[w].job) + worker'[w].sends
      BY <2>1
    <3> DEFINE m == Mine(w)
               b == PostsBefore(worker[w].job)
    <3>1. posts[m] >= b + worker[w].sends /\ m \in Refs /\ b \in Nat /\ worker[w].sends \in Nat
      BY <1>2, <1>3, <1>5, <2>1
    <3>2. \/ worker'[w].sends = worker[w].sends /\ posts' = posts
          \/ worker'[w].sends = worker[w].sends + 1 /\ posts' = [posts EXCEPT ![m] = @ + 1]
      BY <1>13 DEF GoesOn
    <3> HIDE DEF m, b
    <3>3. posts'[m] >= b + worker'[w].sends
      BY <1>0, <3>1, <3>2
    <3> QED
      BY <3>3 DEF m, b
  <2> QED
    BY <1>8, <1>9, <2>1, <2>2
<1>14. CASE EndsJob(w)
  <2>1. PICK how : Ends(Mine(w), how) /\ (how = "gave_up" => At(w, "release") /\ GivesUp(worker[w].job))
    BY <1>14 DEF EndsJob
  <2>2. At(w, "idle")' /\ Queued' = Queued /\ ~At(w, "idle") /\ Mine(w) \in Refs
    BY <1>2, <1>14 DEF EndsJob, At, Idle, Queued
  <2>3. Mine(w) \notin InvalidRefs /\ how = "gave_up" =>
            posts'[Mine(w)] >= CallbackMaxAttempts * InlineSends
    <3> SUFFICES ASSUME Mine(w) \notin InvalidRefs, how = "gave_up"
                 PROVE  posts'[Mine(w)] >= CallbackMaxAttempts * InlineSends
      OBVIOUS
    <3>1. worker[w].sends = InlineSends /\ worker[w].job.attempt >= CallbackMaxAttempts
      BY <2>1 DEF SendsInv, GivesUp, Mine
    <3>2. worker[w].job.attempt \in 1..CallbackMaxAttempts
      BY <1>2, <2>2 DEF Job
    <3>3. PostsBefore(worker[w].job) + worker[w].sends = CallbackMaxAttempts * InlineSends
      BY <3>1, <3>2 DEF PostsBefore
    <3>4. posts[Mine(w)] >= CallbackMaxAttempts * InlineSends
      BY <1>5, <2>2, <3>3
    <3> QED
      BY <1>6, <2>2, <3>4
  <2>4. MyFate
    <3> DEFINE m == Mine(w)
    <3>1. m \in Refs /\ fate' = [fate EXCEPT ![m] = @ \cup {how}]
          /\ (m \notin InvalidRefs /\ how = "gave_up" => posts'[m] >= CallbackMaxAttempts * InlineSends)
      BY <2>1, <2>2, <2>3 DEF Ends
    <3> HIDE DEF m
    <3>2. \A r \in Refs : "gave_up" \in fate'[r] => "gave_up" \in fate[r] \/ (r = m /\ how = "gave_up")
      BY <1>0, <3>1
    <3> QED
      BY <1>9, <3>1, <3>2
  <2> QED
    BY <1>8, <2>2, <2>4
<1>15. CASE SkipsJob(w)
  <2>1. At(w, "idle")' /\ fate' = fate /\ posts' = posts /\ Queued' = Queued
    BY <1>15 DEF SkipsJob, Queued, At, Idle
  <2> QED
    BY <1>8, <1>9, <2>1
<1>16. CASE Misses(w)
  <2>1. /\ Queued' = Queued /\ worker' = worker /\ posts' = posts /\ fate' = fate
    BY <1>16 DEF Misses, Queued
  <2> QED
    BY <1>5, <1>8, <1>9, <2>1 DEF At, Mine
<1> QED
  BY <1>1, <1>10, <1>11, <1>12, <1>13, <1>14, <1>15, <1>16

\* A new job has cost nothing, and time and expiry send nothing.
LEMMA RoundsStep == TypeInv /\ SendsInv /\ RoundsInv /\ [Next]_vars => RoundsInv'
<1> SUFFICES ASSUME TypeInv, SendsInv, RoundsInv, [Next]_vars PROVE RoundsInv'
  OBVIOUS
<1>0. TypeOK
  BY DEF TypeInv
<1>1. CASE UNCHANGED vars
  BY <1>1 DEF vars, RoundsInv, Queued, At, Mine, GaveUpAfterAllPosts, PostsBefore
<1>2. ASSUME NEW r \in Refs, Enqueue(r) PROVE RoundsInv'
  <2>1. NewJob(r) \in Job /\ NewJob(r).ref = r /\ PostsBefore(NewJob(r)) = 0
    BY DEF NewJob, Job, PostsBefore
  <2>2. Queued' = Queued \cup {NewJob(r)}
    BY <1>0, <1>2, <2>1, QueuedAppend DEF Enqueue
  <2>3. worker' = worker /\ posts' = posts /\ fate' = fate /\ posts[r] \in Nat
    BY <1>0, <1>2 DEF Enqueue, trace, TypeOK
  <2>4. posts[r] >= PostsBefore(NewJob(r))
    BY <2>1, <2>3
  <2> QED
    BY <2>1, <2>2, <2>3, <2>4 DEF RoundsInv, At, Mine, GaveUpAfterAllPosts, PostsBefore
<1>3. ASSUME NEW r \in Refs, Elapse(r) PROVE RoundsInv'
  <2>1. /\ DOMAIN queue' = DOMAIN queue
        /\ \A i \in DOMAIN queue : /\ queue'[i].ref = queue[i].ref
                                   /\ queue'[i].attempt = queue[i].attempt
        /\ \A w \in Workers :
               /\ worker'[w].pc = worker[w].pc
               /\ ~At(w, "idle") => /\ worker'[w].job.ref = worker[w].job.ref
                                    /\ worker'[w].job.attempt = worker[w].job.attempt
                                    /\ worker'[w].sends = worker[w].sends
        /\ posts' = posts /\ fate' = fate
    BY <1>3, ElapseKeeps
  <2>2. \A j \in Queued' : j.ref \notin InvalidRefs => posts'[j.ref] >= PostsBefore(j)
    BY <2>1 DEF Queued, RoundsInv, PostsBefore
  <2>3. \A w \in Workers :
            ~At(w, "idle")' /\ Mine(w)' \notin InvalidRefs =>
                posts'[Mine(w)'] >= PostsBefore(worker'[w].job) + worker'[w].sends
    BY <2>1 DEF At, Mine, RoundsInv, PostsBefore
  <2> QED
    BY <2>1, <2>2, <2>3 DEF RoundsInv, GaveUpAfterAllPosts, PostsBefore
<1>4. ASSUME NEW r \in Refs, KeyExpires(r) PROVE RoundsInv'
  BY <1>4 DEF KeyExpires, RoundsInv, Queued, At, Mine, GaveUpAfterAllPosts, PostsBefore
<1> QED
  BY <1>1, <1>2, <1>3, <1>4, RoundsWorker DEF Next

\* A callback that could be sent is given up only when its four rounds of three
\* requests have all been made, through every requeue and lost key.
THEOREM NeverGivenUpEarly == Spec => []GaveUpAfterAllPosts
<1>1. Init => TypeInv /\ SendsInv /\ RoundsInv
  BY TypeInit DEF Init, SendsInv, RoundsInv, Queued, GaveUpAfterAllPosts, At, Idle
<1>2. RoundsInv => GaveUpAfterAllPosts
  BY DEF RoundsInv
<1> QED
  BY <1>1, <1>2, TypeStep, SendsStep, RoundsStep, PTL DEF Spec

----------------------------------------------------------------------------
(* The budget of a reference: what was sent for it and what its jobs in    *)
(* flight may still send never exceed twelve requests for each job.        *)

QueueShare(j, r) == IF j.ref = r THEN PostsLeft(j) ELSE 0
HandShare(w, r) == IF Mine(w) = r THEN PostsLeft(worker[w].job) - worker[w].sends ELSE 0
Working == {w \in Workers : ~At(w, "idle")}

QueueColumn(r) == [i \in DOMAIN queue |-> QueueShare(queue[i], r)]
HandColumn(r) == [w \in Working |-> HandShare(w, r)]

Budget(r) == CallbackMaxAttempts * InlineSends * pushed[r]

BudgetInv ==
    \A r \in Refs :
        /\ Summable(QueueColumn(r)) /\ Summable(HandColumn(r))
        /\ posts[r] + SumFunction(QueueColumn(r)) + SumFunction(HandColumn(r)) <= Budget(r)

\* A job in the queue has requests left ...
LEMMA QueueShareType ==
    ASSUME NEW j \in Job, NEW r
    PROVE  QueueShare(j, r) \in Nat
  BY DEF QueueShare, PostsLeft, Job

\* ... and so has a job at work, one at least before it is sent.
LEMMA HandShareType ==
    ASSUME TypeInv, NEW w \in Workers, ~At(w, "idle"), NEW r
    PROVE  /\ HandShare(w, r) \in Nat
           /\ At(w, "sending") /\ r = Mine(w) => HandShare(w, r) >= 1
<1>1. worker[w].sends \in 0..InlineSends /\ worker[w].job.attempt \in 1..CallbackMaxAttempts
  BY BusyWorker DEF TypeInv, Busy, Job
<1>2. At(w, "sending") => worker[w].sends < InlineSends
  BY DEF TypeInv, PhaseInv
<1> QED
  BY <1>1, <1>2 DEF HandShare, PostsLeft, Mine

\* Pushing a job adds its share ...
LEMMA AppendShare ==
    ASSUME TypeOK, NEW r, Summable(QueueColumn(r)), NEW j \in Job, queue' = Append(queue, j)
    PROVE  /\ Summable(QueueColumn(r))'
           /\ SumFunction(QueueColumn(r))' = SumFunction(QueueColumn(r)) + QueueShare(j, r)
<1>1. queue \in Seq(Job) /\ Len(queue) \in Nat
  BY DEF TypeOK
<1>2. /\ DOMAIN queue = 1..Len(queue) /\ DOMAIN queue' = DOMAIN queue \cup {Len(queue) + 1}
      /\ \A i \in DOMAIN queue : queue'[i] = queue[i]
      /\ queue'[Len(queue) + 1] = j
  BY <1>1
<1> DEFINE f == QueueColumn(r)
           g == QueueColumn(r)'
           n == Len(queue) + 1
<1>3. /\ n \notin DOMAIN f /\ DOMAIN g = DOMAIN f \cup {n} /\ g[n] = QueueShare(j, r)
      /\ \A i \in DOMAIN f : g[i] = f[i]
  BY <1>1, <1>2 DEF QueueColumn, QueueShare, PostsLeft
<1>4. QueueShare(j, r) \in Int /\ Summable(f)
  BY QueueShareType
<1> HIDE DEF f, g, n
<1>5. SumFunction(g) = SumFunction(f) + g[n] /\ Summable(g)
  BY <1>3, <1>4, SumOfExtended
<1> QED
  BY <1>3, <1>5 DEF f, g

\* ... and popping one takes it away.
LEMMA TailShare ==
    ASSUME TypeOK, NEW r, queue # <<>>, queue' = Tail(queue)
    PROVE  /\ Summable(QueueColumn(r))'
           /\ SumFunction(QueueColumn(r))' = SumFunction(QueueColumn(r)) - QueueShare(Head(queue), r)
<1>1. queue \in Seq(Job) /\ Len(queue) \in Nat /\ Len(queue) > 0
  BY DEF TypeOK
<1> DEFINE f == QueueColumn(r)
           g == QueueColumn(r)'
           N == Len(queue) - 1
<1>2. /\ N \in Nat /\ DOMAIN queue = 1..(N + 1) /\ DOMAIN queue' = 1..N
      /\ \A i \in 1..N : queue'[i] = queue[i + 1] /\ i + 1 \in 1..(N + 1)
      /\ Head(queue) = queue[1] /\ 1 \in 1..(N + 1)
  BY <1>1
<1>3. \A i \in 1..(N + 1) : queue[i] \in Job
  BY <1>1, <1>2
<1> HIDE DEF N
<1>4. \A i \in 1..(N + 1) : QueueShare(queue[i], r) \in Int
  BY <1>3, QueueShareType
<1>5. /\ DOMAIN f = 1..(N + 1) /\ DOMAIN g = 1..N /\ f[1] = QueueShare(Head(queue), r)
      /\ \A i \in 1..(N + 1) : f[i] \in Int
      /\ \A i \in 1..N : g[i] = f[i + 1]
  BY <1>2, <1>4 DEF QueueColumn, QueueShare, PostsLeft
<1>6. IsFiniteSet(1..N) /\ \A i \in 1..N : g[i] \in Int
  <2>1. IsFiniteSet(1..N)
    BY <1>2, FS_Interval
  <2> QED
    BY <1>2, <1>5, <2>1
<1>7. N \in Nat
  BY <1>2
<1> HIDE DEF f, g
<1>8. SumFunction(g) = SumFunction(f) - f[1]
  BY <1>5, <1>7, SumOfTail
<1>9. Summable(g)
  BY <1>5, <1>6 DEF Summable
<1> QED
  BY <1>5, <1>8, <1>9 DEF f, g

\* A worker that takes a job adds its share, one that is done with it takes it
\* away, and one that goes on changes it.
LEMMA HandShares ==
    ASSUME TypeInv, TypeInv', NEW w \in Workers, NEW r, Summable(HandColumn(r)),
           \A v \in Workers \ {w} : worker'[v] = worker[v]
    PROVE  LET before == IF At(w, "idle") THEN 0 ELSE HandShare(w, r)
               after == IF At(w, "idle")' THEN 0 ELSE HandShare(w, r)'
           IN  /\ Summable(HandColumn(r))'
               /\ SumFunction(HandColumn(r))' = SumFunction(HandColumn(r)) - before + after
<1> DEFINE f == HandColumn(r)
           g == HandColumn(r)'
<1>1. \A v \in Workers \ {w} : (At(v, "idle")' <=> At(v, "idle")) /\ HandShare(v, r)' = HandShare(v, r)
  BY DEF At, HandShare, Mine, PostsLeft
<1>2. DOMAIN f = Working /\ DOMAIN g = Working' /\ \A v \in Working \ {w} : v \in Working' /\ g[v] = f[v]
  BY <1>1 DEF HandColumn, Working
<1>3. w \in Working => f[w] = HandShare(w, r) /\ f[w] \in Int
  BY HandShareType DEF HandColumn, Working
<1>4. w \in Working' => g[w] = HandShare(w, r)' /\ g[w] \in Int
  <2>1. w \in Working' => g[w] = HandShare(w, r)'
    BY DEF HandColumn
  <2>2. ~At(w, "idle")' => HandShare(w, r)' \in Int
    <3> SUFFICES ASSUME ~At(w, "idle")' PROVE HandShare(w, r)' \in Int
      OBVIOUS
    <3>1. worker'[w] \in Busy /\ worker'[w].job \in Job
      BY DEF TypeInv, TypeOK, At, Idle, Busy
    <3>2. worker'[w].sends \in Int /\ worker'[w].job.attempt \in Int
      BY <3>1 DEF Busy, Job
    <3> QED
      BY <3>2 DEF HandShare, PostsLeft, Mine
  <2> QED
    BY <2>1, <2>2 DEF Working
<1>5. /\ w \in Working <=> ~At(w, "idle")
      /\ w \in Working' <=> ~At(w, "idle")'
      /\ Working' \ {w} = Working \ {w}
  BY <1>1 DEF Working
<1>6. Summable(f)
  OBVIOUS
<1>7. SumFunction(f) \in Int
  BY <1>6, SumOfSummable
<1> HIDE DEF f, g
<1>8. CASE w \in Working /\ w \in Working'
  <2>1. DOMAIN g = DOMAIN f /\ w \in DOMAIN f /\ \A v \in DOMAIN f : v # w => g[v] = f[v]
    BY <1>2, <1>5, <1>8
  <2>2. SumFunction(g) = SumFunction(f) - f[w] + g[w] /\ Summable(g)
    BY <1>4, <1>6, <1>8, <2>1, SumOfUpdated
  <2> QED
    BY <1>3, <1>4, <1>5, <1>8, <2>2 DEF f, g
<1>9. CASE w \in Working /\ w \notin Working'
  <2>1. DOMAIN g = DOMAIN f \ {w} /\ w \in DOMAIN f /\ \A v \in DOMAIN g : g[v] = f[v]
    BY <1>2, <1>5, <1>9
  <2>2. SumFunction(g) = SumFunction(f) - f[w] /\ Summable(g)
    BY <1>6, <2>1, SumOfReduced
  <2> QED
    BY <1>3, <1>5, <1>7, <1>9, <2>2 DEF f, g
<1>10. CASE w \notin Working /\ w \in Working'
  <2>1. DOMAIN g = DOMAIN f \cup {w} /\ w \notin DOMAIN f /\ \A v \in DOMAIN f : g[v] = f[v]
    BY <1>2, <1>5, <1>10
  <2>2. SumFunction(g) = SumFunction(f) + g[w] /\ Summable(g)
    BY <1>4, <1>6, <1>10, <2>1, SumOfExtended
  <2> QED
    BY <1>4, <1>5, <1>7, <1>10, <2>2 DEF f, g
<1>11. CASE w \notin Working /\ w \notin Working'
  <2>1. f = g
    <3>1. Working' = Working
      BY <1>5, <1>11
    <3> QED
      BY <1>1, <1>11, <3>1 DEF f, g, HandColumn, Working
  <2> QED
    BY <1>5, <1>6, <1>7, <1>11, <2>1 DEF f, g
<1> QED
  BY <1>8, <1>9, <1>10, <1>11

\* What a worker's step takes out of the budget of a job it sends or drops.
LEMMA BudgetWorker ==
    ASSUME TypeInv, TypeInv', SendsInv, BudgetInv,
           NEW w \in Workers, WorkerStep(w) \/ WorkerFails(w)
    PROVE  BudgetInv'
<1> SUFFICES ASSUME NEW r \in Refs
             PROVE  /\ Summable(QueueColumn(r))' /\ Summable(HandColumn(r))'
                    /\ posts'[r] + SumFunction(QueueColumn(r))' + SumFunction(HandColumn(r))' <= Budget(r)'
  BY DEF BudgetInv
<1>0. TypeOK /\ posts \in [Refs -> Nat] /\ pushed \in [Refs -> Nat]
  BY DEF TypeInv, TypeOK
<1>1. /\ \/ PicksUp(w) \/ Misses(w) \/ LosesHead(w) \/ PutsBack(w)
         \/ GoesOn(w) \/ EndsJob(w) \/ SkipsJob(w)
      /\ pushed' = pushed
      /\ \A v \in Workers \ {w} : worker'[v] = worker[v]
  BY JobEffect
<1> DEFINE before == IF At(w, "idle") THEN 0 ELSE HandShare(w, r)
           after == IF At(w, "idle")' THEN 0 ELSE HandShare(w, r)'
           Q == SumFunction(QueueColumn(r))
           H == SumFunction(HandColumn(r))
           Q1 == SumFunction(QueueColumn(r))'
           H1 == SumFunction(HandColumn(r))'
           b == Budget(r)
<1>2. /\ Summable(QueueColumn(r)) /\ Summable(HandColumn(r))
      /\ posts[r] + Q + H <= b
  BY DEF BudgetInv
<1>3. Summable(HandColumn(r))' /\ H1 = H - before + after
  BY <1>1, <1>2, HandShares
<1>4. Q \in Int /\ H \in Int /\ posts[r] \in Nat /\ b \in Nat /\ Budget(r)' = b
  BY <1>0, <1>1, <1>2, SumOfSummable DEF Budget
<1>5. before \in Nat
  BY HandShareType
<1>6. queue' = queue => QueueColumn(r)' = QueueColumn(r)
  BY DEF QueueColumn, QueueShare, PostsLeft
<1>7. \A j \in Job : j.ref = Mine(w) /\ PostsBefore(j) = PostsBefore(worker[w].job) + worker[w].sends
                     /\ ~At(w, "idle") => QueueShare(j, r) = before
  <2> SUFFICES ASSUME NEW j \in Job, j.ref = Mine(w), ~At(w, "idle"),
                      PostsBefore(j) = PostsBefore(worker[w].job) + worker[w].sends
               PROVE  QueueShare(j, r) = HandShare(w, r)
    OBVIOUS
  <2>1. /\ j.attempt \in Int /\ worker[w].job.attempt \in Int /\ worker[w].sends \in Int
    BY BusyWorker DEF TypeInv, Busy, Job
  <2> QED
    BY <2>1 DEF QueueShare, HandShare, PostsLeft, PostsBefore, Mine
<1>8. CASE PicksUp(w)
  <2>1. At(w, "idle") /\ queue # <<>> /\ queue' = Tail(queue) /\ posts' = posts
        /\ worker'[w] = Loaded(Head(queue))
    BY <1>8 DEF PicksUp
  <2>2. Head(queue) \in Job /\ Summable(QueueColumn(r))' /\ Q1 = Q - QueueShare(Head(queue), r)
    BY <1>0, <2>1, QueuedTail, TailShare
  <2>3. PostsLeft(Head(queue)) \in Nat
    BY <2>2 DEF PostsLeft, Job
  <2>4. before = 0 /\ after = QueueShare(Head(queue), r)
    BY <2>1, <2>3 DEF Loaded, At, HandShare, QueueShare, Mine, PostsLeft
  <2>5. QueueShare(Head(queue), r) \in Nat
    BY <2>2, QueueShareType
  <2> HIDE DEF before, after, Q, H, Q1, H1, b
  <2>6. posts'[r] + Q1 + H1 <= b
    BY <1>2, <1>3, <1>4, <2>1, <2>2, <2>4, <2>5
  <2> QED
    BY <1>3, <1>4, <2>2, <2>6 DEF Q1, H1
<1>9. CASE LosesHead(w)
  <2>1. queue # <<>> /\ queue' = Tail(queue) /\ posts' = posts /\ worker' = worker
    BY <1>9 DEF LosesHead
  <2>2. Head(queue) \in Job /\ Summable(QueueColumn(r))' /\ Q1 = Q - QueueShare(Head(queue), r)
    BY <1>0, <2>1, QueuedTail, TailShare
  <2>3. before = after
    BY <2>1 DEF At, HandShare, Mine, PostsLeft
  <2>4. QueueShare(Head(queue), r) \in Nat
    BY <2>2, QueueShareType
  <2> HIDE DEF before, after, Q, H, Q1, H1, b
  <2>5. posts'[r] + Q1 + H1 <= b
    BY <1>2, <1>3, <1>4, <1>5, <2>1, <2>2, <2>3, <2>4, SMTT(30)
  <2> QED
    BY <1>3, <1>4, <2>2, <2>5 DEF Q1, H1
<1>10. CASE PutsBack(w)
  <2>1. PICK j \in Job : /\ queue' = Append(queue, j)
                         /\ j.ref = Mine(w)
                         /\ PostsBefore(j) = PostsBefore(worker[w].job) + worker[w].sends
    BY <1>10 DEF PutsBack
  <2>2. Summable(QueueColumn(r))' /\ Q1 = Q + QueueShare(j, r)
    BY <1>0, <1>2, <2>1, AppendShare
  <2>3. after = 0 /\ posts' = posts /\ QueueShare(j, r) = before
    BY <1>7, <1>10, <2>1 DEF PutsBack, At, Idle
  <2> HIDE DEF before, after, Q, H, Q1, H1, b
  <2>4. posts'[r] + Q1 + H1 <= b
    BY <1>2, <1>3, <1>4, <1>5, <2>2, <2>3
  <2> QED
    BY <1>3, <1>4, <2>2, <2>4 DEF Q1, H1
<1>11. CASE GoesOn(w)
  <2>1. /\ queue' = queue /\ ~At(w, "idle") /\ ~At(w, "idle")'
        /\ worker'[w].job = worker[w].job /\ Mine(w)' = Mine(w)
    BY <1>11 DEF GoesOn, At, Mine
  <2>2. Q1 = Q /\ Summable(QueueColumn(r))'
    BY <1>2, <1>6, <2>1
  <2>3. posts'[r] - posts[r] = before - after /\ posts'[r] \in Nat /\ after \in Int
    <3> DEFINE m == Mine(w)
    <3>1. worker[w].sends \in Int /\ PostsLeft(worker[w].job) \in Int /\ m \in Refs
      BY <2>1, BusyWorker DEF TypeInv, Busy, Job, PostsLeft, Mine
    <3>2. /\ before = IF m = r THEN PostsLeft(worker[w].job) - worker[w].sends ELSE 0
          /\ after = IF m = r THEN PostsLeft(worker[w].job) - worker'[w].sends ELSE 0
      BY <2>1 DEF HandShare, PostsLeft, Mine
    <3>3. \/ worker'[w].sends = worker[w].sends /\ posts' = posts
          \/ worker'[w].sends = worker[w].sends + 1 /\ posts' = [posts EXCEPT ![m] = @ + 1]
      BY <1>11 DEF GoesOn
    <3> HIDE DEF before, after, m
    <3> QED
      BY <1>0, <3>1, <3>2, <3>3
  <2> HIDE DEF before, after, Q, H, Q1, H1, b
  <2>4. posts'[r] + Q1 + H1 <= b
    BY <1>2, <1>3, <1>4, <1>5, <2>2, <2>3
  <2> QED
    BY <1>3, <1>4, <2>2, <2>4 DEF Q1, H1
<1>12. CASE EndsJob(w)
  <2>1. queue' = queue /\ ~At(w, "idle") /\ after = 0
    BY <1>12 DEF EndsJob, At, Idle
  <2>2. Q1 = Q /\ Summable(QueueColumn(r))'
    BY <1>2, <1>6, <2>1
  <2>3. posts'[r] <= posts[r] + before /\ posts'[r] \in Nat
    <3> DEFINE m == Mine(w)
    <3>1. m \in Refs
      BY <2>1, BusyWorker DEF TypeInv, Job, Mine
    <3>2. At(w, "sending") /\ m = r => before >= 1
      BY <2>1, HandShareType
    <3>3. posts' = posts \/ (At(w, "sending") /\ posts' = [posts EXCEPT ![m] = @ + 1])
      BY <1>12 DEF EndsJob
    <3> HIDE DEF before, m
    <3> QED
      BY <1>0, <1>5, <3>1, <3>2, <3>3
  <2> HIDE DEF before, after, Q, H, Q1, H1, b
  <2>4. posts'[r] + Q1 + H1 <= b
    BY <1>2, <1>3, <1>4, <1>5, <2>1, <2>2, <2>3
  <2> QED
    BY <1>3, <1>4, <2>2, <2>4 DEF Q1, H1
<1>13. CASE SkipsJob(w)
  <2>1. queue' = queue /\ posts' = posts /\ after = 0
    BY <1>13 DEF SkipsJob, At, Idle
  <2>2. Q1 = Q /\ Summable(QueueColumn(r))'
    BY <1>2, <1>6, <2>1
  <2> HIDE DEF before, after, Q, H, Q1, H1, b
  <2>3. posts'[r] + Q1 + H1 <= b
    BY <1>2, <1>3, <1>4, <1>5, <2>1, <2>2
  <2> QED
    BY <1>3, <1>4, <2>2, <2>3 DEF Q1, H1
<1>14. CASE Misses(w)
  <2>1. queue' = queue /\ posts' = posts /\ worker' = worker
    BY <1>14 DEF Misses
  <2>2. Q1 = Q /\ Summable(QueueColumn(r))' /\ before = after
    BY <1>2, <1>6, <2>1 DEF At, HandShare, Mine, PostsLeft
  <2> HIDE DEF before, after, Q, H, Q1, H1, b
  <2>3. posts'[r] + Q1 + H1 <= b
    BY <1>2, <1>3, <1>4, <1>5, <2>1, <2>2
  <2> QED
    BY <1>3, <1>4, <2>2, <2>3 DEF Q1, H1
<1> QED
  BY <1>1, <1>8, <1>9, <1>10, <1>11, <1>12, <1>13, <1>14

\* A new job brings its budget of twelve, and time and expiry cost nothing.
LEMMA BudgetStep == TypeInv /\ SendsInv /\ BudgetInv /\ [Next]_vars => BudgetInv'
<1> SUFFICES ASSUME TypeInv, SendsInv, BudgetInv, [Next]_vars PROVE BudgetInv'
  OBVIOUS
<1>0. TypeOK /\ TypeInv'
  BY TypeStep DEF TypeInv
<1>1. ASSUME UNCHANGED <<queue, worker, posts, pushed>> PROVE BudgetInv'
  <2>1. \A r \in Refs : QueueColumn(r)' = QueueColumn(r) /\ HandColumn(r)' = HandColumn(r)
    BY <1>1 DEF QueueColumn, HandColumn, Working, At, HandShare, Mine, QueueShare, PostsLeft
  <2> QED
    BY <1>1, <2>1 DEF BudgetInv, Budget
<1>2. ASSUME NEW q \in Refs, Enqueue(q) PROVE BudgetInv'
  <2> SUFFICES ASSUME NEW r \in Refs
               PROVE  /\ Summable(QueueColumn(r))' /\ Summable(HandColumn(r))'
                      /\ posts'[r] + SumFunction(QueueColumn(r))' + SumFunction(HandColumn(r))' <= Budget(r)'
    BY DEF BudgetInv
  <2>1. NewJob(q) \in Job /\ QueueShare(NewJob(q), r) = IF q = r THEN CallbackMaxAttempts * InlineSends ELSE 0
    BY DEF NewJob, Job, QueueShare, PostsLeft
  <2>2. /\ queue' = Append(queue, NewJob(q)) /\ posts' = posts /\ worker' = worker
        /\ pushed' = [pushed EXCEPT ![q] = @ + 1]
    BY <1>2 DEF Enqueue, trace
  <2>3. /\ Summable(QueueColumn(r)) /\ Summable(HandColumn(r))
        /\ posts[r] + SumFunction(QueueColumn(r)) + SumFunction(HandColumn(r)) <= Budget(r)
    BY DEF BudgetInv
  <2>4. /\ Summable(QueueColumn(r))'
        /\ SumFunction(QueueColumn(r))' = SumFunction(QueueColumn(r)) + QueueShare(NewJob(q), r)
    BY <1>0, <2>1, <2>2, <2>3, AppendShare
  <2>5. HandColumn(r)' = HandColumn(r)
    BY <2>2 DEF HandColumn, Working, At, HandShare, Mine, PostsLeft
  <2>6. /\ SumFunction(QueueColumn(r)) \in Int /\ SumFunction(HandColumn(r)) \in Int
        /\ posts[r] \in Int /\ Budget(r) \in Int
        /\ Budget(r)' = Budget(r) + IF q = r THEN CallbackMaxAttempts * InlineSends ELSE 0
    BY <1>0, <2>2, <2>3, SumOfSummable DEF Budget, TypeOK
  <2> QED
    BY <2>1, <2>2, <2>3, <2>4, <2>5, <2>6
<1>3. ASSUME NEW q \in Refs, Elapse(q) PROVE BudgetInv'
  <2>1. /\ DOMAIN queue' = DOMAIN queue
        /\ \A i \in DOMAIN queue : /\ queue'[i].ref = queue[i].ref
                                   /\ queue'[i].attempt = queue[i].attempt
        /\ \A w \in Workers :
               /\ worker'[w].pc = worker[w].pc
               /\ ~At(w, "idle") => /\ worker'[w].job.ref = worker[w].job.ref
                                    /\ worker'[w].job.attempt = worker[w].job.attempt
                                    /\ worker'[w].sends = worker[w].sends
        /\ posts' = posts /\ pushed' = pushed
    BY <1>3, ElapseKeeps DEF Elapse
  <2>2. \A r \in Refs : QueueColumn(r)' = QueueColumn(r)
    BY <2>1 DEF QueueColumn, QueueShare, PostsLeft
  <2>3. Working' = Working /\ \A w \in Working, r \in Refs : HandShare(w, r)' = HandShare(w, r)
    BY <2>1 DEF Working, At, HandShare, Mine, PostsLeft
  <2>4. \A r \in Refs : HandColumn(r)' = HandColumn(r)
    BY <2>3 DEF HandColumn
  <2> QED
    BY <2>1, <2>2, <2>4 DEF BudgetInv, Budget
<1>4. ASSUME NEW q \in Refs, KeyExpires(q) PROVE BudgetInv'
  BY <1>1, <1>4 DEF KeyExpires
<1>5. CASE UNCHANGED vars
  BY <1>1, <1>5 DEF vars
<1> QED
  BY <1>0, <1>2, <1>3, <1>4, <1>5, BudgetWorker DEF Next

\* At first nothing was produced and nothing sent.
LEMMA BudgetInit == Init => BudgetInv
<1> SUFFICES ASSUME Init, NEW r \in Refs
             PROVE  /\ Summable(QueueColumn(r)) /\ Summable(HandColumn(r))
                    /\ posts[r] + SumFunction(QueueColumn(r)) + SumFunction(HandColumn(r)) <= Budget(r)
  BY DEF BudgetInv
<1>1. DOMAIN QueueColumn(r) = {} /\ DOMAIN HandColumn(r) = {}
  BY DEF Init, QueueColumn, HandColumn, Working, At, Idle
<1>2. /\ SumFunction(QueueColumn(r)) = 0 /\ SumFunction(HandColumn(r)) = 0
      /\ Summable(QueueColumn(r)) /\ Summable(HandColumn(r))
  BY <1>1, SumOfNothing
<1> QED
  BY <1>2 DEF Init, Budget

\* What is left of a budget is never negative.
LEMMA BudgetBounds == TypeInv /\ BudgetInv => PostsBounded
<1> SUFFICES ASSUME TypeInv, BudgetInv, NEW r \in Refs
             PROVE  posts[r] <= Budget(r)
  BY DEF PostsBounded, Budget
<1>1. /\ Summable(QueueColumn(r)) /\ Summable(HandColumn(r))
      /\ posts[r] + SumFunction(QueueColumn(r)) + SumFunction(HandColumn(r)) <= Budget(r)
  BY DEF BudgetInv
<1>2. \A i \in DOMAIN QueueColumn(r) : QueueColumn(r)[i] \in Nat
  <2>1. \A i \in DOMAIN queue : queue[i] \in Job
    BY DEF TypeInv, TypeOK
  <2> QED
    BY <2>1, QueueShareType DEF QueueColumn
<1>3. \A w \in DOMAIN HandColumn(r) : HandColumn(r)[w] \in Nat
  BY HandShareType DEF HandColumn, Working
<1>4. SumFunction(QueueColumn(r)) \in Nat
  BY <1>1, <1>2, SumOfNaturals DEF Summable
<1>5. SumFunction(HandColumn(r)) \in Nat
  BY <1>1, <1>3, SumOfNaturals DEF Summable
<1>6. posts[r] \in Nat /\ Budget(r) \in Nat
  BY DEF TypeInv, TypeOK, Budget
<1> QED
  BY <1>1, <1>4, <1>5, <1>6

\* A job costs the toko at most four rounds of three requests: for every number
\* of jobs of a reference, twelve requests each, through every requeue, crash and
\* lost Redis reply.
THEOREM PostsNeverExceedBudget == Spec => []PostsBounded
<1>1. Init => TypeInv /\ SendsInv /\ BudgetInv
  BY TypeInit, BudgetInit DEF Init, SendsInv, At, Idle
<1> QED
  BY <1>1, TypeStep, SendsStep, BudgetStep, BudgetBounds, PTL DEF Spec
=============================================================================
