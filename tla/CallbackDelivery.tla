-------------------------- MODULE CallbackDelivery --------------------------
(***************************************************************************)
(* The outbound callback worker (send_toko_callback): a job is popped, a   *)
(* Redis key locks its event and reference, the payload is posted up to    *)
(* three times, and a failed delivery releases the key and comes back      *)
(* later, four attempts in all.  A delivered callback keeps its key for    *)
(* the 24 hour TTL, so later jobs of the same reference are skipped.       *)
(*                                                                         *)
(* Jobs are told apart by their reference (event type and reference); the  *)
(* payload plays no part in the decisions of the code.                     *)
(***************************************************************************)
EXTENDS Naturals, Sequences, SequencesExt

CONSTANTS
    Refs,         \* event type and reference of a callback
    InvalidRefs,  \* those whose URL or headers the client rejects
    Workers,      \* worker processes
    FaultKinds,   \* the kinds of failure that may occur
    MaxFaults,    \* bound: failures in a behaviour
    MaxPushes     \* bound: callback jobs produced in a behaviour

ASSUME CallbackAssumption ==
    /\ InvalidRefs \subseteq Refs
    /\ FaultKinds \subseteq {"redis", "client", "crash"}
    /\ MaxFaults \in Nat
    /\ MaxPushes \in Nat

CallbackMaxAttempts == 4  \* CALLBACK_MAX_ATTEMPTS
InlineSends == 3          \* the first send and INLINE_RETRY_DELAYS_MS

\* due is FALSE while not_before lies in the future.
Job == [ref : Refs, attempt : 1..CallbackMaxAttempts, due : BOOLEAN]
NewJob(r) == [ref |-> r, attempt |-> 1, due |-> TRUE]

VARIABLES
    queue,      \* the send_toko_callback list
    keys,       \* references whose idempotency key is set
    worker,     \* what each worker process is doing
    faults,     \* failures so far
    pushed,     \* history: jobs produced for each reference
    posts,      \* history: requests sent for each reference
    confirmed,  \* history: references whose current key stands for a delivery
    orphaned,   \* history: references whose current key a failure left behind
    fate        \* history: how jobs of each reference ended

redis == <<queue, keys>>
trace == <<posts, confirmed, orphaned, fate>>
vars  == <<queue, keys, worker, faults, pushed, posts, confirmed, orphaned, fate>>

Idle == [pc |-> "idle"]
Loaded(j) == [pc |-> "loaded", job |-> j, sends |-> 0]

Init ==
    /\ queue = <<>>
    /\ keys = {}
    /\ worker = [w \in Workers |-> Idle]
    /\ faults = 0
    /\ pushed = [r \in Refs |-> 0]
    /\ posts = [r \in Refs |-> 0]
    /\ confirmed = {}
    /\ orphaned = {}
    /\ fate = [r \in Refs |-> {}]

Fault(kind) ==
    /\ kind \in FaultKinds
    /\ faults < MaxFaults
    /\ faults' = faults + 1

\* A failure after which nobody holds the key of r any more, if it is still set.
LeavesKey(r) == orphaned' = IF r \in keys' THEN orphaned \cup {r} ELSE orphaned

Ends(r, how) == fate' = [fate EXCEPT ![r] = @ \cup {how}]

At(w, pc) == worker[w].pc = pc
Goto(w, pc) == worker' = [worker EXCEPT ![w].pc = pc]
Finish(w) == worker' = [worker EXCEPT ![w] = Idle]
Holds(w, r) == worker[w].pc \in {"sending", "release"} /\ worker[w].job.ref = r
PushedTotal == SumFunction(pushed)

----------------------------------------------------------------------------
\* process_qris and process_disbursement push a fresh job; they may do so
\* several times for one reference.
Enqueue(r) ==
    /\ PushedTotal < MaxPushes
    /\ queue' = Append(queue, NewJob(r))
    /\ pushed' = [pushed EXCEPT ![r] = @ + 1]
    /\ UNCHANGED <<keys, worker, faults, trace>>

\* Time reaches the not_before of the jobs of a reference.
Elapse(r) ==
    LET passed(j) == IF j.ref = r THEN [j EXCEPT !.due = TRUE] ELSE j
    IN  /\ \/ \E i \in DOMAIN queue : queue[i].ref = r /\ ~queue[i].due
           \/ \E w \in Workers : At(w, "loaded") /\ worker[w].job.ref = r
                                                 /\ ~worker[w].job.due
        /\ queue' = [i \in DOMAIN queue |-> passed(queue[i])]
        /\ worker' = [w \in Workers |-> IF At(w, "loaded")
                                        THEN Loaded(passed(worker[w].job))
                                        ELSE worker[w]]
        /\ UNCHANGED <<keys, faults, pushed, trace>>

\* The key's TTL; no delivery lasts 24 hours.
KeyExpires(r) ==
    /\ r \in keys
    /\ \A w \in Workers : ~Holds(w, r)
    /\ keys' = keys \ {r}
    /\ confirmed' = confirmed \ {r}
    /\ orphaned' = orphaned \ {r}
    /\ UNCHANGED <<queue, worker, faults, pushed, posts, fate>>

----------------------------------------------------------------------------
Pop(w) ==
    /\ At(w, "idle")
    /\ queue # <<>>
    /\ queue' = Tail(queue)
    /\ worker' = [worker EXCEPT ![w] = Loaded(Head(queue))]
    /\ UNCHANGED <<keys, faults, pushed, trace>>

\* LPOP fails, with effect (the job is lost) or without.
PopFails(w) ==
    /\ At(w, "idle")
    /\ queue # <<>>
    /\ Fault("redis")
    /\ \/ queue' = Tail(queue) /\ Ends(Head(queue).ref, "lost")
       \/ UNCHANGED <<queue, fate>>
    /\ UNCHANGED <<keys, worker, pushed, posts, confirmed, orphaned>>

\* Pushing a job back: when Redis fails the error is only logged, and the job
\* is gone unless just the reply was lost.
Push(w, j) ==
    /\ Finish(w)
    /\ \/ queue' = Append(queue, j) /\ UNCHANGED <<faults, fate>>
       \/ queue' = Append(queue, j) /\ Fault("redis") /\ UNCHANGED fate
       \/ UNCHANGED queue /\ Fault("redis") /\ Ends(j.ref, "lost")
    /\ UNCHANGED <<keys, pushed, posts, confirmed, orphaned>>

\* A job that is not due goes back to the tail.
Defer(w) ==
    /\ At(w, "loaded")
    /\ ~worker[w].job.due
    /\ Push(w, worker[w].job)

\* Slip (not the code): SET without NX.
AcquireLockWithoutNx(w) ==
    /\ At(w, "loaded")
    /\ worker[w].job.due
    /\ keys' = keys \cup {worker[w].job.ref}
    /\ Goto(w, "sending")
    /\ UNCHANGED <<queue, faults, pushed, trace>>

AcquireLock(w) ==
    /\ At(w, "loaded")
    /\ worker[w].job.due
    /\ worker[w].job.ref \notin keys
    /\ keys' = keys \cup {worker[w].job.ref}
    /\ Goto(w, "sending")
    /\ UNCHANGED <<queue, faults, pushed, trace>>

\* The key is taken: "callback already delivered or currently locked".
\* Nothing tells a key left behind by a failure from a delivery.
SkipDuplicate(w) ==
    /\ At(w, "loaded")
    /\ worker[w].job.due
    /\ LET r == worker[w].job.ref
       IN  /\ r \in keys
           /\ IF r \in confirmed \/ \E v \in Workers : Holds(v, r)
              THEN UNCHANGED fate
              ELSE Ends(r, "forgotten")
    /\ Finish(w)
    /\ UNCHANGED <<redis, faults, pushed, posts, confirmed, orphaned>>

\* SET NX fails: the job goes back, though the key may have been set.
AcquireFails(w) ==
    /\ At(w, "loaded")
    /\ worker[w].job.due
    /\ Fault("redis")
    /\ keys' \in {keys, keys \cup {worker[w].job.ref}}
    /\ orphaned' = orphaned \cup (keys' \ keys)
    /\ Goto(w, "requeue")
    /\ UNCHANGED <<queue, pushed, posts, confirmed, fate>>

Requeue(w) ==
    /\ At(w, "requeue")
    /\ Push(w, worker[w].job)

\* is_permanent_callback_error: the client rejects the URL or a header before
\* anything is sent.
RejectRequest(w) ==
    /\ At(w, "sending")
    /\ worker[w].job.ref \in InvalidRefs
    /\ Goto(w, "release")
    /\ UNCHANGED <<redis, faults, pushed, trace>>

\* CallbackClient::new fails: the job is dropped and the key released, unless
\* that fails as well.
ClientFails(w) ==
    /\ At(w, "sending")
    /\ worker[w].sends = 0
    /\ Fault("client")
    /\ \/ keys' = keys \ {worker[w].job.ref}
       \/ "redis" \in FaultKinds /\ UNCHANGED keys
    /\ LeavesKey(worker[w].job.ref)
    /\ Ends(worker[w].job.ref, "lost")
    /\ Finish(w)
    /\ UNCHANGED <<queue, pushed, posts, confirmed>>

Posts(w) ==
    /\ At(w, "sending")
    /\ worker[w].job.ref \notin InvalidRefs
    /\ posts' = [posts EXCEPT ![worker[w].job.ref] = @ + 1]
    /\ UNCHANGED <<redis, faults, pushed, orphaned>>

\* Slips (not the code): the key released after a success too; one inline send
\* too many.
DeliverAndRelease(w) ==
    /\ At(w, "sending")
    /\ worker[w].job.ref \notin InvalidRefs
    /\ posts' = [posts EXCEPT ![worker[w].job.ref] = @ + 1]
    /\ keys' = keys \ {worker[w].job.ref}
    /\ confirmed' = confirmed \cup {worker[w].job.ref}
    /\ Ends(worker[w].job.ref, "delivered")
    /\ Finish(w)
    /\ UNCHANGED <<queue, faults, pushed, orphaned>>
SendFailsOnceMore(w) ==
    /\ Posts(w)
    /\ worker' = [worker EXCEPT ![w].sends = @ + 1,
                                ![w].pc = IF worker[w].sends < InlineSends
                                          THEN "sending" ELSE "release"]
    /\ UNCHANGED <<confirmed, fate>>

\* The toko answers 2xx: the key stays, the job is done.
Deliver(w) ==
    /\ Posts(w)
    /\ confirmed' = confirmed \cup {worker[w].job.ref}
    /\ Ends(worker[w].job.ref, "delivered")
    /\ Finish(w)

\* A timeout or another status: the inline retries, then the verdict.
SendFails(w) ==
    /\ Posts(w)
    /\ worker' = [worker EXCEPT ![w].sends = @ + 1,
                                ![w].pc = IF worker[w].sends + 1 < InlineSends
                                          THEN "sending" ELSE "release"]
    /\ UNCHANGED <<confirmed, fate>>

\* Slips (not the code): the attempt limit off by one, either way.
GivesUpLate(j) == j.ref \in InvalidRefs \/ j.attempt > CallbackMaxAttempts
GivesUpEarly(j) == j.ref \in InvalidRefs \/ j.attempt >= CallbackMaxAttempts - 1

GivesUp(j) == j.ref \in InvalidRefs \/ j.attempt >= CallbackMaxAttempts

AfterRelease(w) ==
    /\ UNCHANGED <<queue, pushed, posts, confirmed>>
    /\ IF GivesUp(worker[w].job)
       THEN Finish(w) /\ Ends(worker[w].job.ref, "gave_up")
       ELSE Goto(w, "retry") /\ UNCHANGED fate

\* Slip (not the code): the key of a delivery that did not succeed is kept.
ReleaseForgotten(w) ==
    /\ At(w, "release")
    /\ AfterRelease(w)
    /\ UNCHANGED <<keys, faults, orphaned>>

\* release_callback_lock, then the job is dropped or scheduled again.
ReleaseLock(w) ==
    /\ At(w, "release")
    /\ keys' = keys \ {worker[w].job.ref}
    /\ AfterRelease(w)
    /\ UNCHANGED <<faults, orphaned>>

\* A failed DEL is only logged.
ReleaseFails(w) ==
    /\ At(w, "release")
    /\ Fault("redis")
    /\ keys' \in {keys, keys \ {worker[w].job.ref}}
    /\ LeavesKey(worker[w].job.ref)
    /\ AfterRelease(w)

RetryJob(j) == [j EXCEPT !.attempt = @ + 1, !.due = FALSE]

ScheduleRetry(w) ==
    /\ At(w, "retry")
    /\ Push(w, RetryJob(worker[w].job))

\* The process dies with the job in hand and the key as it stands.
WorkerCrash(w) ==
    /\ ~At(w, "idle")
    /\ Fault("crash")
    /\ Ends(worker[w].job.ref, "lost")
    /\ Finish(w)
    /\ UNCHANGED <<redis, pushed, posts, confirmed>>
    /\ IF Holds(w, worker[w].job.ref) THEN LeavesKey(worker[w].job.ref)
                                      ELSE UNCHANGED orphaned

----------------------------------------------------------------------------
WorkerStep(w) ==
    \/ Pop(w)
    \/ Defer(w)
    \/ AcquireLock(w)
    \/ SkipDuplicate(w)
    \/ Requeue(w)
    \/ RejectRequest(w)
    \/ Deliver(w)
    \/ SendFails(w)
    \/ ReleaseLock(w)
    \/ ScheduleRetry(w)

WorkerFails(w) ==
    PopFails(w) \/ AcquireFails(w) \/ ClientFails(w) \/ ReleaseFails(w) \/ WorkerCrash(w)

Next ==
    \/ \E r \in Refs : Enqueue(r) \/ Elapse(r) \/ KeyExpires(r)
    \/ \E w \in Workers : WorkerStep(w) \/ WorkerFails(w)

Spec == Init /\ [][Next]_vars

----------------------------------------------------------------------------
(* Properties.                                                             *)

\* The list holds jobs of one to four attempts, a worker is in one of its
\* phases with at most three sends made, and every job ended in a known way.
TypeOK ==
    /\ queue \in Seq(Job)
    /\ keys \subseteq Refs
    /\ worker \in [Workers -> {Idle} \cup
            [pc : {"loaded", "requeue", "sending", "release", "retry"},
             job : Job, sends : 0..InlineSends]]
    /\ faults \in Nat
    /\ pushed \in [Refs -> Nat]
    /\ posts \in [Refs -> Nat]
    /\ confirmed \subseteq Refs
    /\ orphaned \subseteq Refs
    /\ fate \in [Refs -> SUBSET {"delivered", "gave_up", "lost", "forgotten"}]

\* The key serialises deliveries: two workers never post one reference at the
\* same time, though each releases the key without looking whose it is.
OneSender ==
    \A v, w \in Workers : \A r \in Refs : Holds(v, r) /\ Holds(w, r) => v = w

\* architecture.md:471 - once the toko has confirmed a callback, no job of that
\* reference posts again before the key expires.
NoPostAfterDelivery == [][\A r \in confirmed : posts'[r] = posts[r]]_vars

\* Each job produced costs the toko at most four rounds of three requests,
\* through every requeue.
PostsBounded ==
    \A r \in Refs : posts[r] <= CallbackMaxAttempts * InlineSends * pushed[r]

\* A callback that could be sent is given up only after all its requests.
GaveUpAfterAllPosts ==
    \A r \in Refs \ InvalidRefs :
        "gave_up" \in fate[r] => posts[r] >= CallbackMaxAttempts * InlineSends

InFlight(r) ==
    \/ \E i \in DOMAIN queue : queue[i].ref = r
    \/ \E w \in Workers : worker[w] # Idle /\ worker[w].job.ref = r

\* No job disappears without a reason: when nothing of a reference is left in
\* flight, one of its jobs was delivered, given up, lost or forgotten.  And a key,
\* which makes every later job of its reference disappear for 24 hours, stands for
\* a delivery or for one under way unless a failure left it behind
\* (send_toko_callback.rs:175-188, where a delivery that fails gives its key back).
NoSilentDrop ==
    /\ \A r \in Refs : pushed[r] > 0 /\ ~InFlight(r) => fate[r] # {}
    /\ \A r \in keys : \/ r \in confirmed \cup orphaned
                      \/ \E w \in Workers : Holds(w, r)

\* send_toko_callback.rs:138 - a job is skipped only when its callback was
\* "already delivered or currently locked" by a delivery under way.
SkippedMeansDelivered == \A r \in Refs : "forgotten" \notin fate[r]
=============================================================================
