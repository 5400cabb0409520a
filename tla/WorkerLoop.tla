------------------------------ MODULE WorkerLoop ------------------------------
(***************************************************************************)
(* The worker process (worker/main.rs, worker/jobs/mod.rs): an iteration   *)
(* serves one job of the first of three lists that has one, process_qris,  *)
(* process_disbursement and send_toko_callback in this order, and the next *)
(* iteration starts over.  The callbacks are those of CallbackDelivery; of *)
(* a job of the other two lists all that counts here is the callback it    *)
(* pushes, or that it fails and is requeued.                               *)
(***************************************************************************)
EXTENDS CallbackDelivery

CONSTANTS
    NoJob,       \* a worker without a job of the first two lists
    ListOf,      \* the list whose job leads to a callback: 1 process_qris, 2 process_disbursement
    Poisoned,    \* jobs that fail whenever they are tried
    MaxMishaps   \* bound: failures around the first two lists

ASSUME LoopAssumption ==
    /\ NoJob \notin Refs
    /\ ListOf \in [Refs -> 1..2]
    /\ Poisoned \subseteq Refs
    /\ MaxMishaps \in Nat

VARIABLES
    lists,    \* the first two lists, of the references their jobs lead to
    hand,     \* the job of these that a worker has
    look,     \* the list that a worker pops next, 3 for send_toko_callback
    mishaps,  \* failures so far around the first two lists
    dropped   \* history: references one of whose jobs was lost before its callback

loop == <<lists, hand, look, mishaps, dropped>>
loopVars == <<vars, loop>>

LoopInit ==
    /\ Init
    /\ lists = [l \in 1..2 |-> <<>>]
    /\ hand = [w \in Workers |-> NoJob]
    /\ look = [w \in Workers |-> 1]
    /\ mishaps = 0
    /\ dropped = {}

Mishap(kind) ==
    /\ kind \in FaultKinds
    /\ mishaps < MaxMishaps
    /\ mishaps' = mishaps + 1

\* The bound on callback jobs covers those that are to come.
Pending == Len(lists[1]) + Len(lists[2]) + Quantify(Workers, LAMBDA w : hand[w] # NoJob)
Room == PushedTotal + Pending < MaxPushes

Free(w) == At(w, "idle") /\ hand[w] = NoJob
Return(w, l) == lists' = [lists EXCEPT ![l] = Append(@, hand[w])]
Drop(w) == hand' = [hand EXCEPT ![w] = NoJob]

----------------------------------------------------------------------------
\* A webhook queues a job.
Arrive(r) ==
    /\ Room
    /\ lists' = [lists EXCEPT ![ListOf[r]] = Append(@, r)]
    /\ UNCHANGED <<vars, hand, look, mishaps, dropped>>

\* LPOP finds a job, which is all this iteration does.
PopAhead(w) ==
    /\ Free(w)
    /\ look[w] \in 1..2
    /\ lists[look[w]] # <<>>
    /\ hand' = [hand EXCEPT ![w] = Head(lists[look[w]])]
    /\ lists' = [lists EXCEPT ![look[w]] = Tail(@)]
    /\ look' = [look EXCEPT ![w] = 1]
    /\ UNCHANGED <<vars, mishaps, dropped>>

\* Slip (not the code): an iteration ends at the first list, found empty or not.
NextListNever(w) == look' = [look EXCEPT ![w] = 1]

\* run_once of a list that gave no job returns false, and the next list is tried.
NextList(w) == look' = [look EXCEPT ![w] = @ + 1]

PassList(w) ==
    /\ Free(w)
    /\ look[w] \in 1..2
    /\ lists[look[w]] = <<>>
    /\ NextList(w)
    /\ UNCHANGED <<vars, lists, hand, mishaps, dropped>>

\* LPOP fails, with effect (the job is lost) or without: the next list is tried.
PopAheadFails(w) ==
    /\ Free(w)
    /\ look[w] \in 1..2
    /\ lists[look[w]] # <<>>
    /\ Mishap("redis")
    /\ \/ UNCHANGED <<lists, dropped>>
       \/ /\ lists' = [lists EXCEPT ![look[w]] = Tail(@)]
          /\ dropped' = dropped \cup {Head(lists[look[w]])}
    /\ NextList(w)
    /\ UNCHANGED <<vars, hand>>

\* The job is done and its callback is pushed.
Serve(w) ==
    /\ hand[w] \in Refs \ Poisoned
    /\ Enqueue(hand[w])
    /\ Drop(w)
    /\ UNCHANGED <<lists, look, mishaps, dropped>>

\* The job fails as it always does, and goes back to the tail of its list.
Fail(w) ==
    /\ hand[w] \in Poisoned
    /\ Return(w, ListOf[hand[w]])
    /\ Drop(w)
    /\ UNCHANGED <<vars, look, mishaps, dropped>>

\* The database or the push of the callback fails and the job goes back, the
\* callback pushed if just the reply was lost; or going back fails as well.
ServeFails(w) ==
    /\ hand[w] \in Refs
    /\ Mishap("redis")
    /\ \/ Return(w, ListOf[hand[w]]) /\ UNCHANGED <<vars, dropped>>
       \/ /\ hand[w] \notin Poisoned
          /\ Room
          /\ Return(w, ListOf[hand[w]])
          /\ Enqueue(hand[w])
          /\ UNCHANGED dropped
       \/ dropped' = dropped \cup {hand[w]} /\ UNCHANGED <<vars, lists>>
    /\ Drop(w)
    /\ UNCHANGED look

\* The process dies with a job of the first two lists.
CrashAhead(w) ==
    /\ hand[w] \in Refs
    /\ Mishap("crash")
    /\ dropped' = dropped \cup {hand[w]}
    /\ Drop(w)
    /\ UNCHANGED <<vars, lists, look>>

\* The third list: a callback is popped, or the iteration ends without a job.
PopCallback(w) ==
    /\ Free(w)
    /\ look[w] = 3
    /\ Pop(w)
    /\ look' = [look EXCEPT ![w] = 1]
    /\ UNCHANGED <<lists, hand, mishaps, dropped>>

PopCallbackFails(w) ==
    /\ Free(w)
    /\ look[w] = 3
    /\ PopFails(w)
    /\ look' = [look EXCEPT ![w] = 1]
    /\ UNCHANGED <<lists, hand, mishaps, dropped>>

FindNothing(w) ==
    /\ Free(w)
    /\ look[w] = 3
    /\ queue = <<>>
    /\ look' = [look EXCEPT ![w] = 1]
    /\ UNCHANGED <<vars, lists, hand, mishaps, dropped>>

\* A worker that has a callback goes on with it.
Deliveries(w) == ~At(w, "idle") /\ WorkerStep(w) /\ UNCHANGED loop
DeliveryFails(w) == ~At(w, "idle") /\ WorkerFails(w) /\ UNCHANGED loop

----------------------------------------------------------------------------
run_once(w) ==
    \/ PopAhead(w) \/ PassList(w) \/ Serve(w) \/ Fail(w)
    \/ PopCallback(w) \/ FindNothing(w) \/ Deliveries(w)

run_once_fails(w) ==
    \/ PopAheadFails(w) \/ ServeFails(w) \/ CrashAhead(w)
    \/ PopCallbackFails(w) \/ DeliveryFails(w)

Waiting(r) == Elapse(r) /\ UNCHANGED loop
Expiry(r) == KeyExpires(r) /\ UNCHANGED loop

LoopNext ==
    \/ \E r \in Refs : Arrive(r) \/ Waiting(r) \/ Expiry(r)
    \/ \E w \in Workers : run_once(w) \/ run_once_fails(w)

LoopSpec == LoopInit /\ [][LoopNext]_loopVars

\* main repeats run_once for ever, and clocks advance.
FairLoop ==
    /\ LoopSpec
    /\ \A w \in Workers : WF_loopVars(run_once(w))
    /\ \A r \in Refs : WF_loopVars(Waiting(r))

----------------------------------------------------------------------------
(* Properties.                                                             *)

\* Callbacks are typed as in CallbackDelivery; the first two lists hold the jobs
\* that arrived, and a worker without one looks at one of the three lists next.
LoopTypeOK ==
    /\ TypeOK
    /\ lists \in [1..2 -> Seq(Refs)]
    /\ hand \in [Workers -> Refs \cup {NoJob}]
    /\ look \in [Workers -> 1..3]
    /\ mishaps \in 0..MaxMishaps
    /\ dropped \subseteq Refs

AheadOf(l, r) ==
    \/ \E k \in 1..l : \E i \in DOMAIN lists[k] : lists[k][i] = r
    \/ ListOf[r] <= l /\ \E w \in Workers : hand[w] = r

\* A poisoned job of an earlier list keeps the workers from list l.
Starved(l) == \E p \in Poisoned : AheadOf(l - 1, p)
Ended(r) == fate[r] # {} \/ r \in dropped

\* Every job is served in the end and every callback comes to an end, through
\* retries, requeues and jobs that fail for ever, unless a job that fails for
\* ever waits in a list served before: within its own list it holds up nobody
\* (jobs/mod.rs run_once, and the requeues of process_qris, process_disbursement
\* and send_toko_callback; task.md:70).  As many webhooks come as MaxPushes lets
\* in: an endless stream of them starves the later lists like a poisoned job.
EveryJobEnds ==
    \A r \in Refs \ Poisoned :
        /\ AheadOf(2, r) ~> (pushed[r] > 0 \/ Ended(r) \/ Starved(ListOf[r]))
        /\ pushed[r] > 0 ~> (Ended(r) \/ Starved(3))
=============================================================================
