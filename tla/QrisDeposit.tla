---------------------------- MODULE QrisDeposit ----------------------------
(***************************************************************************)
(* The life of a QRIS deposit: POST /generate creates a pending row, the   *)
(* QRIS vendor calls the inbound webhook, the handler deduplicates it with *)
(* a Redis key and queues a job, and the worker credits the toko in one    *)
(* database transaction and queues the callback to the toko.  POST         *)
(* /check-status writes the vendor's answer over the row at any moment.    *)
(*                                                                         *)
(* process_job holds SELECT ... FOR UPDATE on the row from its read to its *)
(* commit, and the UPDATE of check_status waits for that lock, so the      *)
(* database transaction of a job is one step.  Every Redis command, every  *)
(* commit and every process may fail between steps.                        *)
(***************************************************************************)
EXTENDS QrisAmounts, Functions, Sequences

CONSTANTS
    Trx,              \* transaction codes (trx_id)
    Toko,             \* tenants
    TokoOf,           \* the toko that owns each transaction
    CallbackToko,     \* the toko with a usable callback_url
    Workers,          \* worker processes
    Callers,          \* concurrent check-status requests
    RequestAmounts,   \* amounts transactions are created with
    PaidAmounts,      \* amounts payers pay
    Outcomes,         \* how the vendor may settle a code
    ExternalPurposes, \* purposes of the rows code outside the repository inserts
    FaultKinds,       \* the kinds of failure that may occur
    MaxFaults,        \* bound: failures in a behaviour
    MaxWebhooks       \* bound: webhook calls in a behaviour

ASSUME QrisAssumption ==
    /\ TokoOf \in [Trx -> Toko]
    /\ CallbackToko \subseteq Toko
    /\ RequestAmounts \subseteq Nat
    /\ PaidAmounts \subseteq Nat
    /\ Outcomes \subseteq {"paid", "failed", "expired"}
    /\ ExternalPurposes \subseteq {"nexusggr_topup", "other", "missing", "malformed"}
    /\ FaultKinds \subseteq {"redis", "db", "crash"}
    /\ MaxFaults \in Nat
    /\ MaxWebhooks \in Nat

Amounts == RequestAmounts \cup PaidAmounts
Purposes == {"generate", "nexusggr_topup", "other", "missing", "malformed"}
VendorStatuses == {"none", "pending", "paid", "failed", "expired"}
TransactionStatuses == {"pending", "success", "failed", "expired"}

\* A queued job, which is also the callback the worker builds from it.
Job == [trx : Trx, status : TransactionStatuses, amount : Amounts]

VARIABLES
    vendor,     \* what the QRIS vendor knows of each code (external)
    sent,       \* webhook calls the vendor has made
    txn,        \* the transactions table
    balance,    \* the balances table: pending and nexusggr per toko
    income,     \* incomes.amount
    keys,       \* codes whose idempotency key is set in Redis
    hooks,      \* webhook handlers between SET NX and RPUSH
    queue,      \* the process_qris list
    worker,     \* what each worker process is doing
    callbacks,  \* callback jobs pushed to send_toko_callback
    checks,     \* check-status requests between the vendor's answer and the UPDATE
    faults,     \* failures so far
    credits,    \* history: committed credits of each code
    acks,       \* history: how success webhooks of each code were answered 200
    lost        \* history: codes whose success job a failure threw away

api    == <<keys, hooks>>
ledger == <<txn, balance, income, credits>>
vars   == <<vendor, sent, ledger, keys, hooks, queue, worker, callbacks,
            checks, faults, acks, lost>>

NoRow  == [status |-> "absent", purpose |-> "missing", amount |-> 0]
Idle   == [pc |-> "idle"]
NewRow(purpose, amount) ==
    [status |-> "pending", purpose |-> purpose, amount |-> amount]

Init ==
    /\ vendor = [t \in Trx |-> [status |-> "none", amount |-> 0]]
    /\ sent = 0
    /\ txn = [t \in Trx |-> NoRow]
    /\ balance = [k \in Toko |-> [pending |-> 0, nexusggr |-> 0]]
    /\ income = 0
    /\ keys = {}
    /\ hooks = {}
    /\ queue = <<>>
    /\ worker = [w \in Workers |-> Idle]
    /\ callbacks = {}
    /\ checks = [c \in Callers |-> Idle]
    /\ faults = 0
    /\ credits = [t \in Trx |-> 0]
    /\ acks = [t \in Trx |-> {}]
    /\ lost = {}

Fault(kind) ==
    /\ kind \in FaultKinds
    /\ faults < MaxFaults
    /\ faults' = faults + 1

\* A failure that throws job j away; only the loss of a success job costs money.
Lose(j) == lost' = IF j.status = "success" THEN lost \cup {j.trx} ELSE lost

----------------------------------------------------------------------------
(* Creating transactions.                                                  *)

\* generate: the vendor allocates the code before the row is inserted; a
\* failure in between leaves a code nobody was shown.
GenerateUpstream(t, amount) ==
    /\ vendor[t].status = "none"
    /\ txn[t] = NoRow
    /\ vendor' = [vendor EXCEPT ![t] = [status |-> "pending", amount |-> amount]]
    /\ UNCHANGED <<sent, ledger, api, queue, worker, callbacks, checks, faults,
                   acks, lost>>

GenerateInsert(t) ==
    /\ vendor[t].status # "none"
    /\ txn[t] = NoRow
    /\ txn' = [txn EXCEPT ![t] = NewRow("generate", vendor[t].amount)]
    /\ UNCHANGED <<vendor, sent, balance, income, credits, api, queue, worker,
                   callbacks, checks, faults, acks, lost>>

\* Rows of other purposes (a NexusGGR top-up above all) come from code
\* outside the repository, which allocates the code the same way.
InsertExternal(t, purpose, amount) ==
    /\ vendor[t].status = "none"
    /\ txn[t] = NoRow
    /\ vendor' = [vendor EXCEPT ![t] = [status |-> "pending", amount |-> amount]]
    /\ txn' = [txn EXCEPT ![t] = NewRow(purpose, amount)]
    /\ UNCHANGED <<sent, balance, income, credits, api, queue, worker, callbacks,
                   checks, faults, acks, lost>>

\* The vendor settles a code once.  A payer sees the code only in the answer
\* of generate, after the INSERT; the paid amount need not be the requested one.
VendorSettles(t, status, amount) ==
    /\ vendor[t].status = "pending"
    /\ status = "paid" => txn[t] # NoRow
    /\ vendor' = [vendor EXCEPT ![t] = [status |-> status, amount |-> amount]]
    /\ UNCHANGED <<sent, ledger, api, queue, worker, callbacks, checks, faults,
                   acks, lost>>

----------------------------------------------------------------------------
(* The inbound webhook.                                                    *)

PublicStatus(status) == IF status = "paid" THEN "success" ELSE status

\* A webhook reports the vendor's current status, or "pending" when delayed.
WebhookJob(t, status) ==
    [trx |-> t, status |-> status, amount |-> vendor[t].amount]
SendsWebhook(t, status) ==
    /\ vendor[t].status # "none"
    /\ status \in {"pending", PublicStatus(vendor[t].status)}
    /\ sent < MaxWebhooks
    /\ sent' = sent + 1

Answer(j, kind) ==
    acks' = IF j.status = "success" THEN [acks EXCEPT ![j.trx] = @ \cup {kind}]
                                    ELSE acks

\* SET key NX: the first webhook of a code goes on to RPUSH ...
AcceptWebhook(t, status) ==
    /\ SendsWebhook(t, status)
    /\ t \notin keys
    /\ keys' = keys \cup {t}
    /\ hooks' = hooks \cup {WebhookJob(t, status)}
    /\ UNCHANGED <<vendor, ledger, queue, worker, callbacks, checks, faults,
                   acks, lost>>

\* ... a later one is answered 200 and dropped, whatever its status ...
DuplicateWebhook(t, status) ==
    /\ SendsWebhook(t, status)
    /\ t \in keys
    /\ Answer(WebhookJob(t, status), "duplicate")
    /\ UNCHANGED <<vendor, ledger, api, queue, worker, callbacks, checks, faults,
                   lost>>

\* ... and when Redis fails the answer is 500, with the key set if only the
\* reply was lost.
RefuseWebhook(t, status) ==
    /\ SendsWebhook(t, status)
    /\ Fault("redis")
    /\ keys' \in {keys, keys \cup {t}}
    /\ UNCHANGED <<vendor, ledger, hooks, queue, worker, callbacks, checks, acks,
                   lost>>

EnqueueWebhook(j) ==
    /\ j \in hooks
    /\ hooks' = hooks \ {j}
    /\ queue' = Append(queue, j)
    /\ Answer(j, "queued")
    /\ UNCHANGED <<vendor, sent, ledger, keys, worker, callbacks, checks, faults,
                   lost>>

\* RPUSH fails or the process dies: the key stays for its whole TTL.  The job
\* may still have reached the list when only the reply was lost.
EnqueueWebhookFails(j) ==
    /\ j \in hooks
    /\ hooks' = hooks \ {j}
    /\ Fault("redis") \/ Fault("crash")
    /\ \/ queue' = Append(queue, j) /\ UNCHANGED lost
       \/ UNCHANGED queue /\ Lose(j)
    /\ UNCHANGED <<vendor, sent, ledger, keys, worker, callbacks, checks, acks>>

\* The 24 hour TTL runs from SET NX; the handler that set the key has pushed
\* its job or failed long before.
KeyExpires(t) ==
    /\ t \in keys
    /\ \A j \in hooks : j.trx # t
    /\ keys' = keys \ {t}
    /\ UNCHANGED <<vendor, sent, ledger, hooks, queue, worker, callbacks, checks,
                   faults, acks, lost>>

----------------------------------------------------------------------------
(* The worker.                                                             *)

At(w, pc) == worker[w].pc = pc
Goto(w, pc) == worker' = [worker EXCEPT ![w].pc = pc]
Finish(w)   == worker' = [worker EXCEPT ![w] = Idle]

\* LPOP removes the job from Redis before anything is done about it.
Dequeue(w) ==
    /\ At(w, "idle")
    /\ queue # <<>>
    /\ queue' = Tail(queue)
    /\ worker' = [worker EXCEPT ![w] = [pc |-> "loaded", job |-> Head(queue)]]
    /\ UNCHANGED <<vendor, sent, ledger, api, callbacks, checks, faults, acks, lost>>

DequeueFails(w) ==
    /\ At(w, "idle")
    /\ queue # <<>>
    /\ Fault("redis")
    /\ queue' = Tail(queue)
    /\ Lose(Head(queue))
    /\ UNCHANGED <<vendor, sent, ledger, api, worker, callbacks, checks, acks>>

\* Slips (not the code): the status check dropped from the row, or from the job.
HandlesSettledRows(j, purpose) ==
    j.status = "success" /\ txn[j.trx].purpose = purpose
HandlesAnyWebhook(j, purpose) ==
    txn[j.trx].status = "pending" /\ txn[j.trx].purpose = purpose

\* The rows a success job credits.
Handles(j, purpose) ==
    /\ j.status = "success"
    /\ txn[j.trx].status = "pending"
    /\ txn[j.trx].purpose = purpose

DepositFits(j) ==
    /\ FeeFits(j.amount)
    /\ balance[TokoOf[j.trx]].pending + DepositPending(j.amount) <= MaxMoney
    /\ income + DepositIncome(j.amount) <= MaxMoney
TopupFits(j) ==
    /\ NexusggrFits(j.amount)
    /\ balance[TokoOf[j.trx]].nexusggr + CalculateNexusggrIncrement(j.amount) <= MaxMoney
    /\ income + TopupIncome(j.amount) <= MaxMoney

\* Slips (not the code): the note merged as for a top-up, the vendor's word for
\* success, a forgotten status.
DepositedRowKeepingPurpose(row, amount) ==
    [status |-> "success", purpose |-> row.purpose, amount |-> amount]
DepositedRowPaid(row, amount) ==
    [status |-> "paid", purpose |-> "missing", amount |-> amount]
ToppedUpRowStillPending(row, amount) == [row EXCEPT !.amount = amount]

\* A regular deposit REPLACES the note, so the row forgets its purpose; a
\* top-up merges three keys into the note and keeps it.
DepositedRow(row, amount) ==
    [status |-> "success", purpose |-> "missing", amount |-> amount]
ToppedUpRow(row, amount) ==
    [status |-> "success", purpose |-> row.purpose, amount |-> amount]

\* build_qris_callback_job: a toko without callback_url is not called.
BuildCallback(w) ==
    IF TokoOf[worker[w].job.trx] \in CallbackToko THEN Goto(w, "callback")
                                                  ELSE Finish(w)

\* The answer to COMMIT may be lost after the commit took effect; run_once
\* then puts the job back.
Committed(w) ==
    \/ BuildCallback(w) /\ UNCHANGED faults
    \/ Fault("db") /\ Goto(w, "requeue")

ProcessRegularDeposit(w) ==
    /\ At(w, "loaded")
    /\ LET j == worker[w].job
           k == TokoOf[j.trx]
       IN  /\ Handles(j, "generate")
           /\ DepositFits(j)
           /\ txn' = [txn EXCEPT ![j.trx] = DepositedRow(@, j.amount)]
           /\ balance' = [balance EXCEPT ![k].pending = @ + DepositPending(j.amount)]
           /\ income' = income + DepositIncome(j.amount)
           /\ credits' = [credits EXCEPT ![j.trx] = @ + 1]
    /\ Committed(w)
    /\ UNCHANGED <<vendor, sent, api, queue, callbacks, checks, acks, lost>>

ProcessNexusggrTopup(w) ==
    /\ At(w, "loaded")
    /\ LET j == worker[w].job
           k == TokoOf[j.trx]
       IN  /\ Handles(j, "nexusggr_topup")
           /\ TopupFits(j)
           /\ txn' = [txn EXCEPT ![j.trx] = ToppedUpRow(@, j.amount)]
           /\ balance' = [balance EXCEPT ![k].nexusggr =
                                @ + CalculateNexusggrIncrement(j.amount)]
           /\ income' = income + TopupIncome(j.amount)
           /\ credits' = [credits EXCEPT ![j.trx] = @ + 1]
    /\ Committed(w)
    /\ UNCHANGED <<vendor, sent, api, queue, callbacks, checks, acks, lost>>

\* Slip (not the code): architecture.md:454 read literally, a row that is not
\* pending is a no-op.
AlreadySuccessIsNoOp(w) ==
    /\ At(w, "loaded")
    /\ worker[w].job.status = "success"
    /\ txn[worker[w].job.trx].status = "success"
    /\ Finish(w)
    /\ UNCHANGED <<vendor, sent, ledger, api, queue, callbacks, checks, faults,
                   acks, lost>>

\* A row that is already success gets its callback (again); the rest of the
\* jobs that are not credited are dropped with a log line.
AlreadySuccess(w) ==
    /\ At(w, "loaded")
    /\ worker[w].job.status = "success"
    /\ txn[worker[w].job.trx].status = "success"
    /\ BuildCallback(w)
    /\ UNCHANGED <<vendor, sent, ledger, api, queue, callbacks, checks, faults,
                   acks, lost>>

Skipped(j) ==
    \/ j.status # "success"
    \/ txn[j.trx].status \in {"absent", "failed", "expired"}
    \/ Handles(j, "other")
    \/ Handles(j, "missing")

SkipJob(w) ==
    /\ At(w, "loaded")
    /\ Skipped(worker[w].job)
    /\ Finish(w)
    /\ UNCHANGED <<vendor, sent, ledger, api, queue, callbacks, checks, faults,
                   acks, lost>>

\* Errors the data itself causes, on this attempt and on every later one.
Poisoned(j) ==
    \/ Handles(j, "malformed")
    \/ Handles(j, "generate") /\ ~DepositFits(j)
    \/ Handles(j, "nexusggr_topup") /\ ~TopupFits(j)

\* Slip (not the code): the callback is built although process_job failed.
JobFailsButAnnounces(w) ==
    /\ At(w, "loaded")
    /\ \/ Poisoned(worker[w].job) /\ UNCHANGED faults
       \/ worker[w].job.status = "success" /\ Fault("db")
    /\ BuildCallback(w)
    /\ UNCHANGED <<vendor, sent, ledger, api, queue, callbacks, checks, acks, lost>>

JobFails(w) ==
    /\ At(w, "loaded")
    /\ \/ Poisoned(worker[w].job) /\ UNCHANGED faults
       \/ worker[w].job.status = "success" /\ Fault("db")
    /\ Goto(w, "requeue")
    /\ UNCHANGED <<vendor, sent, ledger, api, queue, callbacks, checks, acks, lost>>

EnqueueCallback(w) ==
    /\ At(w, "callback")
    /\ callbacks' = callbacks \cup {worker[w].job}
    /\ Finish(w)
    /\ UNCHANGED <<vendor, sent, ledger, api, queue, checks, faults, acks, lost>>

EnqueueCallbackFails(w) ==
    /\ At(w, "callback")
    /\ Fault("redis")
    /\ callbacks' \in {callbacks, callbacks \cup {worker[w].job}}
    /\ Goto(w, "requeue")
    /\ UNCHANGED <<vendor, sent, ledger, api, queue, checks, acks, lost>>

\* Slip (not the code): the failed job is logged and forgotten.
RequeueForgets(w) ==
    /\ At(w, "requeue")
    /\ Finish(w)
    /\ UNCHANGED <<vendor, sent, ledger, api, queue, callbacks, checks, faults,
                   acks, lost>>

\* run_once puts the job it popped back at the tail, without counting attempts.
Requeue(w) ==
    /\ At(w, "requeue")
    /\ queue' = Append(queue, worker[w].job)
    /\ Finish(w)
    /\ UNCHANGED <<vendor, sent, ledger, api, callbacks, checks, faults, acks, lost>>

\* A failed requeue is only logged.
RequeueFails(w) ==
    /\ At(w, "requeue")
    /\ Fault("redis")
    /\ \/ queue' = Append(queue, worker[w].job) /\ UNCHANGED lost
       \/ UNCHANGED queue /\ Lose(worker[w].job)
    /\ Finish(w)
    /\ UNCHANGED <<vendor, sent, ledger, api, callbacks, checks, acks>>

\* The process dies; an open database transaction rolls back.
WorkerCrash(w) ==
    /\ ~At(w, "idle")
    /\ Fault("crash")
    /\ Lose(worker[w].job)
    /\ Finish(w)
    /\ UNCHANGED <<vendor, sent, ledger, api, queue, callbacks, checks, acks>>

----------------------------------------------------------------------------
(* POST /api/v1/check-status.                                              *)

\* The row is read without a lock and the vendor asked ...
CheckAsk(c, t) ==
    /\ checks[c] = Idle
    /\ txn[t] # NoRow
    /\ vendor[t].status # "none"
    /\ checks' = [checks EXCEPT ![c] =
            [pc |-> "answered", trx |-> t, status |-> PublicStatus(vendor[t].status)]]
    /\ UNCHANGED <<vendor, sent, ledger, api, queue, worker, callbacks, faults,
                   acks, lost>>

\* ... and whatever it said is written over the status, whatever that is now.
CheckedRow(row, status) == [row EXCEPT !.status = status]

CheckWrite(c) ==
    /\ checks[c] # Idle
    /\ txn' = [txn EXCEPT ![checks[c].trx] = CheckedRow(@, checks[c].status)]
    /\ checks' = [checks EXCEPT ![c] = Idle]
    /\ UNCHANGED <<vendor, sent, balance, income, credits, api, queue, worker,
                   callbacks, faults, acks, lost>>

\* An unknown status of the vendor, a failed query or a dropped connection.
CheckFails(c) ==
    /\ checks[c] # Idle
    /\ checks' = [checks EXCEPT ![c] = Idle]
    /\ UNCHANGED <<vendor, sent, ledger, api, queue, worker, callbacks, faults,
                   acks, lost>>

----------------------------------------------------------------------------
VendorStep ==
    \E t \in Trx :
        \/ \E s \in Outcomes, a \in PaidAmounts : VendorSettles(t, s, a)
        \/ \E p \in ExternalPurposes, a \in RequestAmounts : InsertExternal(t, p, a)
        \/ \E s \in TransactionStatuses :
              AcceptWebhook(t, s) \/ DuplicateWebhook(t, s) \/ RefuseWebhook(t, s)

ApiStep ==
    \/ \E t \in Trx :
        \/ \E a \in RequestAmounts : GenerateUpstream(t, a)
        \/ GenerateInsert(t)
        \/ KeyExpires(t)
        \/ \E c \in Callers : CheckAsk(c, t)
    \/ \E c \in Callers : CheckWrite(c) \/ CheckFails(c)
    \/ \E j \in hooks : EnqueueWebhook(j) \/ EnqueueWebhookFails(j)

\* What an iteration of the worker loop does when nothing fails.
WorkerStep(w) ==
    \/ Dequeue(w)
    \/ ProcessRegularDeposit(w)
    \/ ProcessNexusggrTopup(w)
    \/ AlreadySuccess(w)
    \/ SkipJob(w)
    \/ JobFails(w)
    \/ EnqueueCallback(w)
    \/ Requeue(w)

WorkerFails(w) ==
    DequeueFails(w) \/ EnqueueCallbackFails(w) \/ RequeueFails(w) \/ WorkerCrash(w)

Next ==
    \/ VendorStep
    \/ ApiStep
    \/ \E w \in Workers : WorkerStep(w) \/ WorkerFails(w)

Spec == Init /\ [][Next]_vars

\* The worker loop never stops (main runs it forever, and a supervisor restarts
\* a dead process); a request handler that got its Redis connection finishes.
\* Nothing is assumed of the vendor, of the clock or of the callers.
Fairness ==
    /\ \A w \in Workers : WF_vars(WorkerStep(w))
    /\ WF_vars(\E j \in hooks : EnqueueWebhook(j))

FairSpec == Spec /\ Fairness

----------------------------------------------------------------------------
(* Properties.                                                             *)

Running(pcs) == [pc : pcs, job : Job]

\* Every variable keeps its type: the tables, the Redis keys and list, and the
\* local state of handlers, requests and workers.
TypeOK ==
    /\ vendor \in [Trx -> [status : VendorStatuses, amount : Amounts \cup {0}]]
    /\ sent \in Nat
    /\ txn \in [Trx -> [status : TransactionStatuses \cup {"absent"},
                        purpose : Purposes, amount : Amounts \cup {0}]]
    /\ balance \in [Toko -> [pending : Int, nexusggr : Int]]
    /\ income \in Int
    /\ keys \subseteq Trx
    /\ hooks \subseteq Job
    /\ queue \in Seq(Job)
    /\ worker \in [Workers -> {Idle} \cup Running({"loaded", "callback", "requeue"})]
    /\ callbacks \subseteq Job
    /\ checks \in [Callers -> {Idle} \cup
                    [pc : {"answered"}, trx : Trx, status : TransactionStatuses]]
    /\ faults \in Nat
    /\ credits \in [Trx -> Nat]
    /\ acks \in [Trx -> SUBSET {"queued", "duplicate"}]
    /\ lost \subseteq Trx

\* goals.md:126 - a retried, requeued, duplicated or re-sent job never credits
\* a transaction twice, whatever fails in between.
CreditedAtMostOnce == \A t \in Trx : credits[t] <= 1

\* With check-status in play only a top-up can be credited twice: a regular
\* deposit erases its purpose with the credit, so no status written over the
\* row afterwards makes it creditable again.
RegularDepositCreditedOnce ==
    \A t \in Trx : credits[t] > 1 => txn[t].purpose = "nexusggr_topup"

\* Whatever check-status writes, money appears only for codes the vendor
\* reported paid, and the row carries the amount that was paid, not the one
\* that was requested.
CreditsArePaid ==
    \A t \in Trx : credits[t] > 0 =>
        /\ vendor[t].status = "paid"
        /\ txn[t].amount = vendor[t].amount

PaidDeposits == {t \in Trx : txn[t].status = "success" /\ txn[t].purpose = "missing"}
PaidTopups == {t \in Trx : txn[t].status = "success" /\ txn[t].purpose = "nexusggr_topup"}
OwnedBy(k) == {t \in Trx : TokoOf[t] = k}

\* What a paid amount is worth, said without the worker's operations: the toko
\* keeps the rest of the percentage, a fraction of a rupiah in its favour; the
\* platform gets what is left; a top-up buys balance at Ggr for 100, half a unit
\* or more rounded up, and leaves a margin below zero when it was too small.
Ceiling(n, d)     == -((-n) \div d)
RoundHalfUp(n, d) == (2 * n + d) \div (2 * d)
TokoShare(amount)     == Ceiling(amount * (100 - FeeTransaction), 100)
PlatformShare(amount) == amount - TokoShare(amount)
Converted(amount)     == RoundHalfUp(100 * amount, Ggr)
Margin(amount)        == amount - 1800

\* What the rows of S are worth to a balance or to the income.
PendingOf(S)  == SumFunction([t \in S |-> TokoShare(txn[t].amount)])
NexusggrOf(S) == SumFunction([t \in S |-> Converted(txn[t].amount)])
FeesOf(S)     == SumFunction([t \in S |-> PlatformShare(txn[t].amount)])
MarginsOf(S)  == SumFunction([t \in S |-> Margin(txn[t].amount)])

\* goals.md:124 - every balance can be traced to transactions: the paid rows
\* alone, at what their amounts are worth, explain each toko's pending and
\* nexusggr balance and the platform income, small top-ups included.
LedgerExplainsBalances ==
    /\ \A k \in Toko :
        /\ balance[k].pending = PendingOf(PaidDeposits \cap OwnedBy(k))
        /\ balance[k].nexusggr = NexusggrOf(PaidTopups \cap OwnedBy(k))
    /\ income = FeesOf(PaidDeposits) + MarginsOf(PaidTopups)

\* A toko is told of a deposit only after the deposit was credited, and with
\* the amount the ledger recorded.
CallbackFollowsCredit ==
    \A cb \in callbacks : credits[cb.trx] = 1 /\ cb.amount = txn[cb.trx].amount

SuccessJobs(t) == {j \in Job : j.trx = t /\ j.status = "success"}
InPipeline(t) ==
    \/ \E i \in DOMAIN queue : queue[i] \in SuccessJobs(t)
    \/ \E w \in Workers : worker[w] # Idle /\ worker[w].job \in SuccessJobs(t)
    \/ \E j \in hooks : j \in SuccessJobs(t)
Supported(t) == txn[t].purpose \in {"generate", "nexusggr_topup"}
Accounted(t) == credits[t] > 0 \/ t \in lost \/ InPipeline(t)

\* A success webhook that was queued stays in the pipeline until it is
\* credited; only the failures that lose a job by design take it away.
NoSilentLoss ==
    \A t \in Trx : "queued" \in acks[t] /\ Supported(t) => Accounted(t)

\* goals.md:363-366 - a success webhook answered 200 leads to the credit: it
\* is in the pipeline or its effect is in the ledger.
AcknowledgedPaymentKept ==
    \A t \in Trx : acks[t] # {} /\ Supported(t) => Accounted(t)

Creditable(t) ==
    \/ txn[t].purpose = "generate" /\ FeeFits(vendor[t].amount)
    \/ txn[t].purpose = "nexusggr_topup" /\ NexusggrFits(vendor[t].amount)

\* A payment in the pipeline is credited eventually, through any number of
\* requeues, unless a failure throws its job away.
PaymentIsCredited ==
    \A t \in Trx : InPipeline(t) /\ Creditable(t) ~> credits[t] > 0 \/ t \in lost

\* goals.md:94 - once a deposit is credited its callback reaches the outbound
\* queue, unless a failure throws the job away in between.
CreditIsAnnounced ==
    \A t \in Trx :
        credits[t] > 0 /\ TokoOf[t] \in CallbackToko
            ~> (\E cb \in callbacks : cb.trx = t) \/ t \in lost

\* The rows marked success are the settled transactions of the ideal ledger.
Ideal == INSTANCE IdealDeposit WITH
            settled <- {t \in Trx : txn[t].status = "success"}

\* Without check-status the whole pipeline implements the ideal ledger.
IdealLedger == Ideal!Spec
============================================================================
