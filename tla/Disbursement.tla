---------------------------- MODULE Disbursement ----------------------------
(***************************************************************************)
(* The disbursement of a toko's settled money.  Code outside the           *)
(* repository submits the transfer to the vendor, inserts the pending      *)
(* withdrawal and takes its amount and fees out of settle; the inbound     *)
(* webhook queues the vendor's verdict once per reference; the worker then *)
(* either books the platform fee or refunds the toko, in one database      *)
(* transaction, and queues the callback to the toko.                       *)
(*                                                                         *)
(* The row lock of process_job covers everything between its read and its  *)
(* commit and no other code writes withdrawal rows, so the transaction of  *)
(* a job is one step.                                                      *)
(***************************************************************************)
EXTENDS Integers, Sequences, Functions

CONSTANTS
    Withdrawals,    \* references of withdrawals (partner_ref_no)
    Toko,           \* tenants
    TokoOf,         \* the toko of each withdrawal
    CallbackToko,   \* the toko with a usable callback_url
    Workers,        \* worker processes
    Terms,          \* amount, platform_fee and fee a withdrawal may have
    Notes,          \* how the note of a row may read
    Amounts,        \* amounts a webhook may carry, of the withdrawal or not
    InitialSettle,  \* settle of each toko at first
    MaxMoney,       \* i64::MAX, scaled down for TLC
    FaultKinds,     \* the kinds of failure that may occur
    MaxFaults,      \* bound: failures in a behaviour
    MaxWebhooks     \* bound: webhook calls in a behaviour

ASSUME DisbursementAssumption ==
    /\ TokoOf \in [Withdrawals -> Toko]
    /\ CallbackToko \subseteq Toko
    /\ Terms \subseteq [amount : Nat, platform_fee : Int, fee : Int]
    /\ Notes \subseteq {"fees", "empty", "malformed"}
    /\ Amounts \subseteq Nat
    /\ InitialSettle \in [Toko -> Int]
    /\ MaxMoney \in Nat
    /\ FaultKinds \subseteq {"redis", "db", "crash"}
    /\ MaxFaults \in Nat
    /\ MaxWebhooks \in Nat

Verdicts == {"success", "failed"}

\* status stands for normalize_status of the payload's; "pending" for every
\* status but the two verdicts.
Job == [ref : Withdrawals, status : Verdicts \cup {"pending"}, amount : Amounts]

VARIABLES
    transfer,   \* terms of each withdrawal and verdicts the vendor gave (external)
    sent,       \* webhook calls the vendor has made
    row,        \* the withdrawal rows of the transactions table
    settle,     \* balances.settle of each toko
    income,     \* incomes.amount
    keys,       \* references whose idempotency key is set
    queue,      \* the process_disbursement list
    worker,     \* what each worker process is doing
    callbacks,  \* callback jobs pushed to send_toko_callback
    faults,     \* failures so far
    missed      \* history: verdicts thrown away, by a failure or for want of a row

ledger == <<row, settle, income>>
vars == <<transfer, sent, ledger, keys, queue, worker, callbacks, faults, missed>>

Idle == [pc |-> "idle"]
NoTransfer == [said |-> {}]
NoRow == [status |-> "absent"]

Init ==
    /\ transfer = [x \in Withdrawals |-> NoTransfer]
    /\ sent = 0
    /\ row = [x \in Withdrawals |-> NoRow]
    /\ settle = InitialSettle
    /\ income = 0
    /\ keys = {}
    /\ queue = <<>>
    /\ worker = [w \in Workers |-> Idle]
    /\ callbacks = {}
    /\ faults = 0
    /\ missed = {}

Fault(kind) ==
    /\ kind \in FaultKinds
    /\ faults < MaxFaults
    /\ faults' = faults + 1

Misses(j) == missed' = IF j.status \in Verdicts THEN missed \cup {j.ref} ELSE missed

\* unwrap_or(0).max(0): a fee that is missing or negative counts as none.
Charged(fee) == IF fee < 0 THEN 0 ELSE fee

\* What the submission takes out of settle: amount, platform fee and bank fee.
Deduction(terms) == terms.amount + Charged(terms.platform_fee) + Charged(terms.fee)

----------------------------------------------------------------------------
(* Outside the repository.                                                 *)

\* The transfer is submitted first; the withdrawal is recorded, and settle
\* reduced, once the vendor has accepted it.
SubmitTransfer(x, terms) ==
    /\ transfer[x] = NoTransfer
    /\ transfer' = [transfer EXCEPT ![x] = [said |-> {}, terms |-> terms]]
    /\ UNCHANGED <<sent, ledger, keys, queue, worker, callbacks, faults, missed>>

\* A withdrawal with fees has them in its note.
InsertWithdrawal(x, note) ==
    /\ transfer[x] # NoTransfer
    /\ row[x] = NoRow
    /\ LET terms == transfer[x].terms
       IN  /\ note = "empty" => Deduction(terms) = terms.amount
           /\ settle[TokoOf[x]] >= Deduction(terms)
           /\ row' = [row EXCEPT ![x] = [status |-> "pending", terms |-> terms,
                                         note |-> note]]
           /\ settle' = [settle EXCEPT ![TokoOf[x]] = @ - Deduction(terms)]
    /\ UNCHANGED <<transfer, sent, income, keys, queue, worker, callbacks, faults,
                   missed>>

\* The vendor decides a transfer, and may take the verdict back later.
VendorDecides(x, verdict) ==
    /\ transfer[x] # NoTransfer
    /\ verdict \notin transfer[x].said
    /\ transfer' = [transfer EXCEPT ![x].said = @ \cup {verdict}]
    /\ UNCHANGED <<sent, ledger, keys, queue, worker, callbacks, faults, missed>>

----------------------------------------------------------------------------
(* POST /api/webhook/disbursement.                                         *)

SendsWebhook(j) ==
    /\ transfer[j.ref] # NoTransfer
    /\ j.status \in {"pending"} \cup transfer[j.ref].said
    /\ sent < MaxWebhooks
    /\ sent' = sent + 1

\* SET NX and RPUSH.  Nothing reads the key and the list together, so the
\* handler is one step.
AcceptWebhook(j) ==
    /\ SendsWebhook(j)
    /\ j.ref \notin keys
    /\ keys' = keys \cup {j.ref}
    /\ queue' = Append(queue, j)
    /\ UNCHANGED <<transfer, ledger, worker, callbacks, faults, missed>>

\* A later webhook of the same reference is answered 200 and dropped.
DuplicateWebhook(j) ==
    /\ SendsWebhook(j)
    /\ j.ref \in keys
    /\ UNCHANGED <<transfer, ledger, keys, queue, worker, callbacks, faults, missed>>

\* Redis or the process fails between the two commands, or before the first:
\* the vendor gets an error and may call again, but the key may be set.
WebhookFails(j) ==
    /\ SendsWebhook(j)
    /\ Fault("redis") \/ Fault("crash")
    /\ keys' \in {keys, keys \cup {j.ref}}
    /\ \/ UNCHANGED queue
       \/ j.ref \notin keys /\ j.ref \in keys' /\ queue' = Append(queue, j)
    /\ UNCHANGED <<transfer, ledger, worker, callbacks, missed>>

\* The 24 hour TTL.
KeyExpires(x) ==
    /\ x \in keys
    /\ keys' = keys \ {x}
    /\ UNCHANGED <<transfer, sent, ledger, queue, worker, callbacks, faults, missed>>

----------------------------------------------------------------------------
(* The worker.                                                             *)

At(w, pc) == worker[w].pc = pc
Goto(w, pc) == worker' = [worker EXCEPT ![w].pc = pc]
Finish(w) == worker' = [worker EXCEPT ![w] = Idle]

\* LPOP; a failed reply loses the job.
Dequeue(w) ==
    /\ At(w, "idle")
    /\ queue # <<>>
    /\ queue' = Tail(queue)
    /\ \/ /\ worker' = [worker EXCEPT ![w] = [pc |-> "loaded", job |-> Head(queue)]]
          /\ UNCHANGED <<faults, missed>>
       \/ Fault("redis") /\ Misses(Head(queue)) /\ UNCHANGED worker
    /\ UNCHANGED <<transfer, sent, ledger, keys, callbacks>>

\* Slip (not the code): a row of any status is settled again.
SettlesAnyRow(j) == j.status \in Verdicts /\ row[j.ref] # NoRow

\* The rows a verdict settles.
Settles(j) == j.status \in Verdicts /\ row[j.ref].status = "pending"

\* The fee the note tells: a missing or empty note tells none.
PlatformFee(r) == IF r.note = "empty" THEN 0 ELSE Charged(r.terms.platform_fee)
BankFee(r) == IF r.note = "empty" THEN 0 ELSE Charged(r.terms.fee)

\* Slip (not the code): the refund of the amount in the webhook.
RefundAmountOfWebhook(j) == j.amount + PlatformFee(row[j.ref]) + BankFee(row[j.ref])

\* process_failed gives back what the submission took, whatever amount the
\* webhook carries.
RefundAmount(j) ==
    row[j.ref].terms.amount + PlatformFee(row[j.ref]) + BankFee(row[j.ref])

\* Errors the data causes on every attempt: an unreadable note, or an amount
\* that leaves i64.
Poisoned(j) ==
    /\ Settles(j)
    /\ \/ row[j.ref].note = "malformed"
       \/ j.status = "success" /\ income + PlatformFee(row[j.ref]) > MaxMoney
       \/ /\ j.status = "failed"
          /\ \/ RefundAmount(j) > MaxMoney
             \/ settle[TokoOf[j.ref]] + RefundAmount(j) > MaxMoney

\* Slip (not the code): the note replaced, as for a regular QRIS deposit.
SettledRowKeepingNoNote(r, status) == [r EXCEPT !.status = status, !.note = "replaced"]

\* The note is merged: the row keeps its fees.
SettledRow(r, status) == [r EXCEPT !.status = status]

\* build_disbursement_callback_job.
BuildCallback(w) ==
    IF TokoOf[worker[w].job.ref] \in CallbackToko THEN Goto(w, "callback")
                                                  ELSE Finish(w)

\* COMMIT, whose answer may be lost after it took effect.
Committed(w) ==
    \/ BuildCallback(w) /\ UNCHANGED faults
    \/ Fault("db") /\ Goto(w, "requeue")

\* process_success: the platform earns its fee.
ProcessSuccess(w) ==
    /\ At(w, "loaded")
    /\ LET j == worker[w].job
       IN  /\ Settles(j) /\ ~Poisoned(j)
           /\ j.status = "success"
           /\ row' = [row EXCEPT ![j.ref] = SettledRow(@, "success")]
           /\ income' = income + PlatformFee(row[j.ref])
    /\ Committed(w)
    /\ UNCHANGED <<transfer, sent, settle, keys, queue, callbacks, missed>>

ProcessFailed(w) ==
    /\ At(w, "loaded")
    /\ LET j == worker[w].job
       IN  /\ Settles(j) /\ ~Poisoned(j)
           /\ j.status = "failed"
           /\ row' = [row EXCEPT ![j.ref] = SettledRow(@, "failed")]
           /\ settle' = [settle EXCEPT ![TokoOf[j.ref]] = @ + RefundAmount(j)]
    /\ Committed(w)
    /\ UNCHANGED <<transfer, sent, income, keys, queue, callbacks, missed>>

\* A row that is already decided changes no more; its callback is built from
\* the status of the payload, not of the row.
AlreadyProcessed(w) ==
    /\ At(w, "loaded")
    /\ worker[w].job.status \in Verdicts
    /\ row[worker[w].job.ref].status \in Verdicts
    /\ BuildCallback(w)
    /\ UNCHANGED <<transfer, sent, ledger, keys, queue, callbacks, faults, missed>>

\* Slip (not the code): a status that is no verdict goes on to the callback.
SkipJobButAnnounces(w) ==
    /\ At(w, "loaded")
    /\ worker[w].job.status \notin Verdicts \/ row[worker[w].job.ref] = NoRow
    /\ BuildCallback(w)
    /\ Misses(worker[w].job)
    /\ UNCHANGED <<transfer, sent, ledger, keys, queue, callbacks, faults>>

\* No verdict, or no row: the job is dropped with a log line.
SkipJob(w) ==
    /\ At(w, "loaded")
    /\ worker[w].job.status \notin Verdicts \/ row[worker[w].job.ref] = NoRow
    /\ Finish(w)
    /\ Misses(worker[w].job)
    /\ UNCHANGED <<transfer, sent, ledger, keys, queue, callbacks, faults>>

\* Anything that fails before the commit rolls the transaction back.
JobFails(w) ==
    /\ At(w, "loaded")
    /\ \/ Poisoned(worker[w].job) /\ UNCHANGED faults
       \/ worker[w].job.status \in Verdicts /\ Fault("db")
    /\ Goto(w, "requeue")
    /\ UNCHANGED <<transfer, sent, ledger, keys, queue, callbacks, missed>>

EnqueueCallback(w) ==
    /\ At(w, "callback")
    /\ \/ callbacks' = callbacks \cup {worker[w].job} /\ Finish(w) /\ UNCHANGED faults
       \/ /\ Fault("redis")
          /\ callbacks' \in {callbacks, callbacks \cup {worker[w].job}}
          /\ Goto(w, "requeue")
    /\ UNCHANGED <<transfer, sent, ledger, keys, queue, missed>>

\* Slip (not the code): a failed job is logged and forgotten.
RequeueForgets(w) ==
    /\ At(w, "requeue")
    /\ Finish(w)
    /\ UNCHANGED <<transfer, sent, ledger, keys, queue, callbacks, faults, missed>>

\* The popped job goes back to the tail; a failure of that is only logged.
Requeue(w) ==
    /\ At(w, "requeue")
    /\ \/ queue' = Append(queue, worker[w].job) /\ UNCHANGED <<faults, missed>>
       \/ queue' = Append(queue, worker[w].job) /\ Fault("redis") /\ UNCHANGED missed
       \/ UNCHANGED queue /\ Fault("redis") /\ Misses(worker[w].job)
    /\ Finish(w)
    /\ UNCHANGED <<transfer, sent, ledger, keys, callbacks>>

\* The process dies with the job in hand.
WorkerCrash(w) ==
    /\ ~At(w, "idle")
    /\ Fault("crash")
    /\ Misses(worker[w].job)
    /\ Finish(w)
    /\ UNCHANGED <<transfer, sent, ledger, keys, queue, callbacks>>

----------------------------------------------------------------------------
OutsideStep ==
    \E x \in Withdrawals :
        \/ \E terms \in Terms : SubmitTransfer(x, terms)
        \/ \E note \in Notes : InsertWithdrawal(x, note)
        \/ \E v \in Verdicts : VendorDecides(x, v)

ApiStep ==
    \/ \E j \in Job : AcceptWebhook(j) \/ DuplicateWebhook(j) \/ WebhookFails(j)
    \/ \E x \in Withdrawals : KeyExpires(x)

WorkerStep(w) ==
    \/ Dequeue(w)
    \/ ProcessSuccess(w)
    \/ ProcessFailed(w)
    \/ AlreadyProcessed(w)
    \/ SkipJob(w)
    \/ JobFails(w)
    \/ EnqueueCallback(w)
    \/ Requeue(w)

Next ==
    \/ OutsideStep
    \/ ApiStep
    \/ \E w \in Workers : WorkerStep(w) \/ WorkerCrash(w)

Spec == Init /\ [][Next]_vars

\* The worker loop runs forever; nothing is assumed of the vendor, of the code
\* outside or of the clock.
FairSpec == Spec /\ \A w \in Workers : WF_vars(WorkerStep(w))

----------------------------------------------------------------------------
(* Properties.                                                             *)

\* Every variable keeps its type; rows and transfers carry the terms they were
\* submitted with.
TypeOK ==
    /\ transfer \in [Withdrawals -> {NoTransfer} \cup
                        [said : SUBSET Verdicts, terms : Terms]]
    /\ sent \in Nat
    /\ row \in [Withdrawals -> {NoRow} \cup
                    [status : Verdicts \cup {"pending"}, terms : Terms, note : Notes]]
    /\ settle \in [Toko -> Int]
    /\ income \in Nat
    /\ keys \subseteq Withdrawals
    /\ queue \in Seq(Job)
    /\ worker \in [Workers -> {Idle} \cup
                        [pc : {"loaded", "callback", "requeue"}, job : Job]]
    /\ callbacks \subseteq Job
    /\ faults \in Nat
    /\ missed \subseteq Withdrawals

InStatus(S) == {x \in Withdrawals : row[x].status \in S}
OwnedBy(k) == {x \in Withdrawals : TokoOf[x] = k}

\* What the undecided and the paid withdrawals of a toko took out of settle,
\* and the fees of the paid ones.
TiedUp(k) == SumFunction([x \in InStatus({"pending", "success"}) \cap OwnedBy(k) |->
                            Deduction(row[x].terms)])
FeesEarned == SumFunction([x \in InStatus({"success"}) |->
                                Charged(row[x].terms.platform_fee)])

\* goals.md:391-396 - no rupiah appears or vanishes: what a toko had is in
\* settle or tied up in withdrawals that did not fail, and the platform earns
\* exactly the fees of those that succeeded, whatever amounts the webhooks carry.
EscrowConserved ==
    /\ \A k \in Toko : settle[k] + TiedUp(k) = InitialSettle[k]
    /\ income = FeesEarned

\* The toko is told a verdict only once its ledger has one, and the same unless
\* the vendor itself gave both: the callback of an already processed row repeats
\* the webhook instead of the row (process_disbursement.rs:186-199).
CallbackTellsOutcome ==
    \A cb \in callbacks :
        /\ row[cb.ref].status \in Verdicts
        /\ cb.status = row[cb.ref].status \/ transfer[cb.ref].said = Verdicts

VerdictInPipeline(x) ==
    \/ \E i \in DOMAIN queue : queue[i].ref = x /\ queue[i].status \in Verdicts
    \/ \E w \in Workers : worker[w] # Idle /\ worker[w].job.ref = x
                            /\ worker[w].job.status \in Verdicts

\* A verdict in the pipeline decides its withdrawal in the end, through any
\* number of requeues, unless its note cannot be read, its job is thrown away,
\* or it comes before the row or after the limit of an i64.
VerdictIsApplied ==
    \A x \in Withdrawals :
        VerdictInPipeline(x) ~>
            \/ row[x].status \in Verdicts
            \/ x \in missed
            \/ row[x].status = "pending" /\ row[x].note = "malformed"
            \/ \E v \in Verdicts : Poisoned([ref |-> x, status |-> v])

\* The rows are the withdrawals of the ideal escrow.
Escrow == INSTANCE IdealEscrow WITH
            paid <- InStatus({"success"}),
            refunded <- InStatus({"failed"}),
            held <- InStatus(Verdicts \cup {"pending"})

\* The pipeline implements the ideal escrow: a withdrawal is held, then decided
\* once, however often its webhooks and jobs are repeated.
IdealEscrowLedger == Escrow!Spec
=============================================================================
