------------------------- MODULE QrisDepositProofs -------------------------
(***************************************************************************)
(* Proofs about QrisDeposit for every number of transactions, toko,        *)
(* workers, check-status requests, webhooks and failures.                  *)
(***************************************************************************)
EXTENDS QrisDeposit, SumTheorems, TLAPS

USE AmountsAssumption, QrisAssumption

\* calculate_fee and the top-up conversion yield integers for every amount the
\* model knows, so no arithmetic of the worker leaves Int.
LEMMA MoneyIsInteger ==
    ASSUME NEW a \in Amounts
    PROVE  /\ DepositPending(a) \in Int
           /\ DepositIncome(a) \in Int
           /\ TopupIncome(a) \in Int
           /\ Ggr > 0 => CalculateNexusggrIncrement(a) \in Int
<1>1. a \in Nat
  BY DEF Amounts
<1>2. a * FeeTransaction \in Int /\ a * 100 + (Ggr \div 2) \in Int
  BY <1>1
<1>3. CalculateFee(a) \in Int
  BY <1>2 DEF CalculateFee
<1>4. Ggr > 0 => CalculateNexusggrIncrement(a) \in Int
  BY <1>2 DEF CalculateNexusggrIncrement
<1> QED
  BY <1>1, <1>3, <1>4 DEF DepositPending, DepositIncome, TopupIncome, TopupCost

----------------------------------------------------------------------------
(* Type correctness.  A webhook copies the vendor's amount into its job, so *)
(* the types hold together only with the fact that a known code has one.    *)

VendorHasAmount == \A t \in Trx : vendor[t].status # "none" => vendor[t].amount \in Amounts

WorkerStates == [Workers -> {Idle} \cup Running({"loaded", "callback", "requeue"})]
Rows == [status : TransactionStatuses \cup {"absent"}, purpose : Purposes,
         amount : Amounts \cup {0}]

TypeInv == TypeOK /\ VendorHasAmount

USE DEF WorkerStates, Rows

\* The types hold initially.
LEMMA TypeInit == Init => TypeInv
  BY DEF Init, TypeInv, TypeOK, VendorHasAmount, VendorStatuses, NoRow, Idle, Purposes

\* A failure only counts itself; losing a job only adds its code to lost.
LEMMA FaultType ==
    ASSUME TypeOK, NEW kind, Fault(kind)
    PROVE  faults' \in Nat
  BY DEF TypeOK, Fault

\* A job thrown away is remembered by its transaction.
LEMMA LoseType ==
    ASSUME TypeOK, NEW j \in Job, Lose(j)
    PROVE  lost' \subseteq Trx
  BY DEF TypeOK, Lose, Job

\* Appending a job to the list keeps it a list of jobs.
LEMMA AppendJob ==
    ASSUME TypeOK, NEW j \in Job
    PROVE  Append(queue, j) \in Seq(Job)
  BY DEF TypeOK

\* What the vendor and the API do keeps the types.
LEMMA TypeOutside ==
    ASSUME TypeInv, VendorStep \/ ApiStep
    PROVE  TypeInv'
<1> USE DEF TypeInv, TypeOK, VendorHasAmount
<1>1. ASSUME NEW t \in Trx, NEW s \in Outcomes, NEW a \in PaidAmounts, VendorSettles(t, s, a)
      PROVE  TypeInv'
  BY <1>1 DEF VendorSettles, ledger, api, Amounts, VendorStatuses
<1>2. ASSUME NEW t \in Trx, NEW p \in ExternalPurposes, NEW a \in RequestAmounts,
             InsertExternal(t, p, a)
      PROVE  TypeInv'
  BY <1>2 DEF InsertExternal, api, NewRow, Amounts, VendorStatuses, Purposes,
              TransactionStatuses
<1>3. ASSUME NEW t \in Trx, NEW s \in TransactionStatuses, SendsWebhook(t, s)
      PROVE  WebhookJob(t, s) \in Job /\ sent' \in Nat
  BY <1>3 DEF SendsWebhook, WebhookJob, Job
<1>4. ASSUME NEW t \in Trx, NEW s \in TransactionStatuses, AcceptWebhook(t, s)
      PROVE  TypeInv'
  <2>1. WebhookJob(t, s) \in Job /\ sent' \in Nat
    BY <1>3, <1>4 DEF AcceptWebhook
  <2> QED
    BY <2>1, <1>4 DEF AcceptWebhook, ledger
<1>5. ASSUME NEW t \in Trx, NEW s \in TransactionStatuses, DuplicateWebhook(t, s)
      PROVE  TypeInv'
  <2>1. WebhookJob(t, s).trx = t /\ sent' \in Nat
    BY <1>3, <1>5 DEF DuplicateWebhook, WebhookJob
  <2> QED
    BY <2>1, <1>5 DEF DuplicateWebhook, Answer, ledger, api
<1>6. ASSUME NEW t \in Trx, NEW s \in TransactionStatuses, RefuseWebhook(t, s)
      PROVE  TypeInv'
  <2>1. sent' \in Nat
    BY <1>3, <1>6 DEF RefuseWebhook
  <2> QED
    BY <2>1, <1>6 DEF RefuseWebhook, Fault, ledger
<1>7. ASSUME NEW t \in Trx, NEW a \in RequestAmounts, GenerateUpstream(t, a)
      PROVE  TypeInv'
  BY <1>7 DEF GenerateUpstream, ledger, api, Amounts, VendorStatuses
<1>8. ASSUME NEW t \in Trx, GenerateInsert(t)
      PROVE  TypeInv'
  BY <1>8 DEF GenerateInsert, api, NewRow, TransactionStatuses, Purposes
<1>9. ASSUME NEW t \in Trx, KeyExpires(t)
      PROVE  TypeInv'
  BY <1>9 DEF KeyExpires, ledger
<1>10. ASSUME NEW t \in Trx, NEW c \in Callers, CheckAsk(c, t)
       PROVE  TypeInv'
  <2>1. PublicStatus(vendor[t].status) \in TransactionStatuses
    BY <1>10 DEF CheckAsk, PublicStatus, VendorStatuses, TransactionStatuses
  <2> QED
    BY <2>1, <1>10 DEF CheckAsk, ledger, api
<1>11. ASSUME NEW c \in Callers, CheckWrite(c)
       PROVE  TypeInv'
  <2>1. checks[c] \in [pc : {"answered"}, trx : Trx, status : TransactionStatuses]
    BY <1>11 DEF CheckWrite
  <2>2. CheckedRow(txn[checks[c].trx], checks[c].status) \in Rows
    <3>1. ASSUME NEW row \in Rows, NEW status \in TransactionStatuses
          PROVE  CheckedRow(row, status) \in Rows
      BY DEF CheckedRow
    <3> QED
      BY <2>1, <3>1
  <2>3. txn' \in [Trx -> Rows]
    BY <2>1, <2>2, <1>11 DEF CheckWrite
  <2> QED
    BY <2>3, <1>11 DEF CheckWrite, api
<1>12. ASSUME NEW c \in Callers, CheckFails(c)
       PROVE  TypeInv'
  BY <1>12 DEF CheckFails, ledger, api
<1>13. ASSUME NEW j \in hooks, EnqueueWebhook(j)
       PROVE  TypeInv'
  BY <1>13 DEF EnqueueWebhook, Answer, ledger, Job
<1>14. ASSUME NEW j \in hooks, EnqueueWebhookFails(j)
       PROVE  TypeInv'
  <2>1. j \in Job /\ hooks' \subseteq Job
    BY <1>14 DEF EnqueueWebhookFails
  <2>2. queue' \in Seq(Job)
    BY <2>1, <1>14, AppendJob, ZenonT(40) DEF EnqueueWebhookFails
  <2>3. lost' \subseteq Trx
    BY <2>1, <1>14, LoseType DEF EnqueueWebhookFails
  <2>4. faults' \in Nat
    BY <1>14, FaultType DEF EnqueueWebhookFails
  <2> QED
    BY <2>1, <2>2, <2>3, <2>4, <1>14 DEF EnqueueWebhookFails, ledger
<1> QED
  BY <1>1, <1>2, <1>4, <1>5, <1>6, <1>7, <1>8, <1>9, <1>10, <1>11, <1>12, <1>13, <1>14
     DEF VendorStep, ApiStep

\* What a worker is doing when it is not idle.
LEMMA WorkerHasJob ==
    ASSUME TypeOK, NEW w \in Workers, ~At(w, "idle")
    PROVE  /\ worker[w] \in Running({"loaded", "callback", "requeue"})
           /\ worker[w].job \in Job
  BY DEF TypeOK, At, Idle, Running

\* The three ways a worker's local state changes.
LEMMA WorkerMoves ==
    ASSUME TypeOK, NEW w \in Workers
    PROVE  /\ Finish(w) => worker' \in WorkerStates
           /\ ~At(w, "idle") /\ (Goto(w, "requeue") \/ BuildCallback(w)) =>
                worker' \in WorkerStates
<1>1. Finish(w) => worker' \in WorkerStates
  BY DEF TypeOK, Finish
<1>2. ASSUME ~At(w, "idle"), NEW pc \in {"callback", "requeue"}, Goto(w, pc)
      PROVE  worker' \in WorkerStates
  <2>1. [worker[w] EXCEPT !.pc = pc] \in Running({"loaded", "callback", "requeue"})
    BY <1>2, WorkerHasJob DEF Running
  <2> QED
    BY <1>2, <2>1 DEF TypeOK, Goto
<1> QED
  BY <1>1, <1>2 DEF BuildCallback

\* Adding an integer to one field of one balance keeps the table's type.
LEMMA BalanceType ==
    ASSUME NEW b \in [Toko -> [pending : Int, nexusggr : Int]], NEW k \in Toko, NEW x \in Int
    PROVE  /\ [b EXCEPT ![k].pending = @ + x] \in [Toko -> [pending : Int, nexusggr : Int]]
           /\ [b EXCEPT ![k].nexusggr = @ + x] \in [Toko -> [pending : Int, nexusggr : Int]]
<1>1. /\ [b[k] EXCEPT !.pending = @ + x] \in [pending : Int, nexusggr : Int]
      /\ [b[k] EXCEPT !.nexusggr = @ + x] \in [pending : Int, nexusggr : Int]
  OBVIOUS
<1> QED
  BY <1>1

\* Popping the head of the queue yields a job and leaves a queue of jobs.
LEMMA PopJob ==
    ASSUME TypeOK, queue # <<>>
    PROVE  Head(queue) \in Job /\ Tail(queue) \in Seq(Job)
  BY DEF TypeOK

\* What a worker does, failing or not, keeps the types.
LEMMA TypeWorker ==
    ASSUME TypeInv, NEW w \in Workers, WorkerStep(w) \/ WorkerFails(w)
    PROVE  TypeInv'
<1> USE DEF TypeInv, VendorHasAmount
<1>0. TypeOK
  OBVIOUS
<1>1. CASE Dequeue(w)
  <2>1. worker' \in WorkerStates
    BY <1>0, <1>1, PopJob DEF Dequeue, Running, TypeOK
  <2> QED
    BY <1>0, <1>1, <2>1, PopJob DEF Dequeue, TypeOK, ledger, api
<1>2. CASE DequeueFails(w)
  <2>1. lost' \subseteq Trx /\ faults' \in Nat
    BY <1>0, <1>2, PopJob, LoseType, FaultType DEF DequeueFails
  <2> QED
    BY <1>0, <1>2, <2>1, PopJob DEF DequeueFails, TypeOK, ledger, api
<1>3. CASE ProcessRegularDeposit(w)
  <2> DEFINE j == worker[w].job
  <2>1. ~At(w, "idle") /\ j \in Job
    BY <1>0, <1>3, WorkerHasJob DEF ProcessRegularDeposit, At
  <2>2. j.trx \in Trx /\ j.amount \in Amounts /\ TokoOf[j.trx] \in Toko
    BY <2>1 DEF Job
  <2>3. worker' \in WorkerStates /\ faults' \in Nat
    BY <1>0, <1>3, <2>1, WorkerMoves, SMTT(30) DEF ProcessRegularDeposit, Committed, Fault, TypeOK
  <2>4. DepositedRow(txn[j.trx], j.amount) \in Rows
    BY <2>2 DEF DepositedRow, TransactionStatuses, Purposes
  <2>5. DepositPending(j.amount) \in Int /\ DepositIncome(j.amount) \in Int
    BY <2>2, MoneyIsInteger
  <2>6. txn' = [txn EXCEPT ![j.trx] = DepositedRow(@, j.amount)]
        /\ balance' = [balance EXCEPT ![TokoOf[j.trx]].pending = @ + DepositPending(j.amount)]
        /\ income' = income + DepositIncome(j.amount)
        /\ credits' = [credits EXCEPT ![j.trx] = @ + 1]
        /\ UNCHANGED <<vendor, sent, api, queue, callbacks, checks, acks, lost>>
    BY <1>3 DEF ProcessRegularDeposit
  <2>7. txn' \in [Trx -> Rows]
    BY <1>0, <2>2, <2>4, <2>6 DEF TypeOK
  <2>8. balance' \in [Toko -> [pending : Int, nexusggr : Int]]
    BY <1>0, <2>2, <2>5, <2>6, BalanceType DEF TypeOK
  <2>9. income' \in Int /\ credits' \in [Trx -> Nat]
    <3>1. income \in Int /\ credits \in [Trx -> Nat]
      BY <1>0 DEF TypeOK
    <3>2. income' = income + DepositIncome(j.amount)
          /\ credits' = [credits EXCEPT ![j.trx] = @ + 1]
      BY <2>6
    <3> HIDE DEF j
    <3>3. income' \in Int
      BY <3>1, <3>2, <2>5
    <3>4. credits' \in [Trx -> Nat]
      BY <3>1, <3>2, <2>2
    <3> QED
      BY <3>3, <3>4
  <2> QED
    BY <1>0, <2>3, <2>6, <2>7, <2>8, <2>9 DEF TypeOK, api
<1>4. CASE ProcessNexusggrTopup(w)
  <2> DEFINE j == worker[w].job
  <2>1. ~At(w, "idle") /\ j \in Job
    BY <1>0, <1>4, WorkerHasJob DEF ProcessNexusggrTopup, At
  <2>2. j.trx \in Trx /\ j.amount \in Amounts /\ TokoOf[j.trx] \in Toko
    BY <2>1 DEF Job
  <2>3. worker' \in WorkerStates /\ faults' \in Nat
    BY <1>0, <1>4, <2>1, WorkerMoves, SMTT(30) DEF ProcessNexusggrTopup, Committed, Fault, TypeOK
  <2>4. ToppedUpRow(txn[j.trx], j.amount) \in Rows
    BY <1>0, <2>2 DEF ToppedUpRow, TransactionStatuses, TypeOK
  <2>5. CalculateNexusggrIncrement(j.amount) \in Int /\ TopupIncome(j.amount) \in Int
    BY <1>4, <2>2, MoneyIsInteger DEF ProcessNexusggrTopup, TopupFits, NexusggrFits
  <2>6. txn' = [txn EXCEPT ![j.trx] = ToppedUpRow(@, j.amount)]
        /\ balance' = [balance EXCEPT ![TokoOf[j.trx]].nexusggr = @ + CalculateNexusggrIncrement(j.amount)]
        /\ income' = income + TopupIncome(j.amount)
        /\ credits' = [credits EXCEPT ![j.trx] = @ + 1]
        /\ UNCHANGED <<vendor, sent, api, queue, callbacks, checks, acks, lost>>
    BY <1>4 DEF ProcessNexusggrTopup
  <2>7. txn' \in [Trx -> Rows]
    BY <1>0, <2>2, <2>4, <2>6 DEF TypeOK
  <2>8. balance' \in [Toko -> [pending : Int, nexusggr : Int]]
    BY <1>0, <2>2, <2>5, <2>6, BalanceType DEF TypeOK
  <2>9. income' \in Int /\ credits' \in [Trx -> Nat]
    <3>1. income \in Int /\ credits \in [Trx -> Nat]
      BY <1>0 DEF TypeOK
    <3>2. income' = income + TopupIncome(j.amount)
          /\ credits' = [credits EXCEPT ![j.trx] = @ + 1]
      BY <2>6
    <3> HIDE DEF j
    <3>3. income' \in Int
      BY <3>1, <3>2, <2>5
    <3>4. credits' \in [Trx -> Nat]
      BY <3>1, <3>2, <2>2
    <3> QED
      BY <3>3, <3>4
  <2> QED
    BY <1>0, <2>3, <2>6, <2>7, <2>8, <2>9 DEF TypeOK, api
<1>5. CASE AlreadySuccess(w)
  <2>1. worker' \in WorkerStates
    BY <1>0, <1>5, WorkerMoves DEF AlreadySuccess, At
  <2> QED
    BY <1>0, <1>5, <2>1 DEF AlreadySuccess, TypeOK, ledger, api
<1>6. CASE SkipJob(w)
  <2>1. worker' \in WorkerStates
    BY <1>0, <1>6, WorkerMoves DEF SkipJob
  <2> QED
    BY <1>0, <1>6, <2>1 DEF SkipJob, TypeOK, ledger, api
<1>7. CASE JobFails(w)
  <2>1. worker' \in WorkerStates /\ faults' \in Nat
    BY <1>0, <1>7, WorkerMoves DEF JobFails, At, Fault, TypeOK
  <2> QED
    BY <1>0, <1>7, <2>1 DEF JobFails, TypeOK, ledger, api
<1>8. CASE EnqueueCallback(w)
  <2>1. worker' \in WorkerStates /\ callbacks' \subseteq Job
    BY <1>0, <1>8, WorkerMoves, WorkerHasJob DEF EnqueueCallback, At, TypeOK
  <2> QED
    BY <1>0, <1>8, <2>1 DEF EnqueueCallback, TypeOK, ledger, api
<1>9. CASE EnqueueCallbackFails(w)
  <2>1. callbacks' \subseteq Job
    <3>1. worker[w].job \in Job /\ callbacks \subseteq Job
      BY <1>0, <1>9, WorkerHasJob DEF EnqueueCallbackFails, At, TypeOK
    <3> QED
      BY <3>1, <1>9 DEF EnqueueCallbackFails
  <2>2. worker' \in WorkerStates /\ faults' \in Nat
    BY <1>0, <1>9, WorkerMoves, FaultType DEF EnqueueCallbackFails, At
  <2> QED
    BY <1>0, <1>9, <2>1, <2>2 DEF EnqueueCallbackFails, TypeOK, ledger, api
<1>10. CASE Requeue(w)
  <2>1. worker' \in WorkerStates /\ queue' \in Seq(Job)
    BY <1>0, <1>10, WorkerMoves, WorkerHasJob, SMTT(30) DEF Requeue, At, TypeOK
  <2> QED
    BY <1>0, <1>10, <2>1 DEF Requeue, TypeOK, ledger, api
<1>11. CASE RequeueFails(w)
  <2>1. worker[w].job \in Job /\ queue \in Seq(Job) /\ lost \subseteq Trx
    BY <1>0, <1>11, WorkerHasJob DEF RequeueFails, At, TypeOK
  <2>2. queue' \in Seq(Job)
    BY <1>0, <2>1, <1>11, AppendJob DEF RequeueFails
  <2>3. lost' \subseteq Trx
    BY <1>0, <2>1, <1>11, LoseType DEF RequeueFails
  <2>4. worker' \in WorkerStates /\ faults' \in Nat
    BY <1>0, <1>11, WorkerMoves, FaultType DEF RequeueFails
  <2> QED
    BY <1>0, <1>11, <2>2, <2>3, <2>4 DEF RequeueFails, TypeOK, ledger, api
<1>12. CASE WorkerCrash(w)
  <2>1. worker[w].job \in Job /\ lost \subseteq Trx
    BY <1>0, <1>12, WorkerHasJob DEF WorkerCrash, TypeOK
  <2>2. lost' \subseteq Trx
    BY <1>0, <2>1, <1>12, LoseType DEF WorkerCrash
  <2>3. worker' \in WorkerStates /\ faults' \in Nat
    BY <1>0, <1>12, WorkerMoves DEF WorkerCrash, Fault, TypeOK
  <2> QED
    BY <1>0, <1>12, <2>2, <2>3 DEF WorkerCrash, TypeOK, ledger, api
<1> QED
  BY <1>1, <1>2, <1>3, <1>4, <1>5, <1>6, <1>7, <1>8, <1>9, <1>10, <1>11, <1>12
     DEF WorkerStep, WorkerFails

\* Every step keeps the types.
LEMMA TypeStep == TypeInv /\ [Next]_vars => TypeInv'
<1> SUFFICES ASSUME TypeInv, [Next]_vars PROVE TypeInv'
  OBVIOUS
<1>1. CASE UNCHANGED vars
  BY <1>1 DEF vars, ledger, TypeInv, TypeOK, VendorHasAmount
<1> QED
  BY <1>1, TypeOutside, TypeWorker DEF Next

\* Every reachable state is well typed, whatever fails and in whatever order.
THEOREM TypeCorrect == Spec => []TypeOK
<1>1. Spec => []TypeInv
  BY TypeInit, TypeStep, PTL DEF Spec
<1>2. TypeInv => TypeOK
  BY DEF TypeInv
<1> QED
  BY <1>1, <1>2, PTL

----------------------------------------------------------------------------
(* The four kinds of step that touch the ledger.                           *)

InsertsRow(t) ==
    /\ txn[t] = NoRow
    /\ \E purpose \in Purposes : \E amount :
          txn' = [txn EXCEPT ![t] = NewRow(purpose, amount)]
    /\ UNCHANGED <<balance, income, credits>>

\* Only four kinds of step touch the ledger: inserting a row, the UPDATE of
\* check-status, and the worker's two database transactions.
LEMMA LedgerSteps ==
    ASSUME TypeInv, [Next]_vars
    PROVE  \/ UNCHANGED ledger
           \/ \E t \in Trx : InsertsRow(t)
           \/ \E c \in Callers : CheckWrite(c)
           \/ \E w \in Workers : ProcessRegularDeposit(w) \/ ProcessNexusggrTopup(w)
<1> DEFINE Ledger == \/ UNCHANGED ledger
                     \/ \E t \in Trx : InsertsRow(t)
                     \/ \E c \in Callers : CheckWrite(c)
                     \/ \E w \in Workers : ProcessRegularDeposit(w) \/ ProcessNexusggrTopup(w)
<1>1. CASE UNCHANGED vars
  BY <1>1 DEF vars
<1>2. CASE VendorStep
  <2>1. ASSUME NEW t \in Trx, NEW p \in ExternalPurposes, NEW a \in RequestAmounts,
               InsertExternal(t, p, a)
        PROVE  InsertsRow(t)
    <3>1. p \in Purposes
      BY DEF Purposes
    <3> QED
      BY <2>1, <3>1 DEF InsertExternal, InsertsRow
  <2>2. ASSUME NEW t \in Trx, NEW s \in Outcomes, NEW a \in PaidAmounts, VendorSettles(t, s, a)
        PROVE  UNCHANGED ledger
    BY <2>2 DEF VendorSettles
  <2>3. ASSUME NEW t \in Trx, NEW s \in TransactionStatuses,
               AcceptWebhook(t, s) \/ DuplicateWebhook(t, s) \/ RefuseWebhook(t, s)
        PROVE  UNCHANGED ledger
    BY <2>3 DEF AcceptWebhook, DuplicateWebhook, RefuseWebhook
  <2> QED
    BY <1>2, <2>1, <2>2, <2>3 DEF VendorStep
<1>3. CASE ApiStep
  <2>1. ASSUME NEW t \in Trx, GenerateInsert(t)
        PROVE  InsertsRow(t)
    BY <2>1 DEF GenerateInsert, InsertsRow, Purposes
  <2>2. ASSUME NEW t \in Trx, NEW a \in RequestAmounts, GenerateUpstream(t, a)
        PROVE  UNCHANGED ledger
    BY <2>2 DEF GenerateUpstream
  <2>3. ASSUME NEW t \in Trx, NEW c \in Callers, CheckAsk(c, t)
        PROVE  UNCHANGED ledger
    BY <2>3 DEF CheckAsk
  <2>4. ASSUME NEW t \in Trx, KeyExpires(t)
        PROVE  UNCHANGED ledger
    BY <2>4 DEF KeyExpires
  <2>5. ASSUME NEW c \in Callers, CheckFails(c)
        PROVE  UNCHANGED ledger
    BY <2>5 DEF CheckFails
  <2>6. ASSUME NEW j \in hooks, EnqueueWebhook(j) \/ EnqueueWebhookFails(j)
        PROVE  UNCHANGED ledger
    BY <2>6 DEF EnqueueWebhook, EnqueueWebhookFails
  <2> QED
    BY <1>3, <2>1, <2>2, <2>3, <2>4, <2>5, <2>6 DEF ApiStep
<1>4. ASSUME NEW w \in Workers, WorkerStep(w) \/ WorkerFails(w)
      PROVE  Ledger
  BY <1>4 DEF WorkerStep, WorkerFails, Dequeue, AlreadySuccess, SkipJob, JobFails,
     EnqueueCallback, Requeue, DequeueFails, EnqueueCallbackFails, RequeueFails, WorkerCrash
<1> QED
  BY <1>1, <1>2, <1>3, <1>4 DEF Next

\* A crediting step in the form the proofs below use: some row is pending, is
\* of a purpose the worker credits, and becomes success with one credit more.
Credits(t, row) ==
    /\ txn[t].status = "pending"
    /\ row.status = "success"
    /\ \/ txn[t].purpose = "generate" /\ row.purpose = "missing"
       \/ txn[t].purpose = "nexusggr_topup" /\ row.purpose = "nexusggr_topup"
    /\ txn' = [txn EXCEPT ![t] = row]
    /\ credits' = [credits EXCEPT ![t] = @ + 1]

\* Each of the worker's two database transactions credits a row that is pending.
LEMMA CreditSteps ==
    ASSUME TypeInv, NEW w \in Workers, ProcessRegularDeposit(w) \/ ProcessNexusggrTopup(w)
    PROVE  \E t \in Trx, row \in Rows : Credits(t, row)
<1> DEFINE j == worker[w].job
<1>1. TypeOK /\ j.trx \in Trx /\ j.amount \in Amounts
  BY WorkerHasJob DEF TypeInv, ProcessRegularDeposit, ProcessNexusggrTopup, At, Job
<1>2. DepositedRow(txn[j.trx], j.amount) \in Rows
  BY <1>1 DEF DepositedRow, TransactionStatuses, Purposes
<1>3. ToppedUpRow(txn[j.trx], j.amount) \in Rows
  BY <1>1 DEF ToppedUpRow, TransactionStatuses, TypeOK
<1>4. ProcessRegularDeposit(w) => Credits(j.trx, DepositedRow(txn[j.trx], j.amount))
  BY <1>1 DEF ProcessRegularDeposit, Handles, DepositedRow, Credits, TypeOK
<1>5. ProcessNexusggrTopup(w) => Credits(j.trx, ToppedUpRow(txn[j.trx], j.amount))
  BY <1>1 DEF ProcessNexusggrTopup, Handles, ToppedUpRow, Credits, TypeOK
<1> QED
  BY <1>1, <1>2, <1>3, <1>4, <1>5

----------------------------------------------------------------------------
(* A regular deposit is credited once, whatever check-status writes.       *)

\* A row that was credited as a regular deposit no longer has a purpose the
\* worker knows, and a row that does not exist yet has no credit.
CreditInv ==
    \A t \in Trx :
        /\ txn[t].status = "absent" => credits[t] = 0
        /\ credits[t] > 0 => txn[t].purpose \in {"missing", "nexusggr_topup"}
        /\ credits[t] > 1 => txn[t].purpose = "nexusggr_topup"

\* Every step keeps this, the UPDATE of check-status included.
LEMMA CreditInvStep == TypeInv /\ CreditInv /\ [Next]_vars => CreditInv'
<1> SUFFICES ASSUME TypeInv, CreditInv, [Next]_vars PROVE CreditInv'
  OBVIOUS
<1>0. txn \in [Trx -> Rows] /\ credits \in [Trx -> Nat]
  BY DEF TypeInv, TypeOK
<1>1. CASE UNCHANGED ledger
  BY <1>1 DEF ledger, CreditInv
<1>2. ASSUME NEW t \in Trx, InsertsRow(t)
      PROVE  CreditInv'
  <2>1. credits[t] = 0
    BY <1>2 DEF InsertsRow, NoRow, CreditInv
  <2> QED
    BY <1>0, <1>2, <2>1 DEF InsertsRow, NewRow, CreditInv
<1>3. ASSUME NEW c \in Callers, CheckWrite(c)
      PROVE  CreditInv'
  <2>1. checks[c].trx \in Trx /\ checks[c].status \in TransactionStatuses
    BY <1>3 DEF CheckWrite, TypeInv, TypeOK
  <2>2. \A t \in Trx : txn'[t].purpose = txn[t].purpose
    BY <1>0, <1>3, <2>1 DEF CheckWrite, CheckedRow
  <2>3. \A t \in Trx : txn'[t].status = "absent" => txn[t].status = "absent"
    BY <1>0, <1>3, <2>1 DEF CheckWrite, CheckedRow, TransactionStatuses
  <2> QED
    BY <1>3, <2>2, <2>3 DEF CheckWrite, CreditInv
<1>4. ASSUME NEW t \in Trx, NEW row \in Rows, Credits(t, row)
      PROVE  CreditInv'
  BY <1>0, <1>4 DEF Credits, CreditInv
<1> QED
  BY <1>1, <1>2, <1>3, <1>4, LedgerSteps, CreditSteps

\* For any number of check-status requests, duplicated webhooks, requeues and
\* failures, only a top-up can be credited more than once.
THEOREM RegularDepositOnce == Spec => []RegularDepositCreditedOnce
<1>1. Init => CreditInv
  BY DEF Init, CreditInv, NoRow
<1>2. CreditInv => RegularDepositCreditedOnce
  BY DEF CreditInv, RegularDepositCreditedOnce
<1> QED
  BY <1>1, <1>2, TypeInit, TypeStep, CreditInvStep, PTL DEF Spec

----------------------------------------------------------------------------
(* Without check-status every transaction is credited at most once.        *)

\* The status column and the number of credits say the same thing.
OnceInv == \A t \in Trx : credits[t] = IF txn[t].status = "success" THEN 1 ELSE 0

\* Without check-status every step keeps this.
LEMMA OnceInvStep ==
    ASSUME Callers = {}
    PROVE  TypeInv /\ OnceInv /\ [Next]_vars => OnceInv'
<1> SUFFICES ASSUME TypeInv, OnceInv, [Next]_vars PROVE OnceInv'
  OBVIOUS
<1>0. txn \in [Trx -> Rows] /\ credits \in [Trx -> Nat]
  BY DEF TypeInv, TypeOK
<1>1. CASE UNCHANGED ledger
  BY <1>1 DEF ledger, OnceInv
<1>2. ASSUME NEW t \in Trx, InsertsRow(t)
      PROVE  OnceInv'
  BY <1>0, <1>2 DEF InsertsRow, NoRow, NewRow, OnceInv
<1>3. ASSUME NEW t \in Trx, NEW row \in Rows, Credits(t, row)
      PROVE  OnceInv'
  BY <1>0, <1>3 DEF Credits, OnceInv
<1> QED
  BY <1>1, <1>2, <1>3, LedgerSteps, CreditSteps

\* Duplicated webhooks, an expired key, a requeue after a lost commit answer or
\* a lost callback push, several workers: none of them credits a code twice.
THEOREM CreditedOnce ==
    ASSUME Callers = {}
    PROVE  Spec => []CreditedAtMostOnce
<1>1. Init => OnceInv
  BY DEF Init, OnceInv, NoRow
<1>2. OnceInv => CreditedAtMostOnce
  BY DEF OnceInv, CreditedAtMostOnce
<1> QED
  BY <1>1, <1>2, TypeInit, TypeStep, OnceInvStep, PTL DEF Spec

----------------------------------------------------------------------------
(* Without check-status the pipeline implements the ideal ledger.          *)

Settled == {t \in Trx : txn[t].status = "success"}

\* The empty tables are the empty ideal ledger.
LEMMA IdealInit == Init => Ideal!Init
  BY DEF Init, Ideal!Init, NoRow

\* A step that creates a row settles nothing.
LEMMA InsertStutters ==
    ASSUME TypeInv, NEW t \in Trx, InsertsRow(t)
    PROVE  UNCHANGED <<Settled, balance, income>>
<1>1. txn \in [Trx -> Rows]
  BY DEF TypeInv, TypeOK
<1>2. \A u \in Trx : txn'[u].status = "success" <=> txn[u].status = "success"
  BY <1>1 DEF InsertsRow, NoRow, NewRow
<1> QED
  BY <1>2 DEF InsertsRow, Settled

\* A crediting step settles exactly one transaction that was not settled.
LEMMA CreditSettles ==
    ASSUME TypeInv, NEW t \in Trx, NEW row, Credits(t, row)
    PROVE  t \notin Settled /\ Settled' = Settled \cup {t}
<1>1. txn \in [Trx -> Rows]
  BY DEF TypeInv, TypeOK
<1>2. txn[t].status # "success"
  BY DEF Credits
<1>3. \A u \in Trx : txn'[u].status = "success" <=> txn[u].status = "success" \/ u = t
  BY <1>1 DEF Credits
<1> QED
  BY <1>2, <1>3 DEF Settled

\* Crediting a regular deposit settles it in the ideal ledger ...
LEMMA DepositSettles ==
    ASSUME TypeInv, NEW w \in Workers, ProcessRegularDeposit(w)
    PROVE  Ideal!Next
<1>1. PICK t \in Trx, a \in Amounts : t = worker[w].job.trx /\ a = worker[w].job.amount
  BY WorkerHasJob DEF TypeInv, ProcessRegularDeposit, At, Job
<1>2. Credits(t, DepositedRow(txn[t], a))
  BY <1>1 DEF ProcessRegularDeposit, Handles, DepositedRow, Credits, TypeInv, TypeOK
<1>3. t \notin Settled /\ Settled' = Settled \cup {t}
  BY <1>2, CreditSettles
<1>4. /\ balance' = [balance EXCEPT ![TokoOf[t]].pending = @ + DepositPending(a)]
      /\ income' = income + DepositIncome(a)
  BY <1>1 DEF ProcessRegularDeposit
<1>5. Ideal!SettleDeposit(t, a)
  BY <1>3, <1>4 DEF Settled, Ideal!SettleDeposit, Ideal!Settle, Ideal!DepositPending,
     Ideal!DepositIncome, Ideal!CalculateFee, DepositPending, DepositIncome, CalculateFee
<1> QED
  BY <1>5 DEF Ideal!Next

\* ... and so does crediting a top-up.
LEMMA TopupSettles ==
    ASSUME TypeInv, NEW w \in Workers, ProcessNexusggrTopup(w)
    PROVE  Ideal!Next
<1>1. PICK t \in Trx, a \in Amounts : t = worker[w].job.trx /\ a = worker[w].job.amount
  BY WorkerHasJob DEF TypeInv, ProcessNexusggrTopup, At, Job
<1>2. Credits(t, ToppedUpRow(txn[t], a))
  BY <1>1 DEF ProcessNexusggrTopup, Handles, ToppedUpRow, Credits, TypeInv, TypeOK
<1>3. t \notin Settled /\ Settled' = Settled \cup {t}
  BY <1>2, CreditSettles
<1>4. /\ balance' = [balance EXCEPT ![TokoOf[t]].nexusggr = @ + CalculateNexusggrIncrement(a)]
      /\ income' = income + TopupIncome(a)
  BY <1>1 DEF ProcessNexusggrTopup
<1>5. Ideal!SettleTopup(t, a)
  BY <1>3, <1>4 DEF Settled, Ideal!SettleTopup, Ideal!Settle, Ideal!CalculateNexusggrIncrement,
     Ideal!TopupIncome, Ideal!TopupCost, CalculateNexusggrIncrement, TopupIncome, TopupCost
<1> QED
  BY <1>5 DEF Ideal!Next

\* Every step is a step of the ideal ledger or leaves it alone.
LEMMA IdealStep ==
    ASSUME Callers = {}
    PROVE  TypeInv /\ [Next]_vars => [Ideal!Next]_(Ideal!vars)
<1> SUFFICES ASSUME TypeInv, [Next]_vars PROVE [Ideal!Next]_(Ideal!vars)
  OBVIOUS
<1>1. CASE UNCHANGED ledger
  BY <1>1 DEF ledger, Ideal!vars
<1>2. ASSUME NEW t \in Trx, InsertsRow(t)
      PROVE  [Ideal!Next]_(Ideal!vars)
  BY <1>2, InsertStutters DEF Settled, Ideal!vars
<1> QED
  BY <1>1, <1>2, LedgerSteps, DepositSettles, TopupSettles

\* Every step of webhooks, queues, workers and failures either settles one
\* pending transaction as the ideal ledger would or leaves the ledger alone.
THEOREM ImplementsIdealLedger ==
    ASSUME Callers = {}
    PROVE  Spec => IdealLedger
<1>1. Init => Ideal!Init
  BY IdealInit
<1> QED
  BY <1>1, TypeInit, TypeStep, IdealStep, PTL DEF Spec, IdealLedger, Ideal!Spec

----------------------------------------------------------------------------
(* Without check-status the tables explain every balance.                  *)

\* The integer between a bound and the next multiple is the quotient.
LEMMA QuotientIsUnique ==
    ASSUME NEW n \in Int, NEW d \in Int, d > 0, NEW q \in Int,
           d * q <= n, n < d * q + d
    PROVE  n \div d = q
  OBVIOUS

\* A quotient is that integer.
LEMMA QuotientBounds ==
    ASSUME NEW n \in Int, NEW d \in Int, d > 0
    PROVE  /\ n \div d \in Int
           /\ d * (n \div d) <= n
           /\ n < d * (n \div d) + d
  OBVIOUS

\* What calculate_fee leaves of an amount is the toko's share, and the fee is
\* the rest: truncating the fee rounds the share up and creates no rupiah.
LEMMA FeeIsPlatformShare ==
    ASSUME NEW a \in Nat
    PROVE  DepositPending(a) = TokoShare(a) /\ DepositIncome(a) = PlatformShare(a)
<1> DEFINE m == a * FeeTransaction
           f == m \div 100
<1>1. m \in Int /\ -(a * (100 - FeeTransaction)) = m - 100 * a
  OBVIOUS
<1> HIDE DEF m
<1>2. f \in Int /\ 100 * f <= m /\ m < 100 * f + 100
  BY <1>1
<1>3. (m - 100 * a) \div 100 = f - a
  BY <1>1, <1>2
<1>4. CalculateFee(a) = f
  BY DEF CalculateFee, m
<1>5. TokoShare(a) = -(f - a)
  BY <1>1, <1>3 DEF TokoShare, Ceiling
<1> HIDE DEF f
<1>6. DepositPending(a) = a - f /\ DepositIncome(a) = f
  BY <1>4 DEF DepositPending, DepositIncome
<1> QED
  BY <1>2, <1>5, <1>6 DEF PlatformShare

\* Adding half of ggr before the division rounds half a unit up, for odd ggr too.
LEMMA IncrementIsRounded ==
    ASSUME NEW a \in Nat, Ggr > 0
    PROVE  CalculateNexusggrIncrement(a) = Converted(a)
<1> DEFINE n == 100 * a
           h == Ggr \div 2
           q == (n + h) \div Ggr
<1>1. n \in Nat /\ h \in Int /\ (Ggr = 2 * h \/ Ggr = 2 * h + 1) /\ a * 100 = n
  OBVIOUS
<1> HIDE DEF n, h
<1>2. q \in Int /\ Ggr * q <= n + h /\ n + h < Ggr * q + Ggr
  BY <1>1, QuotientBounds
<1> HIDE DEF q
<1>3. (2 * Ggr) * q = 2 * (Ggr * q) /\ Ggr * q \in Int
  BY <1>2
<1>4. (2 * Ggr) * q <= 2 * n + Ggr /\ 2 * n + Ggr < (2 * Ggr) * q + 2 * Ggr
  BY <1>1, <1>2, <1>3
<1>5. (2 * n + Ggr) \div (2 * Ggr) = q
  BY <1>1, <1>2, <1>4, QuotientIsUnique
<1> QED
  BY <1>1, <1>5 DEF CalculateNexusggrIncrement, Converted, RoundHalfUp, q, h, n

\* What each paid row contributes to a balance or to the income.
PendingColumn(k) == [t \in PaidDeposits \cap OwnedBy(k) |-> DepositPending(txn[t].amount)]
NexusggrColumn(k) ==
    [t \in PaidTopups \cap OwnedBy(k) |-> CalculateNexusggrIncrement(txn[t].amount)]
FeeColumn == [t \in PaidDeposits |-> DepositIncome(txn[t].amount)]
MarginColumn == [t \in PaidTopups |-> TopupIncome(txn[t].amount)]

\* Finitely many rows are paid, each contributes an integer, the balances are
\* the sums, and no top-up is paid without a price.
LedgerInv ==
    /\ \A k \in Toko :
        /\ Summable(PendingColumn(k)) /\ balance[k].pending = SumFunction(PendingColumn(k))
        /\ Summable(NexusggrColumn(k)) /\ balance[k].nexusggr = SumFunction(NexusggrColumn(k))
    /\ Summable(FeeColumn) /\ Summable(MarginColumn)
    /\ income = SumFunction(FeeColumn) + SumFunction(MarginColumn)
    /\ PaidTopups # {} => Ggr > 0

\* The empty ledger adds up.
LEMMA LedgerInit == Init => LedgerInv
<1> SUFFICES ASSUME Init PROVE LedgerInv
  OBVIOUS
<1>1. PaidDeposits = {} /\ PaidTopups = {}
  BY DEF Init, PaidDeposits, PaidTopups, NoRow
<1>2. \A k \in Toko : DOMAIN PendingColumn(k) = {} /\ DOMAIN NexusggrColumn(k) = {}
  BY <1>1 DEF PendingColumn, NexusggrColumn
<1>3. DOMAIN FeeColumn = {} /\ DOMAIN MarginColumn = {}
  BY <1>1 DEF FeeColumn, MarginColumn
<1>4. /\ income = 0
      /\ \A k \in Toko : balance[k].pending = 0 /\ balance[k].nexusggr = 0
  BY DEF Init
<1>5. \A k \in Toko : /\ Summable(PendingColumn(k)) /\ SumFunction(PendingColumn(k)) = 0
                      /\ Summable(NexusggrColumn(k)) /\ SumFunction(NexusggrColumn(k)) = 0
  BY <1>2, SumOfNothing
<1>6. /\ Summable(FeeColumn) /\ SumFunction(FeeColumn) = 0
      /\ Summable(MarginColumn) /\ SumFunction(MarginColumn) = 0
  BY <1>3, SumOfNothing
<1> QED
  BY <1>1, <1>4, <1>5, <1>6 DEF LedgerInv

\* Rows that stay paid with the same amount contribute what they did.
LEMMA DepositColumnsStay ==
    ASSUME PaidDeposits' = PaidDeposits, \A t \in PaidDeposits : txn'[t].amount = txn[t].amount
    PROVE  FeeColumn' = FeeColumn /\ \A k \in Toko : PendingColumn(k)' = PendingColumn(k)
  BY DEF FeeColumn, PendingColumn, OwnedBy

\* The same for the top-ups.
LEMMA TopupColumnsStay ==
    ASSUME PaidTopups' = PaidTopups, \A t \in PaidTopups : txn'[t].amount = txn[t].amount
    PROVE  MarginColumn' = MarginColumn /\ \A k \in Toko : NexusggrColumn(k)' = NexusggrColumn(k)
  BY DEF MarginColumn, NexusggrColumn, OwnedBy

\* One paid row more extends the columns of its toko and of the platform.
LEMMA DepositColumnsGrow ==
    ASSUME NEW t \in Trx, NEW a \in Amounts, t \notin PaidDeposits, LedgerInv,
           PaidDeposits' = PaidDeposits \cup {t}, txn'[t].amount = a,
           \A u \in PaidDeposits : txn'[u].amount = txn[u].amount
    PROVE  /\ Summable(FeeColumn)'
           /\ SumFunction(FeeColumn)' = SumFunction(FeeColumn) + DepositIncome(a)
           /\ \A k \in Toko : 
                /\ Summable(PendingColumn(k))'
                /\ SumFunction(PendingColumn(k))' =
                        IF k = TokoOf[t] THEN SumFunction(PendingColumn(k)) + DepositPending(a)
                                         ELSE SumFunction(PendingColumn(k))
<1>0. DepositPending(a) \in Int /\ DepositIncome(a) \in Int
  BY MoneyIsInteger
<1>1. /\ Summable(FeeColumn)'
      /\ SumFunction(FeeColumn)' = SumFunction(FeeColumn) + DepositIncome(a)
  <2> DEFINE f == FeeColumn
             g == FeeColumn'
  <2>1. /\ t \notin DOMAIN f /\ DOMAIN g = DOMAIN f \cup {t} /\ g[t] = DepositIncome(a)
        /\ \A u \in DOMAIN f : g[u] = f[u]
    BY DEF FeeColumn
  <2>2. Summable(f)
    BY DEF LedgerInv
  <2> HIDE DEF f, g
  <2>3. SumFunction(g) = SumFunction(f) + g[t] /\ Summable(g)
    BY <1>0, <2>1, <2>2, SumOfExtended
  <2> QED
    BY <2>1, <2>3 DEF f, g
<1>2. ASSUME NEW k \in Toko, k = TokoOf[t]
      PROVE  /\ Summable(PendingColumn(k))'
             /\ SumFunction(PendingColumn(k))' = SumFunction(PendingColumn(k)) + DepositPending(a)
  <2> DEFINE f == PendingColumn(k)
             g == PendingColumn(k)'
  <2>1. /\ t \notin DOMAIN f /\ DOMAIN g = DOMAIN f \cup {t} /\ g[t] = DepositPending(a)
        /\ \A u \in DOMAIN f : g[u] = f[u]
    BY <1>2 DEF PendingColumn, OwnedBy
  <2>2. Summable(f)
    BY DEF LedgerInv
  <2> HIDE DEF f, g
  <2>3. SumFunction(g) = SumFunction(f) + g[t] /\ Summable(g)
    BY <1>0, <2>1, <2>2, SumOfExtended
  <2> QED
    BY <2>1, <2>3 DEF f, g
<1>3. ASSUME NEW k \in Toko, k # TokoOf[t]
      PROVE  PendingColumn(k)' = PendingColumn(k)
  BY <1>3 DEF PendingColumn, OwnedBy
<1> QED
  BY <1>1, <1>2, <1>3 DEF LedgerInv

\* The same for a top-up.
LEMMA TopupColumnsGrow ==
    ASSUME NEW t \in Trx, NEW a \in Amounts, t \notin PaidTopups, LedgerInv, Ggr > 0,
           PaidTopups' = PaidTopups \cup {t}, txn'[t].amount = a,
           \A u \in PaidTopups : txn'[u].amount = txn[u].amount
    PROVE  /\ Summable(MarginColumn)'
           /\ SumFunction(MarginColumn)' = SumFunction(MarginColumn) + TopupIncome(a)
           /\ \A k \in Toko : 
                /\ Summable(NexusggrColumn(k))'
                /\ SumFunction(NexusggrColumn(k))' =
                        IF k = TokoOf[t]
                        THEN SumFunction(NexusggrColumn(k)) + CalculateNexusggrIncrement(a)
                        ELSE SumFunction(NexusggrColumn(k))
<1>0. CalculateNexusggrIncrement(a) \in Int /\ TopupIncome(a) \in Int
  BY MoneyIsInteger
<1>1. /\ Summable(MarginColumn)'
      /\ SumFunction(MarginColumn)' = SumFunction(MarginColumn) + TopupIncome(a)
  <2> DEFINE f == MarginColumn
             g == MarginColumn'
  <2>1. /\ t \notin DOMAIN f /\ DOMAIN g = DOMAIN f \cup {t} /\ g[t] = TopupIncome(a)
        /\ \A u \in DOMAIN f : g[u] = f[u]
    BY DEF MarginColumn
  <2>2. Summable(f)
    BY DEF LedgerInv
  <2> HIDE DEF f, g
  <2>3. SumFunction(g) = SumFunction(f) + g[t] /\ Summable(g)
    BY <1>0, <2>1, <2>2, SumOfExtended
  <2> QED
    BY <2>1, <2>3 DEF f, g
<1>2. ASSUME NEW k \in Toko, k = TokoOf[t]
      PROVE  /\ Summable(NexusggrColumn(k))'
             /\ SumFunction(NexusggrColumn(k))' =
                    SumFunction(NexusggrColumn(k)) + CalculateNexusggrIncrement(a)
  <2> DEFINE f == NexusggrColumn(k)
             g == NexusggrColumn(k)'
  <2>1. /\ t \notin DOMAIN f /\ DOMAIN g = DOMAIN f \cup {t}
        /\ g[t] = CalculateNexusggrIncrement(a)
        /\ \A u \in DOMAIN f : g[u] = f[u]
    BY <1>2 DEF NexusggrColumn, OwnedBy
  <2>2. Summable(f)
    BY DEF LedgerInv
  <2> HIDE DEF f, g
  <2>3. SumFunction(g) = SumFunction(f) + g[t] /\ Summable(g)
    BY <1>0, <2>1, <2>2, SumOfExtended
  <2> QED
    BY <2>1, <2>3 DEF f, g
<1>3. ASSUME NEW k \in Toko, k # TokoOf[t]
      PROVE  NexusggrColumn(k)' = NexusggrColumn(k)
  BY <1>3 DEF NexusggrColumn, OwnedBy
<1> QED
  BY <1>1, <1>2, <1>3 DEF LedgerInv

\* Adding to one field of one balance leaves the other fields and balances.
LEMMA BalanceAdds ==
    ASSUME NEW b \in [Toko -> [pending : Int, nexusggr : Int]], NEW k \in Toko, NEW x \in Int
    PROVE  /\ \A i \in Toko :
                /\ [b EXCEPT ![k].pending = @ + x][i].pending =
                        IF i = k THEN b[i].pending + x ELSE b[i].pending
                /\ [b EXCEPT ![k].pending = @ + x][i].nexusggr = b[i].nexusggr
           /\ \A i \in Toko :
                /\ [b EXCEPT ![k].nexusggr = @ + x][i].nexusggr =
                        IF i = k THEN b[i].nexusggr + x ELSE b[i].nexusggr
                /\ [b EXCEPT ![k].nexusggr = @ + x][i].pending = b[i].pending
  OBVIOUS

\* The worker's two database transactions keep the balances explained.
LEMMA CreditExplained ==
    ASSUME TypeInv, LedgerInv, NEW w \in Workers,
           ProcessRegularDeposit(w) \/ ProcessNexusggrTopup(w)
    PROVE  LedgerInv'
<1> DEFINE t == worker[w].job.trx
           a == worker[w].job.amount
<1>0. t \in Trx /\ a \in Amounts /\ TokoOf[t] \in Toko
  BY WorkerHasJob DEF TypeInv, ProcessRegularDeposit, ProcessNexusggrTopup, At, Job
<1>1. /\ txn \in [Trx -> Rows]
      /\ balance \in [Toko -> [pending : Int, nexusggr : Int]]
      /\ income \in Int
  BY DEF TypeInv, TypeOK
<1>2. SumFunction(FeeColumn) \in Int /\ SumFunction(MarginColumn) \in Int
  BY SumOfSummable DEF LedgerInv
<1>3. CASE ProcessRegularDeposit(w)
  <2>1. /\ txn[t].status = "pending"
        /\ txn' = [txn EXCEPT ![t] = DepositedRow(@, a)]
        /\ balance' = [balance EXCEPT ![TokoOf[t]].pending = @ + DepositPending(a)]
        /\ income' = income + DepositIncome(a)
    BY <1>3 DEF ProcessRegularDeposit, Handles
  <2>2. DepositPending(a) \in Int /\ DepositIncome(a) \in Int
    BY <1>0, MoneyIsInteger
  <2> HIDE DEF t, a
  <2>3. /\ t \notin PaidDeposits /\ t \notin PaidTopups
        /\ txn'[t] = [status |-> "success", purpose |-> "missing", amount |-> a]
        /\ \A u \in Trx : u # t => txn'[u] = txn[u]
    BY <1>0, <1>1, <2>1 DEF DepositedRow, PaidDeposits, PaidTopups
  <2>4. PaidDeposits' = PaidDeposits \cup {t} /\ PaidTopups' = PaidTopups
    BY <1>0, <2>3 DEF PaidDeposits, PaidTopups
  <2>5. /\ txn'[t].amount = a
        /\ \A u \in PaidDeposits \cup PaidTopups : txn'[u].amount = txn[u].amount
    BY <2>3 DEF PaidDeposits, PaidTopups
  <2>6. /\ Summable(FeeColumn)'
        /\ SumFunction(FeeColumn)' = SumFunction(FeeColumn) + DepositIncome(a)
        /\ \A k \in Toko :
             /\ Summable(PendingColumn(k))'
             /\ SumFunction(PendingColumn(k))' =
                     IF k = TokoOf[t] THEN SumFunction(PendingColumn(k)) + DepositPending(a)
                                      ELSE SumFunction(PendingColumn(k))
    BY <1>0, <2>3, <2>4, <2>5, DepositColumnsGrow
  <2>7. MarginColumn' = MarginColumn /\ \A k \in Toko : NexusggrColumn(k)' = NexusggrColumn(k)
    BY <2>4, <2>5, TopupColumnsStay
  <2>8. \A k \in Toko :
            /\ balance'[k].pending = IF k = TokoOf[t] THEN balance[k].pending + DepositPending(a)
                                                     ELSE balance[k].pending
            /\ balance'[k].nexusggr = balance[k].nexusggr
    BY <1>0, <1>1, <2>1, <2>2, BalanceAdds
  <2>9. income' = SumFunction(FeeColumn)' + SumFunction(MarginColumn)'
    BY <1>2, <2>1, <2>2, <2>6, <2>7 DEF LedgerInv
  <2> QED
    BY <2>4, <2>6, <2>7, <2>8, <2>9 DEF LedgerInv
<1>4. CASE ProcessNexusggrTopup(w)
  <2>1. /\ txn[t].status = "pending" /\ txn[t].purpose = "nexusggr_topup" /\ Ggr > 0
        /\ txn' = [txn EXCEPT ![t] = ToppedUpRow(@, a)]
        /\ balance' = [balance EXCEPT ![TokoOf[t]].nexusggr = @ + CalculateNexusggrIncrement(a)]
        /\ income' = income + TopupIncome(a)
    BY <1>4 DEF ProcessNexusggrTopup, Handles, TopupFits, NexusggrFits
  <2>2. CalculateNexusggrIncrement(a) \in Int /\ TopupIncome(a) \in Int
    BY <1>0, <2>1, MoneyIsInteger
  <2> HIDE DEF t, a
  <2>3. /\ t \notin PaidDeposits /\ t \notin PaidTopups
        /\ txn'[t] = [status |-> "success", purpose |-> "nexusggr_topup", amount |-> a]
        /\ \A u \in Trx : u # t => txn'[u] = txn[u]
    BY <1>0, <1>1, <2>1 DEF ToppedUpRow, PaidDeposits, PaidTopups
  <2>4. PaidTopups' = PaidTopups \cup {t} /\ PaidDeposits' = PaidDeposits
    BY <1>0, <2>3 DEF PaidDeposits, PaidTopups
  <2>5. /\ txn'[t].amount = a
        /\ \A u \in PaidDeposits \cup PaidTopups : txn'[u].amount = txn[u].amount
    BY <2>3 DEF PaidDeposits, PaidTopups
  <2>6. /\ Summable(MarginColumn)'
        /\ SumFunction(MarginColumn)' = SumFunction(MarginColumn) + TopupIncome(a)
        /\ \A k \in Toko :
             /\ Summable(NexusggrColumn(k))'
             /\ SumFunction(NexusggrColumn(k))' =
                     IF k = TokoOf[t]
                     THEN SumFunction(NexusggrColumn(k)) + CalculateNexusggrIncrement(a)
                     ELSE SumFunction(NexusggrColumn(k))
    BY <1>0, <2>1, <2>3, <2>4, <2>5, TopupColumnsGrow
  <2>7. FeeColumn' = FeeColumn /\ \A k \in Toko : PendingColumn(k)' = PendingColumn(k)
    BY <2>4, <2>5, DepositColumnsStay
  <2>8. \A k \in Toko :
            /\ balance'[k].nexusggr = IF k = TokoOf[t]
                                      THEN balance[k].nexusggr + CalculateNexusggrIncrement(a)
                                      ELSE balance[k].nexusggr
            /\ balance'[k].pending = balance[k].pending
    BY <1>0, <1>1, <2>1, <2>2, BalanceAdds
  <2>9. income' = SumFunction(FeeColumn)' + SumFunction(MarginColumn)'
    BY <1>2, <2>1, <2>2, <2>6, <2>7 DEF LedgerInv
  <2> QED
    BY <2>1, <2>6, <2>7, <2>8, <2>9 DEF LedgerInv
<1> QED
  BY <1>3, <1>4

\* Without check-status every step keeps the balances explained.
LEMMA LedgerInvStep ==
    ASSUME Callers = {}
    PROVE  TypeInv /\ LedgerInv /\ [Next]_vars => LedgerInv'
<1> SUFFICES ASSUME TypeInv, LedgerInv, [Next]_vars PROVE LedgerInv'
  OBVIOUS
<1>0. txn \in [Trx -> Rows]
  BY DEF TypeInv, TypeOK
<1>1. CASE UNCHANGED ledger
  BY <1>1 DEF ledger, LedgerInv, FeeColumn, MarginColumn, PendingColumn, NexusggrColumn,
     PaidDeposits, PaidTopups, OwnedBy
<1>2. ASSUME NEW t \in Trx, InsertsRow(t)
      PROVE  LedgerInv'
  <2>1. \A u \in Trx : \/ txn'[u] = txn[u]
                       \/ txn[u].status = "absent" /\ txn'[u].status = "pending"
    BY <1>0, <1>2 DEF InsertsRow, NoRow, NewRow
  <2>2. PaidDeposits' = PaidDeposits /\ PaidTopups' = PaidTopups
    BY <2>1 DEF PaidDeposits, PaidTopups
  <2>3. \A u \in PaidDeposits \cup PaidTopups : txn'[u].amount = txn[u].amount
    BY <2>1 DEF PaidDeposits, PaidTopups
  <2>4. /\ FeeColumn' = FeeColumn /\ \A k \in Toko : PendingColumn(k)' = PendingColumn(k)
        /\ MarginColumn' = MarginColumn /\ \A k \in Toko : NexusggrColumn(k)' = NexusggrColumn(k)
    BY <2>2, <2>3, DepositColumnsStay, TopupColumnsStay
  <2> QED
    BY <1>2, <2>2, <2>4 DEF InsertsRow, LedgerInv
<1> QED
  BY <1>1, <1>2, LedgerSteps, CreditExplained

\* For any number of rows, toko and amounts: what the worker adds to a balance
\* in one step after another is what the table adds up to.
THEOREM LedgerIsExplained ==
    ASSUME Callers = {}
    PROVE  Spec => []LedgerExplainsBalances
<1>1. ASSUME TypeInv, LedgerInv
      PROVE  LedgerExplainsBalances
  <2>1. \A t \in PaidDeposits \cup PaidTopups : txn[t].amount \in Nat
    <3>1. txn \in [Trx -> Rows] /\ Amounts \cup {0} \subseteq Nat
      BY <1>1 DEF TypeInv, TypeOK, Amounts
    <3> QED
      BY <3>1 DEF PaidDeposits, PaidTopups
  <2>2. \A t \in PaidDeposits : /\ DepositPending(txn[t].amount) = TokoShare(txn[t].amount)
                               /\ DepositIncome(txn[t].amount) = PlatformShare(txn[t].amount)
    BY <2>1, FeeIsPlatformShare
  <2>3. \A t \in PaidTopups :
            /\ CalculateNexusggrIncrement(txn[t].amount) = Converted(txn[t].amount)
            /\ TopupIncome(txn[t].amount) = Margin(txn[t].amount)
    BY <1>1, <2>1, IncrementIsRounded DEF LedgerInv, TopupIncome, TopupCost, Margin
  <2>4. \A k \in Toko : balance[k].pending = PendingOf(PaidDeposits \cap OwnedBy(k))
    <3>1. \A k \in Toko : PendingColumn(k) =
                [t \in PaidDeposits \cap OwnedBy(k) |-> TokoShare(txn[t].amount)]
      BY <2>2 DEF PendingColumn
    <3> QED
      BY <1>1, <3>1 DEF LedgerInv, PendingOf
  <2>5. \A k \in Toko : balance[k].nexusggr = NexusggrOf(PaidTopups \cap OwnedBy(k))
    <3>1. \A k \in Toko : NexusggrColumn(k) =
                [t \in PaidTopups \cap OwnedBy(k) |-> Converted(txn[t].amount)]
      BY <2>3 DEF NexusggrColumn
    <3> QED
      BY <1>1, <3>1 DEF LedgerInv, NexusggrOf
  <2>6. FeeColumn = [t \in PaidDeposits |-> PlatformShare(txn[t].amount)]
    BY <2>2 DEF FeeColumn
  <2>7. MarginColumn = [t \in PaidTopups |-> Margin(txn[t].amount)]
    BY <2>3 DEF MarginColumn
  <2> QED
    BY <1>1, <2>4, <2>5, <2>6, <2>7 DEF LedgerInv, LedgerExplainsBalances, FeesOf, MarginsOf
<1> QED
  BY <1>1, LedgerInit, TypeInit, TypeStep, LedgerInvStep, PTL DEF Spec

----------------------------------------------------------------------------
(* Where jobs come from and where they go.                                 *)

Queued == {queue[i] : i \in DOMAIN queue}
InHand == {worker[w].job : w \in {v \in Workers : ~At(v, "idle")}}
Live == hooks \cup Queued \cup InHand

\* Appending to the list adds one job, popping it takes the head.
LEMMA QueuedAppend ==
    ASSUME TypeOK, NEW j \in Job, queue' = Append(queue, j)
    PROVE  Queued' = Queued \cup {j}
<1>1. queue \in Seq(Job)
  BY DEF TypeOK
<1>2. /\ DOMAIN queue' = DOMAIN queue \cup {Len(queue) + 1}
      /\ \A i \in DOMAIN queue : queue'[i] = queue[i]
      /\ queue'[Len(queue) + 1] = j
  BY <1>1
<1> QED
  BY <1>2 DEF Queued

\* Popping takes the head and leaves the rest.
LEMMA QueuedTail ==
    ASSUME TypeOK, queue # <<>>, queue' = Tail(queue)
    PROVE  Queued = Queued' \cup {Head(queue)}
<1>1. queue \in Seq(Job) /\ Len(queue) \in Nat /\ Len(queue) > 0
  BY DEF TypeOK
<1>2. /\ DOMAIN queue = 1..Len(queue) /\ DOMAIN queue' = 1..(Len(queue) - 1)
      /\ \A i \in DOMAIN queue' : queue'[i] = queue[i + 1]
      /\ Head(queue) = queue[1]
  BY <1>1
<1>3. ASSUME NEW i \in DOMAIN queue
      PROVE  queue[i] \in Queued' \cup {Head(queue)}
  <2>1. i = 1 \/ (i - 1 \in DOMAIN queue' /\ queue'[i - 1] = queue[i])
    BY <1>1, <1>2
  <2> QED
    BY <1>2, <2>1 DEF Queued
<1>4. ASSUME NEW i \in DOMAIN queue'
      PROVE  queue'[i] \in Queued
  <2>1. i + 1 \in DOMAIN queue
    BY <1>1, <1>2
  <2> QED
    BY <1>2, <2>1 DEF Queued
<1>5. Head(queue) \in Queued
  BY <1>1, <1>2 DEF Queued
<1> QED
  BY <1>3, <1>4, <1>5 DEF Queued

\* A worker that finishes lets go of its own job only.
LEMMA HandFinish ==
    ASSUME TypeOK, NEW w \in Workers, Finish(w)
    PROVE  /\ InHand' \subseteq InHand
           /\ InHand \subseteq InHand' \cup {worker[w].job}
           /\ \A v \in Workers : worker'[v].pc = "callback" => worker'[v] = worker[v]
<1>1. \A v \in Workers : worker'[v] = IF v = w THEN Idle ELSE worker[v]
  BY DEF TypeOK, Finish
<1> QED
  BY <1>1 DEF InHand, At, Idle

\* A worker that moves on keeps its job.
LEMMA HandGoto ==
    ASSUME TypeOK, NEW w \in Workers, ~At(w, "idle"), NEW pc \in {"callback", "requeue"},
           Goto(w, pc)
    PROVE  /\ InHand' = InHand
           /\ worker'[w].job = worker[w].job /\ worker'[w].pc = pc
           /\ \A v \in Workers : v # w => worker'[v] = worker[v]
<1>1. worker[w] \in Running({"loaded", "callback", "requeue"})
  BY WorkerHasJob
<1>2. /\ worker'[w] = [worker[w] EXCEPT !.pc = pc]
      /\ \A v \in Workers : v # w => worker'[v] = worker[v]
  BY DEF TypeOK, Goto
<1>3. worker'[w].job = worker[w].job /\ worker'[w].pc = pc
  BY <1>1, <1>2 DEF Running
<1>4. \A v \in Workers : /\ worker'[v].pc # "idle" <=> worker[v].pc # "idle"
                         /\ worker'[v].job = worker[v].job
  BY <1>2, <1>3 DEF At
<1> QED
  BY <1>2, <1>3, <1>4 DEF InHand, At

\* A job a webhook is just bringing in.
Fresh(j) == \E t \in Trx, s \in TransactionStatuses : SendsWebhook(t, s) /\ j = WebhookJob(t, s)

\* The ways a success job leaves the pipeline without being lost: the row is
\* success by now, or it is a row the job does not credit.
Served(j) == \E w \in Workers :
    /\ ~At(w, "idle") /\ worker[w].job = j
    /\ At(w, "callback") \/ txn'[j.trx].status = "success" \/ Skipped(j)

\* What a step may do with the jobs.
Flow ==
    /\ \A j \in Live' \cup callbacks' : j \in Live \cup callbacks \/ Fresh(j)
    /\ \A j \in Live : j.status = "success" => j \in Live' \/ j.trx \in lost' \/ Served(j)
    /\ \A w \in Workers : worker'[w].pc = "callback" =>
            \/ worker'[w] = worker[w]
            \/ worker'[w].job.status = "success" /\ txn'[worker'[w].job.trx].status = "success"
    /\ \A j \in callbacks' :
            j \in callbacks \/ \E w \in Workers : At(w, "callback") /\ j = worker[w].job
    /\ \A t \in Trx : acks'[t] # {} =>
            \/ acks[t] # {}
            \/ \E j \in Live : j.trx = t /\ j.status = "success"
            \/ \E j : Fresh(j) /\ j.trx = t /\ j.status = "success"
    /\ \A t \in Trx : "queued" \in acks'[t] =>
            "queued" \in acks[t] \/ \E j \in Live' : j.trx = t /\ j.status = "success"
    /\ lost \subseteq lost'

\* Steps that touch neither jobs nor acknowledgements.
LEMMA FlowQuiet ==
    ASSUME UNCHANGED <<hooks, queue, worker, callbacks, acks, lost>>
    PROVE  Flow
<1>1. Live' = Live
  BY DEF Live, Queued, InHand, At
<1> QED
  BY <1>1 DEF Flow

\* What the vendor and the API do with jobs.
LEMMA FlowOutside ==
    ASSUME TypeInv, VendorStep \/ ApiStep
    PROVE  Flow
<1>0. TypeOK
  BY DEF TypeInv
<1>1. ASSUME NEW t \in Trx, NEW s \in TransactionStatuses, AcceptWebhook(t, s)
      PROVE  Flow
  <2>1. Live' = Live \cup {WebhookJob(t, s)}
    BY <1>1 DEF AcceptWebhook, Live, Queued, InHand, At
  <2>2. Fresh(WebhookJob(t, s))
    BY <1>1 DEF AcceptWebhook, Fresh
  <2> QED
    BY <1>1, <2>1, <2>2 DEF AcceptWebhook, Flow
<1>2. ASSUME NEW t \in Trx, NEW s \in TransactionStatuses, DuplicateWebhook(t, s)
      PROVE  Flow
  <2> DEFINE j == WebhookJob(t, s)
  <2>1. Live' = Live
    BY <1>2 DEF DuplicateWebhook, api, Live, Queued, InHand, At
  <2>2. Fresh(j) /\ j.trx = t
    BY <1>2 DEF DuplicateWebhook, Fresh, WebhookJob
  <2>3. acks \in [Trx -> SUBSET {"queued", "duplicate"}]
    BY <1>0 DEF TypeOK
  <2>4. \/ acks' = acks
        \/ j.status = "success" /\ acks' = [acks EXCEPT ![t] = @ \cup {"duplicate"}]
    BY <1>2, <2>2 DEF DuplicateWebhook, Answer
  <2> HIDE DEF j
  <2>5. \A u \in Trx : /\ "queued" \in acks'[u] => "queued" \in acks[u]
                       /\ acks'[u] # {} => acks[u] # {} \/ (u = t /\ j.status = "success")
    BY <2>3, <2>4
  <2> QED
    BY <1>2, <2>1, <2>2, <2>5 DEF DuplicateWebhook, Flow
<1>3. ASSUME NEW j \in hooks, EnqueueWebhook(j)
      PROVE  Flow
  <2>1. j \in Job
    BY <1>0, <1>3 DEF TypeOK
  <2>2. Queued' = Queued \cup {j} /\ hooks' = hooks \ {j} /\ UNCHANGED <<worker, callbacks, lost>>
    BY <1>0, <1>3, <2>1, QueuedAppend DEF EnqueueWebhook
  <2>3. Live' = Live /\ j \in Live
    BY <2>2 DEF Live, InHand, At
  <2>4. acks \in [Trx -> SUBSET {"queued", "duplicate"}] /\ j.trx \in Trx
    BY <1>0, <2>1 DEF TypeOK, Job
  <2>5. \/ acks' = acks
        \/ j.status = "success" /\ acks' = [acks EXCEPT ![j.trx] = @ \cup {"queued"}]
    BY <1>3 DEF EnqueueWebhook, Answer
  <2>6. \A u \in Trx : acks'[u] = acks[u] \/ (u = j.trx /\ j.status = "success")
    BY <2>4, <2>5
  <2> QED
    BY <2>2, <2>3, <2>6 DEF Flow
<1>4. ASSUME NEW j \in hooks, EnqueueWebhookFails(j)
      PROVE  Flow
  <2>1. j \in Job
    BY <1>0, <1>4 DEF TypeOK
  <2>2. hooks' = hooks \ {j} /\ UNCHANGED <<worker, callbacks, acks>> /\ InHand' = InHand
    BY <1>4 DEF EnqueueWebhookFails, InHand, At
  <2>3. \/ Queued' = Queued \cup {j} /\ lost' = lost
        \/ Queued' = Queued /\ lost' = IF j.status = "success" THEN lost \cup {j.trx} ELSE lost
    BY <1>0, <1>4, <2>1, QueuedAppend DEF EnqueueWebhookFails, Lose, Queued
  <2> QED
    BY <2>2, <2>3 DEF Flow, Live
<1>5. ASSUME NEW t \in Trx, NEW s \in Outcomes, NEW a \in PaidAmounts, VendorSettles(t, s, a)
      PROVE  Flow
  BY <1>5, FlowQuiet DEF VendorSettles, api
<1>6. ASSUME NEW t \in Trx, NEW p \in ExternalPurposes, NEW a \in RequestAmounts,
             InsertExternal(t, p, a)
      PROVE  Flow
  BY <1>6, FlowQuiet DEF InsertExternal, api
<1>7. ASSUME NEW t \in Trx, NEW s \in TransactionStatuses, RefuseWebhook(t, s)
      PROVE  Flow
  BY <1>7, FlowQuiet DEF RefuseWebhook
<1>8. ASSUME NEW t \in Trx, NEW a \in RequestAmounts, GenerateUpstream(t, a)
      PROVE  Flow
  BY <1>8, FlowQuiet DEF GenerateUpstream, api
<1>9. ASSUME NEW t \in Trx, GenerateInsert(t) \/ KeyExpires(t)
      PROVE  Flow
  BY <1>9, FlowQuiet DEF GenerateInsert, KeyExpires, api
<1>10. ASSUME NEW c \in Callers, NEW t \in Trx, CheckAsk(c, t)
       PROVE  Flow
  BY <1>10, FlowQuiet DEF CheckAsk, api
<1>11. ASSUME NEW c \in Callers, CheckWrite(c) \/ CheckFails(c)
       PROVE  Flow
  BY <1>11, FlowQuiet DEF CheckWrite, CheckFails, api
<1> QED
  BY <1>1, <1>2, <1>3, <1>4, <1>5, <1>6, <1>7, <1>8, <1>9, <1>10, <1>11 DEF VendorStep, ApiStep

\* A worker lets go of its job because the job was served.
LEMMA FlowFinish ==
    ASSUME TypeOK, NEW w \in Workers, ~At(w, "idle"), Finish(w), Served(worker[w].job),
           UNCHANGED <<hooks, queue, callbacks, acks, lost>>
    PROVE  Flow
<1>1. Queued' = Queued
  BY DEF Queued
<1> QED
  BY <1>1, HandFinish DEF Flow, Live

\* A worker keeps its job and moves on, to the callback only if the row is
\* success.
LEMMA FlowGoto ==
    ASSUME TypeOK, NEW w \in Workers, ~At(w, "idle"), NEW pc \in {"callback", "requeue"},
           Goto(w, pc), UNCHANGED <<hooks, queue, acks, lost>>,
           pc = "callback" => worker[w].job.status = "success"
                              /\ txn'[worker[w].job.trx].status = "success",
           \/ callbacks' = callbacks
           \/ At(w, "callback") /\ callbacks' = callbacks \cup {worker[w].job}
    PROVE  Flow
<1>1. Queued' = Queued
  BY DEF Queued
<1>2. worker[w].job \in InHand
  BY DEF InHand
<1>3. InHand' = InHand
  BY HandGoto
<1>4. \A v \in Workers : worker'[v].pc = "callback" =>
            \/ worker'[v] = worker[v]
            \/ worker'[v].job.status = "success" /\ txn'[worker'[v].job.trx].status = "success"
  BY HandGoto
<1> QED
  BY <1>1, <1>2, <1>3, <1>4 DEF Flow, Live

\* What a worker does with jobs.
LEMMA FlowWorker ==
    ASSUME TypeInv, NEW w \in Workers, WorkerStep(w) \/ WorkerFails(w)
    PROVE  Flow
<1> DEFINE j == worker[w].job
<1>0. TypeOK
  BY DEF TypeInv
<1>1. CASE Dequeue(w)
  <2>1. At(w, "idle") /\ queue # <<>> /\ queue' = Tail(queue)
        /\ worker' = [worker EXCEPT ![w] = [pc |-> "loaded", job |-> Head(queue)]]
        /\ UNCHANGED <<hooks, callbacks, acks, lost>>
    BY <1>1 DEF Dequeue, api
  <2>2. \A v \in Workers : worker'[v] = IF v = w THEN [pc |-> "loaded", job |-> Head(queue)]
                                                 ELSE worker[v]
    BY <1>0, <2>1 DEF TypeOK
  <2>3. InHand' = InHand \cup {Head(queue)}
    BY <2>1, <2>2 DEF InHand, At
  <2>4. Queued = Queued' \cup {Head(queue)}
    BY <1>0, <2>1, QueuedTail
  <2>5. Live' = Live
    BY <2>1, <2>3, <2>4 DEF Live
  <2> QED
    BY <2>1, <2>2, <2>5 DEF Flow
<1>2. CASE DequeueFails(w)
  <2>1. queue # <<>> /\ queue' = Tail(queue) /\ Lose(Head(queue))
        /\ UNCHANGED <<hooks, worker, callbacks, acks>>
    BY <1>2 DEF DequeueFails, api
  <2>2. Queued = Queued' \cup {Head(queue)}
    BY <1>0, <2>1, QueuedTail
  <2>3. InHand' = InHand
    BY <2>1 DEF InHand, At
  <2> QED
    BY <2>1, <2>2, <2>3 DEF Flow, Live, Lose
<1>3. CASE ProcessRegularDeposit(w) \/ ProcessNexusggrTopup(w)
  <2>1. ~At(w, "idle") /\ Committed(w) /\ UNCHANGED <<hooks, queue, callbacks, acks, lost>>
    BY <1>3 DEF ProcessRegularDeposit, ProcessNexusggrTopup, At, api
  <2>2. j.status = "success"
    BY <1>3 DEF ProcessRegularDeposit, ProcessNexusggrTopup, Handles
  <2>3. j.trx \in Trx /\ txn \in [Trx -> Rows]
    BY <1>0, <2>1, WorkerHasJob DEF Job, TypeOK
  <2>4. txn'[j.trx].status = "success"
    <3>1. \/ txn' = [txn EXCEPT ![j.trx] = DepositedRow(@, j.amount)]
          \/ txn' = [txn EXCEPT ![j.trx] = ToppedUpRow(@, j.amount)]
      BY <1>3 DEF ProcessRegularDeposit, ProcessNexusggrTopup
    <3> HIDE DEF j
    <3> QED
      BY <2>3, <3>1 DEF DepositedRow, ToppedUpRow
  <2>5. Served(j)
    BY <2>1, <2>4 DEF Served
  <2> QED
    BY <1>0, <2>1, <2>2, <2>4, <2>5, FlowFinish, FlowGoto DEF Committed, BuildCallback
<1>4. CASE AlreadySuccess(w)
  <2>1. /\ ~At(w, "idle") /\ BuildCallback(w) /\ UNCHANGED <<hooks, queue, callbacks, acks, lost>>
        /\ j.status = "success" /\ txn'[j.trx].status = "success"
    BY <1>4 DEF AlreadySuccess, At, api, ledger
  <2>2. Served(j)
    BY <2>1 DEF Served
  <2> QED
    BY <1>0, <2>1, <2>2, FlowFinish, FlowGoto DEF BuildCallback
<1>5. CASE SkipJob(w)
  <2>1. ~At(w, "idle") /\ Finish(w) /\ Skipped(j) /\ UNCHANGED <<hooks, queue, callbacks, acks, lost>>
    BY <1>5 DEF SkipJob, At, api
  <2>2. Served(j)
    BY <2>1 DEF Served
  <2> QED
    BY <1>0, <2>1, <2>2, FlowFinish
<1>6. CASE JobFails(w)
  <2>1. ~At(w, "idle") /\ Goto(w, "requeue") /\ UNCHANGED <<hooks, queue, callbacks, acks, lost>>
    BY <1>6 DEF JobFails, At, api
  <2> QED
    BY <1>0, <2>1, FlowGoto
<1>7. CASE EnqueueCallback(w)
  <2>1. At(w, "callback") /\ ~At(w, "idle") /\ Finish(w) /\ UNCHANGED <<hooks, queue, acks, lost>>
        /\ callbacks' = callbacks \cup {j}
    BY <1>7 DEF EnqueueCallback, At, api
  <2>2. Served(j) /\ j \in InHand
    BY <2>1 DEF Served, InHand
  <2>3. Queued' = Queued
    BY <2>1 DEF Queued
  <2> HIDE DEF j
  <2> QED
    BY <1>0, <2>1, <2>2, <2>3, HandFinish DEF Flow, Live, j
<1>8. CASE EnqueueCallbackFails(w)
  <2>1. At(w, "callback") /\ ~At(w, "idle") /\ Goto(w, "requeue")
        /\ UNCHANGED <<hooks, queue, acks, lost>>
        /\ (callbacks' = callbacks \/ callbacks' = callbacks \cup {j})
    BY <1>8 DEF EnqueueCallbackFails, At, api
  <2> QED
    BY <1>0, <2>1, FlowGoto
<1>9. CASE Requeue(w) \/ RequeueFails(w)
  <2>1. ~At(w, "idle") /\ Finish(w) /\ UNCHANGED <<hooks, callbacks, acks>>
        /\ \/ queue' = Append(queue, j) /\ lost' = lost
           \/ queue' = queue /\ Lose(j)
    BY <1>9 DEF Requeue, RequeueFails, At, api
  <2>2. j \in InHand /\ j \in Job
    BY <1>0, <2>1, WorkerHasJob DEF InHand
  <2>3. \/ Queued' = Queued \cup {j} /\ lost' = lost
        \/ Queued' = Queued /\ lost' = IF j.status = "success" THEN lost \cup {j.trx} ELSE lost
    BY <1>0, <2>1, <2>2, QueuedAppend DEF Lose, Queued
  <2>4. InHand' \subseteq InHand /\ InHand \subseteq InHand' \cup {j}
        /\ \A v \in Workers : worker'[v].pc = "callback" => worker'[v] = worker[v]
    BY <1>0, <2>1, HandFinish
  <2> HIDE DEF j
  <2> QED
    BY <2>1, <2>2, <2>3, <2>4 DEF Flow, Live
<1>10. CASE WorkerCrash(w)
  <2>1. ~At(w, "idle") /\ Finish(w) /\ Lose(j) /\ UNCHANGED <<hooks, queue, callbacks, acks>>
    BY <1>10 DEF WorkerCrash, api
  <2>2. InHand' \subseteq InHand /\ InHand \subseteq InHand' \cup {j}
        /\ \A v \in Workers : worker'[v].pc = "callback" => worker'[v] = worker[v]
    BY <1>0, <2>1, HandFinish
  <2>3. Queued' = Queued
    BY <2>1 DEF Queued
  <2> HIDE DEF j
  <2> QED
    BY <2>1, <2>2, <2>3 DEF Flow, Live, Lose
<1> QED
  BY <1>1, <1>2, <1>3, <1>4, <1>5, <1>6, <1>7, <1>8, <1>9, <1>10 DEF WorkerStep, WorkerFails

\* Every step obeys the flow.
LEMMA FlowStep == TypeInv /\ [Next]_vars => Flow
<1> SUFFICES ASSUME TypeInv, [Next]_vars PROVE Flow
  OBVIOUS
<1>1. CASE UNCHANGED vars
  BY <1>1, FlowQuiet DEF vars
<1> QED
  BY <1>1, FlowOutside, FlowWorker DEF Next

----------------------------------------------------------------------------
(* Credits are payments, whatever check-status writes.                     *)

\* A success job repeats what the vendor said when the code was paid.
Backed(j) ==
    j.status = "success" =>
        vendor[j.trx].status = "paid" /\ j.amount = vendor[j.trx].amount

\* Jobs and answers follow a payment, and only an existing row is paid.
PaymentInv ==
    /\ \A j \in Live \cup callbacks : Backed(j)
    /\ \A t \in Trx : txn[t].status = "absent" => txn[t] = NoRow
    /\ \A t \in Trx : vendor[t].status = "paid" => txn[t].status # "absent"
    /\ \A t \in Trx : acks[t] # {} => vendor[t].status = "paid"
    /\ CreditsArePaid

\* Every live job is a job.
LEMMA LiveJobs ==
    ASSUME TypeOK
    PROVE  Live \subseteq Job
<1>1. Queued \subseteq Job
  BY DEF TypeOK, Queued
<1>2. InHand \subseteq Job
  BY WorkerHasJob DEF InHand
<1> QED
  BY <1>1, <1>2 DEF Live, TypeOK

\* What the vendor reported paid stays paid, with the same amount; a code
\* becomes paid only when its row exists.
LEMMA PaidIsFinal ==
    ASSUME TypeInv, [Next]_vars, NEW t \in Trx
    PROVE  /\ vendor[t].status = "paid" => vendor'[t] = vendor[t]
           /\ vendor'[t].status = "paid" => vendor[t].status = "paid" \/ txn[t] # NoRow
<1>0. vendor \in [Trx -> [status : VendorStatuses, amount : Amounts \cup {0}]]
  BY DEF TypeInv, TypeOK
<1>1. ASSUME NEW u \in Trx, NEW s, NEW a, vendor[u].status \in {"none", "pending"},
             vendor' = [vendor EXCEPT ![u] = [status |-> s, amount |-> a]],
             s = "paid" => txn[u] # NoRow
      PROVE  /\ vendor[t].status = "paid" => vendor'[t] = vendor[t]
             /\ vendor'[t].status = "paid" => vendor[t].status = "paid" \/ txn[t] # NoRow
  BY <1>0, <1>1
<1>2. ASSUME NEW u \in Trx, NEW s \in Outcomes, NEW a \in PaidAmounts, VendorSettles(u, s, a)
      PROVE  /\ vendor[t].status = "paid" => vendor'[t] = vendor[t]
             /\ vendor'[t].status = "paid" => vendor[t].status = "paid" \/ txn[t] # NoRow
  BY <1>1, <1>2 DEF VendorSettles
<1>3. ASSUME NEW u \in Trx, NEW a \in RequestAmounts,
             GenerateUpstream(u, a) \/ \E p \in ExternalPurposes : InsertExternal(u, p, a)
      PROVE  /\ vendor[t].status = "paid" => vendor'[t] = vendor[t]
             /\ vendor'[t].status = "paid" => vendor[t].status = "paid" \/ txn[t] # NoRow
  BY <1>1, <1>3 DEF GenerateUpstream, InsertExternal
<1>4. ASSUME UNCHANGED vendor
      PROVE  /\ vendor[t].status = "paid" => vendor'[t] = vendor[t]
             /\ vendor'[t].status = "paid" => vendor[t].status = "paid" \/ txn[t] # NoRow
  BY <1>4
<1>5. CASE UNCHANGED vars
  BY <1>4, <1>5 DEF vars
<1>6. CASE VendorStep
  BY <1>2, <1>3, <1>4, <1>6 DEF VendorStep, AcceptWebhook, DuplicateWebhook, RefuseWebhook
<1>7. CASE ApiStep
  BY <1>3, <1>4, <1>7 DEF ApiStep, GenerateInsert, KeyExpires, CheckAsk, CheckWrite, CheckFails,
     EnqueueWebhook, EnqueueWebhookFails
<1>8. ASSUME NEW w \in Workers, WorkerStep(w) \/ WorkerFails(w)
      PROVE  UNCHANGED vendor
  BY <1>8 DEF WorkerStep, WorkerFails, Dequeue, ProcessRegularDeposit, ProcessNexusggrTopup,
     AlreadySuccess, SkipJob, JobFails, EnqueueCallback, Requeue, DequeueFails,
     EnqueueCallbackFails, RequeueFails, WorkerCrash
<1> QED
  BY <1>4, <1>5, <1>6, <1>7, <1>8 DEF Next

\* A job a webhook brings in repeats the vendor.
LEMMA FreshIsBacked ==
    ASSUME TypeOK, NEW j, Fresh(j)
    PROVE  Backed(j) /\ j.trx \in Trx
<1>1. PICK t \in Trx, s \in TransactionStatuses : SendsWebhook(t, s) /\ j = WebhookJob(t, s)
  BY DEF Fresh
<1>2. j.trx = t /\ j.status = s /\ j.amount = vendor[t].amount
  BY <1>1 DEF WebhookJob
<1>3. vendor[t].status \in VendorStatuses
  BY DEF TypeOK
<1>4. s = "success" => vendor[t].status = "paid"
  BY <1>1, <1>3 DEF SendsWebhook, PublicStatus, VendorStatuses
<1> QED
  BY <1>2, <1>4 DEF Backed

\* Rows never disappear, and only a credit changes the amount of a row; a
\* credit writes what its job carries.
LEMMA RowSteps ==
    ASSUME TypeInv, [Next]_vars, NEW t \in Trx
    PROVE  /\ txn[t].status # "absent" => txn'[t].status # "absent"
           /\ txn'[t].status = "absent" => txn'[t] = txn[t]
           /\ \/ /\ credits'[t] = credits[t]
                 /\ txn[t].status # "absent" => txn'[t].amount = txn[t].amount
              \/ \E j \in Live : j.trx = t /\ j.status = "success" /\ txn'[t].amount = j.amount
<1>0. TypeOK /\ txn \in [Trx -> Rows] /\ credits \in [Trx -> Nat]
  BY DEF TypeInv, TypeOK
<1>1. CASE UNCHANGED ledger
  BY <1>1 DEF ledger
<1>2. ASSUME NEW u \in Trx, InsertsRow(u)
      PROVE  /\ txn[t].status # "absent" => txn'[t].status # "absent"
             /\ txn'[t].status = "absent" => txn'[t] = txn[t]
             /\ credits'[t] = credits[t]
             /\ txn[t].status # "absent" => txn'[t].amount = txn[t].amount
  BY <1>0, <1>2 DEF InsertsRow, NoRow, NewRow
<1>3. ASSUME NEW c \in Callers, CheckWrite(c)
      PROVE  /\ txn[t].status # "absent" => txn'[t].status # "absent"
             /\ txn'[t].status = "absent" => txn'[t] = txn[t]
             /\ credits'[t] = credits[t]
             /\ txn'[t].amount = txn[t].amount
  <2>1. checks[c].trx \in Trx /\ checks[c].status \in TransactionStatuses
    BY <1>0, <1>3 DEF CheckWrite, TypeOK
  <2> QED
    BY <1>0, <1>3, <2>1 DEF CheckWrite, CheckedRow, TransactionStatuses
<1>4. ASSUME NEW w \in Workers, ProcessRegularDeposit(w) \/ ProcessNexusggrTopup(w)
      PROVE  /\ txn'[t].status # "absent" \/ txn'[t] = txn[t]
             /\ txn[t].status # "absent" => txn'[t].status # "absent"
             /\ \/ credits'[t] = credits[t] /\ txn'[t].amount = txn[t].amount
                \/ \E j \in Live : j.trx = t /\ j.status = "success" /\ txn'[t].amount = j.amount
  <2> DEFINE j == worker[w].job
  <2>1. ~At(w, "idle") /\ j.status = "success"
    BY <1>4 DEF ProcessRegularDeposit, ProcessNexusggrTopup, At, Handles
  <2>2. j \in Live /\ j.trx \in Trx
    BY <1>0, <2>1, WorkerHasJob DEF Live, InHand, Job
  <2>3. /\ credits' = [credits EXCEPT ![j.trx] = @ + 1]
        /\ \/ txn' = [txn EXCEPT ![j.trx] = DepositedRow(@, j.amount)]
           \/ txn' = [txn EXCEPT ![j.trx] = ToppedUpRow(@, j.amount)]
    BY <1>4 DEF ProcessRegularDeposit, ProcessNexusggrTopup
  <2> HIDE DEF j
  <2>4. CASE t = j.trx
    BY <1>0, <2>1, <2>2, <2>3, <2>4 DEF DepositedRow, ToppedUpRow
  <2>5. CASE t # j.trx
    BY <1>0, <2>2, <2>3, <2>5
  <2> QED
    BY <2>4, <2>5
<1> QED
  BY <1>1, <1>2, <1>3, <1>4, LedgerSteps

\* Every step keeps it, whoever takes it.
LEMMA PaymentInvStep == TypeInv /\ CreditInv /\ PaymentInv /\ [Next]_vars => PaymentInv'
<1> SUFFICES ASSUME TypeInv, CreditInv, PaymentInv, [Next]_vars PROVE PaymentInv'
  OBVIOUS
<1>0. TypeOK /\ Flow /\ credits \in [Trx -> Nat]
  BY FlowStep DEF TypeInv, TypeOK
<1>1. \A t \in Trx : vendor[t].status = "paid" => vendor'[t] = vendor[t]
  BY PaidIsFinal
<1>2. ASSUME NEW j, Backed(j), j.trx \in Trx
      PROVE  Backed(j)'
  BY <1>1, <1>2 DEF Backed
<1>3. ASSUME NEW j \in Live' \cup callbacks'
      PROVE  Backed(j)'
  <2>1. CASE j \in Live \cup callbacks
    <3>1. j.trx \in Trx
      BY <1>0, <2>1, LiveJobs DEF TypeOK, Job
    <3> QED
      BY <1>2, <2>1, <3>1 DEF PaymentInv
  <2>2. CASE Fresh(j)
    BY <1>0, <1>2, <2>2, FreshIsBacked
  <2> QED
    BY <1>0, <1>3, <2>1, <2>2 DEF Flow
<1>4. ASSUME NEW t \in Trx
      PROVE  txn'[t].status = "absent" => txn'[t] = NoRow
  BY RowSteps DEF PaymentInv
<1>5. ASSUME NEW t \in Trx, vendor'[t].status = "paid"
      PROVE  txn'[t].status # "absent"
  BY <1>5, PaidIsFinal, RowSteps DEF PaymentInv
<1>6. ASSUME NEW t \in Trx, acks'[t] # {}
      PROVE  vendor'[t].status = "paid"
  <2>1. \/ acks[t] # {}
        \/ \E j \in Live : j.trx = t /\ j.status = "success"
        \/ \E j : Fresh(j) /\ j.trx = t /\ j.status = "success"
    BY <1>0, <1>6 DEF Flow
  <2>2. vendor[t].status = "paid"
    BY <1>0, <2>1, FreshIsBacked DEF PaymentInv, Backed
  <2> QED
    BY <1>1, <2>2
<1>7. ASSUME NEW t \in Trx, credits'[t] > 0
      PROVE  vendor'[t].status = "paid" /\ txn'[t].amount = vendor'[t].amount
  <2>1. CASE credits'[t] = credits[t] /\ (txn[t].status # "absent" => txn'[t].amount = txn[t].amount)
    <3>1. vendor[t].status = "paid" /\ txn[t].amount = vendor[t].amount /\ txn[t].status # "absent"
      BY <1>7, <2>1 DEF PaymentInv, CreditsArePaid, CreditInv
    <3> QED
      BY <1>1, <2>1, <3>1
  <2>2. ASSUME NEW j \in Live, j.trx = t, j.status = "success", txn'[t].amount = j.amount
        PROVE  vendor'[t].status = "paid" /\ txn'[t].amount = vendor'[t].amount
    BY <1>1, <2>2 DEF PaymentInv, Backed
  <2> QED
    BY <2>1, <2>2, RowSteps
<1> QED
  BY <1>3, <1>4, <1>5, <1>6, <1>7 DEF PaymentInv, CreditsArePaid

\* Nothing is paid, queued or credited at first.
LEMMA PaymentInit == Init => PaymentInv
<1> SUFFICES ASSUME Init PROVE PaymentInv
  OBVIOUS
<1>1. Live = {}
  BY DEF Init, Live, Queued, InHand, At, Idle
<1> QED
  BY <1>1 DEF Init, PaymentInv, CreditsArePaid, NoRow

\* For any number of callers, webhooks, workers and failures: no status
\* check-status writes makes money out of a code that was not paid, nor does it
\* change what a credited row says was paid.
THEOREM CreditsArePayments == Spec => []CreditsArePaid
<1>1. Init => CreditInv
  BY DEF Init, CreditInv, NoRow
<1>2. PaymentInv => CreditsArePaid
  BY DEF PaymentInv
<1> QED
  BY <1>1, <1>2, TypeInit, TypeStep, CreditInvStep, PaymentInit, PaymentInvStep, PTL DEF Spec

----------------------------------------------------------------------------
(* Without check-status callbacks follow credits and no payment is lost.   *)

\* A row that is success stays so; what is announced is success; a queued
\* payment is in the pipeline, credited, or lost to a failure.
OutcomeInv ==
    /\ \A t \in Trx : txn[t].status \in {"absent", "pending", "success"}
    /\ \A w \in Workers : worker[w].pc = "callback" =>
            worker[w].job.status = "success" /\ txn[worker[w].job.trx].status = "success"
    /\ \A cb \in callbacks : cb.status = "success" /\ txn[cb.trx].status = "success"
    /\ NoSilentLoss

\* The live success jobs of a code are its pipeline.
LiveIsPipeline ==
    \A t \in Trx : InPipeline(t) <=> \E j \in Live : j.trx = t /\ j.status = "success"

\* That holds in every well-typed state.
LEMMA PipelineIsLive == TypeOK => LiveIsPipeline
<1> SUFFICES ASSUME TypeOK, NEW t \in Trx
             PROVE  InPipeline(t) <=> \E j \in Live : j.trx = t /\ j.status = "success"
  BY DEF LiveIsPipeline
<1>1. \A w \in Workers : worker[w] # Idle <=> ~At(w, "idle")
  <2>1. \A w \in Workers : worker[w] = Idle \/ worker[w] \in Running({"loaded", "callback", "requeue"})
    BY DEF TypeOK
  <2>2. \A w \in Workers : At(w, "idle") => worker[w] = Idle
    BY <2>1 DEF At, Running
  <2> QED
    BY <2>2 DEF At, Idle
<1> QED
  BY <1>1, LiveJobs DEF InPipeline, SuccessJobs, Live, Queued, InHand

\* Without check-status a row is settled for good, and a row that was written
\* without a purpose the worker credits never gets one.
LEMMA SettledIsFinal ==
    ASSUME Callers = {}, TypeInv, OutcomeInv, [Next]_vars, NEW t \in Trx
    PROVE  /\ txn'[t].status \in {"absent", "pending", "success"}
           /\ txn[t].status = "success" => txn'[t].status = "success"
           /\ txn'[t].purpose \in {"generate", "nexusggr_topup"} =>
                txn[t] = NoRow \/ txn[t].purpose \in {"generate", "nexusggr_topup"}
<1>0. txn \in [Trx -> Rows] /\ txn[t].status \in {"absent", "pending", "success"}
  BY DEF TypeInv, TypeOK, OutcomeInv
<1>1. CASE UNCHANGED ledger
  BY <1>0, <1>1 DEF ledger
<1>2. ASSUME NEW u \in Trx, InsertsRow(u)
      PROVE  /\ txn'[t].status \in {"absent", "pending", "success"}
             /\ txn[t].status = "success" => txn'[t].status = "success"
             /\ txn'[t] = txn[t] \/ txn[t] = NoRow
  BY <1>0, <1>2 DEF InsertsRow, NoRow, NewRow
<1>3. ASSUME NEW u \in Trx, NEW row \in Rows, Credits(u, row)
      PROVE  /\ txn'[t].status \in {"absent", "pending", "success"}
             /\ txn[t].status = "success" => txn'[t].status = "success"
             /\ txn'[t].purpose \in {"generate", "nexusggr_topup"} =>
                  txn[t].purpose \in {"generate", "nexusggr_topup"}
  BY <1>0, <1>3 DEF Credits
<1> QED
  BY <1>1, <1>2, <1>3, LedgerSteps, CreditSteps

\* Without check-status every step keeps it.
LEMMA OutcomeInvStep ==
    ASSUME Callers = {}
    PROVE  TypeInv /\ OnceInv /\ OnceInv' /\ PaymentInv /\ PaymentInv' /\ TypeInv'
            /\ OutcomeInv /\ [Next]_vars => OutcomeInv'
<1> SUFFICES ASSUME TypeInv, OnceInv, OnceInv', PaymentInv, PaymentInv', TypeInv', OutcomeInv,
                    [Next]_vars
             PROVE  OutcomeInv'
  OBVIOUS
<1>0. TypeOK /\ TypeOK' /\ Flow
  BY FlowStep DEF TypeInv
<1>1. \A t \in Trx : /\ txn'[t].status \in {"absent", "pending", "success"}
                     /\ txn[t].status = "success" => txn'[t].status = "success"
  BY SettledIsFinal
<1>2. ASSUME NEW w \in Workers, worker'[w].pc = "callback"
      PROVE  worker'[w].job.status = "success" /\ txn'[worker'[w].job.trx].status = "success"
  <2>1. CASE worker'[w] = worker[w]
    <3>1. worker[w].job.trx \in Trx
      BY <1>0, <1>2, <2>1, WorkerHasJob DEF At, Job
    <3> QED
      BY <1>1, <1>2, <2>1, <3>1 DEF OutcomeInv
  <2> QED
    BY <1>0, <1>2, <2>1 DEF Flow
<1>3. ASSUME NEW cb \in callbacks'
      PROVE  cb.status = "success" /\ txn'[cb.trx].status = "success"
  <2>1. cb.trx \in Trx
    BY <1>0 DEF TypeOK, Job
  <2>2. cb.status = "success" /\ txn[cb.trx].status = "success"
    BY <1>0, <1>3 DEF Flow, OutcomeInv, At
  <2> QED
    BY <1>1, <2>1, <2>2
<1>4. ASSUME NEW t \in Trx, "queued" \in acks'[t], Supported(t)'
      PROVE  Accounted(t)'
  <2>1. CASE \E j \in Live' : j.trx = t /\ j.status = "success"
    <3>1. InPipeline(t)'
      <4>1. TypeOK' => LiveIsPipeline'
        BY PipelineIsLive, PTL
      <4> QED
        BY <1>0, <2>1, <4>1 DEF LiveIsPipeline
    <3> QED
      BY <3>1 DEF Accounted
  <2>2. CASE "queued" \in acks[t]
    <3>1. txn[t].status # "absent" /\ txn[t] # NoRow
      BY <2>2 DEF PaymentInv, NoRow
    <3>2. Supported(t)
      BY <1>4, <3>1, SettledIsFinal DEF Supported
    <3>3. CASE credits[t] > 0
      <4>1. txn[t].status = "success"
        BY <3>3 DEF OnceInv
      <4>2. credits'[t] = 1
        BY <1>1, <4>1 DEF OnceInv
      <4> QED
        BY <4>2 DEF Accounted
    <3>4. CASE t \in lost
      BY <1>0, <3>4 DEF Flow, Accounted
    <3>5. ASSUME NEW j \in Live, j.trx = t, j.status = "success"
          PROVE  Accounted(t)'
      <4>1. CASE j \in Live'
        BY <2>1, <3>5, <4>1
      <4>2. CASE j.trx \in lost'
        BY <3>5, <4>2 DEF Accounted
      <4>3. ASSUME Skipped(j)
            PROVE  FALSE
        BY <3>1, <3>2, <3>5, <4>3 DEF Skipped, Handles, Supported, OutcomeInv
      <4>4. CASE txn'[t].status = "success"
        <5>1. credits'[t] = 1
          BY <4>4 DEF OnceInv
        <5> QED
          BY <5>1 DEF Accounted
      <4>5. ASSUME NEW w \in Workers, At(w, "callback"), worker[w].job = j
            PROVE  txn'[t].status = "success"
        BY <1>1, <3>5, <4>5 DEF OutcomeInv, At
      <4> QED
        BY <1>0, <3>5, <4>1, <4>2, <4>3, <4>4, <4>5 DEF Flow, Served
    <3>6. CASE InPipeline(t)
      BY <1>0, <3>5, <3>6, PipelineIsLive DEF LiveIsPipeline
    <3> QED
      BY <2>2, <3>2, <3>3, <3>4, <3>6 DEF OutcomeInv, NoSilentLoss, Accounted
  <2> QED
    BY <1>0, <1>4, <2>1, <2>2 DEF Flow
<1> QED
  BY <1>1, <1>2, <1>3, <1>4 DEF OutcomeInv, NoSilentLoss

\* The outcome invariant holds initially.
LEMMA OutcomeInit == Init => OutcomeInv
  BY DEF Init, OutcomeInv, NoSilentLoss, NoRow, Idle

\* All the invariants of the pipeline without check-status together.
PipelineInv == TypeInv /\ CreditInv /\ OnceInv /\ PaymentInv /\ OutcomeInv

\* They are inductive.
LEMMA PipelineInvariant ==
    ASSUME Callers = {}
    PROVE  Spec => []PipelineInv
<1>1. Init => PipelineInv
  BY TypeInit, PaymentInit, OutcomeInit DEF Init, PipelineInv, CreditInv, OnceInv, NoRow
<1>2. PipelineInv /\ [Next]_vars => PipelineInv'
  BY TypeStep, CreditInvStep, OnceInvStep, PaymentInvStep, OutcomeInvStep DEF PipelineInv
<1> QED
  BY <1>1, <1>2, PTL DEF Spec

\* Whatever is duplicated, requeued, lost or restarted, a callback is pushed
\* only for a credited row and carries the amount the ledger holds.
THEOREM CallbacksFollowCredits ==
    ASSUME Callers = {}
    PROVE  Spec => []CallbackFollowsCredit
<1>1. ASSUME PipelineInv, NEW cb \in callbacks
      PROVE  credits[cb.trx] = 1 /\ cb.amount = txn[cb.trx].amount
  <2>1. cb.trx \in Trx /\ cb.status = "success" /\ txn[cb.trx].status = "success"
    BY <1>1 DEF PipelineInv, TypeInv, TypeOK, OutcomeInv, Job
  <2>2. credits[cb.trx] = 1
    BY <1>1, <2>1 DEF PipelineInv, OnceInv
  <2>3. cb.amount = vendor[cb.trx].amount
    BY <1>1, <2>1 DEF PipelineInv, PaymentInv, Backed
  <2>4. txn[cb.trx].amount = vendor[cb.trx].amount
    BY <1>1, <2>1, <2>2 DEF PipelineInv, PaymentInv, CreditsArePaid
  <2> QED
    BY <2>2, <2>3, <2>4
<1>2. PipelineInv => CallbackFollowsCredit
  BY <1>1 DEF CallbackFollowsCredit
<1> QED
  BY <1>2, PipelineInvariant, PTL

\* A success webhook that was queued is never dropped on the way to the ledger
\* except by a failure that takes its job.
THEOREM NothingSilentlyLost ==
    ASSUME Callers = {}
    PROVE  Spec => []NoSilentLoss
<1>1. PipelineInv => NoSilentLoss
  BY DEF PipelineInv, OutcomeInv
<1> QED
  BY <1>1, PipelineInvariant, PTL
============================================================================
