------------------------- MODULE DisbursementProofs -------------------------
(***************************************************************************)
(* Proofs about Disbursement for every number of withdrawals, toko,        *)
(* workers, webhooks and failures.                                         *)
(***************************************************************************)
EXTENDS Disbursement, SumTheorems, TLAPS

USE DisbursementAssumption

Statuses == Verdicts \cup {"pending"}
Transfers == {NoTransfer} \cup [said : SUBSET Verdicts, terms : Terms]
Rows == {NoRow} \cup [status : Statuses, terms : Terms, note : Notes]
States == {Idle} \cup [pc : {"loaded", "callback", "requeue"}, job : Job]

\* The vendor said what the job says.
Backed(known, j) == j.status \in Verdicts => j.status \in known[j.ref].said

\* What the toko may be told.
Tellable(rows, known, j) ==
    /\ j.status \in Verdicts
    /\ rows[j.ref].status \in Verdicts
    /\ j.status = rows[j.ref].status \/ known[j.ref].said = Verdicts

\* A verdict travels unchanged from the vendor through queue and worker into
\* the row; a worker announces only what it found or wrote there, or the other
\* of two verdicts that both came from the vendor.
VerdictInv ==
    /\ \A i \in DOMAIN queue : Backed(transfer, queue[i])
    /\ \A w \in Workers : ~At(w, "idle") => Backed(transfer, worker[w].job)
    /\ \A x \in Withdrawals :
            row[x].status \in Verdicts => row[x].status \in transfer[x].said
    /\ \A w \in Workers : At(w, "callback") => Tellable(row, transfer, worker[w].job)
    /\ \A cb \in callbacks : Tellable(row, transfer, cb)

Inv == TypeOK /\ VerdictInv

\* A note without fees is that of a withdrawal without fees.
NoteInv ==
    \A x \in Withdrawals : row[x] # NoRow /\ row[x].note = "empty" =>
                            Deduction(row[x].terms) = row[x].terms.amount

\* Constants have the types the arithmetic needs.
LEMMA DeductionType == \A terms \in Terms : /\ Deduction(terms) \in Nat
                                            /\ Charged(terms.platform_fee) \in Nat
                                            /\ Charged(terms.fee) \in Nat
                                            /\ terms.amount \in Nat
  BY DEF Deduction, Charged

\* A worker that is not idle has a job in hand.
LEMMA WorkerHasJob ==
    ASSUME TypeOK, NEW w \in Workers, ~At(w, "idle")
    PROVE  /\ worker[w] \in [pc : {"loaded", "callback", "requeue"}, job : Job]
           /\ worker[w].job \in Job /\ worker[w].job.ref \in Withdrawals
           /\ worker[w].job.status \in Statuses
  BY DEF TypeOK, At, Idle, Job, Statuses

\* What a worker may turn into keeps the type of the workers.
LEMMA WorkerMoves ==
    ASSUME TypeOK, NEW w \in Workers
    PROVE  /\ Finish(w) => worker' \in [Workers -> States]
           /\ \A pc \in {"callback", "requeue"} :
                ~At(w, "idle") /\ Goto(w, pc) => worker' \in [Workers -> States]
<1>1. Finish(w) => worker' \in [Workers -> States]
  BY DEF Finish, TypeOK, States
<1>2. ASSUME NEW pc \in {"callback", "requeue"}, ~At(w, "idle"), Goto(w, pc)
      PROVE  worker' \in [Workers -> States]
  <2>1. worker[w] \in [pc : {"loaded", "callback", "requeue"}, job : Job]
    BY <1>2, WorkerHasJob
  <2>2. [worker[w] EXCEPT !.pc = pc] \in States
    BY <2>1 DEF States
  <2> QED
    BY <1>2, <2>2 DEF Goto, TypeOK, States
<1> QED
  BY <1>1, <1>2

\* The head and the tail of a list of jobs.
LEMMA PopJob ==
    ASSUME TypeOK, queue # <<>>
    PROVE  /\ Head(queue) \in Job /\ Tail(queue) \in Seq(Job)
           /\ 1 \in DOMAIN queue /\ Head(queue) = queue[1]
           /\ \A i \in DOMAIN Tail(queue) :
                i + 1 \in DOMAIN queue /\ Tail(queue)[i] = queue[i + 1]
<1>1. queue \in Seq(Job) /\ Len(queue) \in Nat /\ Len(queue) # 0
  BY DEF TypeOK
<1>2. Head(queue) \in Job /\ Tail(queue) \in Seq(Job)
  BY <1>1
<1> QED
  BY <1>1, <1>2

\* Appending a job to a list of jobs.
LEMMA AppendJob ==
    ASSUME NEW q \in Seq(Job), NEW j \in Job
    PROVE  /\ Append(q, j) \in Seq(Job)
           /\ \A i \in DOMAIN Append(q, j) :
                Append(q, j)[i] = j \/ (i \in DOMAIN q /\ Append(q, j)[i] = q[i])
<1>1. Append(q, j) \in Seq(Job) /\ Len(Append(q, j)) = Len(q) + 1 /\ Len(q) \in Nat
  OBVIOUS
<1>2. DOMAIN Append(q, j) = 1..(Len(q) + 1) /\ DOMAIN q = 1..Len(q)
  BY <1>1
<1>3. Append(q, j)[Len(q) + 1] = j /\ \A i \in 1..Len(q) : Append(q, j)[i] = q[i]
  OBVIOUS
<1>4. ASSUME NEW i \in DOMAIN Append(q, j)
      PROVE  Append(q, j)[i] = j \/ (i \in DOMAIN q /\ Append(q, j)[i] = q[i])
  BY <1>1, <1>2, <1>3, <1>4
<1> QED
  BY <1>1, <1>4

\* A failure is counted, and a job thrown away is remembered by its reference.
LEMMA FaultType ==
    ASSUME TypeOK
    PROVE  /\ \A kind : Fault(kind) => faults' \in Nat
           /\ \A j \in Job : Misses(j) => missed' \subseteq Withdrawals
  BY DEF TypeOK, Fault, Misses, Job

\* Types hold initially.
LEMMA TypeInit == Init => TypeOK
  BY DEF Init, TypeOK, Idle

\* A row that is settled keeps its type.
LEMMA SettledRowType ==
    ASSUME NEW r \in [status : Statuses, terms : Terms, note : Notes],
           NEW v \in Statuses
    PROVE  /\ SettledRow(r, v) \in [status : Statuses, terms : Terms, note : Notes]
           /\ SettledRow(r, v).status = v
  BY DEF SettledRow

\* What the row of a settling job looks like.
LEMMA SettlingRow ==
    ASSUME TypeOK, NEW j \in Job, Settles(j)
    PROVE  /\ row[j.ref] \in [status : Statuses, terms : Terms, note : Notes]
           /\ row[j.ref].status = "pending" /\ j.ref \in Withdrawals
           /\ row[j.ref].terms \in Terms
           /\ TokoOf[j.ref] \in Toko
<1>1. j.ref \in Withdrawals
  BY DEF Job
<1>2. row[j.ref] \in {NoRow} \cup [status : Statuses, terms : Terms, note : Notes]
  BY <1>1 DEF TypeOK, Statuses
<1> QED
  BY <1>1, <1>2 DEF Settles, NoRow, Statuses

\* What the note of a settling row tells: numbers ...
LEMMA ToldFees ==
    ASSUME TypeOK, NEW j \in Job, Settles(j)
    PROVE  PlatformFee(row[j.ref]) \in Nat /\ RefundAmount(j) \in Nat
<1>1. row[j.ref].terms \in Terms
  BY SettlingRow
<1>2. /\ Charged(row[j.ref].terms.platform_fee) \in Nat
      /\ Charged(row[j.ref].terms.fee) \in Nat
      /\ row[j.ref].terms.amount \in Nat
  BY <1>1, DeductionType
<1> QED
  BY <1>2 DEF PlatformFee, BankFee, RefundAmount

\* ... that are the fees the submission charged.
LEMMA ToldFeesAreCharged ==
    ASSUME TypeOK, NoteInv, NEW j \in Job, Settles(j)
    PROVE  /\ PlatformFee(row[j.ref]) = Charged(row[j.ref].terms.platform_fee)
           /\ RefundAmount(j) = Deduction(row[j.ref].terms)
<1> DEFINE r == row[j.ref]
           p == Charged(r.terms.platform_fee)
           b == Charged(r.terms.fee)
<1>1. r.terms \in Terms /\ r.status = "pending" /\ j.ref \in Withdrawals
  BY SettlingRow
<1>2. p \in Nat /\ b \in Nat /\ r.terms.amount \in Nat
  BY <1>1, DeductionType
<1>3. Deduction(r.terms) = r.terms.amount + p + b
  BY DEF Deduction
<1>4. r.note = "empty" => Deduction(r.terms) = r.terms.amount
  BY <1>1 DEF NoteInv, NoRow
<1>5. /\ PlatformFee(r) = IF r.note = "empty" THEN 0 ELSE p
      /\ BankFee(r) = IF r.note = "empty" THEN 0 ELSE b
      /\ RefundAmount(j) = r.terms.amount + PlatformFee(r) + BankFee(r)
  BY DEF PlatformFee, BankFee, RefundAmount
<1> HIDE DEF r, p, b
<1>6. r.note = "empty" => p = 0 /\ b = 0
  BY <1>2, <1>3, <1>4
<1>7. PlatformFee(r) = p /\ RefundAmount(j) = Deduction(r.terms)
  BY <1>2, <1>3, <1>5, <1>6
<1> QED
  BY <1>7 DEF r, p

\* Steps outside the repository and of the webhook keep the types.
LEMMA TypeOutside ==
    ASSUME TypeOK, OutsideStep \/ ApiStep
    PROVE  TypeOK'
<1>1. ASSUME NEW x \in Withdrawals, NEW terms \in Terms, SubmitTransfer(x, terms)
      PROVE  TypeOK'
  BY <1>1 DEF SubmitTransfer, TypeOK, ledger
<1>2. ASSUME NEW x \in Withdrawals, NEW note \in Notes, InsertWithdrawal(x, note)
      PROVE  TypeOK'
  <2> DEFINE terms == transfer[x].terms
  <2>1. terms \in Terms
    BY <1>2 DEF InsertWithdrawal, TypeOK
  <2>2. row' \in [Withdrawals -> Rows]
    BY <1>2, <2>1 DEF InsertWithdrawal, TypeOK, Rows, Statuses
  <2>3. settle' \in [Toko -> Int]
    <3>1. Deduction(terms) \in Nat /\ TokoOf[x] \in Toko /\ settle[TokoOf[x]] \in Int
      BY <2>1, DeductionType DEF TypeOK
    <3>2. settle' = [settle EXCEPT ![TokoOf[x]] = settle[TokoOf[x]] - Deduction(terms)]
      BY <1>2 DEF InsertWithdrawal
    <3> QED
      BY <3>1, <3>2 DEF TypeOK
  <2> QED
    BY <1>2, <2>2, <2>3 DEF InsertWithdrawal, TypeOK, Rows, Statuses
<1>3. ASSUME NEW x \in Withdrawals, NEW v \in Verdicts, VendorDecides(x, v)
      PROVE  TypeOK'
  <2>1. transfer[x] \in [said : SUBSET Verdicts, terms : Terms]
    BY <1>3 DEF VendorDecides, TypeOK
  <2>2. [transfer[x] EXCEPT !.said = @ \cup {v}] \in Transfers
    BY <2>1 DEF Transfers
  <2>3. transfer' \in [Withdrawals -> Transfers]
    BY <1>3, <2>2 DEF VendorDecides, TypeOK, Transfers, Statuses
  <2> QED
    BY <1>3, <2>3 DEF VendorDecides, TypeOK, Transfers, Statuses, ledger
<1>4. ASSUME NEW j \in Job, AcceptWebhook(j) \/ DuplicateWebhook(j) \/ WebhookFails(j)
      PROVE  TypeOK'
  <2>1. sent' \in Nat /\ faults' \in Nat
    BY <1>4, FaultType DEF AcceptWebhook, DuplicateWebhook, WebhookFails,
                           SendsWebhook, TypeOK
  <2>2. keys' \subseteq Withdrawals
    BY <1>4 DEF AcceptWebhook, DuplicateWebhook, WebhookFails, TypeOK, Job
  <2>3. queue' \in Seq(Job)
    <3>1. queue' = queue \/ queue' = Append(queue, j)
      BY <1>4 DEF AcceptWebhook, DuplicateWebhook, WebhookFails
    <3>2. queue \in Seq(Job)
      BY DEF TypeOK
    <3>3. Append(queue, j) \in Seq(Job)
      BY <3>2, AppendJob
    <3> QED
      BY <3>1, <3>2, <3>3
  <2> QED
    BY <1>4, <2>1, <2>2, <2>3
       DEF AcceptWebhook, DuplicateWebhook, WebhookFails, TypeOK, ledger
<1>5. ASSUME NEW x \in Withdrawals, KeyExpires(x) PROVE TypeOK'
  BY <1>5 DEF KeyExpires, TypeOK, ledger
<1> QED
  BY <1>1, <1>2, <1>3, <1>4, <1>5 DEF OutsideStep, ApiStep

\* A step of a worker keeps the types.
LEMMA TypeWorker ==
    ASSUME TypeOK, NEW w \in Workers, WorkerStep(w) \/ WorkerCrash(w)
    PROVE  TypeOK'
<1> DEFINE j == worker[w].job
<1>a. /\ worker \in [Workers -> States] /\ row \in [Withdrawals -> Rows]
      /\ queue \in Seq(Job) /\ faults \in Nat /\ missed \subseteq Withdrawals
  BY DEF TypeOK, States, Rows, Statuses
<1>b. ~At(w, "idle") => j \in Job /\ j.ref \in Withdrawals /\ TokoOf[j.ref] \in Toko
  BY WorkerHasJob
<1>c. BuildCallback(w) /\ ~At(w, "idle") => worker' \in [Workers -> States]
  BY WorkerMoves DEF BuildCallback
<1>1. CASE Dequeue(w)
  <2>1. Head(queue) \in Job /\ Tail(queue) \in Seq(Job)
    BY <1>1, PopJob DEF Dequeue
  <2>2. [pc |-> "loaded", job |-> Head(queue)] \in States
    BY <2>1 DEF States
  <2>3. worker' \in [Workers -> States]
    BY <1>a, <1>1, <2>2 DEF Dequeue
  <2>4. faults' \in Nat /\ missed' \subseteq Withdrawals
    BY <1>a, <1>1, <2>1, FaultType DEF Dequeue
  <2> QED
    BY <1>1, <2>1, <2>3, <2>4 DEF Dequeue, TypeOK, States, ledger
<1>2. CASE ProcessSuccess(w)
  <2>1. Settles(j) /\ ~At(w, "idle")
    BY <1>2 DEF ProcessSuccess, At
  <2>2. worker' \in [Workers -> States] /\ faults' \in Nat
    BY <1>a, <1>c, <1>2, <2>1, WorkerMoves, FaultType DEF ProcessSuccess, Committed
  <2>3. SettledRow(row[j.ref], "success") \in Rows
    BY <1>b, <2>1, SettlingRow, SettledRowType DEF Rows, Statuses, Verdicts
  <2>4. row' \in [Withdrawals -> Rows]
    BY <1>a, <1>2, <2>3 DEF ProcessSuccess
  <2>5. income' \in Nat
    <3>1. PlatformFee(row[j.ref]) \in Nat
      BY <1>b, <2>1, ToldFees
    <3> QED
      BY <1>2, <3>1, SMTT(30) DEF ProcessSuccess, TypeOK
  <2> QED
    BY <1>2, <2>2, <2>4, <2>5 DEF ProcessSuccess, TypeOK, States, Rows, Statuses
<1>3. CASE ProcessFailed(w)
  <2>1. Settles(j) /\ ~At(w, "idle")
    BY <1>3 DEF ProcessFailed, At
  <2>2. worker' \in [Workers -> States] /\ faults' \in Nat
    BY <1>a, <1>c, <1>3, <2>1, WorkerMoves, FaultType DEF ProcessFailed, Committed
  <2>3. SettledRow(row[j.ref], "failed") \in Rows
    BY <1>b, <2>1, SettlingRow, SettledRowType DEF Rows, Statuses, Verdicts
  <2>4. row' \in [Withdrawals -> Rows]
    BY <1>a, <1>3, <2>3 DEF ProcessFailed
  <2>5. settle' \in [Toko -> Int]
    <3>1. RefundAmount(j) \in Nat
      BY <1>b, <2>1, ToldFees
    <3>2. settle[TokoOf[j.ref]] \in Int
      BY <1>b, <2>1 DEF TypeOK
    <3>3. settle' = [settle EXCEPT ![TokoOf[j.ref]] =
                        settle[TokoOf[j.ref]] + RefundAmount(j)]
      BY <1>3 DEF ProcessFailed
    <3>4. settle[TokoOf[j.ref]] + RefundAmount(j) \in Int
      BY <3>1, <3>2
    <3> QED
      BY <3>3, <3>4 DEF TypeOK
  <2> QED
    BY <1>3, <2>2, <2>4, <2>5 DEF ProcessFailed, TypeOK, States, Rows, Statuses
<1>4. CASE AlreadyProcessed(w)
  <2>1. worker' \in [Workers -> States]
    BY <1>c, <1>4 DEF AlreadyProcessed, At
  <2> QED
    BY <1>4, <2>1 DEF AlreadyProcessed, TypeOK, States, ledger
<1>5. CASE SkipJob(w)
  <2>1. worker' \in [Workers -> States]
    BY <1>5, WorkerMoves DEF SkipJob
  <2>2. missed' \subseteq Withdrawals
    BY <1>b, <1>5, FaultType DEF SkipJob, At
  <2> QED
    BY <1>5, <2>1, <2>2 DEF SkipJob, TypeOK, States, ledger
<1>6. CASE JobFails(w)
  <2>1. worker' \in [Workers -> States] /\ faults' \in Nat
    BY <1>a, <1>6, WorkerMoves, FaultType DEF JobFails, At
  <2> QED
    BY <1>6, <2>1 DEF JobFails, TypeOK, States, ledger
<1>7. CASE EnqueueCallback(w)
  <2>1. worker' \in [Workers -> States] /\ faults' \in Nat
    BY <1>a, <1>7, WorkerMoves, FaultType DEF EnqueueCallback, At
  <2>2. callbacks' \subseteq Job
    BY <1>b, <1>7 DEF EnqueueCallback, At, TypeOK
  <2> QED
    BY <1>7, <2>1, <2>2 DEF EnqueueCallback, TypeOK, States, ledger
<1>8. CASE Requeue(w)
  <2>1. j \in Job
    BY <1>b, <1>8 DEF Requeue, At
  <2>2. worker' \in [Workers -> States]
    BY <1>8, WorkerMoves DEF Requeue
  <2>3. queue' \in Seq(Job)
    BY <1>a, <1>8, <2>1, AppendJob, ZenonT(40) DEF Requeue
  <2>4. faults' \in Nat /\ missed' \subseteq Withdrawals
    BY <1>a, <1>8, <2>1, FaultType DEF Requeue
  <2> QED
    BY <1>8, <2>2, <2>3, <2>4 DEF Requeue, TypeOK, States, ledger
<1>9. CASE WorkerCrash(w)
  <2>1. worker' \in [Workers -> States] /\ faults' \in Nat
    BY <1>9, WorkerMoves, FaultType DEF WorkerCrash
  <2>2. missed' \subseteq Withdrawals
    BY <1>b, <1>9, FaultType DEF WorkerCrash
  <2> QED
    BY <1>9, <2>1, <2>2 DEF WorkerCrash, TypeOK, States, ledger
<1> QED
  BY <1>1, <1>2, <1>3, <1>4, <1>5, <1>6, <1>7, <1>8, <1>9 DEF WorkerStep

\* Every step keeps the types.
LEMMA TypeStep == TypeOK /\ [Next]_vars => TypeOK'
<1> SUFFICES ASSUME TypeOK, [Next]_vars PROVE TypeOK'
  OBVIOUS
<1>1. CASE UNCHANGED vars
  BY <1>1 DEF vars, ledger, TypeOK
<1>2. CASE Next
  BY <1>2, TypeOutside, TypeWorker DEF Next
<1> QED
  BY <1>1, <1>2

\* The disbursement pipeline keeps its types.
THEOREM TypeCorrect == Spec => []TypeOK
  BY TypeInit, TypeStep, PTL DEF Spec

----------------------------------------------------------------------------
\* The vendor gives verdicts only.
LEMMA SaidType ==
    ASSUME NEW known \in [Withdrawals -> Transfers], NEW x \in Withdrawals
    PROVE  known[x].said \subseteq Verdicts
<1>1. known[x] \in {NoTransfer} \cup [said : SUBSET Verdicts, terms : Terms]
  BY DEF Transfers
<1>2. CASE known[x] = NoTransfer
  BY <1>2 DEF NoTransfer
<1>3. CASE known[x] \in [said : SUBSET Verdicts, terms : Terms]
  BY <1>3
<1> QED
  BY <1>1, <1>2, <1>3

\* A row that is decided is final, and what the vendor has said stays said.
LEMMA VerdictsAreFinal ==
    ASSUME TypeOK, Next, NEW x \in Withdrawals
    PROVE  /\ transfer[x].said \subseteq transfer'[x].said
           /\ row[x].status \in Verdicts => row'[x] = row[x]
<1> USE DEF Verdicts
<1>1. CASE OutsideStep
  <2>1. row[x] # NoRow => row'[x] = row[x]
    BY <1>1 DEF OutsideStep, SubmitTransfer, InsertWithdrawal, VendorDecides, TypeOK,
                ledger
  <2>2. ASSUME NEW y \in Withdrawals, NEW v \in Verdicts, VendorDecides(y, v)
        PROVE  transfer[x].said \subseteq transfer'[x].said
    <3>1. transfer[y] \in [said : SUBSET Verdicts, terms : Terms]
      BY <2>2 DEF VendorDecides, TypeOK
    <3>2. transfer' = [transfer EXCEPT ![y] = [transfer[y] EXCEPT !.said = @ \cup {v}]]
      BY <2>2 DEF VendorDecides
    <3>3. [transfer[y] EXCEPT !.said = @ \cup {v}].said = transfer[y].said \cup {v}
      BY <3>1
    <3>4. transfer \in [Withdrawals -> Transfers]
      BY DEF TypeOK, Transfers
    <3> QED
      BY <3>2, <3>3, <3>4
  <2>3. transfer[x] = NoTransfer => transfer[x].said \subseteq transfer'[x].said
    BY DEF NoTransfer
  <2>4. transfer[x] # NoTransfer => transfer[x].said \subseteq transfer'[x].said
    BY <1>1, <2>2, ZenonT(60) DEF OutsideStep, SubmitTransfer, InsertWithdrawal, TypeOK
  <2> QED
    BY <2>1, <2>3, <2>4 DEF NoRow
<1>2. CASE ApiStep
  BY <1>2 DEF ApiStep, AcceptWebhook, DuplicateWebhook, WebhookFails, KeyExpires, ledger
<1>3. ASSUME NEW w \in Workers, WorkerStep(w) \/ WorkerCrash(w)
      PROVE  transfer' = transfer /\ (row[x].status \in Verdicts => row'[x] = row[x])
  <2>1. CASE ProcessSuccess(w) \/ ProcessFailed(w)
    BY <2>1 DEF ProcessSuccess, ProcessFailed, Settles, TypeOK
  <2>2. CASE ~(ProcessSuccess(w) \/ ProcessFailed(w))
    BY <1>3, <2>2 DEF WorkerStep, Dequeue, AlreadyProcessed, SkipJob, JobFails,
                      EnqueueCallback, Requeue, WorkerCrash, ledger
  <2> QED
    BY <2>1, <2>2
<1> QED
  BY <1>1, <1>2, <1>3 DEF Next

\* So what the vendor has said for a job stays said.
LEMMA BackedStays ==
    ASSUME TypeOK, Next, NEW j \in Job, Backed(transfer, j)
    PROVE  Backed(transfer', j)
<1>1. j.ref \in Withdrawals
  BY DEF Job
<1> QED
  BY <1>1, VerdictsAreFinal DEF Backed

\* And what may be told may be told later.
LEMMA TellableStays ==
    ASSUME TypeOK, TypeOK', Next, NEW j \in Job, Tellable(row, transfer, j)
    PROVE  Tellable(row', transfer', j)
<1>1. /\ j.ref \in Withdrawals /\ row'[j.ref] = row[j.ref]
      /\ transfer[j.ref].said \subseteq transfer'[j.ref].said
  BY VerdictsAreFinal DEF Job, Tellable
<1>2. transfer'[j.ref].said \subseteq Verdicts
  BY <1>1, SaidType DEF TypeOK, Transfers
<1> QED
  BY <1>1, <1>2 DEF Tellable

\* Outside the workers only the webhook adds a job, with the vendor's status.
LEMMA VerdictOutside ==
    ASSUME Inv, TypeOK', OutsideStep \/ ApiStep
    PROVE  VerdictInv'
<1> USE DEF Inv
<1>0. Next
  BY DEF Next
<1>1. worker' = worker /\ callbacks' = callbacks
  BY DEF OutsideStep, SubmitTransfer, InsertWithdrawal, VendorDecides, ApiStep,
         AcceptWebhook, DuplicateWebhook, WebhookFails, KeyExpires, ledger
<1>2. \A i \in DOMAIN queue' : Backed(transfer', queue'[i])
  <2>1. CASE queue' = queue
    <3>1. \A i \in DOMAIN queue : queue[i] \in Job /\ Backed(transfer, queue[i])
      BY DEF VerdictInv, TypeOK
    <3> QED
      BY <1>0, <2>1, <3>1, BackedStays
  <2>2. CASE queue' # queue
    <3>1. PICK j \in Job : /\ queue' = Append(queue, j) /\ SendsWebhook(j)
                           /\ transfer' = transfer
      BY <2>2 DEF OutsideStep, SubmitTransfer, InsertWithdrawal, VendorDecides,
                  ApiStep, AcceptWebhook, DuplicateWebhook, WebhookFails, KeyExpires
    <3>2. Backed(transfer', j)
      BY <3>1 DEF SendsWebhook, Backed, Verdicts
    <3>3. \A i \in DOMAIN queue : queue[i] \in Job /\ Backed(transfer', queue[i])
      <4>1. \A i \in DOMAIN queue : queue[i] \in Job /\ Backed(transfer, queue[i])
        BY DEF VerdictInv, TypeOK
      <4> QED
        BY <1>0, <4>1, BackedStays
    <3>4. queue \in Seq(Job)
      BY DEF TypeOK
    <3> QED
      BY <3>1, <3>2, <3>3, <3>4, AppendJob
  <2> QED
    BY <2>1, <2>2
<1>3. \A w \in Workers : ~At(w, "idle")' => Backed(transfer', worker'[w].job)
  <2>1. ASSUME NEW w \in Workers, ~At(w, "idle")
        PROVE  worker[w].job \in Job /\ Backed(transfer, worker[w].job)
    BY <2>1, WorkerHasJob DEF VerdictInv
  <2>2. ASSUME NEW w \in Workers, ~At(w, "idle")
        PROVE  Backed(transfer', worker[w].job)
    BY <1>0, <2>1, <2>2, BackedStays
  <2> QED
    BY <1>1, <2>2 DEF At
<1>4. \A x \in Withdrawals : row'[x].status \in Verdicts => row'[x] = row[x]
  BY SMTT(30) DEF OutsideStep, SubmitTransfer, InsertWithdrawal, VendorDecides, ApiStep,
         AcceptWebhook, DuplicateWebhook, WebhookFails, KeyExpires, ledger, TypeOK,
         Verdicts
<1>5. \A x \in Withdrawals :
          row'[x].status \in Verdicts => row'[x].status \in transfer'[x].said
  BY <1>0, <1>4, VerdictsAreFinal DEF VerdictInv
<1>6. \A w \in Workers : At(w, "callback")' => Tellable(row', transfer', worker'[w].job)
  <2>1. \A w \in Workers : At(w, "callback") => worker[w].job \in Job /\ Tellable(row, transfer, worker[w].job)
    BY WorkerHasJob DEF VerdictInv, At
  <2>2. \A w \in Workers : At(w, "callback") => Tellable(row', transfer', worker[w].job)
    BY <1>0, <1>1, <2>1, TellableStays
  <2> QED
    BY <1>1, <2>2 DEF At
<1>7. \A cb \in callbacks' : Tellable(row', transfer', cb)
  BY <1>0, <1>1, TellableStays DEF VerdictInv, TypeOK
<1> QED
  BY <1>2, <1>3, <1>5, <1>6, <1>7 DEF VerdictInv

\* The row a worker settles takes the status of its job.
LEMMA SettledStatus ==
    ASSUME TypeOK, NEW w \in Workers, ProcessSuccess(w) \/ ProcessFailed(w)
    PROVE  /\ Settles(worker[w].job) /\ ~At(w, "idle")
           /\ row'[worker[w].job.ref].status = worker[w].job.status
           /\ \A x \in Withdrawals \ {worker[w].job.ref} : row'[x] = row[x]
<1> DEFINE j == worker[w].job
           r == row[j.ref]
<1>1. Settles(j) /\ ~At(w, "idle") /\ j.status \in Statuses
  BY DEF ProcessSuccess, ProcessFailed, At, Settles, Statuses
<1>2. row' = [row EXCEPT ![j.ref] = SettledRow(r, j.status)]
  BY DEF ProcessSuccess, ProcessFailed
<1>3. j \in Job /\ j.ref \in Withdrawals
  BY <1>1, WorkerHasJob
<1>4. SettledRow(r, j.status).status = j.status
  BY <1>1, <1>3, SettlingRow, SettledRowType
<1> QED
  BY <1>1, <1>2, <1>3, <1>4 DEF TypeOK

\* A row without fees in its note was inserted without fees, and keeps both.
LEMMA NoteStep == TypeOK /\ NoteInv /\ [Next]_vars => NoteInv'
<1> SUFFICES ASSUME TypeOK, NoteInv, [Next]_vars PROVE NoteInv'
  OBVIOUS
<1>1. row' = row => NoteInv'
  BY DEF NoteInv
<1>2. ASSUME NEW x \in Withdrawals, NEW note \in Notes, InsertWithdrawal(x, note)
      PROVE  NoteInv'
  <2>1. /\ row' = [row EXCEPT ![x] = [status |-> "pending", terms |-> transfer[x].terms,
                                      note |-> note]]
        /\ note = "empty" => Deduction(transfer[x].terms) = transfer[x].terms.amount
    BY <1>2 DEF InsertWithdrawal
  <2> QED
    BY <2>1 DEF NoteInv, TypeOK
<1>3. ASSUME NEW w \in Workers, ProcessSuccess(w) \/ ProcessFailed(w) PROVE NoteInv'
  <2> DEFINE x == worker[w].job.ref
  <2>1. Settles(worker[w].job) /\ ~At(w, "idle") /\ worker[w].job \in Job
    BY <1>3, SettledStatus, WorkerHasJob
  <2>2. row[x] \in [status : Statuses, terms : Terms, note : Notes] /\ row[x] # NoRow
        /\ x \in Withdrawals
    BY <2>1, SettlingRow DEF NoRow
  <2>3. PICK v \in Statuses : row' = [row EXCEPT ![x] = SettledRow(row[x], v)]
    BY <1>3 DEF ProcessSuccess, ProcessFailed, Statuses, Verdicts
  <2> HIDE DEF x
  <2>4. row'[x].terms = row[x].terms /\ row'[x].note = row[x].note
    BY <2>2, <2>3 DEF SettledRow, TypeOK
  <2>5. \A y \in Withdrawals \ {x} : row'[y] = row[y]
    BY <2>3 DEF TypeOK
  <2> QED
    BY <2>2, <2>4, <2>5 DEF NoteInv
<1>4. CASE UNCHANGED vars
  BY <1>1, <1>4 DEF vars, ledger
<1>5. CASE OutsideStep
  BY <1>1, <1>2, <1>5 DEF OutsideStep, SubmitTransfer, VendorDecides, ledger
<1>6. CASE ApiStep
  BY <1>1, <1>6 DEF ApiStep, AcceptWebhook, DuplicateWebhook, WebhookFails, KeyExpires,
                    ledger
<1>7. ASSUME NEW w \in Workers, WorkerStep(w) \/ WorkerCrash(w) PROVE NoteInv'
  BY <1>1, <1>3, <1>7 DEF WorkerStep, Dequeue, AlreadyProcessed, SkipJob, JobFails,
                          EnqueueCallback, Requeue, WorkerCrash, ledger
<1> QED
  BY <1>4, <1>5, <1>6, <1>7 DEF Next

\* So the note tells the fees that were charged.
LEMMA NotesTellFees == Spec => []NoteInv
<1>1. Init => NoteInv
  BY DEF Init, NoteInv
<1> QED
  BY <1>1, NoteStep, TypeCorrect, PTL DEF Spec

\* A worker announces a verdict only after it wrote the row, or found it there.
LEMMA VerdictWorker ==
    ASSUME Inv, TypeOK', NEW w \in Workers, WorkerStep(w) \/ WorkerCrash(w)
    PROVE  VerdictInv'
<1> USE DEF Inv
<1> DEFINE j == worker[w].job
<1>0. Next
  BY DEF Next
<1>a. transfer' = transfer
  BY DEF WorkerStep, WorkerCrash, Dequeue, ProcessSuccess, ProcessFailed,
         AlreadyProcessed, SkipJob, JobFails, EnqueueCallback, Requeue
<1>b. \A i \in DOMAIN queue : queue[i] \in Job /\ Backed(transfer, queue[i])
  BY DEF VerdictInv, TypeOK
<1>c. ~At(w, "idle") => /\ j \in Job /\ Backed(transfer, j) /\ j.ref \in Withdrawals
                        /\ worker[w] \in [pc : {"loaded", "callback", "requeue"}, job : Job]
  BY WorkerHasJob DEF VerdictInv
<1>d. \A x \in Withdrawals : row[x].status \in Verdicts => row'[x] = row[x]
  BY <1>0, VerdictsAreFinal
<1>1. \A i \in DOMAIN queue' : Backed(transfer, queue'[i])
  <2>1. CASE Dequeue(w)
    BY <1>b, <2>1, PopJob DEF Dequeue
  <2>2. CASE Requeue(w) /\ queue' = Append(queue, j)
    <3>1. queue \in Seq(Job) /\ j \in Job /\ Backed(transfer, j)
      BY <1>c, <2>2 DEF Requeue, At, TypeOK
    <3> QED
      BY <1>b, <2>2, <3>1, AppendJob
  <2>3. CASE queue' = queue
    BY <1>b, <2>3
  <2> QED
    BY <2>1, <2>2, <2>3 DEF WorkerStep, WorkerCrash, ProcessSuccess, ProcessFailed,
         AlreadyProcessed, SkipJob, JobFails, EnqueueCallback, Requeue
<1>2. \A v \in Workers \ {w} : worker'[v] = worker[v]
  BY DEF WorkerStep, WorkerCrash, Dequeue, ProcessSuccess, ProcessFailed, Committed,
         BuildCallback, AlreadyProcessed, SkipJob, JobFails, EnqueueCallback, Requeue,
         Goto, Finish, TypeOK
<1>3. ~At(w, "idle")' => Backed(transfer, worker'[w].job)
  <2>1. CASE Dequeue(w)
    BY <1>b, <1>c, <2>1, PopJob DEF Dequeue, At, TypeOK
  <2>2. CASE ~Dequeue(w)
    <3>1. ~At(w, "idle") /\ (Finish(w) \/ \E pc \in {"callback", "requeue"} : Goto(w, pc))
      BY <2>2 DEF WorkerStep, WorkerCrash, ProcessSuccess, ProcessFailed, Committed,
           BuildCallback, AlreadyProcessed, SkipJob, JobFails, EnqueueCallback, Requeue, At
    <3>2. CASE Finish(w)
      BY <3>2 DEF Finish, At, Idle, TypeOK
    <3>3. ASSUME NEW pc \in {"callback", "requeue"}, Goto(w, pc)
          PROVE  worker'[w].job = j
      BY <1>c, <3>1, <3>3 DEF Goto, TypeOK
    <3> QED
      BY <1>c, <3>1, <3>2, <3>3
  <2> QED
    BY <2>1, <2>2
<1>4. \A x \in Withdrawals :
          row'[x].status \in Verdicts => row'[x].status \in transfer[x].said
  <2>1. CASE row' = row
    BY <2>1 DEF VerdictInv
  <2>2. ASSUME ProcessSuccess(w) \/ ProcessFailed(w), NEW x \in Withdrawals,
               row'[x].status \in Verdicts
        PROVE  row'[x].status \in transfer[x].said
    <3>1. Settles(j) /\ ~At(w, "idle")
      BY <2>2, SettledStatus
    <3>2. x # j.ref => row'[x] = row[x]
      BY <2>2, SettledStatus
    <3>3. row'[j.ref].status = j.status
      BY <2>2, SettledStatus
    <3> QED
      BY <1>c, <2>2, <3>1, <3>2, <3>3 DEF VerdictInv, Backed, Settles
  <2> QED
    BY <2>1, <2>2 DEF WorkerStep, WorkerCrash, Dequeue, AlreadyProcessed, SkipJob,
                      JobFails, EnqueueCallback, Requeue, ledger
<1>5. At(w, "callback")' => worker'[w].job \in Job /\ Tellable(row', transfer', worker'[w].job)
  <2>1. CASE ProcessSuccess(w) \/ ProcessFailed(w)
    <3>1. Settles(j) /\ ~At(w, "idle")
      BY <2>1, SettledStatus
    <3>2. row'[j.ref].status = j.status
      BY <2>1, SettledStatus
    <3>3. At(w, "callback")' => worker'[w].job = j
      BY <1>c, <2>1, <3>1 DEF ProcessSuccess, ProcessFailed, Committed, BuildCallback,
                              Goto, Finish, At, Idle, TypeOK
    <3> QED
      BY <1>c, <3>1, <3>2, <3>3 DEF Settles, Tellable
  <2>2. CASE AlreadyProcessed(w)
    <3>1. /\ j.status \in Verdicts /\ row[j.ref].status \in Verdicts /\ ~At(w, "idle")
          /\ row' = row
      BY <2>2 DEF AlreadyProcessed, At, ledger
    <3>0. transfer \in [Withdrawals -> Transfers]
      BY DEF TypeOK, Transfers
    <3>2. /\ j.status \in transfer[j.ref].said
          /\ row[j.ref].status \in transfer[j.ref].said
          /\ transfer[j.ref].said \subseteq Verdicts
      BY <1>c, <3>0, <3>1, SaidType DEF VerdictInv, Backed
    <3>3. j.status = row[j.ref].status \/ transfer[j.ref].said = Verdicts
      BY <3>1, <3>2 DEF Verdicts
    <3>4. At(w, "callback")' => worker'[w].job = j
      BY <1>c, <2>2, <3>1 DEF AlreadyProcessed, BuildCallback, Goto, Finish, At, Idle, TypeOK
    <3> QED
      BY <1>a, <1>c, <3>1, <3>3, <3>4 DEF Tellable
  <2>3. CASE ~(ProcessSuccess(w) \/ ProcessFailed(w) \/ AlreadyProcessed(w))
    <3>1. ~At(w, "callback")'
      BY <1>c, <2>3 DEF WorkerStep, WorkerCrash, Dequeue, SkipJob, JobFails,
                        EnqueueCallback, Requeue, Goto, Finish, At, Idle, TypeOK
    <3> QED
      BY <3>1
  <2> QED
    BY <2>1, <2>2, <2>3
<1>6. \A cb \in callbacks' : Tellable(row', transfer', cb)
  <2>1. \A cb \in callbacks : Tellable(row', transfer', cb)
    BY <1>0, TellableStays DEF VerdictInv, TypeOK
  <2>2. CASE callbacks' = callbacks
    BY <2>1, <2>2
  <2>3. CASE EnqueueCallback(w)
    <3>1. j \in Job /\ Tellable(row, transfer, j)
      BY <1>c, <2>3 DEF EnqueueCallback, VerdictInv, At
    <3>2. Tellable(row', transfer', j)
      BY <1>0, <1>2, <3>1, TellableStays
    <3>3. callbacks' \subseteq callbacks \cup {j}
      BY <2>3 DEF EnqueueCallback
    <3> QED
      BY <2>1, <3>2, <3>3
  <2> QED
    BY <2>2, <2>3 DEF WorkerStep, WorkerCrash, Dequeue, ProcessSuccess, ProcessFailed,
         AlreadyProcessed, SkipJob, JobFails, Requeue
<1>7. \A v \in Workers \ {w} : At(v, "callback") =>
            worker[v].job \in Job /\ Tellable(row, transfer, worker[v].job)
  BY WorkerHasJob DEF At, VerdictInv
<1>8. \A v \in Workers : At(v, "callback")' => Tellable(row', transfer', worker'[v].job)
  BY <1>0, <1>2, <1>5, <1>7, TellableStays DEF At
<1>9. \A v \in Workers : ~At(v, "idle")' => Backed(transfer, worker'[v].job)
  BY <1>2, <1>3 DEF VerdictInv, At
<1> QED
  BY <1>a, <1>1, <1>4, <1>6, <1>8, <1>9 DEF VerdictInv

\* Every step keeps the types and the verdicts.
LEMMA VerdictStep == Inv /\ [Next]_vars => Inv'
<1> SUFFICES ASSUME Inv, [Next]_vars PROVE Inv'
  OBVIOUS
<1>1. TypeOK'
  BY TypeStep DEF Inv
<1>2. CASE UNCHANGED vars
  BY <1>1, <1>2 DEF vars, ledger, Inv, VerdictInv, Tellable, Backed, At
<1>3. CASE Next
  BY <1>1, <1>3, VerdictOutside, VerdictWorker DEF Next, Inv
<1> QED
  BY <1>2, <1>3

\* The toko is told a verdict only of a row that has one, and never another than
\* the row's unless the vendor gave both, for any number of repeated webhooks,
\* requeues and failures.
THEOREM CallbacksAreTrue == Spec => []CallbackTellsOutcome
<1>1. Init => Inv
  BY TypeInit DEF Init, Inv, VerdictInv, At, Idle, NoRow, Verdicts
<1>2. Inv => CallbackTellsOutcome
  BY DEF Inv, VerdictInv, Tellable, CallbackTellsOutcome
<1> QED
  BY <1>1, <1>2, VerdictStep, PTL DEF Spec

----------------------------------------------------------------------------
\* The rows of the table as the ideal escrow sees them: initially none.
LEMMA EscrowInit == Init => Escrow!Init
  BY DEF Init, Escrow!Init, InStatus, NoRow, Verdicts

\* Inserting the row holds its terms ...
LEMMA InsertHolds ==
    ASSUME TypeOK, NEW x \in Withdrawals, NEW note \in Notes, InsertWithdrawal(x, note)
    PROVE  Escrow!Next
<1> DEFINE terms == transfer[x].terms
<1>1. terms \in Terms /\ row[x] = NoRow
  BY DEF InsertWithdrawal, TypeOK
<1>2. row' = [row EXCEPT ![x] = [status |-> "pending", terms |-> terms, note |-> note]]
  BY DEF InsertWithdrawal
<1>3. \A y \in Withdrawals : row'[y].status = IF y = x THEN "pending" ELSE row[y].status
  BY <1>2 DEF TypeOK
<1>4. row[x].status = "absent"
  BY <1>1 DEF NoRow
<1>5. /\ x \notin InStatus(Verdicts \cup {"pending"})
      /\ InStatus(Verdicts \cup {"pending"})' = InStatus(Verdicts \cup {"pending"}) \cup {x}
      /\ InStatus({"success"})' = InStatus({"success"})
      /\ InStatus({"failed"})' = InStatus({"failed"})
  BY <1>3, <1>4 DEF InStatus, Verdicts
<1>6. settle' = [settle EXCEPT ![TokoOf[x]] = @ - Escrow!Deduction(terms)] /\ income' = income
  BY DEF InsertWithdrawal, Deduction, Charged, Escrow!Deduction, Escrow!Charged
<1>7. Escrow!Hold(x, terms)
  BY <1>5, <1>6 DEF Escrow!Hold
<1> QED
  BY <1>1, <1>7 DEF Escrow!Next

\* ... and settling it pays or refunds them.
LEMMA SettlingDecides ==
    ASSUME TypeOK, NoteInv, NEW w \in Workers, ProcessSuccess(w) \/ ProcessFailed(w)
    PROVE  Escrow!Next
<1> DEFINE j == worker[w].job
           terms == row[j.ref].terms
<1>1. Settles(j) /\ j \in Job /\ j.ref \in Withdrawals
  BY SettledStatus, WorkerHasJob
<1>2. row[j.ref].status = "pending" /\ terms \in Terms
  BY <1>1, SettlingRow
<1>3. \A y \in Withdrawals : row'[y].status = IF y = j.ref THEN j.status ELSE row[y].status
  BY <1>1, SettledStatus
<1>4. /\ RefundAmount(j) = Escrow!Deduction(terms)
      /\ PlatformFee(row[j.ref]) = Escrow!Charged(terms.platform_fee)
  BY <1>1, ToldFeesAreCharged DEF Deduction, Charged, Escrow!Deduction, Escrow!Charged
<1>5. PICK x \in Withdrawals : x = j.ref
  BY <1>1
<1>6. PICK t \in Terms : t = terms
  BY <1>2
<1>7. Escrow!Undecided(x)
  BY <1>2, <1>5 DEF Escrow!Undecided, InStatus, Verdicts
<1>8. CASE ProcessSuccess(w)
  <2>1. /\ j.status = "success" /\ settle' = settle
        /\ income' = income + Escrow!Charged(t.platform_fee)
    BY <1>4, <1>6, <1>8 DEF ProcessSuccess
  <2>2. /\ InStatus({"success"})' = InStatus({"success"}) \cup {x}
        /\ InStatus({"failed"})' = InStatus({"failed"})
        /\ InStatus(Verdicts \cup {"pending"})' = InStatus(Verdicts \cup {"pending"})
    BY <1>2, <1>3, <1>5, <2>1 DEF InStatus, Verdicts
  <2>3. Escrow!Pay(x, t)
    BY <1>7, <2>1, <2>2 DEF Escrow!Pay
  <2> QED
    BY <2>3 DEF Escrow!Next
<1>9. CASE ProcessFailed(w)
  <2>1. /\ j.status = "failed" /\ income' = income
        /\ settle' = [settle EXCEPT ![TokoOf[x]] = @ + Escrow!Deduction(t)]
    BY <1>4, <1>5, <1>6, <1>9 DEF ProcessFailed
  <2>2. /\ InStatus({"failed"})' = InStatus({"failed"}) \cup {x}
        /\ InStatus({"success"})' = InStatus({"success"})
        /\ InStatus(Verdicts \cup {"pending"})' = InStatus(Verdicts \cup {"pending"})
    BY <1>2, <1>3, <1>5, <2>1 DEF InStatus, Verdicts
  <2>3. Escrow!Refund(x, t)
    BY <1>7, <2>1, <2>2 DEF Escrow!Refund
  <2> QED
    BY <2>3 DEF Escrow!Next
<1> QED
  BY <1>8, <1>9

\* Every other step leaves the ledger alone.
LEMMA EscrowStep == TypeOK /\ NoteInv /\ [Next]_vars => [Escrow!Next]_(Escrow!vars)
<1> SUFFICES ASSUME TypeOK, NoteInv, [Next]_vars PROVE [Escrow!Next]_(Escrow!vars)
  OBVIOUS
<1>1. UNCHANGED ledger => UNCHANGED Escrow!vars
  BY DEF ledger, Escrow!vars, InStatus
<1>2. CASE UNCHANGED vars
  BY <1>1, <1>2 DEF vars
<1>3. CASE OutsideStep
  BY <1>1, <1>3, InsertHolds DEF OutsideStep, SubmitTransfer, VendorDecides
<1>4. CASE ApiStep
  BY <1>1, <1>4 DEF ApiStep, AcceptWebhook, DuplicateWebhook, WebhookFails, KeyExpires
<1>5. ASSUME NEW w \in Workers, WorkerStep(w) \/ WorkerCrash(w)
      PROVE  Escrow!Next \/ UNCHANGED ledger
  BY <1>5, SettlingDecides DEF WorkerStep, Dequeue, AlreadyProcessed, SkipJob, JobFails,
                               EnqueueCallback, Requeue, WorkerCrash
<1> QED
  BY <1>1, <1>2, <1>3, <1>4, <1>5 DEF Next

\* The disbursement pipeline implements the ideal escrow: each withdrawal is
\* held once and decided once, and money moves only with those two steps.
THEOREM ImplementsIdealEscrow == Spec => IdealEscrowLedger
  BY EscrowInit, EscrowStep, TypeCorrect, NotesTellFees, PTL
     DEF Spec, IdealEscrowLedger, Escrow!Spec

----------------------------------------------------------------------------
(* No money appears or vanishes.                                           *)

\* What each row that did not fail took out of settle, and each fee earned.
TiedUpColumn(k) ==
    [x \in InStatus({"pending", "success"}) \cap OwnedBy(k) |-> Deduction(row[x].terms)]
EarnedColumn == [x \in InStatus({"success"}) |-> Charged(row[x].terms.platform_fee)]

\* The columns are finite and add up to what settle lacks and income holds.
EscrowInv ==
    /\ \A k \in Toko : /\ Summable(TiedUpColumn(k))
                       /\ settle[k] + SumFunction(TiedUpColumn(k)) = InitialSettle[k]
    /\ Summable(EarnedColumn)
    /\ income = SumFunction(EarnedColumn)

\* At first every rupiah is in settle.
LEMMA EscrowInvInit == Init => EscrowInv
<1> SUFFICES ASSUME Init PROVE EscrowInv
  OBVIOUS
<1>1. InStatus({"pending", "success"}) = {} /\ InStatus({"success"}) = {}
  BY DEF Init, InStatus, NoRow
<1>2. DOMAIN EarnedColumn = {} /\ \A k \in Toko : DOMAIN TiedUpColumn(k) = {}
  BY <1>1 DEF EarnedColumn, TiedUpColumn
<1>3. /\ Summable(EarnedColumn) /\ SumFunction(EarnedColumn) = 0
      /\ \A k \in Toko : Summable(TiedUpColumn(k)) /\ SumFunction(TiedUpColumn(k)) = 0
  BY <1>2, SumOfNothing
<1> QED
  BY <1>3 DEF Init, EscrowInv

\* Recording a withdrawal ties up what it takes out of settle.
LEMMA InsertConserves ==
    ASSUME TypeOK, EscrowInv, NEW x \in Withdrawals, NEW note \in Notes, InsertWithdrawal(x, note)
    PROVE  EscrowInv'
<1> DEFINE terms == transfer[x].terms
<1>1. terms \in Terms /\ TokoOf[x] \in Toko
  BY DEF InsertWithdrawal, TypeOK
<1>2. /\ row[x] = NoRow
      /\ row' = [row EXCEPT ![x] = [status |-> "pending", terms |-> terms, note |-> note]]
      /\ settle' = [settle EXCEPT ![TokoOf[x]] = @ - Deduction(terms)]
      /\ income' = income
  BY DEF InsertWithdrawal
<1>3. settle \in [Toko -> Int] /\ Deduction(terms) \in Int
  BY <1>1, DeductionType DEF TypeOK
<1> HIDE DEF terms
<1>4. /\ row[x].status = "absent" /\ row'[x].status = "pending" /\ row'[x].terms = terms
      /\ \A y \in Withdrawals : y # x => row'[y] = row[y]
  BY <1>2 DEF TypeOK, NoRow
<1>5. /\ InStatus({"pending", "success"})' = InStatus({"pending", "success"}) \cup {x}
      /\ InStatus({"success"})' = InStatus({"success"})
      /\ x \notin InStatus({"pending", "success"}) /\ x \notin InStatus({"success"})
  BY <1>4 DEF InStatus
<1>6. EarnedColumn' = EarnedColumn
  BY <1>4, <1>5 DEF EarnedColumn, InStatus
<1>7. ASSUME NEW k \in Toko, k # TokoOf[x]
      PROVE  TiedUpColumn(k)' = TiedUpColumn(k)
  BY <1>4, <1>5, <1>7 DEF TiedUpColumn, OwnedBy, InStatus
<1>8. ASSUME NEW k \in Toko, k = TokoOf[x]
      PROVE  /\ Summable(TiedUpColumn(k))'
             /\ SumFunction(TiedUpColumn(k))' = SumFunction(TiedUpColumn(k)) + Deduction(terms)
             /\ SumFunction(TiedUpColumn(k)) \in Int
  <2> DEFINE f == TiedUpColumn(k)
             g == TiedUpColumn(k)'
  <2>1. /\ x \notin DOMAIN f /\ DOMAIN g = DOMAIN f \cup {x} /\ g[x] = Deduction(terms)
        /\ \A y \in DOMAIN f : g[y] = f[y]
    BY <1>4, <1>5, <1>8 DEF TiedUpColumn, OwnedBy, InStatus
  <2>2. Summable(f)
    BY DEF EscrowInv
  <2> HIDE DEF f, g
  <2>3. SumFunction(g) = SumFunction(f) + g[x] /\ Summable(g)
    BY <1>3, <2>1, <2>2, SumOfExtended
  <2>4. SumFunction(f) \in Int
    BY <2>2, SumOfSummable
  <2> QED
    BY <2>1, <2>3, <2>4 DEF f, g
<1>9. ASSUME NEW k \in Toko
      PROVE  Summable(TiedUpColumn(k))' /\ settle'[k] + SumFunction(TiedUpColumn(k))' = InitialSettle[k]
  <2>1. CASE k = TokoOf[x]
    <3>1. settle'[k] = settle[k] - Deduction(terms) /\ settle[k] \in Int
      BY <1>1, <1>2, <1>3, <2>1
    <3> QED
      BY <1>3, <1>8, <2>1, <3>1 DEF EscrowInv
  <2>2. CASE k # TokoOf[x]
    <3>1. settle'[k] = settle[k]
      BY <1>1, <1>2, <1>3, <2>2
    <3> QED
      BY <1>7, <2>2, <3>1 DEF EscrowInv
  <2> QED
    BY <2>1, <2>2
<1> QED
  BY <1>2, <1>6, <1>9 DEF EscrowInv

\* A refund gives back what the row tied up; a payment earns its fee and keeps
\* the rest tied up.
LEMMA DecidingConserves ==
    ASSUME TypeOK, NoteInv, EscrowInv, NEW w \in Workers, ProcessSuccess(w) \/ ProcessFailed(w)
    PROVE  EscrowInv'
<1> DEFINE j == worker[w].job
           x == j.ref
           terms == row[x].terms
<1>1. Settles(j) /\ j \in Job /\ x \in Withdrawals
  BY SettledStatus, WorkerHasJob
<1>2. row[x].status = "pending" /\ terms \in Terms /\ TokoOf[x] \in Toko
  BY <1>1, SettlingRow
<1>3. /\ settle \in [Toko -> Int] /\ Deduction(terms) \in Int
      /\ RefundAmount(j) = Deduction(terms) /\ Charged(terms.platform_fee) \in Int
      /\ PlatformFee(row[x]) = Charged(terms.platform_fee)
  BY <1>1, <1>2, DeductionType, ToldFeesAreCharged, SMTT(30) DEF TypeOK
<1>4. row[x] \in [status : Statuses, terms : Terms, note : Notes] /\ row \in [Withdrawals -> Rows]
  BY <1>1, SettlingRow DEF TypeOK, Rows, Statuses
<1>5. ASSUME NEW v, row' = [row EXCEPT ![x] = SettledRow(@, v)]
      PROVE  /\ row'[x].status = v /\ row'[x].terms = terms
             /\ \A y \in Withdrawals : y # x => row'[y] = row[y]
  <2> HIDE DEF x
  <2> QED
    BY <1>1, <1>4, <1>5 DEF SettledRow
<1>6. CASE ProcessSuccess(w)
  <2>1. row' = [row EXCEPT ![x] = SettledRow(@, "success")] /\ settle' = settle
        /\ income' = income + Charged(terms.platform_fee)
    BY <1>3, <1>6 DEF ProcessSuccess
  <2>2. /\ row'[x].status = "success" /\ row'[x].terms = terms
        /\ \A y \in Withdrawals : y # x => row'[y] = row[y]
    BY <1>5, <2>1
  <2> HIDE DEF x
  <2>3. /\ InStatus({"pending", "success"})' = InStatus({"pending", "success"})
        /\ InStatus({"success"})' = InStatus({"success"}) \cup {x}
        /\ x \notin InStatus({"success"})
    BY <1>1, <1>2, <2>2 DEF InStatus
  <2>4. \A k \in Toko : TiedUpColumn(k)' = TiedUpColumn(k)
    <3>1. \A y \in Withdrawals : row'[y].terms = row[y].terms
      BY <2>2
    <3> QED
      BY <2>3, <3>1 DEF TiedUpColumn, OwnedBy, InStatus
  <2>5. Summable(EarnedColumn)'
        /\ SumFunction(EarnedColumn)' = SumFunction(EarnedColumn) + Charged(terms.platform_fee)
    <3> DEFINE f == EarnedColumn
               g == EarnedColumn'
    <3>1. /\ x \notin DOMAIN f /\ DOMAIN g = DOMAIN f \cup {x} /\ g[x] = Charged(terms.platform_fee)
          /\ \A y \in DOMAIN f : g[y] = f[y]
      BY <2>2, <2>3 DEF EarnedColumn, InStatus
    <3>2. Summable(f)
      BY DEF EscrowInv
    <3> HIDE DEF f, g, terms
    <3>3. SumFunction(g) = SumFunction(f) + g[x] /\ Summable(g)
      BY <1>3, <3>1, <3>2, SumOfExtended
    <3> QED
      BY <3>1, <3>3 DEF f, g
  <2> QED
    BY <2>1, <2>4, <2>5 DEF EscrowInv
<1>7. CASE ProcessFailed(w)
  <2>1. row' = [row EXCEPT ![x] = SettledRow(@, "failed")] /\ income' = income
        /\ settle' = [settle EXCEPT ![TokoOf[x]] = @ + Deduction(terms)]
    BY <1>3, <1>7 DEF ProcessFailed
  <2>2. /\ row'[x].status = "failed" /\ row'[x].terms = terms
        /\ \A y \in Withdrawals : y # x => row'[y] = row[y]
    BY <1>5, <2>1
  <2> HIDE DEF x
  <2>3. /\ InStatus({"pending", "success"})' = InStatus({"pending", "success"}) \ {x}
        /\ InStatus({"success"})' = InStatus({"success"})
        /\ x \notin InStatus({"success"}) /\ x \in InStatus({"pending", "success"})
    BY <1>1, <1>2, <2>2 DEF InStatus
  <2>4. EarnedColumn' = EarnedColumn
    BY <2>2, <2>3 DEF EarnedColumn, InStatus
  <2>5. ASSUME NEW k \in Toko, k # TokoOf[x]
        PROVE  TiedUpColumn(k)' = TiedUpColumn(k)
    BY <2>2, <2>3, <2>5 DEF TiedUpColumn, OwnedBy, InStatus
  <2>6. ASSUME NEW k \in Toko, k = TokoOf[x]
        PROVE  /\ Summable(TiedUpColumn(k))'
               /\ SumFunction(TiedUpColumn(k))' = SumFunction(TiedUpColumn(k)) - Deduction(terms)
               /\ SumFunction(TiedUpColumn(k)) \in Int
    <3> DEFINE f == TiedUpColumn(k)
               g == TiedUpColumn(k)'
    <3>1. /\ x \in DOMAIN f /\ DOMAIN g = DOMAIN f \ {x} /\ f[x] = Deduction(terms)
          /\ \A y \in DOMAIN g : g[y] = f[y]
      BY <2>2, <2>3, <2>6 DEF TiedUpColumn, OwnedBy, InStatus
    <3>2. Summable(f)
      BY DEF EscrowInv
    <3> HIDE DEF f, g, terms
    <3>3. SumFunction(g) = SumFunction(f) - f[x] /\ Summable(g)
      BY <3>1, <3>2, SumOfReduced
    <3>4. SumFunction(f) \in Int
      BY <3>2, SumOfSummable
    <3> QED
      BY <3>1, <3>3, <3>4 DEF f, g
  <2> HIDE DEF terms
  <2>7. ASSUME NEW k \in Toko
        PROVE  /\ Summable(TiedUpColumn(k))'
               /\ settle'[k] + SumFunction(TiedUpColumn(k))' = InitialSettle[k]
    <3>1. CASE k = TokoOf[x]
      <4>1. settle'[k] = settle[k] + Deduction(terms) /\ settle[k] \in Int
        BY <1>2, <1>3, <2>1, <3>1
      <4> QED
        BY <1>3, <2>6, <3>1, <4>1 DEF EscrowInv
    <3>2. CASE k # TokoOf[x]
      <4>1. settle'[k] = settle[k]
        BY <1>2, <1>3, <2>1, <3>2
      <4> QED
        BY <2>5, <3>2, <4>1 DEF EscrowInv
    <3> QED
      BY <3>1, <3>2
  <2> QED
    BY <2>1, <2>4, <2>7 DEF EscrowInv
<1> QED
  BY <1>6, <1>7

\* Every other step leaves the ledger alone.
LEMMA EscrowInvStep == TypeOK /\ NoteInv /\ EscrowInv /\ [Next]_vars => EscrowInv'
<1> SUFFICES ASSUME TypeOK, NoteInv, EscrowInv, [Next]_vars PROVE EscrowInv'
  OBVIOUS
<1>1. UNCHANGED ledger => EscrowInv'
  BY ZenonT(40) DEF ledger, EscrowInv, TiedUpColumn, EarnedColumn, InStatus, OwnedBy
<1>2. CASE UNCHANGED vars
  BY <1>1, <1>2 DEF vars
<1>3. CASE OutsideStep
  BY <1>1, <1>3, InsertConserves DEF OutsideStep, SubmitTransfer, VendorDecides
<1>4. CASE ApiStep
  BY <1>1, <1>4 DEF ApiStep, AcceptWebhook, DuplicateWebhook, WebhookFails, KeyExpires
<1>5. ASSUME NEW w \in Workers, WorkerStep(w) \/ WorkerCrash(w)
      PROVE  EscrowInv'
  BY <1>1, <1>5, DecidingConserves DEF WorkerStep, Dequeue, AlreadyProcessed, SkipJob, JobFails,
                                       EnqueueCallback, Requeue, WorkerCrash
<1> QED
  BY <1>1, <1>2, <1>3, <1>4, <1>5 DEF Next

\* For any number of withdrawals, toko and terms: settle and the withdrawals
\* that did not fail hold what the toko had, and the income is the fees.
THEOREM MoneyIsConserved == Spec => []EscrowConserved
<1>1. EscrowInv => EscrowConserved
  BY DEF EscrowInv, EscrowConserved, TiedUp, FeesEarned, TiedUpColumn, EarnedColumn
<1> QED
  BY <1>1, EscrowInvInit, EscrowInvStep, TypeCorrect, NotesTellFees, PTL DEF Spec
=============================================================================
