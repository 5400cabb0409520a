---------------------------- MODULE IdealEscrow ----------------------------
(***************************************************************************)
(* What the disbursement pipeline promises, with webhooks, queues, workers *)
(* and failures left out: a withdrawal puts its amount and fees aside, and *)
(* is then decided exactly once, either paid, when the platform earns its  *)
(* fee, or refunded, when the toko gets everything back.                   *)
(***************************************************************************)
EXTENDS Integers

CONSTANTS Withdrawals, Toko, TokoOf, Terms, InitialSettle

VARIABLES
    paid,      \* withdrawals that succeeded
    refunded,  \* withdrawals that failed
    held,      \* withdrawals put aside so far
    settle,    \* the balance each toko may withdraw
    income     \* the platform's fees

vars == <<paid, refunded, held, settle, income>>

\* A negative fee is none.
Charged(fee) == IF fee < 0 THEN 0 ELSE fee
Deduction(terms) == terms.amount + Charged(terms.platform_fee) + Charged(terms.fee)

Init ==
    /\ paid = {}
    /\ refunded = {}
    /\ held = {}
    /\ settle = InitialSettle
    /\ income = 0

Hold(x, terms) ==
    /\ x \notin held
    /\ held' = held \cup {x}
    /\ settle' = [settle EXCEPT ![TokoOf[x]] = @ - Deduction(terms)]
    /\ UNCHANGED <<paid, refunded, income>>

Undecided(x) == x \in held \ (paid \cup refunded)

Pay(x, terms) ==
    /\ Undecided(x)
    /\ paid' = paid \cup {x}
    /\ income' = income + Charged(terms.platform_fee)
    /\ UNCHANGED <<refunded, held, settle>>

Refund(x, terms) ==
    /\ Undecided(x)
    /\ refunded' = refunded \cup {x}
    /\ settle' = [settle EXCEPT ![TokoOf[x]] = @ + Deduction(terms)]
    /\ UNCHANGED <<paid, held, income>>

Next == \E x \in Withdrawals, terms \in Terms :
            Hold(x, terms) \/ Pay(x, terms) \/ Refund(x, terms)

Spec == Init /\ [][Next]_vars
=============================================================================
