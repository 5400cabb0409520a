---------------------------- MODULE IdealDeposit ----------------------------
(***************************************************************************)
(* What the QRIS pipeline promises, with webhooks, queues, workers and     *)
(* failures left out: each transaction is settled at most once, and the    *)
(* step that settles it moves exactly its share into the toko's balance    *)
(* and into the platform income.                                           *)
(***************************************************************************)
EXTENDS QrisAmounts

CONSTANTS Trx, Toko, TokoOf, Amounts

VARIABLES
    settled,  \* transactions that have been paid out
    balance,  \* pending and nexusggr of each toko
    income    \* the platform's share

vars == <<settled, balance, income>>

Init ==
    /\ settled = {}
    /\ balance = [k \in Toko |-> [pending |-> 0, nexusggr |-> 0]]
    /\ income = 0

Settle(t) ==
    /\ t \notin settled
    /\ settled' = settled \cup {t}

SettleDeposit(t, amount) ==
    /\ Settle(t)
    /\ balance' = [balance EXCEPT ![TokoOf[t]].pending = @ + DepositPending(amount)]
    /\ income' = income + DepositIncome(amount)

SettleTopup(t, amount) ==
    /\ Settle(t)
    /\ balance' = [balance EXCEPT ![TokoOf[t]].nexusggr =
                        @ + CalculateNexusggrIncrement(amount)]
    /\ income' = income + TopupIncome(amount)

Next == \E t \in Trx, amount \in Amounts :
            SettleDeposit(t, amount) \/ SettleTopup(t, amount)

Spec == Init /\ [][Next]_vars
=============================================================================
