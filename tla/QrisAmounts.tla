---------------------------- MODULE QrisAmounts ----------------------------
(***************************************************************************)
(* The integer arithmetic of the QRIS worker: the fee of a regular deposit *)
(* and the conversion of a top-up into NexusGGR balance.  All amounts are  *)
(* integer rupiah held in an i64; a checked operation that leaves the      *)
(* range makes the job fail.  MaxMoney is the largest i64 of the model.    *)
(***************************************************************************)
EXTENDS Integers

CONSTANTS
    MaxMoney,        \* i64::MAX, scaled down for TLC
    FeeTransaction,  \* incomes.fee_transaction, a percentage
    Ggr              \* incomes.ggr, the price of 100 units of NexusGGR balance

ASSUME AmountsAssumption ==
    /\ MaxMoney \in Nat
    /\ FeeTransaction \in Nat
    /\ Ggr \in Int

\* What the platform keeps back from its upstream cost of a top-up: the
\* literal 1800 of process_nexusggr_topup.
TopupCost == 1800

\* calculate_fee: integer division truncates, amounts are never negative.
CalculateFee(amount) == (amount * FeeTransaction) \div 100
FeeFits(amount) == amount * FeeTransaction <= MaxMoney

\* Slip (not the code): the remainder of the conversion dropped.
TruncatedNexusggrIncrement(amount) == (amount * 100) \div Ggr

\* calculate_nexusggr_increment: amount * 100 / ggr, rounded half up.
CalculateNexusggrIncrement(amount) == (amount * 100 + (Ggr \div 2)) \div Ggr
\* The i128 quotient never exceeds amount * 100, so only that product is at risk.
NexusggrFits(amount) == Ggr > 0 /\ amount * 100 <= MaxMoney

\* What each purpose adds to the toko's balance and to the platform income.
DepositPending(amount) == amount - CalculateFee(amount)
DepositIncome(amount)  == CalculateFee(amount)
TopupIncome(amount)    == amount - TopupCost
============================================================================
