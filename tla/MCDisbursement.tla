--------------------------- MODULE MCDisbursement ---------------------------
(***************************************************************************)
(* Instances of Disbursement for TLC.                                      *)
(***************************************************************************)
EXTENDS Disbursement, TLC

CONSTANTS x1, x2, k1

OneToko == [x \in Withdrawals |-> k1]
SmallTerms == {[amount |-> 50, platform_fee |-> 2, fee |-> 3],
               [amount |-> 40, platform_fee |-> -1, fee |-> 0]}
Funds == [k \in Toko |-> 110]
=============================================================================
