--------------------------- MODULE MCQrisDeposit ---------------------------
(***************************************************************************)
(* Instances of QrisDeposit for TLC.                                       *)
(***************************************************************************)
EXTENDS QrisDeposit, TLC

CONSTANTS t1, t2, k1, k2

\* One toko with a callback_url owns both transactions, or each its own.
OneToko == [t \in Trx |-> k1]
TwoToko == t1 :> k1 @@ t2 :> k2

RequestSymmetry == Permutations(Workers) \cup Permutations(Callers)
=============================================================================
