---------------------------- MODULE MCWorkerLoop ----------------------------
(***************************************************************************)
(* Instances of WorkerLoop for TLC.                                        *)
(***************************************************************************)
EXTENDS WorkerLoop, TLC

CONSTANTS r1, r2, r3

Deposit == r1 :> 1 @@ r2 :> 2 @@ r3 :> 1
=============================================================================
