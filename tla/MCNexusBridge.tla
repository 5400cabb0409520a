--------------------------- MODULE MCNexusBridge ---------------------------
(***************************************************************************)
(* Instances of NexusBridge for TLC.                                       *)
(***************************************************************************)
EXTENDS NexusBridge, TLC

CONSTANTS k1, k2, c1, c2, r1, r2

Funds == [k \in Toko |-> 2]

HandlerSymmetry == Permutations(Requests) \cup Permutations(Codes)
=============================================================================
