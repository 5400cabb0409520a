------------------------- MODULE MCCallbackDelivery -------------------------
(***************************************************************************)
(* Instances of CallbackDelivery for TLC.                                  *)
(***************************************************************************)
EXTENDS CallbackDelivery, TLC

CONSTANTS r1, r2
=============================================================================
