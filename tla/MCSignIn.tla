------------------------------ MODULE MCSignIn ------------------------------
(***************************************************************************)
(* Instances of SignIn for TLC.                                            *)
(***************************************************************************)
EXTENDS SignIn, TLC

CONSTANTS r1, r2, c1, s1

\* The route without login shares the short limit, to keep the instance small.
Limits == [minute |-> 1, hour |-> 1]
Windows == [minute |-> 1, hour |-> 2]
Passes == [login |-> <<"minute", "hour">>, api |-> <<"minute">>]
=============================================================================
