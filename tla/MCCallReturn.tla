---------------------------- MODULE MCCallReturn ----------------------------
(* Calls and exceptions on their own, with every return the code offers.    *)
EXTENDS CallReturn

MCCallSpec == CallInit /\ [][CallNext]_callVars
=============================================================================
