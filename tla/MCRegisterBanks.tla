-------------------------- MODULE MCRegisterBanks --------------------------
(* One shared and one banked register. Supervisor, interrupt, abort and    *)
(* undefined modes are alike to the code; one of them stands for all.       *)
EXTENDS RegisterBanks
=============================================================================
