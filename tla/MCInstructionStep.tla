------------------------- MODULE MCInstructionStep -------------------------
(* Two instructions to a context, interrupts nested three deep, latencies in *)
(* the order of the fitted ones.                                            *)
EXTENDS InstructionStep

MCLatency == [normal |-> 3, slow |-> 2, returned |-> 2, chained |-> 1, chainedSlow |-> 0]
=============================================================================
