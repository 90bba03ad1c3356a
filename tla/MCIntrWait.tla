----------------------------- MODULE MCIntrWait -----------------------------
(* Waits for the display together with the timer or a serial transfer.      *)
EXTENDS IntrWait

MCMasks == {{"vblank", "serial"}, {"vcount", "timer"}}
=============================================================================
