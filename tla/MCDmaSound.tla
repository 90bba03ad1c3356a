----------------------------- MODULE MCDmaSound -----------------------------
(* The DMA controller with two programmed channels, of which one can feed a *)
(* sound FIFO (every start timing with and without repeat, and a source     *)
(* mode that is refused), and the sound unit that asks for the refills,     *)
(* with FIFOs of three samples, a word being one, a ring of two, a five-bit *)
(* shift register with its narrow tap at the third, and waveforms of four   *)
(* nibbles. The sound unit's specification sees a refill as one step, so    *)
(* each of the two moves while the other rests.                             *)
EXTENDS DmaController, Apu

On(timing, repeat, badSource) ==
  [enable |-> TRUE, repeat |-> repeat, timing |-> timing, irq |-> timing = "special",
   badSource |-> badSource]

MCControls ==
  {Off, [Off EXCEPT !.repeat = TRUE, !.timing = "hblank"], On("immediate", FALSE, TRUE)}
    \cup {On(t, r, FALSE) : t \in Timings \ {"vblank"}, r \in BOOLEAN}

MCRewrites ==
  {Off, [Off EXCEPT !.repeat = TRUE, !.timing = "hblank"], On("immediate", FALSE, FALSE),
   On("hblank", TRUE, FALSE)}

MCDutyHigh == [duty \in 0 .. 1 |-> duty + 1]
MCWords == {<<1>>, <<2>>}
MCCntL == {[left |-> 0 .. 3, right |-> {2}, volume |-> [s \in Sides |-> 1]]}
MCCntH ==
  {[route |-> [c \in Channels |-> [sides |-> IF c = "a" THEN Sides ELSE {}, full |-> TRUE,
                                   timer |-> 0]],
    clear |-> {}],
   [route |-> [c \in Channels |-> [sides |-> IF c = "b" THEN {"left"} ELSE {}, full |-> FALSE,
                                   timer |-> 1]],
    clear |-> {"b"}]}
MCDmaSetups ==
  {[c \in Channels |-> IF c = "a" THEN [served |-> {1, 2}, repeat |-> {1}]
                       ELSE [served |-> {}, repeat |-> {}]]}
MCHalfwords == {<<9, 4>>}
MCSquares == {[channel |-> 0, duty |-> 1, volume |-> 1, period |-> 2]}
MCWaves == {[shift |-> 2, period |-> 3]}
MCNoises == {[volume |-> 1, period |-> 0, narrow |-> TRUE]}

DmaSoundInit == Init /\ SoundInit

DmaSoundNext ==
  \/ SoundInit /\ Next /\ UNCHANGED soundVars
  \/ Init /\ SoundNext /\ UNCHANGED vars

DmaSoundSpec == DmaSoundInit /\ [][DmaSoundNext]_<<vars, soundVars>>
=============================================================================
