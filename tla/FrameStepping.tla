--------------------------- MODULE FrameStepping ---------------------------
(***************************************************************************)
(* AndroidRuntime (src/core/android_runtime.cpp) over CoreSession: a host  *)
(* call steps the machine to the next frame boundary, the scanline         *)
(* observer collects the lines that pass, and a complete collection is     *)
(* published as the picture. Between calls the host may reset the machine, *)
(* change the game, restore a save state or step the machine itself.       *)
(*                                                                         *)
(* A row of a picture is known by the machine it shows (the session's      *)
(* generation) and the frame it was drawn in. Time passes in cycles, and   *)
(* the observer sees a visible line when its HBlank begins.                *)
(***************************************************************************)
EXTENDS Integers

CONSTANTS
  ScreenHeight, TotalLines,   \* visible lines, all lines
  LineCycles, HblankCycle,    \* cycles of a line, and where HBlank begins
  MaxSteps,                   \* the host's budget of instructions
  Longest,                    \* the longest step, DMA included
  MaxFrames, MaxGeneration    \* bounds of the model

ASSUME ScreenAssumption ==
  /\ TotalLines \in Nat /\ ScreenHeight \in 1 .. TotalLines - 1
  /\ LineCycles \in Nat /\ HblankCycle \in 1 .. LineCycles - 1
  /\ Longest \in Nat \ {0} /\ MaxSteps \in Nat \ {0}
  /\ MaxFrames \in Nat /\ MaxGeneration \in Nat

FrameCycles == TotalLines * LineCycles
Rows == 0 .. ScreenHeight - 1
Blank == <<0, -1>>
CountLimit == MaxSteps + 1   \* the counter's width; the budget may be its largest value
MaxClock == MaxFrames * FrameCycles

VARIABLES
  clock,        \* scheduler_cycles
  generation,   \* state_generation
  vector,       \* an interrupt was entered and not yet dispatched
  stuck,        \* the return of an interrupt was refused, which is tried for ever
  call,         \* the call of step_frame under way: [target, steps] or no call
  raster,       \* accumulating_renderer_, next_scanline_, raster_ready_
  seen,         \* presentation_generation_, presentation_cycles_
  picture       \* renderer_

frameVars == <<clock, generation, vector, stuck, call, raster, seen, picture>>
machineVars == <<clock, generation, vector, stuck>>

NoCall == [target |-> 0, steps |-> 0]
NoRows == [rows |-> [row \in Rows |-> Blank], next |-> 0, ready |-> FALSE]

FrameTypeOK ==
  /\ clock \in 0 .. MaxClock + FrameCycles + Longest /\ generation \in 0 .. MaxGeneration
  /\ vector \in BOOLEAN /\ stuck \in BOOLEAN
  /\ call.target \in Nat /\ call.steps \in 0 .. MaxSteps
  /\ raster.next \in 0 .. ScreenHeight /\ raster.ready \in BOOLEAN
  /\ DOMAIN raster.rows = Rows /\ DOMAIN picture = Rows

FrameInit ==
  /\ clock = 0 /\ generation = 0 /\ vector = FALSE /\ stuck = FALSE
  /\ call = NoCall /\ raster = NoRows /\ picture = NoRows.rows
  /\ seen = [generation |-> 0, clock |-> 0]

---------------------------------------------------------------------------
(* The machine.                                                             *)

\* The visible line whose HBlank begins as the clock reaches t, if any.
Passed(t) == IF t % LineCycles = HblankCycle THEN (t % FrameCycles) \div LineCycles ELSE TotalLines

\* capture_scanline: a complete collection is frozen, and a line out of order
\* starts a new one, which waits for line zero.
Captured(r, line, tag) ==
  LET begun == IF line = r.next THEN r ELSE [r EXCEPT !.next = 0]
  IN IF r.ready THEN r
     ELSE IF line # begun.next THEN begun
     ELSE [rows |-> [begun.rows EXCEPT ![line] = tag], next |-> line + 1,
           ready |-> line + 1 = ScreenHeight]

\* The lines of n cycles, in order.
Collected(r, n) ==
  LET after[i \in 0 .. n] ==
        IF i = 0 THEN r
        ELSE LET before == after[i - 1]
                 line == Passed(clock + i)
             IN IF line < ScreenHeight
                THEN Captured(before, line, <<generation, (clock + i) \div FrameCycles>>)
                ELSE before
  IN after[n]

---------------------------------------------------------------------------
(* step_frame.                                                              *)

Idle == call = NoCall

\* BUG: a restored machine at the same cycle goes on with the rows of another.
ContinuesAtCycle == seen.clock = clock

\* The machine is where the last call left it: its rows may be continued.
Continues == seen = [generation |-> generation, clock |-> clock]

BeginFrame ==
  /\ Idle /\ clock < MaxClock
  /\ raster' = IF Continues THEN raster ELSE [raster EXCEPT !.next = 0, !.ready = FALSE]
  /\ seen' = [seen EXCEPT !.generation = generation]
  /\ call' = [target |-> (clock \div FrameCycles + 1) * FrameCycles, steps |-> 0]
  /\ UNCHANGED <<machineVars, picture>>

\* BUG: the budget of instructions does not end a call.
GoesOnPastBudget == clock < call.target

GoesOn == clock < call.target /\ call.steps < MaxSteps

Pass(n) ==
  /\ clock' = clock + n
  /\ raster' = Collected(raster, n)
  /\ UNCHANGED <<generation, seen, picture>>

Stepping == ~Idle /\ GoesOn /\ ~stuck

\* A step that executes an instruction; its fetch may be free.
Executed(n) ==
  /\ Stepping /\ ~vector
  /\ Pass(n)
  /\ call' = [call EXCEPT !.steps = (@ + 1) % CountLimit]
  /\ UNCHANGED <<vector, stuck>>

\* Steps without an instruction, which the budget does not count: queued BIOS
\* work is charged, an interrupt is dispatched or returned from.
Charged(n) ==
  /\ Stepping
  /\ Pass(n)
  /\ vector' = FALSE
  /\ UNCHANGED <<stuck, call>>

\* The handler has returned, but its SPSR names no mode: the status is
\* reported in a step without an instruction, which the loop does not look
\* at. Nothing has moved, so every later step is refused in the same way.
ReturnRefused ==
  /\ ~Idle /\ GoesOn /\ ~vector
  /\ stuck' = TRUE
  /\ UNCHANGED <<clock, generation, vector, call, raster, seen, picture>>

\* Queued work that finds an interrupt ready enters it in no time.
Entered ==
  /\ Stepping /\ ~vector
  /\ vector' = TRUE
  /\ UNCHANGED <<clock, generation, stuck, call, raster, seen, picture>>

\* The end of the call: publish if the frame is complete and collected.
EndFrame(complete) ==
  /\ picture' = IF complete /\ raster.ready THEN raster.rows ELSE picture
  /\ raster' = IF complete /\ raster.ready THEN [raster EXCEPT !.next = 0, !.ready = FALSE]
               ELSE raster
  /\ seen' = [seen EXCEPT !.clock = clock]
  /\ call' = NoCall
  /\ UNCHANGED machineVars

FinishFrame == ~Idle /\ ~GoesOn /\ EndFrame(clock >= call.target)

\* fetch_failed or an unsupported instruction.
StopFrame == Stepping /\ ~vector /\ EndFrame(FALSE)

---------------------------------------------------------------------------
(* The host between calls.                                                  *)

NewMachine(at) ==
  /\ Idle /\ generation < MaxGeneration
  /\ generation' = generation + 1
  /\ clock' = at /\ vector' = FALSE
  /\ UNCHANGED <<stuck, call, raster, seen>>

Reset == NewMachine(0) /\ picture' = NoRows.rows

\* A game that is refused leaves an empty machine and the old picture.
LoadRom(accepted) ==
  /\ NewMachine(0)
  /\ picture' = IF accepted THEN NoRows.rows ELSE picture

\* A save state, of this session or an earlier one, may be of any cycle.
LoadState(at) == NewMachine(at) /\ UNCHANGED picture

\* The host steps the session itself: no observer is installed.
StepSession(n) ==
  /\ Idle /\ clock + n <= MaxClock
  /\ clock' = clock + n
  /\ UNCHANGED <<generation, vector, stuck, call, raster, seen, picture>>

Advances ==
  \/ \E n \in 0 .. Longest : Executed(n)
  \/ \E n \in 1 .. Longest : Charged(n)
  \/ Entered \/ ReturnRefused

FrameNext ==
  \/ BeginFrame \/ Advances \/ FinishFrame \/ StopFrame
  \/ Reset \/ (\E accepted \in BOOLEAN : LoadRom(accepted))
  \/ \E at \in 0 .. MaxClock : LoadState(at)
  \/ \E n \in 1 .. Longest : StepSession(n)

\* The host thread executes the loop of a call it has begun.
FrameFairness == WF_frameVars(Advances \/ FinishFrame)

FrameSpec == FrameInit /\ [][FrameNext]_frameVars /\ FrameFairness

---------------------------------------------------------------------------
(* Properties.                                                              *)

\* What is published is one frame of the machine that is running: never rows
\* of two frames, or of the machines before and after a restore, whatever
\* stopped or ran between the calls and however far one step ran.
PublishedIsWhole ==
  [][picture' # picture =>
       \/ picture' = NoRows.rows
       \/ \E frame \in 0 .. clock \div FrameCycles :
            \A row \in Rows : picture'[row] = <<generation, frame>>]_frameVars

\* Every call returns, although neither time nor the count of instructions
\* grows in every step, unless the return of an interrupt is refused
\* (step_frame_with_fetch_trace).
FrameEnds == ~Idle ~> (Idle \/ stuck)

\* The budget of steps ends every other call (the desktop's --max-steps-per-frame,
\* "scheduler step budget per frame").
CallReturns == ~Idle ~> Idle
=============================================================================
