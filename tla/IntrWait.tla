------------------------------ MODULE IntrWait ------------------------------
(***************************************************************************)
(* The BIOS waits (Halt, IntrWait, VBlankIntrWait) of the high-level BIOS: *)
(* CoreScheduler::wait_for_interrupt_mask advances the devices in chunks   *)
(* until a watched interrupt flag is set or two frames have passed. The    *)
(* chunks replace a loop that looked at the flags after every cycle.       *)
(***************************************************************************)
EXTENDS DeviceAdvance

CONSTANTS
  Masks,    \* the sets of interrupts software waits for
  Batch,    \* kIntrWaitCoarseBatchCycles
  MaxWait   \* kMaxBiosWaitCycles

ASSUME MasksAssumption == Masks \subseteq (SUBSET Irqs) \ {{}}
ASSUME WaitAssumption ==
  /\ Batch \in Nat \ {0} /\ Batch <= MaxWindow
  /\ MaxWait = 2 * FrameCycles

VARIABLE wait   \* the mask waited for, {} outside a wait, and the cycles spent

waitVars == <<vars, wait>>

NoWait == [mask |-> {}, waited |-> 0]
Waiting == wait.mask # {}
Matched == flags \cap wait.mask # {}

WaitTypeOK ==
  /\ TypeOK
  /\ wait \in [mask : Masks \cup {{}}, waited : 0 .. MaxWait]

WaitInit == Init /\ wait = NoWait

\* A wait for nothing fails at once and is left out.
BeginWait(mask, discard) ==
  /\ ~loop.active /\ ~Waiting
  /\ flags' = IF discard THEN flags \ mask ELSE flags
  /\ wait' = [mask |-> mask, waited |-> 0]
  /\ UNCHANGED <<ppu, timer, serial, loop, presented, clock>>

TimerHorizon(mask) ==
  IF "timer" \in mask /\ timer.period # 0 THEN Least({Batch, timer.left}) ELSE Batch

\* BUG: a serial transfer does not bound the chunk.
SerialHorizonNone(mask) == Batch

SerialHorizon(mask) == IF "serial" \in mask /\ serial # 0 THEN serial ELSE Batch

\* intr_wait_batch_cycles
BatchCycles(mask) ==
  Least({PpuHorizon(ppu, mask, Batch), TimerHorizon(mask), SerialHorizon(mask), Batch})

\* The body of the wait's loop; the window then runs as any other.
Chunk ==
  LET n == Least({BatchCycles(wait.mask), MaxWait - wait.waited})
  IN /\ Waiting /\ ~loop.active /\ ~Matched /\ wait.waited < MaxWait
     /\ loop' = Window0(n)
     /\ wait' = [wait EXCEPT !.waited = @ + n]
     /\ UNCHANGED <<deviceVars, clock>>

\* The wait returns true on a match and false after MaxWait cycles.
GivesUp == Waiting /\ ~loop.active /\ ~Matched /\ wait.waited = MaxWait

EndWait ==
  /\ GivesUp \/ (Waiting /\ ~loop.active /\ Matched)
  /\ wait' = NoWait
  /\ UNCHANGED vars

WaitNext ==
  \/ ~Waiting /\ Program /\ UNCHANGED wait
  \/ Run /\ UNCHANGED wait
  \/ \E mask \in Masks, discard \in BOOLEAN : BeginWait(mask, discard)
  \/ Chunk
  \/ EndWait

\* advance_devices and the loop of the wait run to their ends.
WaitSpec ==
  WaitInit /\ [][WaitNext]_waitVars /\ WF_waitVars((Run /\ UNCHANGED wait) \/ Chunk \/ EndWait)

---------------------------------------------------------------------------
(* Properties.                                                              *)

\* The chunked wait returns in the same cycle as a loop that looks at the
\* flags after every CPU cycle: whenever CPU time is about to pass, no watched
\* flag is set, and none will be before the end of the interval ("the cycle at
\* which the wait returns is identical to the legacy per-cycle polling loop").
\* The display sets flags only at the ends of intervals. A chunk into which
\* transfers have inserted time is excused: its rest still runs.
WakeIsExact ==
  Waiting /\ loop.active /\ loop.cpu # 0 /\ ~loop.stretched =>
    /\ ~Matched
    /\ "timer" \in wait.mask /\ timer.period # 0 => IntervalLength <= timer.left
    /\ "serial" \in wait.mask /\ serial # 0 => IntervalLength <= serial
=============================================================================
