--------------------------- MODULE DeviceAdvance ---------------------------
(***************************************************************************)
(* CoreScheduler::advance_devices (src/core/core_scheduler.cpp): a window  *)
(* of CPU cycles is cut at the presentation and display edges, the devices *)
(* are ticked interval by interval, and the DMA transfers that an HBlank,  *)
(* a VBlank or a sound timer triggers insert their bus cycles, which may   *)
(* trigger further transfers.                                              *)
(*                                                                         *)
(* The display is module PpuBeam. One free-running timer with its          *)
(* interrupt enabled stands for the four (module Timers has the counters), *)
(* seen as the cycles left to its next overflow, and a serial transfer as  *)
(* the cycles left to its end. What a trigger's transfers cost is any      *)
(* value of a set, 0 when no channel is armed for it. Clocks count modulo  *)
(* a frame.                                                                *)
(***************************************************************************)
EXTENDS PpuBeam

CONSTANTS
  DisplayIrqs,  \* the display interrupts software enables
  Periods,      \* overflow periods of the timer
  Transfers,    \* lengths of serial transfers
  HblankCost, VblankCost, SoundCost,   \* bus cycles of a trigger's transfers
  Expansion,    \* kMaxDmaChainExpansion
  MaxCost,      \* bound on the bus cycles the triggers of one interval insert
  MaxWindow     \* the longest window the scheduler asks for

ASSUME DisplayAssumption == DisplayIrqs \subseteq Sources
ASSUME PeriodsAssumption == Periods \subseteq Nat \ {0} /\ Transfers \subseteq Nat \ {0}
ASSUME CostAssumption ==
  /\ \A costs \in {HblankCost, VblankCost, SoundCost} : costs # {} /\ costs \subseteq Nat
  /\ Expansion \in Nat /\ MaxCost \in Nat \ {0}
  /\ \A h \in HblankCost, v \in VblankCost, c \in SoundCost :
       h + v + LineCycles * c <= MaxCost
ASSUME WindowAssumption == MaxWindow \in Nat \ {0}

VARIABLES
  ppu,
  timer,      \* [period, left], period 0 when the timer is stopped
  serial,     \* cycles left of the serial transfer, 0 when there is none
  flags,      \* IF
  loop,       \* the local variables of advance_devices; stretched: DMA time was inserted
  presented,  \* the calls of the scanline observer and the last line given
  clock       \* scheduler_cycles_

deviceVars == <<ppu, timer, serial, flags, presented>>
vars == <<ppu, timer, serial, flags, loop, presented, clock>>

Irqs == Sources \cup {"timer", "serial", "dma"}

Idle == [active |-> FALSE, window |-> 0, cpu |-> 0, dma |-> 0,
         budget |-> 0, generated |-> 0, inserted |-> 0, stretched |-> FALSE]

TypeOK ==
  /\ ppu \in PpuState
  /\ timer.period \in Periods \cup {0} /\ timer.left \in 0 .. timer.period
  /\ serial \in Nat
  /\ flags \subseteq Irqs
  /\ loop \in [active : BOOLEAN, window : 0 .. MaxWindow, cpu : 0 .. MaxWindow, dma : Nat,
               budget : Nat, generated : Nat, inserted : 0 .. FrameCycles - 1,
               stretched : BOOLEAN]
  /\ loop.cpu <= loop.window
  /\ presented \in [calls : 0 .. VisibleLines - 1, line : -1 .. VisibleLines - 1]
  /\ clock \in 0 .. FrameCycles - 1

Init ==
  /\ ppu = [line |-> 0, cycle |-> 0, dispstat |-> [irqs |-> {}, setting |-> 0]]
  /\ timer = [period |-> 0, left |-> 0]
  /\ serial = 0
  /\ flags = {}
  /\ loop = Idle
  /\ presented = [calls |-> 0, line |-> -1]
  /\ clock = 0

---------------------------------------------------------------------------
(* What the CPU does between two windows.                                   *)

\* DISPSTAT, the timer's registers or SIOCNT are written.
WriteDispstat(value) ==
  /\ ~loop.active
  /\ ppu' = [ppu EXCEPT !.dispstat = value]
  /\ flags' = flags \cup (IF ~VcountMatch(ppu) /\ VcountMatch(ppu')
                          THEN value.irqs \cap {"vcount"} ELSE {})
  /\ UNCHANGED <<timer, serial, loop, presented, clock>>

\* IF is written.
Acknowledge(mask) ==
  /\ ~loop.active
  /\ flags' = flags \ mask
  /\ UNCHANGED <<ppu, timer, serial, loop, presented, clock>>

StartTimer(period) ==
  /\ ~loop.active
  /\ timer' = [period |-> period, left |-> period]
  /\ UNCHANGED <<ppu, serial, flags, loop, presented, clock>>

StartTransfer(length) ==
  /\ ~loop.active
  /\ serial' = length
  /\ UNCHANGED <<ppu, timer, flags, loop, presented, clock>>

---------------------------------------------------------------------------
(* advance_devices                                                          *)

Window0(n) == [Idle EXCEPT !.active = TRUE, !.window = n, !.cpu = n]

Advance(n) ==
  /\ ~loop.active
  /\ loop' = Window0(n)
  /\ UNCHANGED <<deviceVars, clock>>

\* BUG: an interval does not stop where a line is presented.
BoundaryWithoutPresentation(cycle) ==
  IF cycle < FlagCycles THEN FlagCycles ELSE LineCycles

Boundary(cycle) ==
  IF cycle < VisibleCycles THEN VisibleCycles
  ELSE IF cycle < FlagCycles THEN FlagCycles ELSE LineCycles

DmaInterval == loop.dma # 0
IntervalLength ==
  Least({IF DmaInterval THEN loop.dma ELSE loop.cpu, Boundary(ppu.cycle) - ppu.cycle})

\* The overflows of the timer in n cycles.
Overflows(n) ==
  IF timer.period = 0 \/ n < timer.left THEN 0
  ELSE 1 + ((n - timer.left) \div timer.period)

TickTimer(n) ==
  timer' = IF timer.period = 0 \/ n < timer.left
           THEN [timer EXCEPT !.left = IF timer.period = 0 THEN 0 ELSE @ - n]
           ELSE [timer EXCEPT !.left = timer.period - ((n - timer.left) % timer.period)]

TickSerial(n) == serial' = IF n < serial THEN serial - n ELSE 0

Completed(n) == serial # 0 /\ serial <= n

\* The scanline observer is called when an interval ends at the end of the
\* visible part of a visible line.
Present ==
  presented' = IF ppu'.cycle = VisibleCycles /\ ppu'.line < VisibleLines
               THEN [calls |-> (presented.calls + 1) % VisibleLines, line |-> ppu'.line]
               ELSE presented

\* The guard against self-sustaining chains: a trigger seen during DMA time
\* runs only while the chain has generated less than its budget.
Allowed(dmaInterval) == ~dmaInterval \/ loop.generated < loop.budget

\* The bus cycles the triggers of an interval of n cycles may insert.
SoundCosts(overflows) == {k * c : k \in 0 .. overflows, c \in SoundCost}

InsertedBy(n) ==
  LET seen == Events(ppu, n)
      none == {0}
  IN IF ~Allowed(DmaInterval) THEN none
     ELSE {h + v + s : h \in IF seen.hblanks # 0 THEN HblankCost ELSE none,
                       v \in IF seen.vblanks # 0 THEN VblankCost ELSE none,
                       s \in SoundCosts(Overflows(n))}

\* BUG: the bus cycles of a chain are not added up.
ChargedUncounted(n, cost) ==
  IF DmaInterval
  THEN [loop EXCEPT !.dma = @ - n + cost, !.inserted = (@ + cost) % FrameCycles,
                    !.stretched = @ \/ cost # 0]
  ELSE [loop EXCEPT !.cpu = @ - n, !.dma = cost, !.generated = 0,
                    !.budget = cost * Expansion, !.inserted = (@ + cost) % FrameCycles,
                    !.stretched = @ \/ cost # 0]

\* The accounting of an interval of n cycles whose triggers insert `cost` bus
\* cycles.
Charged(n, cost) ==
  IF DmaInterval
  THEN [loop EXCEPT !.dma = @ - n + cost, !.generated = @ + cost,
                    !.inserted = (@ + cost) % FrameCycles,
                    !.stretched = @ \/ cost # 0]
  ELSE [loop EXCEPT !.cpu = @ - n, !.dma = cost, !.generated = 0,
                    !.budget = cost * Expansion, !.inserted = (@ + cost) % FrameCycles,
                    !.stretched = @ \/ cost # 0]

\* One iteration of the loop. Transfers that cost anything may request DMA
\* interrupts.
Interval(cost, dmaIrq) ==
  LET n == IntervalLength
  IN /\ loop.active /\ (loop.cpu # 0 \/ loop.dma # 0)
     /\ cost \in InsertedBy(n)
     /\ dmaIrq \subseteq (IF cost # 0 THEN {"dma"} ELSE {})
     /\ loop' = Charged(n, cost)
     /\ TickTimer(n) /\ TickSerial(n) /\ ppu' = Moved(ppu, n)
     /\ flags' = flags \cup Raised(ppu, n) \cup dmaIrq
                       \cup (IF Overflows(n) # 0 THEN {"timer"} ELSE {})
                       \cup (IF Completed(n) THEN {"serial"} ELSE {})
     /\ Present
     /\ UNCHANGED clock

\* BUG: inserted bus cycles are not added to the scheduler's clock.
ElapsedCpuOnly(l) == l.window

Elapsed(l) == l.window + l.inserted

Finish ==
  /\ loop.active /\ loop.cpu = 0 /\ loop.dma = 0
  /\ clock' = (clock + Elapsed(loop)) % FrameCycles
  /\ loop' = Idle
  /\ UNCHANGED deviceVars

Run ==
  \/ \E cost \in InsertedBy(IntervalLength), dmaIrq \in SUBSET {"dma"} : Interval(cost, dmaIrq)
  \/ Finish

Program ==
  \/ \E irqs \in {{}, DisplayIrqs}, setting \in Settings :
       WriteDispstat([irqs |-> irqs, setting |-> setting])
  \/ flags # {} /\ Acknowledge(flags)
  \/ \E period \in Periods \cup {0} : StartTimer(period)
  \/ \E length \in Transfers \cup {0} : StartTransfer(length)
  \/ \E n \in 1 .. MaxWindow : Advance(n)

Next == Program \/ Run

\* A call of advance_devices runs to its end.
Spec == Init /\ [][Next]_vars /\ WF_vars(Run)

---------------------------------------------------------------------------
(* Properties.                                                              *)

\* PpuTiming::tick sees every edge of its window once: for windows up to more
\* than a frame its loop ends in the same position, requests the same
\* interrupts and reports the same events as the edges of the window, from
\* every position a window of the scheduler can end in.
LoopSeesEveryEdge ==
  LET p == [ppu EXCEPT !.dispstat.irqs = Sources]
  IN ~loop.active =>
       \A n \in 0 .. FrameCycles + LineCycles :
         TickLoop(p, n) = [ppu |-> Moved(p, n), left |-> 0,
                           raised |-> Raised(p, n), events |-> Events(p, n)]

\* scheduler_cycles_ and the display never drift apart, whatever the windows
\* and the DMA time inserted into them: in the middle of a call the clock
\* lags by exactly what the call has ticked so far. Frame stepping and
\* advance_hle_work take scheduler_cycles_ modulo a frame for the position of
\* the display.
ClockInStep ==
  FrameCycle(ppu)
    = (clock + (loop.window - loop.cpu) + (loop.inserted - loop.dma)) % FrameCycles

\* Every visible line is presented once, in order, when its visible part
\* ends and so before the HBlank transfers of that line ("Stop at each
\* presentation/PPU edge, including while charging DMA time").
PresentedInStep ==
  LET done == IF ppu.line >= VisibleLines THEN VisibleLines
              ELSE IF ppu.cycle >= VisibleCycles THEN ppu.line + 1 ELSE ppu.line
  IN /\ presented.calls = done % VisibleLines
     /\ presented.line # -1 => presented.line = (done + VisibleLines - 1) % VisibleLines
     /\ presented.line = -1 => done = 0

\* Every call of advance_devices returns, even when each HBlank's transfer
\* takes longer than a line.
WindowEnds == loop.active ~> ~loop.active
=============================================================================
