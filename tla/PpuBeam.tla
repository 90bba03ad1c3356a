------------------------------ MODULE PpuBeam ------------------------------
(***************************************************************************)
(* The display timing of src/core/ppu_timing.cpp as functions of the       *)
(* position in the frame: what a tick of n cycles moves, requests and      *)
(* reports, and how long until the next edge. A tick is described by the   *)
(* edges its window contains; TickLoop is the loop of the code.            *)
(***************************************************************************)
EXTENDS Integers, FiniteSets

CONSTANTS
  VisibleLines, TotalLines,                \* kVisibleLines, kTotalLines
  VisibleCycles, FlagCycles, LineCycles,   \* kVisibleCycles, kHblankFlagCycles, kCyclesPerLine
  Settings                                 \* VCOUNT settings software writes

ASSUME LinesAssumption ==
  /\ VisibleLines \in Nat \ {0} /\ TotalLines \in Nat /\ VisibleLines < TotalLines
ASSUME CyclesAssumption ==
  /\ VisibleCycles \in Nat \ {0} /\ FlagCycles \in Nat /\ LineCycles \in Nat
  /\ VisibleCycles < FlagCycles /\ FlagCycles < LineCycles
ASSUME SettingsAssumption == Settings \subseteq Nat /\ 0 \in Settings

FrameCycles == LineCycles * TotalLines
Sources == {"vblank", "hblank", "vcount"}

\* The writable part of DISPSTAT: the enabled interrupts and the setting.
Dispstat == [irqs : SUBSET Sources, setting : Settings]

PpuState == [line : 0 .. TotalLines - 1, cycle : 0 .. LineCycles - 1, dispstat : Dispstat]

VcountMatch(p) == p.line = p.dispstat.setting
Hblank(p) == p.cycle >= FlagCycles
Vblank(p) == p.line >= VisibleLines /\ p.line < TotalLines - 1

---------------------------------------------------------------------------
(* tick(n)                                                                  *)

FrameCycle(p) == p.line * LineCycles + p.cycle
Window(p, n) == FrameCycle(p) + 1 .. FrameCycle(p) + n
LineAt(q) == (q \div LineCycles) % TotalLines

HblankEdges(p, n) == {q \in Window(p, n) : q % LineCycles = FlagCycles}
LineEdges(p, n) == {q \in Window(p, n) : q % LineCycles = 0}
VblankEdges(p, n) == {q \in LineEdges(p, n) : LineAt(q) = VisibleLines}
MatchEdges(p, n) == {q \in LineEdges(p, n) : LineAt(q) = p.dispstat.setting}

Moved(p, n) ==
  LET q == FrameCycle(p) + n
  IN [p EXCEPT !.line = LineAt(q), !.cycle = q % LineCycles]

\* The interrupts requested; every line has an HBlank interrupt.
Raised(p, n) ==
  {s \in p.dispstat.irqs : \/ s = "hblank" /\ HblankEdges(p, n) # {}
                           \/ s = "vblank" /\ VblankEdges(p, n) # {}
                           \/ s = "vcount" /\ MatchEdges(p, n) # {}}

\* PpuTickEvents: HBlank entries are counted on visible lines only.
Events(p, n) ==
  [hblanks |-> Cardinality({q \in HblankEdges(p, n) : LineAt(q) < VisibleLines}),
   vblanks |-> Cardinality(VblankEdges(p, n)),
   matches |-> Cardinality(MatchEdges(p, n))]

NoEvents == [hblanks |-> 0, vblanks |-> 0, matches |-> 0]

\* enter_hblank and enter_next_line, on acc = [ppu, left, raised, events].
EnterHblank(acc) ==
  [acc EXCEPT !.events.hblanks = IF acc.ppu.line < VisibleLines THEN @ + 1 ELSE @,
              !.raised = @ \cup (acc.ppu.dispstat.irqs \cap {"hblank"})]

EnterNextLine(acc) ==
  LET line == IF acc.ppu.line + 1 = TotalLines THEN 0 ELSE acc.ppu.line + 1
      p == [acc.ppu EXCEPT !.line = line, !.cycle = 0]
      entered == (IF line = VisibleLines THEN {"vblank"} ELSE {})
                   \cup (IF VcountMatch(p) THEN {"vcount"} ELSE {})
  IN [acc EXCEPT !.ppu = p,
                 !.raised = @ \cup (p.dispstat.irqs \cap entered),
                 !.events.vblanks = IF "vblank" \in entered THEN @ + 1 ELSE @,
                 !.events.matches = IF "vcount" \in entered THEN @ + 1 ELSE @]

\* BUG: the next event is looked for strictly after the HBlank edge only.
IterateOneEdge(acc) ==
  LET step == IF acc.left < LineCycles - acc.ppu.cycle THEN acc.left
              ELSE LineCycles - acc.ppu.cycle
      at == [acc EXCEPT !.ppu.cycle = @ + step, !.left = @ - step]
  IN IF at.ppu.cycle = FlagCycles THEN EnterHblank(at)
     ELSE IF at.ppu.cycle = LineCycles THEN EnterNextLine(at)
     ELSE at

\* The body of the loop: advance to the next event or to the window's end.
Iterate(acc) ==
  LET event == IF acc.ppu.cycle < FlagCycles THEN FlagCycles ELSE LineCycles
      step == IF acc.left < event - acc.ppu.cycle THEN acc.left ELSE event - acc.ppu.cycle
      at == [acc EXCEPT !.ppu.cycle = @ + step, !.left = @ - step]
  IN IF at.ppu.cycle = FlagCycles THEN EnterHblank(at)
     ELSE IF at.ppu.cycle = LineCycles THEN EnterNextLine(at)
     ELSE at

TickLoop(p, n) ==
  LET acc[i \in 0 .. n] ==
        IF i = 0 THEN [ppu |-> p, left |-> n, raised |-> {}, events |-> NoEvents]
        ELSE LET prev == acc[i - 1] IN IF prev.left = 0 THEN prev ELSE Iterate(prev)
  IN acc[n]

---------------------------------------------------------------------------
(* The wait bound of the scheduler.                                         *)

Least(S) == CHOOSE x \in S : \A y \in S : x <= y

HblankDistance(p) ==
  IF p.cycle < FlagCycles THEN FlagCycles - p.cycle
  ELSE LineCycles - p.cycle + FlagCycles

VblankDistance(p) ==
  LET d == (VisibleLines * LineCycles + FrameCycles - FrameCycle(p)) % FrameCycles
  IN IF d = 0 THEN FrameCycles ELSE d

\* A setting beyond the last line gives the distance of the line it is
\* congruent to; it never matches.
VcountDistance(p) ==
  LET lines == (p.dispstat.setting + TotalLines - p.line) % TotalLines
  IN ((IF lines = 0 THEN TotalLines ELSE lines) - 1) * LineCycles + (LineCycles - p.cycle)

\* intr_wait_ppu_horizon_cycles: how far a wait for the interrupts in mask may
\* run before it looks at them again, at most `batch` cycles.
PpuHorizon(p, mask, batch) ==
  LET watched == mask \cap p.dispstat.irqs
  IN Least({batch} \cup (IF "hblank" \in watched THEN {HblankDistance(p)} ELSE {})
                  \cup (IF "vblank" \in watched THEN {VblankDistance(p)} ELSE {})
                  \cup (IF "vcount" \in watched THEN {VcountDistance(p)} ELSE {}))
=============================================================================
