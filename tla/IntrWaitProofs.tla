--------------------------- MODULE IntrWaitProofs ---------------------------
(***************************************************************************)
(* Proofs about advance_devices and the BIOS waits, for every size of the  *)
(* frame, every window and every cost of a transfer: the clock and the     *)
(* display stay together, every visible line is presented once and in      *)
(* order, a chunked wait returns in the cycle its interrupt is set, and    *)
(* the loop of PpuTiming::tick sees every edge of its window once.         *)
(***************************************************************************)
EXTENDS IntrWait, FiniteSetTheorems, WellFoundedInduction, TLAPS

---------------------------------------------------------------------------
(* Arithmetic modulo the length of a line, the lines or the cycles of a     *)
(* frame.                                                                   *)

LEMMA MultiplesOrder ==
  ASSUME NEW F \in Nat \ {0}, NEW m \in Int, NEW p \in Int, m * F < p * F
  PROVE  m < p
<1> SUFFICES ASSUME m >= p PROVE FALSE
  OBVIOUS
<1>1. (m - p) * F >= 0
  OBVIOUS
<1>2. (m - p) * F = m * F - p * F
  OBVIOUS
<1> QED
  BY <1>1, <1>2

LEMMA Division ==
  ASSUME NEW F \in Nat \ {0}, NEW a \in Int
  PROVE  /\ a \div F \in Int
         /\ a % F \in 0 .. F - 1
         /\ a = (a \div F) * F + (a % F)
<1>1. F \in Int /\ F > 0
  OBVIOUS
<1>2. a = F * (a \div F) + (a % F)
  BY <1>1, Z3
<1>3. a % F \in 0 .. F - 1 /\ a \div F \in Int
  OBVIOUS
<1> DEFINE q == a \div F
           r == a % F
<1> HIDE DEF q, r
<1>4. q \in Int /\ r \in Int /\ a = F * q + r
  BY <1>2, <1>3 DEF q, r
<1>5. a = q * F + r
  BY <1>4
<1> QED
  BY <1>3, <1>5, Zenon DEF q, r

\* Quotient and remainder are unique.
LEMMA Remainder ==
  ASSUME NEW F \in Nat \ {0}, NEW a \in Int, NEW k \in Int, NEW r \in 0 .. F - 1,
         a = k * F + r
  PROVE  a % F = r /\ a \div F = k
<1> DEFINE q == a \div F
           s == a % F
<1>1. q \in Int /\ s \in 0 .. F - 1 /\ a = q * F + s
  BY Division
<1> HIDE DEF q, s
<1>2. (k + 1) * F = k * F + F /\ (q + 1) * F = q * F + F
  BY <1>1
<1>3. k * F \in Int /\ q * F \in Int
  BY <1>1
<1>4. k < q + 1
  <2>1. k * F < (q + 1) * F /\ q + 1 \in Int
    BY <1>1, <1>2, <1>3
  <2> QED
    BY <1>1, <2>1, MultiplesOrder
<1>5. q < k + 1
  <2>1. q * F < (k + 1) * F /\ k + 1 \in Int
    BY <1>1, <1>2, <1>3
  <2> QED
    BY <1>1, <2>1, MultiplesOrder
<1>6. q = k
  BY <1>1, <1>4, <1>5
<1>7. s = r
  BY <1>1, <1>3, <1>6
<1> QED
  BY <1>6, <1>7 DEF q, s

LEMMA SmallRemainder ==
  ASSUME NEW F \in Nat \ {0}, NEW r \in 0 .. F - 1
  PROVE  r % F = r
<1>1. r \in Int /\ 0 \in Int /\ r = 0 * F + r
  OBVIOUS
<1> QED
  BY <1>1, Remainder

\* Numbers a multiple of F apart have the same remainder.
LEMMA Congruent ==
  ASSUME NEW F \in Nat \ {0}, NEW a \in Int, NEW b \in Int, NEW k \in Int, a = b + k * F
  PROVE  a % F = b % F
<1> DEFINE q == b \div F
           s == b % F
<1>1. q \in Int /\ s \in 0 .. F - 1 /\ b = q * F + s
  BY Division
<1> HIDE DEF q, s
<1>2. (q + k) * F = q * F + k * F /\ q * F \in Int /\ k * F \in Int
  BY <1>1
<1>3. q + k \in Int /\ a = (q + k) * F + s
  BY <1>1, <1>2
<1>4. a % F = s
  BY <1>1, <1>3, Remainder
<1> QED
  BY <1>4 DEF s

LEMMA AddRemainder ==
  ASSUME NEW F \in Nat \ {0}, NEW a \in Int, NEW b \in Int
  PROVE  ((a % F) + b) % F = (a + b) % F
<1> DEFINE q == a \div F
           s == a % F
<1>1. q \in Int /\ s \in 0 .. F - 1 /\ a = q * F + s
  BY Division
<1> HIDE DEF q, s
<1>2. q * F \in Int /\ a + b \in Int /\ s + b \in Int
  BY <1>1
<1>3. a + b = (s + b) + q * F
  BY <1>1, <1>2
<1>4. (a + b) % F = (s + b) % F
  BY <1>1, <1>2, <1>3, Congruent
<1> QED
  BY <1>4 DEF s

\* The least of a nonempty set of natural numbers.
LEMMA LeastExists ==
  ASSUME NEW S \in SUBSET Nat, S # {}
  PROVE  Least(S) \in S /\ \A y \in S : Least(S) <= y
<1> DEFINE R == {ss \in Nat \X Nat : ss[1] < ss[2]}
<1>1. IsWellFoundedOn(R, Nat)
  BY NatLessThanWellFounded DEF OpToRel
<1> HIDE DEF R
<1>2. PICK x \in S : \A y \in S : ~(<<y, x>> \in R)
  BY <1>1, WFMin
<1>3. \A y \in S : x <= y
  <2> TAKE y \in S
  <2>1. x \in Nat /\ y \in Nat
    OBVIOUS
  <2>2. ~(y < x)
    <3>1. ~(<<y, x>> \in R) /\ <<y, x>> \in Nat \X Nat
      BY <1>2, <2>1
    <3> QED
      BY <3>1 DEF R
  <2> QED
    BY <2>1, <2>2
<1> QED
  BY <1>3 DEF Least

---------------------------------------------------------------------------
(* The display within a line. An interval ends at the next edge at most, so  *)
(* it stays in its line or ends it.                                          *)

LEMMA FrameFacts ==
  /\ LineCycles \in Nat \ {0} /\ TotalLines \in Nat \ {0} /\ FrameCycles \in Nat \ {0}
  /\ VisibleLines \in Nat \ {0} /\ VisibleLines < TotalLines
  /\ VisibleCycles \in Nat \ {0} /\ FlagCycles \in Nat
  /\ VisibleCycles < FlagCycles /\ FlagCycles < LineCycles
<1>1. LineCycles \in Nat \ {0} /\ TotalLines \in Nat \ {0}
  BY LinesAssumption, CyclesAssumption
<1>2. LineCycles * TotalLines \in Nat \ {0}
  BY <1>1
<1> QED
  BY <1>1, <1>2, LinesAssumption, CyclesAssumption DEF FrameCycles

NextLine(line) == IF line + 1 = TotalLines THEN 0 ELSE line + 1

\* m is the display p after n cycles of its line.
MovesTo(p, n, m) ==
  /\ m \in PpuState
  /\ m.dispstat = p.dispstat
  /\ p.cycle + n < LineCycles => m.line = p.line /\ m.cycle = p.cycle + n
  /\ p.cycle + n = LineCycles => m.line = NextLine(p.line) /\ m.cycle = 0

LEMMA MovedInLine ==
  ASSUME NEW p \in PpuState, NEW n \in Nat, n <= LineCycles - p.cycle
  PROVE  MovesTo(p, n, Moved(p, n))
<1> DEFINE q == FrameCycle(p) + n
           x == p.line * LineCycles
           l == LineAt(q)
           c == q % LineCycles
<1>1. /\ p.line \in 0 .. TotalLines - 1 /\ p.cycle \in 0 .. LineCycles - 1
      /\ p.dispstat \in Dispstat
  BY DEF PpuState
<1>2. x \in Nat /\ q = x + p.cycle + n
  BY <1>1, FrameFacts DEF FrameCycle
<1>3. Moved(p, n) = [p EXCEPT !.line = l, !.cycle = c]
  BY DEF Moved
<1> HIDE DEF q, l, c
<1>3a. l \in 0 .. TotalLines - 1 /\ c \in 0 .. LineCycles - 1
        => /\ Moved(p, n) \in PpuState /\ Moved(p, n).dispstat = p.dispstat
           /\ Moved(p, n).line = l /\ Moved(p, n).cycle = c
  BY <1>1, <1>3 DEF PpuState
<1>4. CASE p.cycle + n < LineCycles
  <2>1. p.cycle + n \in 0 .. LineCycles - 1 /\ q \in Int /\ p.line \in Int
    BY <1>1, <1>2, <1>4, FrameFacts
  <2>2. q = p.line * LineCycles + (p.cycle + n)
    BY <1>1, <1>2, FrameFacts
  <2>3. q % LineCycles = p.cycle + n /\ q \div LineCycles = p.line
    BY <2>1, <2>2, Remainder, FrameFacts
  <2>4. p.line % TotalLines = p.line
    BY <1>1, SmallRemainder, FrameFacts
  <2>5. l = p.line /\ c = p.cycle + n
    BY <2>3, <2>4 DEF LineAt, l, c
  <2> QED
    BY <1>1, <1>4, <1>3a, <2>1, <2>5, FrameFacts DEF MovesTo
<1>5. CASE p.cycle + n = LineCycles
  <2>1. q \in Int /\ p.line + 1 \in Int /\ 0 \in 0 .. LineCycles - 1
    BY <1>1, <1>2, FrameFacts
  <2>2. (p.line + 1) * LineCycles = x + LineCycles
    BY <1>1, FrameFacts
  <2>3. q = (p.line + 1) * LineCycles + 0
    BY <1>1, <1>2, <1>5, <2>2, FrameFacts
  <2>4. q % LineCycles = 0 /\ q \div LineCycles = p.line + 1
    BY <2>1, <2>3, Remainder, FrameFacts
  <2>5. (p.line + 1) % TotalLines = NextLine(p.line) /\ NextLine(p.line) \in 0 .. TotalLines - 1
    <3>1. CASE p.line + 1 = TotalLines
      <4>1. TotalLines = 1 * TotalLines + 0 /\ TotalLines \in Int /\ 1 \in Int
              /\ 0 \in 0 .. TotalLines - 1
        BY FrameFacts
      <4>2. TotalLines % TotalLines = 0
        BY <4>1, Remainder, FrameFacts
      <4> QED
        BY <3>1, <4>1, <4>2 DEF NextLine
    <3>2. CASE p.line + 1 # TotalLines
      <4>1. p.line + 1 \in 0 .. TotalLines - 1
        BY <1>1, <3>2, FrameFacts
      <4>2. (p.line + 1) % TotalLines = p.line + 1
        BY <4>1, SmallRemainder, FrameFacts
      <4> QED
        BY <3>2, <4>1, <4>2 DEF NextLine
    <3> QED
      BY <3>1, <3>2
  <2>6. l = NextLine(p.line) /\ c = 0
    BY <2>4, <2>5 DEF LineAt, l, c
  <2> QED
    BY <1>1, <1>5, <1>3a, <2>1, <2>5, <2>6, FrameFacts DEF MovesTo
<1> QED
  BY <1>1, <1>4, <1>5, FrameFacts

\* The edges of such a window.
LEMMA EdgesInLine ==
  ASSUME NEW p \in PpuState, NEW n \in Nat, n <= LineCycles - p.cycle
  PROVE  /\ HblankEdges(p, n) # {} => p.cycle < FlagCycles /\ FlagCycles <= p.cycle + n
         /\ VblankEdges(p, n) # {} => p.cycle + n = LineCycles /\ NextLine(p.line) = VisibleLines
         /\ MatchEdges(p, n) # {} => /\ p.cycle + n = LineCycles
                                     /\ NextLine(p.line) = p.dispstat.setting
<1> DEFINE x == p.line * LineCycles
<1>1. p.line \in 0 .. TotalLines - 1 /\ p.cycle \in 0 .. LineCycles - 1
  BY DEF PpuState
<1>2. x \in Nat
  BY <1>1, FrameFacts
<1>3. ASSUME NEW q \in Window(p, n)
      PROVE  /\ q - x \in p.cycle + 1 .. p.cycle + n
             /\ q - x < LineCycles => q % LineCycles = q - x
             /\ q - x = LineCycles => q % LineCycles = 0 /\ LineAt(q) = NextLine(p.line)
  <2> DEFINE y == q - x
  <2>1. q \in Int /\ y \in p.cycle + 1 .. p.cycle + n /\ q = x + y
    BY <1>1, <1>2, FrameFacts DEF Window, FrameCycle
  <2> HIDE DEF y
  <2>2. y \in Nat /\ y - p.cycle \in Nat /\ y <= LineCycles /\ FrameCycle(p) + (y - p.cycle) = q
    BY <1>1, <1>2, <2>1, FrameFacts DEF FrameCycle
  <2> DEFINE m == Moved(p, y - p.cycle)
  <2>3. MovesTo(p, y - p.cycle, m)
    BY <1>1, <2>2, MovedInLine, FrameFacts
  <2>4. m.line = LineAt(q) /\ m.cycle = q % LineCycles
    BY <2>2 DEF Moved, PpuState
  <2>5. p.cycle + (y - p.cycle) = y
    BY <1>1, <2>2
  <2> HIDE DEF m
  <2>6. /\ y < LineCycles => q % LineCycles = y
        /\ y = LineCycles => q % LineCycles = 0 /\ LineAt(q) = NextLine(p.line)
    BY <2>3, <2>4, <2>5 DEF MovesTo
  <2> QED
    BY <2>1, <2>6 DEF y
<1>4. ASSUME NEW q \in HblankEdges(p, n)
      PROVE  p.cycle < FlagCycles /\ FlagCycles <= p.cycle + n
  <2>1. q \in Window(p, n) /\ q % LineCycles = FlagCycles
    BY DEF HblankEdges
  <2> DEFINE y == q - x
  <2>2. /\ y \in p.cycle + 1 .. p.cycle + n
        /\ y < LineCycles => FlagCycles = y
        /\ y = LineCycles => FlagCycles = 0
    BY <1>3, <2>1
  <2> HIDE DEF y
  <2> QED
    BY <1>1, <2>2, FrameFacts
<1>5. ASSUME NEW q \in LineEdges(p, n)
      PROVE  p.cycle + n = LineCycles /\ LineAt(q) = NextLine(p.line)
  <2>1. q \in Window(p, n) /\ q % LineCycles = 0
    BY DEF LineEdges
  <2> DEFINE y == q - x
  <2>2. /\ y \in p.cycle + 1 .. p.cycle + n
        /\ y < LineCycles => y = 0
        /\ y = LineCycles => LineAt(q) = NextLine(p.line)
    BY <1>3, <2>1
  <2> HIDE DEF y
  <2>3. y = LineCycles /\ p.cycle + n = LineCycles
    BY <1>1, <2>2, FrameFacts
  <2> QED
    BY <2>2, <2>3
<1>6. VblankEdges(p, n) # {} => p.cycle + n = LineCycles /\ NextLine(p.line) = VisibleLines
  BY <1>5 DEF VblankEdges
<1>7. MatchEdges(p, n) # {} => p.cycle + n = LineCycles /\ NextLine(p.line) = p.dispstat.setting
  BY <1>5 DEF MatchEdges
<1> QED
  BY <1>4, <1>6, <1>7

---------------------------------------------------------------------------
(* The distances of intr_wait_ppu_horizon_cycles: as long as a window is     *)
(* shorter than the distance to an edge, it does not contain the edge, and   *)
(* the distance shrinks by its length.                                       *)

\* The cycles to the next edge of a display interrupt.
Distance(p, s) ==
  IF s = "hblank" THEN HblankDistance(p)
  ELSE IF s = "vblank" THEN VblankDistance(p) ELSE VcountDistance(p)

LEMMA LineOrder ==
  ASSUME NEW a \in Nat, NEW b \in Nat, a < b
  PROVE  a * LineCycles + LineCycles <= b * LineCycles
<1>1. LineCycles \in Nat
  BY FrameFacts
<1>2. (b - a - 1) * LineCycles >= 0
  BY <1>1
<1>3. (b - a - 1) * LineCycles = b * LineCycles - a * LineCycles - LineCycles
  BY <1>1
<1>4. a * LineCycles \in Nat /\ b * LineCycles \in Nat
  BY <1>1
<1> QED
  BY <1>1, <1>2, <1>3, <1>4

\* Where the display is, with a line's start as a multiple of LineCycles.
LEMMA Position ==
  ASSUME NEW p \in PpuState
  PROVE  /\ p.line \in 0 .. TotalLines - 1 /\ p.cycle \in 0 .. LineCycles - 1
         /\ p.line * LineCycles \in Nat /\ VisibleLines * LineCycles \in Nat
         /\ FrameCycle(p) = p.line * LineCycles + p.cycle
         /\ p.line * LineCycles + LineCycles <= FrameCycles
         /\ VisibleLines * LineCycles + LineCycles <= FrameCycles
         /\ p.line < VisibleLines
              => p.line * LineCycles + LineCycles <= VisibleLines * LineCycles
         /\ p.line >= VisibleLines => p.line * LineCycles >= VisibleLines * LineCycles
<1>1. p.line \in 0 .. TotalLines - 1 /\ p.cycle \in 0 .. LineCycles - 1
  BY DEF PpuState
<1>2. p.line \in Nat /\ p.line < TotalLines
  BY <1>1, FrameFacts
<1>3. p.line * LineCycles \in Nat /\ VisibleLines * LineCycles \in Nat
  BY <1>2, FrameFacts
<1>4. FrameCycles = TotalLines * LineCycles
  BY FrameFacts DEF FrameCycles
<1>5. p.line * LineCycles + LineCycles <= FrameCycles
  BY <1>2, <1>4, LineOrder, FrameFacts
<1>6. VisibleLines * LineCycles + LineCycles <= FrameCycles
  BY <1>4, LineOrder, FrameFacts
<1>7. p.line < VisibleLines => p.line * LineCycles + LineCycles <= VisibleLines * LineCycles
  BY <1>2, LineOrder, FrameFacts
<1>8. p.line >= VisibleLines => p.line * LineCycles >= VisibleLines * LineCycles
  <2>1. CASE p.line = VisibleLines
    BY <2>1, <1>3
  <2>2. CASE p.line > VisibleLines
    <3>1. VisibleLines * LineCycles + LineCycles <= p.line * LineCycles
      BY <1>2, <2>2, LineOrder, FrameFacts
    <3> QED
      BY <1>3, <3>1, FrameFacts
  <2> QED
    BY <1>2, <2>1, <2>2, FrameFacts
<1> QED
  BY <1>1, <1>3, <1>5, <1>6, <1>7, <1>8 DEF FrameCycle

LEMMA VblankDistanceIs ==
  ASSUME NEW p \in PpuState
  PROVE  VblankDistance(p)
           = IF p.line < VisibleLines
             THEN VisibleLines * LineCycles - (p.line * LineCycles + p.cycle)
             ELSE VisibleLines * LineCycles + FrameCycles - (p.line * LineCycles + p.cycle)
<1> DEFINE x == p.line * LineCycles
           y == VisibleLines * LineCycles
           F == FrameCycles
           a == y + F - (x + p.cycle)
<1>1. /\ p.line \in 0 .. TotalLines - 1 /\ p.cycle \in 0 .. LineCycles - 1
      /\ x \in Nat /\ y \in Nat /\ x + LineCycles <= F /\ y + LineCycles <= F
      /\ p.line < VisibleLines => x + LineCycles <= y
      /\ p.line >= VisibleLines => x >= y
      /\ FrameCycle(p) = x + p.cycle
  BY Position
<1>2. VblankDistance(p) = IF a % F = 0 THEN F ELSE a % F
  BY <1>1 DEF VblankDistance
<1>3. F \in Nat \ {0} /\ LineCycles \in Nat \ {0} /\ VisibleLines \in Nat
  BY FrameFacts
<1> HIDE DEF x, y, F
<1>4. CASE p.line < VisibleLines
  <2> DEFINE r == y - (x + p.cycle)
  <2>1. r \in 0 .. F - 1 /\ r # 0 /\ a \in Int /\ a = 1 * F + r /\ 1 \in Int
    BY <1>1, <1>3, <1>4
  <2>2. a % F = r
    <3> HIDE DEF a, r
    <3> QED
      BY <1>3, <2>1, Remainder
  <2> QED
    BY <1>2, <1>4, <2>1, <2>2 DEF x, y, F
<1>5. CASE ~(p.line < VisibleLines)
  <2>1. a \in 1 .. F
    BY <1>1, <1>3, <1>5
  <2>2. CASE a = F
    <3>1. F = 1 * F + 0 /\ F \in Int /\ 1 \in Int /\ 0 \in 0 .. F - 1
      BY <1>3
    <3>2. F % F = 0
      BY <1>3, <3>1, Remainder
    <3> QED
      BY <1>2, <1>5, <2>2, <3>2 DEF x, y, F
  <2>3. CASE a # F
    <3>1. a \in 0 .. F - 1 /\ a # 0
      BY <1>3, <2>1, <2>3
    <3>2. a % F = a
      BY <1>3, <3>1, SmallRemainder
    <3> QED
      BY <1>2, <1>5, <3>1, <3>2 DEF x, y, F
  <2> QED
    BY <2>2, <2>3
<1> QED
  BY <1>4, <1>5

\* The lines to the next one that matches the setting.
LinesToMatch(p) ==
  LET lines == (p.dispstat.setting + TotalLines - p.line) % TotalLines
  IN IF lines = 0 THEN TotalLines ELSE lines

LEMMA MatchSteps ==
  ASSUME NEW p \in PpuState
  PROVE  /\ LinesToMatch(p) \in 1 .. TotalLines
         /\ NextLine(p.line) = p.dispstat.setting => LinesToMatch(p) = 1
         /\ \A m \in PpuState :
              m.line = NextLine(p.line) /\ m.dispstat = p.dispstat /\ LinesToMatch(p) # 1
                => LinesToMatch(m) = LinesToMatch(p) - 1
<1> DEFINE T == TotalLines
           s == p.dispstat.setting
           a == s + T - p.line
           q == a \div T
           r == a % T
<1>1. T \in Nat \ {0} /\ T > 1 /\ p.line \in 0 .. T - 1 /\ s \in Nat
  <2>1. p.dispstat \in Dispstat /\ p.line \in 0 .. T - 1
    BY DEF PpuState
  <2>2. s \in Nat
    BY <2>1, SettingsAssumption DEF Dispstat
  <2>3. T \in Nat \ {0} /\ T > 1
    BY FrameFacts
  <2> QED
    BY <2>1, <2>2, <2>3
<1>2. a \in Int /\ q \in Int /\ r \in 0 .. T - 1 /\ a = q * T + r
  <2>1. a \in Int
    BY <1>1
  <2> HIDE DEF a
  <2> QED
    BY <1>1, <2>1, Division
<1>3. LinesToMatch(p) = IF r = 0 THEN T ELSE r
  BY DEF LinesToMatch
<1>4. LinesToMatch(p) \in 1 .. T
  <2> HIDE DEF r, T
  <2> QED
    BY <1>1, <1>2, <1>3
<1>5. NextLine(p.line) = s => LinesToMatch(p) = 1
  <2> SUFFICES ASSUME NextLine(p.line) = s PROVE r = 1
    BY <1>3
  <2>1. CASE p.line + 1 = T
    <3>1. a = 1
      <4>1. s = 0
        BY <2>1 DEF NextLine
      <4> QED
        BY <1>1, <2>1, <4>1
    <3>2. 1 \in 0 .. T - 1
      BY <1>1
    <3> QED
      BY <1>1, <3>1, <3>2, SmallRemainder
  <2>2. CASE p.line + 1 # T
    <3>1. a = 1 * T + 1 /\ 1 \in 0 .. T - 1 /\ 1 \in Int
      BY <1>1, <2>2 DEF NextLine
    <3> QED
      BY <1>1, <1>2, <3>1, Remainder
  <2> QED
    BY <2>1, <2>2
<1>6. ASSUME NEW m \in PpuState, m.line = NextLine(p.line), m.dispstat = p.dispstat,
             LinesToMatch(p) # 1
      PROVE  LinesToMatch(m) = LinesToMatch(p) - 1
  <2> DEFINE b == s + T - m.line
  <2>1. LinesToMatch(m) = IF b % T = 0 THEN T ELSE b % T
    BY <1>6 DEF LinesToMatch
  <2>2. b \in Int /\ a - 1 \in Int
    BY <1>1, <1>6 DEF NextLine
  <2>3. b % T = (a - 1) % T
    <3>1. CASE p.line + 1 = T
      <4>1. b = (a - 1) + 1 * T /\ 1 \in Int
        BY <1>1, <1>6, <3>1 DEF NextLine
      <4> HIDE DEF a, b
      <4> QED
        BY <1>1, <2>2, <4>1, Congruent
    <3>2. CASE p.line + 1 # T
      <4>1. b = a - 1
        BY <1>1, <1>6, <3>2 DEF NextLine
      <4> QED
        BY <4>1
    <3> QED
      BY <3>1, <3>2
  <2> HIDE DEF a, b, q, r, T
  <2>4. CASE r = 0
    <3>1. (q - 1) * T = q * T - T /\ q * T \in Int
      BY <1>1, <1>2
    <3>2. a - 1 = (q - 1) * T + (T - 1) /\ T - 1 \in 0 .. T - 1 /\ q - 1 \in Int
      BY <1>1, <1>2, <2>4, <3>1
    <3>3. (a - 1) % T = T - 1
      BY <1>1, <2>2, <3>2, Remainder
    <3> QED
      BY <1>1, <1>3, <2>1, <2>3, <2>4, <3>3
  <2>5. CASE r # 0
    <3>1. r - 1 \in 1 .. T - 1
      BY <1>1, <1>2, <1>3, <1>6, <2>5
    <3>2. a - 1 = q * T + (r - 1) /\ r - 1 \in 0 .. T - 1
      <4>1. q * T \in Int
        BY <1>1, <1>2
      <4> QED
        BY <1>1, <1>2, <3>1, <4>1
    <3>3. (a - 1) % T = r - 1
      BY <1>1, <1>2, <2>2, <3>2, Remainder
    <3> QED
      BY <1>3, <2>1, <2>3, <2>5, <3>1, <3>3
  <2> QED
    BY <2>4, <2>5
<1> QED
  BY <1>4, <1>5, <1>6

LEMMA VcountDistanceIs ==
  ASSUME NEW p \in PpuState
  PROVE  VcountDistance(p) = (LinesToMatch(p) - 1) * LineCycles + (LineCycles - p.cycle)
BY DEF VcountDistance, LinesToMatch

LEMMA DistanceType ==
  ASSUME NEW p \in PpuState, NEW s \in Sources
  PROVE  Distance(p, s) \in Nat \ {0}
<1> DEFINE x == p.line * LineCycles
           y == VisibleLines * LineCycles
<1>1. /\ p.line \in 0 .. TotalLines - 1 /\ p.cycle \in 0 .. LineCycles - 1
      /\ x \in Nat /\ y \in Nat /\ x + LineCycles <= FrameCycles
      /\ p.line < VisibleLines => x + LineCycles <= y
  BY Position
<1>2. HblankDistance(p) \in Nat \ {0}
  BY <1>1, FrameFacts DEF HblankDistance
<1>3. VblankDistance(p) \in Nat \ {0}
  <2>1. VblankDistance(p) = IF p.line < VisibleLines THEN y - (x + p.cycle)
                            ELSE y + FrameCycles - (x + p.cycle)
    BY VblankDistanceIs
  <2> HIDE DEF x, y
  <2> QED
    BY <1>1, <2>1, FrameFacts
<1>4. VcountDistance(p) \in Nat \ {0}
  <2> DEFINE k == LinesToMatch(p)
  <2>1. k \in 1 .. TotalLines
    BY MatchSteps
  <2> HIDE DEF k
  <2>2. (k - 1) * LineCycles \in Nat
    BY <2>1, FrameFacts
  <2>3. VcountDistance(p) = (k - 1) * LineCycles + (LineCycles - p.cycle)
    BY VcountDistanceIs DEF k
  <2> QED
    BY <1>1, <2>2, <2>3, FrameFacts
<1> QED
  BY <1>2, <1>3, <1>4 DEF Distance

LEMMA DistanceShrinks ==
  ASSUME NEW p \in PpuState, NEW n \in Nat, n <= LineCycles - p.cycle,
         NEW s \in Sources, n < Distance(p, s), NEW m, MovesTo(p, n, m)
  PROVE  Distance(m, s) = Distance(p, s) - n
<1> DEFINE x == p.line * LineCycles
           y == VisibleLines * LineCycles
           z == m.line * LineCycles
<1>1. /\ p.line \in 0 .. TotalLines - 1 /\ p.cycle \in 0 .. LineCycles - 1
      /\ x \in Nat /\ y \in Nat /\ x + LineCycles <= FrameCycles
      /\ p.line < VisibleLines => x + LineCycles <= y
      /\ p.line >= VisibleLines => x >= y
  BY Position
<1>2. /\ m \in PpuState /\ m.dispstat = p.dispstat
      /\ p.cycle + n < LineCycles => m.line = p.line /\ m.cycle = p.cycle + n
      /\ p.cycle + n = LineCycles => m.line = NextLine(p.line) /\ m.cycle = 0
      /\ p.cycle + n < LineCycles \/ p.cycle + n = LineCycles
  BY <1>1, FrameFacts DEF MovesTo
<1>3. CASE s = "hblank"
  <2>1. Distance(p, s) = HblankDistance(p) /\ Distance(m, s) = HblankDistance(m)
    BY <1>3 DEF Distance
  <2>2. n < HblankDistance(p)
    BY <2>1
  <2>3. HblankDistance(m) = HblankDistance(p) - n
    BY <1>1, <1>2, <2>2, FrameFacts DEF HblankDistance
  <2> QED
    BY <2>1, <2>3
<1>4. CASE s = "vblank"
  <2>1. Distance(p, s) = VblankDistance(p) /\ Distance(m, s) = VblankDistance(m)
    BY <1>4 DEF Distance
  <2>2. VblankDistance(p) = IF p.line < VisibleLines THEN y - (x + p.cycle)
                            ELSE y + FrameCycles - (x + p.cycle)
    BY VblankDistanceIs
  <2>3. VblankDistance(m) = IF m.line < VisibleLines THEN y - (z + m.cycle)
                            ELSE y + FrameCycles - (z + m.cycle)
    BY <1>2, VblankDistanceIs
  <2>4. z \in Nat
    BY <1>2, Position
  <2>5. CASE p.cycle + n < LineCycles
    <3>1. z = x /\ m.line = p.line /\ m.cycle = p.cycle + n
      BY <1>2, <2>5
    <3> HIDE DEF x, y, z
    <3> QED
      BY <1>1, <2>1, <2>2, <2>3, <3>1, FrameFacts
  <2>6. CASE p.cycle + n = LineCycles /\ p.line + 1 = TotalLines
    <3>1. m.line = 0 /\ m.cycle = 0 /\ z = 0
      BY <1>2, <2>6, FrameFacts DEF NextLine
    <3>2. x + LineCycles = FrameCycles
      <4>1. FrameCycles = (p.line + 1) * LineCycles
        BY <2>6, FrameFacts DEF FrameCycles
      <4> QED
        BY <1>1, <4>1, FrameFacts
    <3> HIDE DEF x, y, z
    <3> QED
      BY <1>1, <2>1, <2>2, <2>3, <2>6, <3>1, <3>2, FrameFacts
  <2>7. CASE p.cycle + n = LineCycles /\ p.line + 1 # TotalLines
    <3>1. m.line = p.line + 1 /\ m.cycle = 0
      BY <1>2, <2>7 DEF NextLine
    <3>2. z = x + LineCycles
      BY <1>1, <3>1, FrameFacts
    <3>3. p.line < VisibleLines => p.line + 1 < VisibleLines
      <4> SUFFICES ASSUME p.line + 1 = VisibleLines PROVE FALSE
        BY <1>1, FrameFacts
      <4>1. y = x + LineCycles
        BY <1>1, FrameFacts
      <4>2. p.line < VisibleLines
        BY <1>1
      <4> HIDE DEF x, y, z
      <4> QED
        BY <1>1, <2>1, <2>2, <2>7, <4>1, <4>2, FrameFacts
    <3> HIDE DEF x, y, z
    <3> QED
      BY <1>1, <2>1, <2>2, <2>3, <2>7, <3>1, <3>2, <3>3, FrameFacts
  <2> QED
    BY <1>2, <2>5, <2>6, <2>7
<1>5. CASE s = "vcount"
  <2> DEFINE k == LinesToMatch(p)
             j == LinesToMatch(m)
  <2>1. /\ Distance(p, s) = (k - 1) * LineCycles + (LineCycles - p.cycle)
        /\ Distance(m, s) = (j - 1) * LineCycles + (LineCycles - m.cycle)
    BY <1>2, <1>5, VcountDistanceIs DEF Distance
  <2>2. k \in 1 .. TotalLines
    BY MatchSteps
  <2>3. CASE p.cycle + n < LineCycles
    <3>1. j = k
      BY <1>2, <2>3 DEF LinesToMatch
    <3> HIDE DEF j, k
    <3>2. (k - 1) * LineCycles \in Nat
      BY <2>2, FrameFacts
    <3> QED
      BY <1>1, <1>2, <2>1, <2>3, <3>1, <3>2, FrameFacts
  <2>4. CASE p.cycle + n = LineCycles
    <3>1. k # 1
      <4> SUFFICES ASSUME k = 1 PROVE FALSE
        OBVIOUS
      <4> HIDE DEF k
      <4>1. (k - 1) * LineCycles = 0
        BY FrameFacts
      <4> QED
        BY <1>1, <2>1, <2>4, <4>1, FrameFacts
    <3>2. j = k - 1
      BY <1>2, <2>4, <3>1, MatchSteps
    <3> HIDE DEF j, k
    <3>3. (j - 1) * LineCycles = (k - 1) * LineCycles - LineCycles /\ (k - 1) * LineCycles \in Nat
      BY <2>2, <3>2, FrameFacts
    <3> QED
      BY <1>1, <1>2, <2>1, <2>4, <3>3, FrameFacts
  <2> QED
    BY <1>2, <2>3, <2>4
<1> QED
  BY <1>3, <1>4, <1>5 DEF Sources

LEMMA NoEdgeBeforeDistance ==
  ASSUME NEW p \in PpuState, NEW n \in Nat, n <= LineCycles - p.cycle,
         NEW s \in Sources, n < Distance(p, s)
  PROVE  s \notin Raised(p, n)
<1> DEFINE x == p.line * LineCycles
           y == VisibleLines * LineCycles
<1>1. /\ p.line \in 0 .. TotalLines - 1 /\ p.cycle \in 0 .. LineCycles - 1
      /\ x \in Nat /\ y \in Nat
  BY Position
<1>2. CASE s = "hblank"
  <2>1. n < HblankDistance(p)
    BY <1>2 DEF Distance
  <2>2. ~(p.cycle < FlagCycles /\ FlagCycles <= p.cycle + n)
    BY <1>1, <2>1, FrameFacts DEF HblankDistance
  <2>3. HblankEdges(p, n) = {}
    BY <2>2, EdgesInLine
  <2> QED
    BY <1>2, <2>3 DEF Raised
<1>3. CASE s = "vblank"
  <2>1. n < IF p.line < VisibleLines THEN y - (x + p.cycle)
            ELSE y + FrameCycles - (x + p.cycle)
    BY <1>3, VblankDistanceIs DEF Distance
  <2>2. ~(p.cycle + n = LineCycles /\ NextLine(p.line) = VisibleLines)
    <3> SUFFICES ASSUME p.cycle + n = LineCycles, NextLine(p.line) = VisibleLines PROVE FALSE
      OBVIOUS
    <3>1. p.line + 1 = VisibleLines
      BY FrameFacts DEF NextLine
    <3>2. y = x + LineCycles /\ p.line < VisibleLines
      BY <1>1, <3>1, FrameFacts
    <3> HIDE DEF x, y
    <3> QED
      BY <1>1, <2>1, <3>2, FrameFacts
  <2>3. VblankEdges(p, n) = {}
    BY <2>2, EdgesInLine
  <2> QED
    BY <1>3, <2>3 DEF Raised
<1>4. CASE s = "vcount"
  <2>1. n < (LinesToMatch(p) - 1) * LineCycles + (LineCycles - p.cycle)
    BY <1>4, VcountDistanceIs DEF Distance
  <2>2. ~(p.cycle + n = LineCycles /\ NextLine(p.line) = p.dispstat.setting)
    <3> SUFFICES ASSUME p.cycle + n = LineCycles, NextLine(p.line) = p.dispstat.setting
                 PROVE  FALSE
      OBVIOUS
    <3>1. LinesToMatch(p) = 1
      BY MatchSteps
    <3>2. (LinesToMatch(p) - 1) * LineCycles = 0
      BY <3>1, FrameFacts
    <3> QED
      BY <1>1, <2>1, <3>2, FrameFacts
  <2>3. MatchEdges(p, n) = {}
    BY <2>2, EdgesInLine
  <2> QED
    BY <1>4, <2>3 DEF Raised
<1> QED
  BY <1>2, <1>3, <1>4 DEF Sources

---------------------------------------------------------------------------
(* Type correctness.                                                        *)

LoopType ==
  [active : BOOLEAN, window : 0 .. MaxWindow, cpu : 0 .. MaxWindow, dma : Nat,
   budget : Nat, generated : Nat, inserted : 0 .. FrameCycles - 1, stretched : BOOLEAN]

TimerShape == timer \in [period : Nat, left : Nat]

\* Transfers that insert bus cycles mark the window as stretched.
Unstretched == loop.active /\ ~loop.stretched => loop.dma = 0

\* Between two calls the local variables of advance_devices are gone.
Resting == ~loop.active => loop = Idle

Shape == WaitTypeOK /\ TimerShape /\ Unstretched /\ Resting

LEMMA WindowType ==
  ASSUME NEW n \in 0 .. MaxWindow
  PROVE  /\ Idle \in LoopType /\ Window0(n) \in LoopType
         /\ Window0(n).active = TRUE /\ Window0(n).window = n /\ Window0(n).cpu = n
         /\ Window0(n).dma = 0 /\ Window0(n).inserted = 0 /\ Window0(n).stretched = FALSE
<1>1. 0 \in 0 .. MaxWindow /\ 0 \in 0 .. FrameCycles - 1
  BY WindowAssumption, FrameFacts
<1>2. Idle \in LoopType
  BY <1>1 DEF Idle, LoopType
<1>3. Window0(n) \in LoopType
  BY <1>2 DEF Window0, LoopType
<1>4. /\ Window0(n).active = TRUE /\ Window0(n).window = n /\ Window0(n).cpu = n
      /\ Window0(n).dma = Idle.dma /\ Window0(n).inserted = Idle.inserted
      /\ Window0(n).stretched = Idle.stretched
  BY <1>2 DEF Window0, LoopType
<1>5. Idle.dma = 0 /\ Idle.inserted = 0 /\ Idle.stretched = FALSE
  BY DEF Idle
<1> QED
  BY <1>2, <1>3, <1>4, <1>5

LEMMA InitShape == WaitInit => Shape
<1> SUFFICES ASSUME WaitInit PROVE Shape
  OBVIOUS
<1>1. ppu \in PpuState
  <2>1. 0 \in 0 .. TotalLines - 1 /\ 0 \in 0 .. LineCycles - 1
    BY FrameFacts
  <2>2. [irqs |-> {}, setting |-> 0] \in Dispstat
    BY SettingsAssumption DEF Dispstat
  <2> QED
    BY <2>1, <2>2 DEF WaitInit, Init, PpuState
<1>2. loop \in LoopType /\ loop.cpu <= loop.window /\ ~loop.active
  <2>1. 0 \in 0 .. MaxWindow
    BY WindowAssumption
  <2>2. Idle \in LoopType
    BY <2>1, WindowType
  <2> QED
    BY <2>2 DEF WaitInit, Init, Idle
<1>3. presented \in [calls : 0 .. VisibleLines - 1, line : -1 .. VisibleLines - 1]
  BY FrameFacts DEF WaitInit, Init
<1>4. clock \in 0 .. FrameCycles - 1 /\ flags \subseteq Irqs /\ serial \in Nat
  BY FrameFacts DEF WaitInit, Init
<1>5. /\ timer \in [period : Nat, left : Nat]
      /\ timer.period \in Periods \cup {0} /\ timer.left \in 0 .. timer.period
  BY DEF WaitInit, Init
<1>6. wait \in [mask : Masks \cup {{}}, waited : 0 .. MaxWait]
  <2>1. MaxWait \in Nat
    BY WaitAssumption, FrameFacts
  <2> QED
    BY <2>1 DEF WaitInit, NoWait
<1>7. Resting
  BY DEF WaitInit, Init, Resting
<1> QED
  BY <1>1, <1>2, <1>3, <1>4, <1>5, <1>6, <1>7
     DEF Shape, WaitTypeOK, TypeOK, TimerShape, Unstretched, LoopType

\* What the type invariant says, conjunct by conjunct.
LEMMA ShapeFacts ==
  ASSUME Shape
  PROVE  /\ ppu \in PpuState /\ timer \in [period : Nat, left : Nat]
         /\ timer.period \in Periods \cup {0} /\ timer.left \in 0 .. timer.period
         /\ serial \in Nat /\ flags \subseteq Irqs
         /\ loop \in LoopType /\ loop.cpu <= loop.window
         /\ presented \in [calls : 0 .. VisibleLines - 1, line : -1 .. VisibleLines - 1]
         /\ clock \in 0 .. FrameCycles - 1
         /\ wait \in [mask : Masks \cup {{}}, waited : 0 .. MaxWait]
         /\ loop.active /\ ~loop.stretched => loop.dma = 0
         /\ ~loop.active => loop = Idle
BY DEF Shape, WaitTypeOK, TypeOK, TimerShape, Unstretched, Resting, LoopType

\* An interval is at least a cycle, no longer than the time it takes from and
\* ends at the next boundary at most.
LEMMA IntervalFacts ==
  ASSUME Shape, loop.cpu # 0 \/ loop.dma # 0
  PROVE  /\ IntervalLength \in Nat \ {0}
         /\ IntervalLength <= IF DmaInterval THEN loop.dma ELSE loop.cpu
         /\ ppu.cycle + IntervalLength <= Boundary(ppu.cycle)
         /\ Boundary(ppu.cycle) \in Nat /\ Boundary(ppu.cycle) <= LineCycles
         /\ IntervalLength <= LineCycles - ppu.cycle
         /\ ppu.cycle \in Nat /\ ppu.cycle < LineCycles
<1> DEFINE left == IF DmaInterval THEN loop.dma ELSE loop.cpu
           edge == Boundary(ppu.cycle) - ppu.cycle
<1>1. ppu.cycle \in Nat /\ ppu.cycle < LineCycles
  BY ShapeFacts, FrameFacts DEF PpuState
<1>2. /\ Boundary(ppu.cycle) \in Nat /\ Boundary(ppu.cycle) <= LineCycles
      /\ ppu.cycle < Boundary(ppu.cycle)
  BY <1>1, FrameFacts DEF Boundary
<1>3. left \in Nat \ {0}
  <2>1. loop.dma \in Nat /\ loop.cpu \in Nat
    BY ShapeFacts DEF LoopType
  <2> QED
    BY <2>1 DEF DmaInterval
<1>4. edge \in Nat \ {0}
  BY <1>1, <1>2
<1> HIDE DEF left, edge
<1>5. {left, edge} \in SUBSET Nat /\ {left, edge} # {}
  BY <1>3, <1>4
<1>6. Least({left, edge}) \in {left, edge} /\ \A y \in {left, edge} : Least({left, edge}) <= y
  BY <1>5, LeastExists
<1>7. IntervalLength = Least({left, edge})
  BY DEF IntervalLength, left, edge
<1>8. IntervalLength \in Nat \ {0} /\ IntervalLength <= left /\ IntervalLength <= edge
  BY <1>3, <1>4, <1>6, <1>7
<1>9. ppu.cycle + IntervalLength <= Boundary(ppu.cycle)
  BY <1>1, <1>2, <1>8 DEF edge
<1>10. IntervalLength <= LineCycles - ppu.cycle
  BY <1>1, <1>2, <1>8, <1>9, FrameFacts
<1> QED
  BY <1>1, <1>2, <1>8, <1>9, <1>10 DEF left

LEMMA OverflowsType ==
  ASSUME Shape, NEW n \in Nat
  PROVE  Overflows(n) \in Nat
<1>1. timer.period \in Nat /\ timer.left \in Nat
  BY ShapeFacts
<1>2. CASE timer.period = 0 \/ n < timer.left
  BY <1>2 DEF Overflows
<1>3. CASE ~(timer.period = 0 \/ n < timer.left)
  <2>1. n - timer.left \in Int /\ n - timer.left >= 0 /\ timer.period \in Nat \ {0}
    BY <1>1, <1>3
  <2>2. (n - timer.left) \div timer.period \in Nat
    BY <2>1
  <2> QED
    BY <1>3, <2>2 DEF Overflows
<1> QED
  BY <1>2, <1>3

LEMMA CostType ==
  ASSUME Shape, NEW n \in Nat, NEW cost \in InsertedBy(n)
  PROVE  cost \in Nat
<1>1. HblankCost \subseteq Nat /\ VblankCost \subseteq Nat /\ SoundCost \subseteq Nat
  BY CostAssumption
<1>2. CASE ~Allowed(DmaInterval)
  BY <1>2 DEF InsertedBy
<1>3. CASE Allowed(DmaInterval)
  <2>1. PICK h \in HblankCost \cup {0}, v \in VblankCost \cup {0}, s \in SoundCosts(Overflows(n)) :
          cost = h + v + s
    BY <1>3 DEF InsertedBy
  <2>2. h \in Nat /\ v \in Nat
    BY <1>1
  <2>3. s \in Nat
    <3>1. PICK k \in 0 .. Overflows(n), c \in SoundCost : s = k * c
      BY DEF SoundCosts
    <3>2. k \in Nat /\ c \in Nat
      BY <1>1, OverflowsType
    <3> QED
      BY <3>1, <3>2
  <2> QED
    BY <2>1, <2>2, <2>3
<1> QED
  BY <1>2, <1>3

\* The accounting of an interval.
LEMMA ChargedFacts ==
  ASSUME Shape, NEW n \in Nat, NEW cost \in Nat,
         n <= IF DmaInterval THEN loop.dma ELSE loop.cpu
  PROVE  /\ Charged(n, cost) \in LoopType
         /\ Charged(n, cost).active = loop.active /\ Charged(n, cost).window = loop.window
         /\ Charged(n, cost).cpu = (IF DmaInterval THEN loop.cpu ELSE loop.cpu - n)
         /\ Charged(n, cost).dma = (IF DmaInterval THEN loop.dma - n + cost ELSE cost)
         /\ Charged(n, cost).inserted = (loop.inserted + cost) % FrameCycles
         /\ Charged(n, cost).stretched = (loop.stretched \/ cost # 0)
<1> DEFINE i == (loop.inserted + cost) % FrameCycles
           b == cost * Expansion
           s == loop.stretched \/ cost # 0
<1>1. /\ loop \in LoopType /\ loop.dma \in Nat /\ loop.cpu \in 0 .. MaxWindow
      /\ loop.generated \in Nat /\ loop.inserted \in Nat /\ loop.stretched \in BOOLEAN
  BY ShapeFacts DEF LoopType
<1>2. i \in 0 .. FrameCycles - 1
  <2>1. loop.inserted + cost \in Int
    BY <1>1
  <2> QED
    BY <2>1, FrameFacts
<1>3. b \in Nat /\ s \in BOOLEAN
  BY CostAssumption
<1>4. Charged(n, cost)
        = IF DmaInterval
          THEN [loop EXCEPT !.dma = loop.dma - n + cost, !.generated = loop.generated + cost,
                            !.inserted = i, !.stretched = s]
          ELSE [loop EXCEPT !.cpu = loop.cpu - n, !.dma = cost, !.generated = 0,
                            !.budget = b, !.inserted = i, !.stretched = s]
  BY DEF Charged
<1> HIDE DEF i, b, s
<1>5. CASE DmaInterval
  <2> DEFINE d == loop.dma - n + cost
             g == loop.generated + cost
  <2>1. d \in Nat /\ g \in Nat
    BY <1>1, <1>5
  <2>2. Charged(n, cost) = [loop EXCEPT !.dma = d, !.generated = g, !.inserted = i, !.stretched = s]
    BY <1>4, <1>5
  <2> HIDE DEF d, g
  <2>3. /\ Charged(n, cost) \in LoopType
        /\ Charged(n, cost).active = loop.active /\ Charged(n, cost).window = loop.window
        /\ Charged(n, cost).cpu = loop.cpu /\ Charged(n, cost).dma = d
        /\ Charged(n, cost).inserted = i /\ Charged(n, cost).stretched = s
    BY <1>1, <1>2, <1>3, <2>1, <2>2 DEF LoopType
  <2> QED
    BY <1>5, <2>3 DEF d, i, s
<1>6. CASE ~DmaInterval
  <2> DEFINE c == loop.cpu - n
  <2>1. c \in 0 .. MaxWindow
    BY <1>1, <1>6, WindowAssumption
  <2>2. Charged(n, cost) = [loop EXCEPT !.cpu = c, !.dma = cost, !.generated = 0, !.budget = b,
                                        !.inserted = i, !.stretched = s]
    BY <1>4, <1>6
  <2> HIDE DEF c
  <2>3. Charged(n, cost) \in LoopType
    <3> SUFFICES ASSUME NEW l \in LoopType
                 PROVE  [l EXCEPT !.cpu = c, !.dma = cost, !.generated = 0, !.budget = b,
                                  !.inserted = i, !.stretched = s] \in LoopType
      BY <1>1, <2>2
    <3> QED
      BY <1>2, <1>3, <2>1 DEF LoopType
  <2>4. /\ Charged(n, cost).active = loop.active /\ Charged(n, cost).window = loop.window
        /\ Charged(n, cost).cpu = c /\ Charged(n, cost).dma = cost
        /\ Charged(n, cost).inserted = i /\ Charged(n, cost).stretched = s
    BY <1>1, <2>2 DEF LoopType
  <2> QED
    BY <1>6, <2>3, <2>4 DEF c, i, s
<1> QED
  BY <1>5, <1>6

\* What one iteration of advance_devices does, in terms of its length.
LEMMA IntervalStep ==
  ASSUME Shape, NEW cost \in InsertedBy(IntervalLength), NEW dmaIrq, Interval(cost, dmaIrq)
  PROVE  /\ cost \in Nat
         /\ loop.active /\ (loop.cpu # 0 \/ loop.dma # 0)
         /\ MovesTo(ppu, IntervalLength, ppu')
         /\ loop' \in LoopType
         /\ loop'.active = loop.active /\ loop'.window = loop.window
         /\ loop'.cpu = (IF DmaInterval THEN loop.cpu ELSE loop.cpu - IntervalLength)
         /\ loop'.dma = (IF DmaInterval THEN loop.dma - IntervalLength + cost ELSE cost)
         /\ loop'.inserted = (loop.inserted + cost) % FrameCycles
         /\ loop'.stretched = (loop.stretched \/ cost # 0)
<1> DEFINE n == IntervalLength
<1>1. loop.active /\ (loop.cpu # 0 \/ loop.dma # 0) /\ loop' = Charged(n, cost)
        /\ ppu' = Moved(ppu, n)
  BY DEF Interval
<1>2. /\ n \in Nat /\ n <= (IF DmaInterval THEN loop.dma ELSE loop.cpu)
      /\ n <= LineCycles - ppu.cycle
  BY <1>1, IntervalFacts
<1>3. cost \in Nat
  BY <1>2, CostType
<1>4. MovesTo(ppu, n, Moved(ppu, n))
  <2> HIDE DEF n
  <2>1. ppu \in PpuState
    BY ShapeFacts
  <2> QED
    BY <1>2, <2>1, MovedInLine
<1>5. /\ Charged(n, cost) \in LoopType
      /\ Charged(n, cost).active = loop.active /\ Charged(n, cost).window = loop.window
      /\ Charged(n, cost).cpu = (IF DmaInterval THEN loop.cpu ELSE loop.cpu - n)
      /\ Charged(n, cost).dma = (IF DmaInterval THEN loop.dma - n + cost ELSE cost)
      /\ Charged(n, cost).inserted = (loop.inserted + cost) % FrameCycles
      /\ Charged(n, cost).stretched = (loop.stretched \/ cost # 0)
  <2> HIDE DEF n
  <2> QED
    BY <1>2, <1>3, ChargedFacts
<1> QED
  BY <1>1, <1>3, <1>4, <1>5

LEMMA TickTimerType ==
  ASSUME Shape, NEW n \in Nat, TickTimer(n)
  PROVE  /\ timer' \in [period : Nat, left : Nat]
         /\ timer'.period = timer.period /\ timer'.left \in 0 .. timer.period
         /\ n < timer.left => timer'.left = timer.left - n
<1>1. timer \in [period : Nat, left : Nat] /\ timer.left \in 0 .. timer.period
  BY ShapeFacts
<1>2. CASE timer.period = 0
  <2>1. timer' = [timer EXCEPT !.left = 0]
    BY <1>2 DEF TickTimer
  <2>2. timer.left = 0
    BY <1>1, <1>2
  <2> QED
    BY <1>1, <1>2, <2>1, <2>2
<1>3. CASE timer.period # 0 /\ n < timer.left
  <2> DEFINE l == timer.left - n
  <2>1. l \in 0 .. timer.period
    BY <1>1, <1>3
  <2>2. timer' = [timer EXCEPT !.left = l]
    BY <1>3 DEF TickTimer
  <2> HIDE DEF l
  <2>3. timer' \in [period : Nat, left : Nat] /\ timer'.period = timer.period /\ timer'.left = l
    BY <1>1, <2>1, <2>2
  <2> QED
    BY <2>1, <2>3 DEF l
<1>4. CASE timer.period # 0 /\ ~(n < timer.left)
  <2> DEFINE r == (n - timer.left) % timer.period
             l == timer.period - r
  <2>1. n - timer.left \in Int /\ timer.period \in Nat \ {0}
    BY <1>1, <1>4
  <2>2. r \in 0 .. timer.period - 1
    BY <2>1
  <2>3. timer' = [timer EXCEPT !.left = l]
    BY <1>4 DEF TickTimer
  <2> HIDE DEF r
  <2>4. l \in 0 .. timer.period
    BY <2>1, <2>2
  <2> HIDE DEF l
  <2>5. timer' \in [period : Nat, left : Nat] /\ timer'.period = timer.period /\ timer'.left = l
    BY <1>1, <2>3, <2>4
  <2> QED
    BY <1>4, <2>4, <2>5
<1> QED
  BY <1>2, <1>3, <1>4

LEMMA IntervalShape ==
  ASSUME Shape, NEW cost \in InsertedBy(IntervalLength), NEW dmaIrq,
         Interval(cost, dmaIrq), UNCHANGED wait
  PROVE  Shape'
<1> DEFINE n == IntervalLength
<1>1. /\ loop.active /\ (loop.cpu # 0 \/ loop.dma # 0) /\ dmaIrq \subseteq {"dma"}
      /\ TickTimer(n) /\ TickSerial(n) /\ Present /\ UNCHANGED clock
      /\ flags' = flags \cup Raised(ppu, n) \cup dmaIrq
                        \cup (IF Overflows(n) # 0 THEN {"timer"} ELSE {})
                        \cup (IF Completed(n) THEN {"serial"} ELSE {})
  BY DEF Interval
<1>2. n \in Nat \ {0} /\ n <= IF DmaInterval THEN loop.dma ELSE loop.cpu
  BY <1>1, IntervalFacts
<1>3. /\ loop' \in LoopType /\ loop'.active = loop.active /\ loop'.window = loop.window
      /\ loop'.cpu = (IF DmaInterval THEN loop.cpu ELSE loop.cpu - n)
      /\ loop'.dma = (IF DmaInterval THEN loop.dma - n + cost ELSE cost)
      /\ loop'.stretched = (loop.stretched \/ cost # 0)
      /\ MovesTo(ppu, n, ppu') /\ cost \in Nat
  BY IntervalStep
<1> HIDE DEF n
<1>4. ppu' \in PpuState
  BY <1>3 DEF MovesTo
<1>5. /\ timer' \in [period : Nat, left : Nat]
      /\ timer'.period \in Periods \cup {0} /\ timer'.left \in 0 .. timer'.period
  BY <1>1, <1>2, ShapeFacts, TickTimerType
<1>6. serial' \in Nat
  <2>1. serial \in Nat
    BY ShapeFacts
  <2> QED
    BY <1>1, <1>2, <2>1 DEF TickSerial
<1>7. flags' \subseteq Irqs
  <2>1. Raised(ppu, n) \subseteq Sources
    <3>1. ppu.dispstat.irqs \subseteq Sources
      BY ShapeFacts DEF PpuState, Dispstat
    <3> QED
      BY <3>1 DEF Raised
  <2> QED
    BY <1>1, <2>1, ShapeFacts DEF Irqs
<1>8. presented' \in [calls : 0 .. VisibleLines - 1, line : -1 .. VisibleLines - 1]
  <2>1. ppu'.line \in Nat /\ presented.calls \in Nat
    BY <1>4, ShapeFacts, FrameFacts DEF PpuState
  <2>2. (presented.calls + 1) % VisibleLines \in 0 .. VisibleLines - 1
    BY <2>1, FrameFacts
  <2>3. CASE ppu'.cycle = VisibleCycles /\ ppu'.line < VisibleLines
    <3>1. presented' = [calls |-> (presented.calls + 1) % VisibleLines, line |-> ppu'.line]
      BY <1>1, <2>3 DEF Present
    <3>2. ppu'.line \in -1 .. VisibleLines - 1
      BY <2>1, <2>3, FrameFacts
    <3> QED
      BY <2>2, <3>1, <3>2
  <2>4. CASE ~(ppu'.cycle = VisibleCycles /\ ppu'.line < VisibleLines)
    BY <1>1, <2>4, ShapeFacts DEF Present
  <2> QED
    BY <2>3, <2>4
<1>9. loop'.cpu <= loop'.window
  <2>1. loop.cpu \in Nat /\ loop.window \in Nat /\ loop.cpu <= loop.window
    BY ShapeFacts DEF LoopType
  <2> QED
    BY <1>2, <1>3, <2>1
<1>10. loop'.active /\ ~loop'.stretched => loop'.dma = 0
  <2> SUFFICES ASSUME ~loop.stretched, cost = 0 PROVE loop'.dma = 0
    BY <1>3
  <2>1. loop.dma = 0
    BY <1>1, ShapeFacts
  <2> QED
    BY <1>3, <2>1 DEF DmaInterval
<1> QED
  BY <1>1, <1>3, <1>4, <1>5, <1>6, <1>7, <1>8, <1>9, <1>10, ShapeFacts
     DEF Shape, WaitTypeOK, TypeOK, TimerShape, Unstretched, Resting, LoopType

\* The length of a chunk: at most what each device and the wait allow.
LEMMA ChunkLength ==
  ASSUME Shape, Waiting, wait.waited < MaxWait
  PROVE  LET n == Least({BatchCycles(wait.mask), MaxWait - wait.waited})
         IN /\ n \in Nat /\ n <= MaxWindow /\ n <= MaxWait - wait.waited
            /\ "timer" \in wait.mask /\ timer.period # 0 => n <= timer.left
            /\ "serial" \in wait.mask /\ serial # 0 => n <= serial
            /\ \A s \in wait.mask \cap ppu.dispstat.irqs : n <= Distance(ppu, s)
<1> DEFINE mask == wait.mask
           watched == mask \cap ppu.dispstat.irqs
           P == {Batch} \cup (IF "hblank" \in watched THEN {HblankDistance(ppu)} ELSE {})
                        \cup (IF "vblank" \in watched THEN {VblankDistance(ppu)} ELSE {})
                        \cup (IF "vcount" \in watched THEN {VcountDistance(ppu)} ELSE {})
           hp == PpuHorizon(ppu, mask, Batch)
           ht == TimerHorizon(mask)
           hs == SerialHorizon(mask)
           B == {hp, ht, hs, Batch}
           b == BatchCycles(mask)
           rest == MaxWait - wait.waited
           n == Least({b, rest})
<1>1. /\ ppu \in PpuState /\ timer.left \in Nat /\ serial \in Nat /\ Batch \in Nat
      /\ Batch <= MaxWindow /\ MaxWindow \in Nat /\ watched \subseteq Sources
      /\ MaxWait \in Nat /\ wait.waited \in Nat
  <2>1. ppu.dispstat.irqs \subseteq Sources
    BY ShapeFacts DEF PpuState, Dispstat
  <2> QED
    BY <2>1, ShapeFacts, WaitAssumption, WindowAssumption, FrameFacts
<1>2. \A s \in Sources : Distance(ppu, s) \in Nat
  BY <1>1, DistanceType
<1>3. /\ HblankDistance(ppu) \in Nat /\ VblankDistance(ppu) \in Nat
      /\ VcountDistance(ppu) \in Nat
  BY <1>2 DEF Distance, Sources
<1>4. P \in SUBSET Nat /\ P # {}
  BY <1>1, <1>3
<1>5. hp = Least(P)
  BY DEF PpuHorizon
<1>6. hp \in Nat /\ \A y \in P : hp <= y
  <2> HIDE DEF P, hp
  <2> QED
    BY <1>4, <1>5, LeastExists
<1>7. \A s \in watched : hp <= Distance(ppu, s)
  <2> TAKE s \in watched
  <2>1. Distance(ppu, s) \in P
    BY <1>1 DEF Distance, Sources
  <2> HIDE DEF P, hp
  <2> QED
    BY <1>6, <2>1
<1>8. ht \in Nat /\ ("timer" \in mask /\ timer.period # 0 => ht <= timer.left)
  <2>1. {Batch, timer.left} \in SUBSET Nat /\ {Batch, timer.left} # {}
    BY <1>1
  <2>2. /\ Least({Batch, timer.left}) \in {Batch, timer.left}
        /\ \A y \in {Batch, timer.left} : Least({Batch, timer.left}) <= y
    BY <2>1, LeastExists
  <2> QED
    BY <1>1, <2>2 DEF TimerHorizon
<1>9. hs \in Nat /\ ("serial" \in mask /\ serial # 0 => hs <= serial)
  BY <1>1 DEF SerialHorizon
<1>10. b = Least(B)
  BY DEF BatchCycles
<1> HIDE DEF P, hp, ht, hs, b, n, rest
<1>11. b \in Nat /\ b <= hp /\ b <= ht /\ b <= hs /\ b <= Batch
  <2>1. B \in SUBSET Nat /\ B # {}
    BY <1>1, <1>6, <1>8, <1>9
  <2>2. Least(B) \in B /\ \A y \in B : Least(B) <= y
    <3> HIDE DEF B
    <3> QED
      BY <2>1, LeastExists
  <2> QED
    BY <1>10, <2>1, <2>2
<1>12. rest \in Nat
  BY <1>1 DEF rest
<1>13. n \in Nat /\ n <= b /\ n <= rest
  <2>1. {b, rest} \in SUBSET Nat /\ {b, rest} # {}
    BY <1>11, <1>12
  <2>2. Least({b, rest}) \in {b, rest} /\ \A y \in {b, rest} : Least({b, rest}) <= y
    BY <2>1, LeastExists
  <2> QED
    BY <1>11, <1>12, <2>2 DEF n
<1>14. n <= MaxWindow
  BY <1>1, <1>11, <1>13
<1>15. "timer" \in mask /\ timer.period # 0 => n <= timer.left
  BY <1>1, <1>8, <1>11, <1>13
<1>16. "serial" \in mask /\ serial # 0 => n <= serial
  BY <1>1, <1>9, <1>11, <1>13
<1>17. \A s \in watched : n <= Distance(ppu, s)
  BY <1>1, <1>2, <1>6, <1>7, <1>11, <1>13
<1> QED
  BY <1>13, <1>14, <1>15, <1>16, <1>17 DEF n, rest, b

\* One step per operation of the program, of advance_devices and of the wait.
LEMMA ShapeStep ==
  ASSUME Shape, [WaitNext]_waitVars
  PROVE  Shape'
<1> USE DEF Shape, WaitTypeOK, TypeOK, TimerShape, Unstretched, Resting
<1>0. Idle \in LoopType /\ Idle.cpu = 0 /\ Idle.window = 0 /\ ~Idle.active
  <2>1. 0 \in 0 .. MaxWindow
    BY WindowAssumption
  <2> QED
    BY <2>1, WindowType DEF Idle
<1>1. ASSUME NEW irqs \in {{}, DisplayIrqs}, NEW setting \in Settings,
             WriteDispstat([irqs |-> irqs, setting |-> setting]), UNCHANGED wait
      PROVE  Shape'
  <2> DEFINE value == [irqs |-> irqs, setting |-> setting]
  <2>1. value \in Dispstat
    BY DisplayAssumption DEF Dispstat
  <2>2. ppu' = [ppu EXCEPT !.dispstat = value]
        /\ flags' = flags \cup (IF ~VcountMatch(ppu) /\ VcountMatch(ppu')
                                THEN value.irqs \cap {"vcount"} ELSE {})
        /\ UNCHANGED <<timer, serial, loop, presented, clock, wait>>
    BY <1>1 DEF WriteDispstat
  <2> HIDE DEF value
  <2>3. ppu' \in PpuState
    BY <2>1, <2>2 DEF PpuState
  <2>4. flags' \subseteq Irqs
    BY <2>2 DEF Irqs, Sources
  <2> QED
    BY <2>2, <2>3, <2>4
<1>2. ASSUME NEW mask, Acknowledge(mask), UNCHANGED wait PROVE Shape'
  BY <1>2 DEF Acknowledge
<1>3. ASSUME NEW period \in Periods \cup {0}, StartTimer(period), UNCHANGED wait PROVE Shape'
  <2>1. period \in Nat
    BY PeriodsAssumption
  <2>2. timer' = [period |-> period, left |-> period]
        /\ UNCHANGED <<ppu, serial, flags, loop, presented, clock, wait>>
    BY <1>3 DEF StartTimer
  <2>3. /\ timer' \in [period : Nat, left : Nat]
        /\ timer'.period \in Periods \cup {0} /\ timer'.left \in 0 .. timer'.period
    BY <2>1, <2>2
  <2> QED
    BY <2>2, <2>3
<1>4. ASSUME NEW length \in Transfers \cup {0}, StartTransfer(length), UNCHANGED wait
      PROVE  Shape'
  <2>1. length \in Nat
    BY PeriodsAssumption
  <2> QED
    BY <1>4, <2>1 DEF StartTransfer
<1>5. ASSUME NEW n \in 1 .. MaxWindow, Advance(n), UNCHANGED wait PROVE Shape'
  <2>1. loop' = Window0(n) /\ UNCHANGED <<ppu, timer, serial, flags, presented, clock, wait>>
    BY <1>5 DEF Advance, deviceVars
  <2>2. n \in 0 .. MaxWindow /\ n \in Nat
    BY WindowAssumption
  <2>3. loop' \in LoopType /\ loop'.cpu <= loop'.window /\ loop'.dma = 0 /\ loop'.active
    <3>1. Window0(n) \in LoopType /\ Window0(n).cpu = n /\ Window0(n).window = n
            /\ Window0(n).dma = 0 /\ Window0(n).active
      BY <2>2, WindowType
    <3> QED
      BY <2>1, <2>2, <3>1
  <2> QED
    BY <2>1, <2>3 DEF LoopType
<1>6. ASSUME NEW cost \in InsertedBy(IntervalLength), NEW dmaIrq,
             Interval(cost, dmaIrq), UNCHANGED wait
      PROVE  Shape'
  BY <1>6, IntervalShape
<1>7. ASSUME Finish, UNCHANGED wait PROVE Shape'
  <2>1. /\ loop' = Idle /\ clock' = (clock + Elapsed(loop)) % FrameCycles
        /\ UNCHANGED <<ppu, timer, serial, flags, presented, wait>>
    BY <1>7 DEF Finish, deviceVars
  <2>2. clock' \in 0 .. FrameCycles - 1
    <3>1. clock + Elapsed(loop) \in Int
      BY ShapeFacts DEF Elapsed, LoopType
    <3> QED
      BY <2>1, <3>1, FrameFacts
  <2> QED
    BY <1>0, <2>1, <2>2 DEF LoopType
<1>8. ASSUME NEW mask \in Masks, NEW discard \in BOOLEAN, BeginWait(mask, discard) PROVE Shape'
  <2>1. /\ wait' = [mask |-> mask, waited |-> 0]
        /\ flags' \subseteq flags
        /\ UNCHANGED <<ppu, timer, serial, loop, presented, clock>>
    BY <1>8 DEF BeginWait
  <2>2. 0 \in 0 .. MaxWait
    BY WaitAssumption, FrameFacts
  <2> QED
    BY <2>1, <2>2
<1>9. ASSUME Chunk PROVE Shape'
  <2> DEFINE n == Least({BatchCycles(wait.mask), MaxWait - wait.waited})
             w == wait.waited + n
  <2>1. /\ Waiting /\ wait.waited < MaxWait
        /\ loop' = Window0(n) /\ wait' = [wait EXCEPT !.waited = w]
        /\ UNCHANGED <<ppu, timer, serial, flags, presented, clock>>
    BY <1>9 DEF Chunk, deviceVars
  <2>2. n \in Nat /\ n <= MaxWindow /\ n <= MaxWait - wait.waited
    BY <2>1, ChunkLength
  <2> HIDE DEF n
  <2>3. n \in 0 .. MaxWindow
    BY <2>2, WindowAssumption
  <2>4. loop' \in LoopType /\ loop'.cpu <= loop'.window /\ loop'.dma = 0 /\ loop'.active
    <3>1. Window0(n) \in LoopType /\ Window0(n).cpu = n /\ Window0(n).window = n
            /\ Window0(n).dma = 0 /\ Window0(n).active
      BY <2>3, WindowType
    <3> QED
      BY <2>1, <2>2, <3>1
  <2>5. wait' \in [mask : Masks \cup {{}}, waited : 0 .. MaxWait]
    <3>1. MaxWait \in Nat /\ wait.waited \in Nat
      BY WaitAssumption, FrameFacts
    <3>2. w \in 0 .. MaxWait
      BY <2>2, <3>1
    <3> HIDE DEF w
    <3> QED
      BY <2>1, <3>2
  <2> QED
    BY <2>1, <2>4, <2>5 DEF LoopType
<1>10. ASSUME EndWait PROVE Shape'
  <2>1. 0 \in 0 .. MaxWait
    BY WaitAssumption, FrameFacts
  <2> QED
    BY <1>10, <2>1 DEF EndWait, NoWait, vars
<1>11. CASE UNCHANGED waitVars
  BY <1>11 DEF waitVars, vars
<1> QED
  BY <1>1, <1>2, <1>3, <1>4, <1>5, <1>6, <1>7, <1>8, <1>9, <1>10, <1>11
     DEF WaitNext, Program, Run

LEMMA ShapeHolds == WaitSpec => []Shape
BY InitShape, ShapeStep, PTL DEF WaitSpec

\* Type correctness of the devices, of the loop of advance_devices and of the
\* wait: no count leaves its range, whatever windows and transfers interleave.
THEOREM TypeCorrect == WaitSpec => []WaitTypeOK
<1>1. Shape => WaitTypeOK
  BY DEF Shape
<1> QED
  BY <1>1, ShapeHolds, PTL

---------------------------------------------------------------------------
(* The chunked wait returns in time. The horizon of a chunk is computed      *)
(* before its window starts; that it still bounds the window after every     *)
(* interval is what has to be carried along.                                 *)

\* The rest of the window ends before anything watched can happen.
Ahead(rest) ==
  /\ flags \cap wait.mask = {}
  /\ "timer" \in wait.mask /\ timer.period # 0 => rest <= timer.left
  /\ "serial" \in wait.mask /\ serial # 0 => rest <= serial
  /\ \A s \in wait.mask \cap ppu.dispstat.irqs : rest <= Distance(ppu, s)

Bounded ==
  Waiting /\ loop.active /\ loop.cpu # 0 /\ ~loop.stretched => Ahead(loop.cpu)

LEMMA IntervalBounded ==
  ASSUME Shape, Bounded, NEW cost \in InsertedBy(IntervalLength), NEW dmaIrq,
         Interval(cost, dmaIrq), UNCHANGED wait
  PROVE  Bounded'
<1> SUFFICES ASSUME Waiting', loop'.active, loop'.cpu # 0, ~loop'.stretched
             PROVE  Ahead(loop.cpu)'
  BY DEF Bounded
<1> DEFINE n == IntervalLength
           c == loop.cpu
<1>1. /\ loop.active /\ (loop.cpu # 0 \/ loop.dma # 0) /\ wait' = wait
      /\ TickTimer(n) /\ TickSerial(n)
      /\ dmaIrq \subseteq (IF cost # 0 THEN {"dma"} ELSE {})
      /\ flags' = flags \cup Raised(ppu, n) \cup dmaIrq
                        \cup (IF Overflows(n) # 0 THEN {"timer"} ELSE {})
                        \cup (IF Completed(n) THEN {"serial"} ELSE {})
  BY DEF Interval
<1>2. /\ n \in Nat \ {0} /\ n <= (IF DmaInterval THEN loop.dma ELSE c)
      /\ n <= LineCycles - ppu.cycle
  BY <1>1, IntervalFacts
<1>3. /\ loop'.cpu = (IF DmaInterval THEN c ELSE c - n)
      /\ loop'.stretched = (loop.stretched \/ cost # 0)
      /\ MovesTo(ppu, n, ppu') /\ cost \in Nat
  BY IntervalStep
<1>4. /\ c \in Nat /\ ppu \in PpuState /\ serial \in Nat
      /\ timer.period \in Nat /\ timer.left \in Nat
  BY ShapeFacts DEF LoopType
<1> HIDE DEF n, c
<1>5. ~loop.stretched /\ cost = 0 /\ ~DmaInterval
  <2>1. ~loop.stretched /\ cost = 0
    BY <1>3
  <2>2. loop.dma = 0
    BY <1>1, <2>1, ShapeFacts
  <2> QED
    BY <2>1, <2>2 DEF DmaInterval
<1>6. loop'.cpu = c - n /\ c - n > 0 /\ n < c /\ c # 0
  BY <1>2, <1>3, <1>4, <1>5
<1>7. Ahead(c)
  BY <1>1, <1>5, <1>6 DEF Bounded, Waiting, c
<1>8. \A s \in wait.mask \cap ppu.dispstat.irqs : s \in Sources /\ n < Distance(ppu, s)
  <2> TAKE s \in wait.mask \cap ppu.dispstat.irqs
  <2>1. s \in Sources
    BY <1>4 DEF PpuState, Dispstat
  <2>2. Distance(ppu, s) \in Nat /\ c <= Distance(ppu, s)
    BY <1>4, <1>7, <2>1, DistanceType DEF Ahead
  <2> QED
    BY <1>2, <1>4, <1>6, <2>1, <2>2
<1>9. "timer" \in wait.mask /\ timer.period # 0 => n < timer.left /\ c <= timer.left
  BY <1>2, <1>4, <1>6, <1>7 DEF Ahead
<1>10. "serial" \in wait.mask /\ serial # 0 => n < serial /\ c <= serial
  BY <1>2, <1>4, <1>6, <1>7 DEF Ahead
<1>11. flags' \cap wait'.mask = {}
  <2>1. Raised(ppu, n) \cap wait.mask = {}
    <3> SUFFICES ASSUME NEW s \in Raised(ppu, n), s \in wait.mask PROVE FALSE
      OBVIOUS
    <3>1. s \in wait.mask \cap ppu.dispstat.irqs
      BY DEF Raised
    <3>2. s \in Sources /\ n < Distance(ppu, s)
      BY <1>8, <3>1
    <3> QED
      BY <1>2, <1>4, <3>2, NoEdgeBeforeDistance
  <2>2. "timer" \in wait.mask => Overflows(n) = 0
    BY <1>9 DEF Overflows
  <2>3. "serial" \in wait.mask => ~Completed(n)
    BY <1>2, <1>4, <1>10 DEF Completed
  <2>4. dmaIrq = {} /\ flags \cap wait.mask = {}
    BY <1>1, <1>5, <1>7 DEF Ahead
  <2> QED
    BY <1>1, <2>1, <2>2, <2>3, <2>4
<1>12. "timer" \in wait'.mask /\ timer'.period # 0 => loop'.cpu <= timer'.left
  <2>1. timer'.period = timer.period /\ (n < timer.left => timer'.left = timer.left - n)
    BY <1>1, <1>2, TickTimerType
  <2> QED
    BY <1>1, <1>2, <1>4, <1>6, <1>9, <2>1
<1>13. "serial" \in wait'.mask /\ serial' # 0 => loop'.cpu <= serial'
  <2>1. serial' # 0 => n < serial /\ serial' = serial - n
    BY <1>1 DEF TickSerial
  <2> QED
    BY <1>1, <1>2, <1>4, <1>6, <1>10, <2>1
<1>14. \A s \in wait'.mask \cap ppu'.dispstat.irqs : loop'.cpu <= Distance(ppu', s)
  <2> TAKE s \in wait'.mask \cap ppu'.dispstat.irqs
  <2>1. s \in wait.mask \cap ppu.dispstat.irqs
    BY <1>1, <1>3 DEF MovesTo
  <2>2. s \in Sources /\ n < Distance(ppu, s) /\ c <= Distance(ppu, s)
    BY <1>7, <1>8, <2>1 DEF Ahead
  <2>3. Distance(ppu', s) = Distance(ppu, s) - n /\ Distance(ppu, s) \in Nat
    BY <1>2, <1>3, <1>4, <2>2, DistanceShrinks, DistanceType
  <2> QED
    BY <1>2, <1>4, <1>6, <2>2, <2>3
<1> QED
  BY <1>11, <1>12, <1>13, <1>14 DEF Ahead

LEMMA BoundedStep ==
  ASSUME Shape, Bounded, [WaitNext]_waitVars
  PROVE  Bounded'
<1>1. ASSUME NEW value, WriteDispstat(value), UNCHANGED wait PROVE Bounded'
  BY <1>1 DEF WriteDispstat, Bounded
<1>2. ASSUME NEW mask, Acknowledge(mask), UNCHANGED wait PROVE Bounded'
  BY <1>2 DEF Acknowledge, Bounded
<1>3. ASSUME NEW period, StartTimer(period), UNCHANGED wait PROVE Bounded'
  BY <1>3 DEF StartTimer, Bounded
<1>4. ASSUME NEW length, StartTransfer(length), UNCHANGED wait PROVE Bounded'
  BY <1>4 DEF StartTransfer, Bounded
<1>5. ASSUME ~Waiting, NEW n, Advance(n), UNCHANGED wait PROVE Bounded'
  BY <1>5 DEF Advance, Bounded, Waiting
<1>6. ASSUME NEW cost \in InsertedBy(IntervalLength), NEW dmaIrq,
             Interval(cost, dmaIrq), UNCHANGED wait
      PROVE  Bounded'
  BY <1>6, IntervalBounded
<1>7. ASSUME Finish, UNCHANGED wait PROVE Bounded'
  BY <1>7 DEF Finish, Idle, Bounded
<1>8. ASSUME NEW mask, NEW discard, BeginWait(mask, discard) PROVE Bounded'
  BY <1>8 DEF BeginWait, Bounded
<1>9. ASSUME Chunk PROVE Bounded'
  <2> DEFINE n == Least({BatchCycles(wait.mask), MaxWait - wait.waited})
             w == wait.waited + n
  <2>1. /\ Waiting /\ ~Matched /\ wait.waited < MaxWait
        /\ loop' = Window0(n) /\ wait' = [wait EXCEPT !.waited = w]
        /\ UNCHANGED <<ppu, timer, serial, flags, presented, clock>>
    BY <1>9 DEF Chunk, deviceVars
  <2>2. /\ n \in Nat /\ n <= MaxWindow
        /\ "timer" \in wait.mask /\ timer.period # 0 => n <= timer.left
        /\ "serial" \in wait.mask /\ serial # 0 => n <= serial
        /\ \A s \in wait.mask \cap ppu.dispstat.irqs : n <= Distance(ppu, s)
    BY <2>1, ChunkLength
  <2> HIDE DEF n, w
  <2>3. loop'.cpu = n
    <3>1. n \in 0 .. MaxWindow
      BY <2>2, WindowAssumption
    <3> QED
      BY <2>1, <3>1, WindowType
  <2>4. wait'.mask = wait.mask
    BY <2>1, ShapeFacts
  <2>5. Ahead(loop.cpu)'
    BY <2>1, <2>2, <2>3, <2>4 DEF Ahead, Matched
  <2> QED
    BY <2>5 DEF Bounded
<1>10. ASSUME EndWait PROVE Bounded'
  BY <1>10 DEF EndWait, NoWait, Bounded, Waiting
<1>11. CASE UNCHANGED waitVars
  BY <1>11 DEF waitVars, vars, Bounded, Ahead, Waiting
<1> QED
  BY <1>1, <1>2, <1>3, <1>4, <1>5, <1>6, <1>7, <1>8, <1>9, <1>10, <1>11
     DEF WaitNext, Program, Run

\* The chunked wait of wait_for_interrupt_mask returns in the cycle in which
\* a watched interrupt is requested, for every frame geometry, every batch
\* size, every mask and every timer period and transfer length.
THEOREM WaitsReturnInTime == WaitSpec => []WakeIsExact
<1>1. WaitInit => Bounded
  BY DEF WaitInit, Init, Idle, Bounded
<1>2. Shape /\ Bounded /\ [WaitNext]_waitVars => Bounded'
  BY BoundedStep
<1>3. ASSUME Shape, Bounded PROVE WakeIsExact
  <2> SUFFICES ASSUME Waiting, loop.active, loop.cpu # 0, ~loop.stretched
               PROVE  /\ ~Matched
                      /\ "timer" \in wait.mask /\ timer.period # 0 => IntervalLength <= timer.left
                      /\ "serial" \in wait.mask /\ serial # 0 => IntervalLength <= serial
    BY DEF WakeIsExact
  <2>1. Ahead(loop.cpu)
    BY <1>3 DEF Bounded
  <2>2. ~DmaInterval
    BY <1>3, ShapeFacts DEF DmaInterval
  <2>3. IntervalLength \in Nat /\ IntervalLength <= loop.cpu
    BY <1>3, <2>2, IntervalFacts
  <2>4. loop.cpu \in Nat /\ timer.left \in Nat /\ serial \in Nat
    BY <1>3, ShapeFacts DEF LoopType
  <2> QED
    BY <2>1, <2>3, <2>4 DEF Ahead, Matched
<1> QED
  BY <1>1, <1>2, <1>3, ShapeHolds, PTL DEF WaitSpec

---------------------------------------------------------------------------
(* The clock and the display.                                               *)

LEMMA FrameMoves ==
  ASSUME NEW p \in PpuState, NEW n \in Nat, n <= LineCycles - p.cycle,
         NEW m, MovesTo(p, n, m)
  PROVE  FrameCycle(m) = (FrameCycle(p) + n) % FrameCycles
<1> DEFINE x == p.line * LineCycles
           z == m.line * LineCycles
           F == FrameCycles
<1>1. /\ p.line \in 0 .. TotalLines - 1 /\ p.cycle \in 0 .. LineCycles - 1
      /\ x \in Nat /\ FrameCycle(p) = x + p.cycle /\ x + LineCycles <= F
  BY Position
<1>2. /\ p.cycle + n < LineCycles => m.line = p.line /\ m.cycle = p.cycle + n
      /\ p.cycle + n = LineCycles => m.line = NextLine(p.line) /\ m.cycle = 0
      /\ p.cycle + n < LineCycles \/ p.cycle + n = LineCycles
      /\ m \in PpuState
  BY <1>1, FrameFacts DEF MovesTo
<1>3. z \in Nat /\ FrameCycle(m) = z + m.cycle /\ z + LineCycles <= F /\ m.cycle \in 0 .. LineCycles - 1
  BY <1>2, Position
<1>4. F \in Nat \ {0} /\ LineCycles \in Nat
  BY FrameFacts
<1>5. FrameCycle(m) \in 0 .. F - 1
  <2> HIDE DEF x, z, F
  <2> QED
    BY <1>3, <1>4
<1>6. FrameCycle(m) % F = FrameCycle(m)
  <2> HIDE DEF F
  <2> QED
    BY <1>4, <1>5, SmallRemainder
<1>7. CASE p.cycle + n < LineCycles
  <2>1. z = x /\ m.cycle = p.cycle + n
    BY <1>2, <1>7
  <2> HIDE DEF x, z, F
  <2>2. FrameCycle(p) + n = FrameCycle(m)
    BY <1>1, <1>3, <2>1
  <2> QED
    BY <1>6, <2>2 DEF F
<1>8. CASE p.cycle + n = LineCycles /\ p.line + 1 # TotalLines
  <2>1. m.line = p.line + 1 /\ m.cycle = 0
    BY <1>2, <1>8 DEF NextLine
  <2>2. z = x + LineCycles
    BY <1>1, <1>4, <2>1
  <2> HIDE DEF x, z, F
  <2>3. FrameCycle(p) + n = FrameCycle(m)
    BY <1>1, <1>3, <1>4, <1>8, <2>1, <2>2
  <2> QED
    BY <1>6, <2>3 DEF F
<1>9. CASE p.cycle + n = LineCycles /\ p.line + 1 = TotalLines
  <2>1. m.line = 0 /\ m.cycle = 0 /\ z = 0
    BY <1>2, <1>4, <1>9 DEF NextLine
  <2>2. x + LineCycles = F
    <3>1. F = (p.line + 1) * LineCycles
      BY <1>9, FrameFacts DEF FrameCycles
    <3> QED
      BY <1>1, <1>4, <3>1
  <2> HIDE DEF x, z, F
  <2>3. FrameCycle(m) = 0 /\ FrameCycle(p) + n = F
    BY <1>1, <1>3, <1>4, <1>9, <2>1, <2>2
  <2>4. F = 1 * F + 0 /\ F \in Int /\ 1 \in Int /\ 0 \in 0 .. F - 1
    BY <1>4
  <2>5. F % F = 0
    BY <1>4, <2>4, Remainder
  <2> QED
    BY <2>3, <2>5 DEF F
<1> QED
  BY <1>2, <1>7, <1>8, <1>9

LEMMA IntervalInStep ==
  ASSUME Shape, ClockInStep, NEW cost \in InsertedBy(IntervalLength), NEW dmaIrq,
         Interval(cost, dmaIrq)
  PROVE  ClockInStep'
<1> DEFINE n == IntervalLength
           F == FrameCycles
           k == clock + (loop.window - loop.cpu) + (loop.inserted - loop.dma)
           q == (loop.inserted + cost) \div F
           r == (loop.inserted + cost) % F
<1>1. clock' = clock /\ (loop.cpu # 0 \/ loop.dma # 0)
  BY DEF Interval
<1>2. n \in Nat /\ n <= LineCycles - ppu.cycle
  BY <1>1, IntervalFacts
<1>3. /\ loop'.window = loop.window
      /\ loop'.cpu = (IF DmaInterval THEN loop.cpu ELSE loop.cpu - n)
      /\ loop'.dma = (IF DmaInterval THEN loop.dma - n + cost ELSE cost)
      /\ loop'.inserted = r
      /\ MovesTo(ppu, n, ppu') /\ cost \in Nat
  BY IntervalStep
<1>4. /\ ppu \in PpuState /\ clock \in Int /\ loop.window \in Int /\ loop.cpu \in Int
      /\ loop.inserted \in Int /\ loop.dma \in Int /\ F \in Nat \ {0}
  BY ShapeFacts, FrameFacts DEF LoopType
<1>5. FrameCycle(ppu) = k % F
  BY DEF ClockInStep
<1> HIDE DEF n
<1>6. FrameCycle(ppu') = (FrameCycle(ppu) + n) % F
  BY <1>2, <1>3, <1>4, FrameMoves
<1> DEFINE j == clock + (loop'.window - loop'.cpu) + (loop'.inserted - loop'.dma)
<1>7. loop.inserted + cost \in Int /\ k \in Int
  BY <1>3, <1>4
<1> HIDE DEF F
<1>8. q \in Int /\ r \in Int /\ loop.inserted + cost = q * F + r
  <2> DEFINE a == loop.inserted + cost
  <2>1. a \in Int
    BY <1>7
  <2> HIDE DEF a
  <2>2. a \div F \in Int /\ a % F \in 0 .. F - 1 /\ a = (a \div F) * F + (a % F)
    BY <1>4, <2>1, Division
  <2> QED
    BY <1>4, <2>2 DEF a
<1> HIDE DEF q, r
<1>9. q * F \in Int
  BY <1>4, <1>8
<1>10. k + n = j + q * F /\ j \in Int
  <2> DEFINE t == q * F
  <2>1. t \in Int /\ loop.inserted + cost = t + r /\ n \in Int /\ cost \in Int
    BY <1>2, <1>3, <1>8, <1>9
  <2> HIDE DEF t
  <2>2. /\ loop.window - loop.cpu \in Int /\ loop.inserted - loop.dma \in Int
        /\ r = loop.inserted + cost - t
    BY <1>4, <1>8, <2>1
  <2>3. loop'.window - loop'.cpu = loop.window - loop.cpu + (IF DmaInterval THEN 0 ELSE n)
    BY <1>3, <1>4, <2>1
  <2>4. loop'.inserted - loop'.dma = loop.inserted - loop.dma + (IF DmaInterval THEN n ELSE 0) - t
    BY <1>3, <1>4, <2>1, <2>2 DEF DmaInterval
  <2>5. j = k + n - t
    BY <1>4, <2>1, <2>2, <2>3, <2>4
  <2> HIDE DEF j, k
  <2> QED
    BY <1>7, <2>1, <2>5 DEF t
<1> HIDE DEF j, k
<1>11. k + n \in Int /\ n \in Int
  BY <1>2, <1>7
<1>12. (k + n) % F = j % F
  BY <1>4, <1>8, <1>10, <1>11, Congruent
<1>13. ((k % F) + n) % F = (k + n) % F
  BY <1>4, <1>7, <1>11, AddRemainder
<1>14. FrameCycle(ppu') = j % F
  BY <1>5, <1>6, <1>12, <1>13
<1> QED
  BY <1>1, <1>14 DEF ClockInStep, j, F

LEMMA ClockStep ==
  ASSUME Shape, ClockInStep, [WaitNext]_waitVars
  PROVE  ClockInStep'
<1>0. clock \in 0 .. FrameCycles - 1 /\ clock \in Int
  BY ShapeFacts, FrameFacts
<1>1. ASSUME NEW value, WriteDispstat(value) PROVE ClockInStep'
  <2>1. ppu' = [ppu EXCEPT !.dispstat = value] /\ UNCHANGED <<loop, clock>>
    BY <1>1 DEF WriteDispstat
  <2>2. ppu'.line = ppu.line /\ ppu'.cycle = ppu.cycle
    BY <2>1, ShapeFacts DEF PpuState
  <2> QED
    BY <2>1, <2>2 DEF ClockInStep, FrameCycle
<1>2. ASSUME NEW mask, Acknowledge(mask) PROVE ClockInStep'
  BY <1>2 DEF Acknowledge, ClockInStep, FrameCycle
<1>3. ASSUME NEW period, StartTimer(period) PROVE ClockInStep'
  BY <1>3 DEF StartTimer, ClockInStep, FrameCycle
<1>4. ASSUME NEW length, StartTransfer(length) PROVE ClockInStep'
  BY <1>4 DEF StartTransfer, ClockInStep, FrameCycle
<1>5. ASSUME ~loop.active, NEW n \in 0 .. MaxWindow, loop' = Window0(n), UNCHANGED <<ppu, clock>>
      PROVE  ClockInStep'
  <2>1. loop = Idle
    BY <1>5, ShapeFacts
  <2>2. /\ loop'.window = n /\ loop'.cpu = n /\ loop'.dma = 0 /\ loop'.inserted = 0
    BY <1>5, WindowType
  <2>3. n \in Int
    BY WindowAssumption
  <2>4. clock + (n - n) + (0 - 0) = clock /\ clock + (0 - 0) + (0 - 0) = clock
    BY <1>0, <2>3
  <2>5. FrameCycle(ppu) = clock % FrameCycles
    BY <2>1, <2>4 DEF ClockInStep, Idle
  <2> QED
    BY <1>5, <2>2, <2>4, <2>5 DEF ClockInStep, FrameCycle
<1>6. ASSUME NEW n \in 1 .. MaxWindow, Advance(n) PROVE ClockInStep'
  <2>1. n \in 0 .. MaxWindow
    BY WindowAssumption
  <2> QED
    BY <1>5, <1>6, <2>1 DEF Advance, deviceVars
<1>7. ASSUME Chunk PROVE ClockInStep'
  <2> DEFINE n == Least({BatchCycles(wait.mask), MaxWait - wait.waited})
  <2>1. /\ Waiting /\ ~loop.active /\ wait.waited < MaxWait
        /\ loop' = Window0(n) /\ UNCHANGED <<ppu, clock>>
    BY <1>7 DEF Chunk, deviceVars
  <2>2. n \in Nat /\ n <= MaxWindow
    BY <2>1, ChunkLength
  <2> HIDE DEF n
  <2>3. n \in 0 .. MaxWindow
    BY <2>2, WindowAssumption
  <2> QED
    BY <1>5, <2>1, <2>3
<1>8. ASSUME NEW cost \in InsertedBy(IntervalLength), NEW dmaIrq, Interval(cost, dmaIrq)
      PROVE  ClockInStep'
  BY <1>8, IntervalInStep
<1>9. ASSUME Finish PROVE ClockInStep'
  <2>1. /\ loop.cpu = 0 /\ loop.dma = 0 /\ loop' = Idle /\ ppu' = ppu
        /\ clock' = (clock + Elapsed(loop)) % FrameCycles
    BY <1>9 DEF Finish, deviceVars
  <2> DEFINE k == clock + Elapsed(loop)
  <2>2. k \in Int /\ k = clock + (loop.window - loop.cpu) + (loop.inserted - loop.dma)
    BY <1>0, <2>1, ShapeFacts DEF Elapsed, LoopType
  <2>3. FrameCycle(ppu) = clock'
    BY <2>1, <2>2 DEF ClockInStep
  <2> HIDE DEF k
  <2>4. clock' \in 0 .. FrameCycles - 1
    BY <2>1, <2>2, FrameFacts DEF k
  <2>5. clock' % FrameCycles = clock'
    BY <2>4, SmallRemainder, FrameFacts
  <2>6. clock' + (0 - 0) + (0 - 0) = clock'
    <3>1. clock' \in Int
      BY <2>4, FrameFacts
    <3>2. \A x \in Int : x + (0 - 0) + (0 - 0) = x
      OBVIOUS
    <3> QED
      BY <3>1, <3>2
  <2> QED
    BY <2>1, <2>3, <2>5, <2>6 DEF ClockInStep, Idle, FrameCycle
<1>10. ASSUME NEW mask, NEW discard, BeginWait(mask, discard) PROVE ClockInStep'
  BY <1>10 DEF BeginWait, ClockInStep, FrameCycle
<1>11. CASE UNCHANGED vars
  BY <1>11 DEF vars, ClockInStep, FrameCycle
<1> QED
  BY <1>1, <1>2, <1>3, <1>4, <1>6, <1>7, <1>8, <1>9, <1>10, <1>11
     DEF WaitNext, Program, Run, EndWait, waitVars

\* scheduler_cycles_ and the display never drift apart: however windows, DMA
\* chains and waits interleave, the clock modulo a frame is the position of
\* the display, up to what the call of advance_devices has yet to account for.
THEOREM ClockAndDisplayAgree == WaitSpec => []ClockInStep
<1>1. WaitInit => ClockInStep
  <2> SUFFICES ASSUME WaitInit PROVE ClockInStep
    OBVIOUS
  <2>1. 0 \in 0 .. FrameCycles - 1
    BY FrameFacts
  <2>2. 0 % FrameCycles = 0
    BY <2>1, SmallRemainder, FrameFacts
  <2>3. FrameCycle(ppu) = 0
    BY FrameFacts DEF WaitInit, Init, FrameCycle
  <2>4. 0 + (0 - 0) + (0 - 0) = 0
    OBVIOUS
  <2> QED
    BY <2>2, <2>3, <2>4 DEF WaitInit, Init, Idle, ClockInStep
<1>2. Shape /\ ClockInStep /\ [WaitNext]_waitVars => ClockInStep'
  BY ClockStep
<1> QED
  BY <1>1, <1>2, ShapeHolds, PTL DEF WaitSpec

---------------------------------------------------------------------------
(* The presented lines.                                                     *)

\* The visible lines of the frame whose visible part has ended.
Done(p) ==
  IF p.line >= VisibleLines THEN VisibleLines
  ELSE IF p.cycle >= VisibleCycles THEN p.line + 1 ELSE p.line

\* What was presented when the first d lines of a frame are done.
PresentedUpTo(shown, d) ==
  /\ shown.calls = IF d = VisibleLines THEN 0 ELSE d
  /\ shown.line # -1 => shown.line = IF d = 0 THEN VisibleLines - 1 ELSE d - 1
  /\ shown.line = -1 => d = 0

LEMMA PresentedIs ==
  ASSUME NEW p \in PpuState, NEW shown
  PROVE  /\ Done(p) \in 0 .. VisibleLines
         /\ (/\ shown.calls = Done(p) % VisibleLines
             /\ shown.line # -1 => shown.line = (Done(p) + VisibleLines - 1) % VisibleLines
             /\ shown.line = -1 => Done(p) = 0)
              <=> PresentedUpTo(shown, Done(p))
<1> DEFINE d == Done(p)
           v == VisibleLines
<1>1. p.line \in 0 .. TotalLines - 1 /\ p.cycle \in 0 .. LineCycles - 1
  BY DEF PpuState
<1>2. d \in 0 .. v /\ v \in Nat \ {0}
  BY <1>1, FrameFacts DEF Done
<1> HIDE DEF d
<1>3. d % v = IF d = v THEN 0 ELSE d
  <2>1. CASE d = v
    <3>1. v = 1 * v + 0 /\ v \in Int /\ 1 \in Int /\ 0 \in 0 .. v - 1
      BY <1>2
    <3>2. v % v = 0
      BY <1>2, <3>1, Remainder
    <3> QED
      BY <2>1, <3>2
  <2>2. CASE d # v
    <3>1. d \in 0 .. v - 1
      BY <1>2, <2>2
    <3> QED
      BY <1>2, <2>2, <3>1, SmallRemainder
  <2> QED
    BY <2>1, <2>2
<1>4. (d + v - 1) % v = IF d = 0 THEN v - 1 ELSE d - 1
  <2>1. CASE d = 0
    <3>1. v - 1 \in 0 .. v - 1 /\ d + v - 1 = v - 1
      BY <1>2, <2>1
    <3>2. (v - 1) % v = v - 1
      BY <1>2, <3>1, SmallRemainder
    <3> QED
      BY <2>1, <3>1, <3>2
  <2>2. CASE d # 0
    <3>1. d - 1 \in 0 .. v - 1 /\ d + v - 1 = 1 * v + (d - 1) /\ 1 \in Int /\ d + v - 1 \in Int
      BY <1>2, <2>2
    <3>2. (d + v - 1) % v = d - 1
      BY <1>2, <3>1, Remainder
    <3> QED
      BY <2>2, <3>2
  <2> QED
    BY <2>1, <2>2
<1> QED
  BY <1>2, <1>3, <1>4 DEF PresentedUpTo, d

\* One interval: it ends the visible part of a line and presents it, or it
\* leaves the lines done alone, or it starts a new frame.
LEMMA IntervalPresents ==
  ASSUME NEW p \in PpuState, NEW n \in Nat \ {0}, p.cycle + n <= Boundary(p.cycle),
         NEW m, MovesTo(p, n, m)
  PROVE  IF m.cycle = VisibleCycles /\ m.line < VisibleLines
         THEN Done(p) = m.line /\ Done(m) = m.line + 1
         ELSE Done(m) = Done(p) \/ (Done(m) = 0 /\ Done(p) = VisibleLines)
<1>1. p.line \in 0 .. TotalLines - 1 /\ p.cycle \in 0 .. LineCycles - 1
  BY DEF PpuState
<1>2. /\ p.cycle + n < LineCycles => m.line = p.line /\ m.cycle = p.cycle + n
      /\ p.cycle + n = LineCycles => m.line = NextLine(p.line) /\ m.cycle = 0
  BY DEF MovesTo
<1>3. CASE p.cycle < VisibleCycles
  <2>1. p.cycle + n <= VisibleCycles
    BY <1>3 DEF Boundary
  <2>2. m.line = p.line /\ m.cycle = p.cycle + n
    BY <1>1, <1>2, <2>1, FrameFacts
  <2> QED
    BY <1>1, <1>3, <2>1, <2>2, FrameFacts DEF Done
<1>4. CASE p.cycle >= VisibleCycles /\ p.cycle + n < LineCycles
  BY <1>1, <1>2, <1>4, FrameFacts DEF Done
<1>5. CASE p.cycle >= VisibleCycles /\ ~(p.cycle + n < LineCycles)
  <2>1. p.cycle + n = LineCycles
    BY <1>1, <1>5, FrameFacts DEF Boundary
  <2>2. m.line = NextLine(p.line) /\ m.cycle = 0 /\ m.cycle # VisibleCycles
    BY <1>2, <2>1, FrameFacts
  <2> QED
    BY <1>1, <1>5, <2>2, FrameFacts DEF Done, NextLine
<1> QED
  BY <1>1, <1>3, <1>4, <1>5, FrameFacts

LEMMA IntervalInOrder ==
  ASSUME Shape, PresentedUpTo(presented, Done(ppu)),
         NEW cost \in InsertedBy(IntervalLength), NEW dmaIrq, Interval(cost, dmaIrq)
  PROVE  PresentedUpTo(presented', Done(ppu'))
<1> DEFINE n == IntervalLength
           v == VisibleLines
<1>1. Present /\ (loop.cpu # 0 \/ loop.dma # 0)
  BY DEF Interval
<1>2. n \in Nat \ {0} /\ ppu.cycle + n <= Boundary(ppu.cycle)
  BY <1>1, IntervalFacts
<1>3. MovesTo(ppu, n, ppu')
  BY IntervalStep
<1>4. ppu \in PpuState /\ ppu' \in PpuState
  BY <1>3, ShapeFacts DEF MovesTo
<1> HIDE DEF n
<1>5. IF ppu'.cycle = VisibleCycles /\ ppu'.line < v
      THEN Done(ppu) = ppu'.line /\ Done(ppu') = ppu'.line + 1
      ELSE Done(ppu') = Done(ppu) \/ (Done(ppu') = 0 /\ Done(ppu) = v)
  BY <1>2, <1>3, <1>4, IntervalPresents
<1>6. v \in Nat \ {0} /\ ppu'.line \in Nat
  BY <1>4, FrameFacts DEF PpuState
<1>7. CASE ppu'.cycle = VisibleCycles /\ ppu'.line < v
  <2> DEFINE l == ppu'.line
  <2>1. presented' = [calls |-> (presented.calls + 1) % v, line |-> l]
    BY <1>1, <1>7 DEF Present
  <2>2. l \in 0 .. v - 1 /\ Done(ppu) = l /\ Done(ppu') = l + 1
    BY <1>5, <1>6, <1>7
  <2> HIDE DEF l
  <2>3. presented.calls = l
    BY <1>6, <2>2 DEF PresentedUpTo
  <2>4. (l + 1) % v = IF l + 1 = v THEN 0 ELSE l + 1
    <3>1. CASE l + 1 = v
      <4>1. v = 1 * v + 0 /\ v \in Int /\ 1 \in Int /\ 0 \in 0 .. v - 1
        BY <1>6
      <4>2. v % v = 0
        BY <1>6, <4>1, Remainder
      <4> QED
        BY <3>1, <4>2
    <3>2. CASE l + 1 # v
      <4>1. l + 1 \in 0 .. v - 1
        BY <1>6, <2>2, <3>2
      <4> QED
        BY <1>6, <3>2, <4>1, SmallRemainder
    <3> QED
      BY <3>1, <3>2
  <2>5. presented'.calls = (l + 1) % v /\ presented'.line = l
    BY <2>1, <2>3
  <2> QED
    BY <1>6, <2>2, <2>4, <2>5 DEF PresentedUpTo
<1>8. CASE ~(ppu'.cycle = VisibleCycles /\ ppu'.line < v)
  <2>1. presented' = presented
    BY <1>1, <1>8 DEF Present
  <2>2. CASE Done(ppu') = Done(ppu)
    BY <2>1, <2>2
  <2>3. CASE Done(ppu') = 0 /\ Done(ppu) = v
    BY <1>6, <2>1, <2>3 DEF PresentedUpTo
  <2> QED
    BY <1>5, <1>8, <2>2, <2>3
<1> QED
  BY <1>7, <1>8

LEMMA PresentedStep ==
  ASSUME Shape, Shape', PresentedInStep, [WaitNext]_waitVars
  PROVE  PresentedInStep'
<1>1. ppu \in PpuState /\ ppu' \in PpuState
  <2>1. Shape => ppu \in PpuState
    BY DEF Shape, WaitTypeOK, TypeOK
  <2>2. Shape' => ppu' \in PpuState
    BY DEF Shape, WaitTypeOK, TypeOK
  <2> QED
    BY <2>1, <2>2
<1>2. PresentedUpTo(presented, Done(ppu))
  BY <1>1, PresentedIs DEF PresentedInStep, Done
<1>3. PresentedUpTo(presented', Done(ppu')) => PresentedInStep'
  BY <1>1, PresentedIs DEF PresentedInStep, Done
<1>4. ASSUME ppu'.line = ppu.line, ppu'.cycle = ppu.cycle, presented' = presented
      PROVE  PresentedInStep'
  BY <1>2, <1>3, <1>4 DEF Done
<1>5. ASSUME NEW value, WriteDispstat(value) PROVE PresentedInStep'
  <2>1. ppu' = [ppu EXCEPT !.dispstat = value] /\ presented' = presented
    BY <1>5 DEF WriteDispstat
  <2>2. ppu'.line = ppu.line /\ ppu'.cycle = ppu.cycle
    BY <1>1, <2>1 DEF PpuState
  <2> QED
    BY <1>4, <2>1, <2>2
<1>6. ASSUME NEW cost \in InsertedBy(IntervalLength), NEW dmaIrq, Interval(cost, dmaIrq)
      PROVE  PresentedInStep'
  BY <1>2, <1>3, <1>6, IntervalInOrder
<1>7. CASE \/ \E mask : Acknowledge(mask)
           \/ \E period : StartTimer(period)
           \/ \E length : StartTransfer(length)
           \/ \E n : Advance(n)
           \/ Finish
           \/ \E mask, discard : BeginWait(mask, discard)
           \/ Chunk \/ EndWait \/ UNCHANGED waitVars
  <2>1. ppu' = ppu /\ presented' = presented
    BY <1>7 DEF Acknowledge, StartTimer, StartTransfer, Advance, Finish, BeginWait, Chunk,
                EndWait, deviceVars, vars, waitVars
  <2> QED
    BY <1>4, <2>1
<1> QED
  BY <1>5, <1>6, <1>7 DEF WaitNext, Program, Run

\* The scanline observer is called once for every visible line, in order and
\* when its visible part ends, however the windows and the DMA time inserted
\* into them cut the frame.
THEOREM LinesArePresentedInOrder == WaitSpec => []PresentedInStep
<1>1. WaitInit => PresentedInStep
  <2> SUFFICES ASSUME WaitInit PROVE PresentedInStep
    OBVIOUS
  <2>1. ppu \in PpuState
    BY InitShape, ShapeFacts
  <2>2. Done(ppu) = 0 /\ presented.calls = 0 /\ presented.line = -1
    BY FrameFacts DEF WaitInit, Init, Done
  <2>3. PresentedUpTo(presented, Done(ppu))
    BY <2>2, FrameFacts DEF PresentedUpTo
  <2> QED
    BY <2>1, <2>3, PresentedIs DEF PresentedInStep, Done
<1>2. Shape /\ Shape' /\ PresentedInStep /\ [WaitNext]_waitVars => PresentedInStep'
  BY PresentedStep
<1> QED
  BY <1>1, <1>2, ShapeHolds, PTL DEF WaitSpec

---------------------------------------------------------------------------
(* The loop of PpuTiming::tick, from edge to edge.                           *)

\* The locals of the loop with the display at m.
Acc(m, left, raised, events) ==
  [ppu |-> m, left |-> left, raised |-> raised, events |-> events]

At(p, d, n) == Acc(Moved(p, d), n - d, Raised(p, d), Events(p, d))

\* The display m, d cycles after p, is in cycle c of the k-th line from the
\* start of the frame of p.
Reaches(p, d, m, k, c) ==
  /\ m = [line |-> k % TotalLines, cycle |-> c, dispstat |-> p.dispstat] /\ m \in PpuState
  /\ FrameCycle(p) \in Nat /\ FrameCycle(p) + d = k * LineCycles + c

LEMMA MovedAt ==
  ASSUME NEW p \in PpuState, NEW d \in Nat
  PROVE  \E k \in Nat, c \in 0 .. LineCycles - 1 : Reaches(p, d, Moved(p, d), k, c)
<1>1. /\ p.line \in 0 .. TotalLines - 1 /\ p.cycle \in 0 .. LineCycles - 1
      /\ p.dispstat \in Dispstat
  BY DEF PpuState
<1>2. p.line * LineCycles \in Nat
  BY <1>1, FrameFacts
<1>3. PICK q \in Nat : q = FrameCycle(p) + d /\ FrameCycle(p) \in Nat
  BY <1>1, <1>2, FrameFacts DEF FrameCycle
<1>4. PICK k \in Int, c \in 0 .. LineCycles - 1 :
        k = q \div LineCycles /\ c = q % LineCycles /\ q = k * LineCycles + c
  BY FrameFacts, Division
<1>5. k \in Nat
  <2>1. SUFFICES ASSUME k < 0 PROVE FALSE
    BY <1>4
  <2>2. (-1 - k) * LineCycles >= 0
    BY <2>1, FrameFacts
  <2>3. (-1 - k) * LineCycles = -LineCycles - k * LineCycles /\ k * LineCycles \in Int
    BY FrameFacts
  <2>4. QED
    BY <1>4, <2>2, <2>3, FrameFacts
<1>6. k % TotalLines \in 0 .. TotalLines - 1
  BY FrameFacts, Division
<1>7. Moved(p, d) = [p EXCEPT !.line = k % TotalLines, !.cycle = c]
  BY <1>3, <1>4 DEF Moved, LineAt
<1>8. Moved(p, d) = [line |-> k % TotalLines, cycle |-> c, dispstat |-> p.dispstat]
  BY <1>7 DEF PpuState
<1>9. Moved(p, d) \in PpuState
  BY <1>1, <1>6, <1>8 DEF PpuState
<1>10. Reaches(p, d, Moved(p, d), k, c)
  BY <1>3, <1>4, <1>8, <1>9 DEF Reaches
<1>11. QED
  BY <1>5, <1>10

\* A step of s cycles to the next event at most.
ToEvent(c, s) ==
  /\ s \in Nat \ {0}
  /\ \/ c < FlagCycles /\ c + s <= FlagCycles
     \/ c >= FlagCycles /\ c + s <= LineCycles

NewEdges(p, d, s, k, c) ==
  /\ HblankEdges(p, d + s)
       = HblankEdges(p, d) \cup (IF c + s = FlagCycles THEN {FrameCycle(p) + d + s} ELSE {})
  /\ LineEdges(p, d + s)
       = LineEdges(p, d) \cup (IF c + s = LineCycles THEN {FrameCycle(p) + d + s} ELSE {})
  /\ LineAt(FrameCycle(p) + d + s) = (IF c + s = LineCycles THEN k + 1 ELSE k) % TotalLines
  /\ (FrameCycle(p) + d + s) % LineCycles = IF c + s = LineCycles THEN 0 ELSE c + s
  /\ FrameCycle(p) + d + s \notin Window(p, d)

LEMMA EdgesAreNew ==
  ASSUME NEW p \in PpuState, NEW d \in Nat, NEW m, NEW k \in Nat, NEW c \in 0 .. LineCycles - 1,
         Reaches(p, d, m, k, c), NEW s, ToEvent(c, s)
  PROVE  NewEdges(p, d, s, k, c)
<1>1. /\ s \in Nat \ {0} /\ c + s <= LineCycles /\ FlagCycles \in Nat /\ LineCycles \in Nat
      /\ FlagCycles < LineCycles /\ FlagCycles > 0 /\ c \in Nat
  BY FrameFacts DEF ToEvent
<1>2. PICK base \in Nat : base = FrameCycle(p) + d /\ base = k * LineCycles + c
  BY DEF Reaches
<1>3. FrameCycle(p) \in Nat
  BY DEF Reaches
<1>4. ASSUME NEW j \in 1 .. s
      PROVE  /\ (base + j) % LineCycles = IF c + j = LineCycles THEN 0 ELSE c + j
             /\ (base + j) \div LineCycles = IF c + j = LineCycles THEN k + 1 ELSE k
  <2>1. c + j <= LineCycles /\ c + j \in Nat /\ base + j \in Int
    BY <1>1, <1>2
  <2>2. CASE c + j = LineCycles
    <3>1. (k + 1) * LineCycles = k * LineCycles + LineCycles /\ k * LineCycles \in Int
      BY <1>1
    <3>2. base + j = (k + 1) * LineCycles + 0 /\ k + 1 \in Int /\ 0 \in 0 .. LineCycles - 1
      BY <1>1, <1>2, <2>2, <3>1
    <3>3. (base + j) % LineCycles = 0 /\ (base + j) \div LineCycles = k + 1
      BY <2>1, <3>2, FrameFacts, Remainder
    <3>4. QED
      BY <2>2, <3>3
  <2>3. CASE c + j # LineCycles
    <3>1. k * LineCycles \in Int
      BY <1>1
    <3>2. base + j = k * LineCycles + (c + j) /\ k \in Int /\ c + j \in 0 .. LineCycles - 1
      BY <1>1, <1>2, <2>1, <2>3, <3>1
    <3>3. (base + j) % LineCycles = c + j /\ (base + j) \div LineCycles = k
      BY <2>1, <3>2, FrameFacts, Remainder
    <3>4. QED
      BY <2>3, <3>3
  <2>4. QED
    BY <2>2, <2>3
<1>5. ASSUME NEW j \in 1 .. s
      PROVE  /\ (base + j) % LineCycles = FlagCycles <=> j = s /\ c + s = FlagCycles
             /\ (base + j) % LineCycles = 0 <=> j = s /\ c + s = LineCycles
  <2>1. (base + j) % LineCycles = IF c + j = LineCycles THEN 0 ELSE c + j
    BY <1>4
  <2>2. j \in Nat /\ j >= 1 /\ j <= s
    BY <1>1
  <2>3. c + j = FlagCycles => j = s
    BY <1>1, <2>2 DEF ToEvent
  <2>4. c + j = LineCycles => j = s
    BY <1>1, <2>2
  <2>5. QED
    BY <1>1, <2>1, <2>2, <2>3, <2>4
<1>6. Window(p, d + s) = Window(p, d) \cup {base + j : j \in 1 .. s}
  <2>1. Window(p, d) = FrameCycle(p) + 1 .. base
    BY <1>2 DEF Window
  <2>2. Window(p, d + s) = FrameCycle(p) + 1 .. base + s
    BY <1>1, <1>2, <1>3 DEF Window
  <2>3. ASSUME NEW q \in FrameCycle(p) + 1 .. base + s, q > base PROVE \E j \in 1 .. s : q = base + j
    <3>1. q - base \in 1 .. s /\ q = base + (q - base)
      BY <1>1, <1>3, <2>3
    <3>2. QED
      BY <3>1
  <2>4. \A j \in 1 .. s : base + j \in FrameCycle(p) + 1 .. base + s
    BY <1>1, <1>2, <1>3
  <2>5. \A q \in FrameCycle(p) + 1 .. base : q \in FrameCycle(p) + 1 .. base + s
    BY <1>1, <1>3
  <2>6. \A q \in FrameCycle(p) + 1 .. base + s : q \in FrameCycle(p) + 1 .. base \/ q > base
    BY <1>1, <1>3
  <2>7. QED
    BY <2>1, <2>2, <2>3, <2>4, <2>5, <2>6
<1>7. PICK q : q = base + s /\ q = FrameCycle(p) + d + s
  BY <1>2
<1>8. s \in 1 .. s
  BY <1>1
<1>9. \A j \in 1 .. s : base + j = q <=> j = s
  BY <1>1, <1>7
<1>10. HblankEdges(p, d + s) = HblankEdges(p, d) \cup (IF c + s = FlagCycles THEN {q} ELSE {})
  BY <1>5, <1>6, <1>7, <1>8 DEF HblankEdges
<1>11. LineEdges(p, d + s) = LineEdges(p, d) \cup (IF c + s = LineCycles THEN {q} ELSE {})
  BY <1>5, <1>6, <1>7, <1>8 DEF LineEdges
<1>12. q \notin Window(p, d)
  BY <1>1, <1>2, <1>3, <1>7 DEF Window
<1>13. LineAt(q) = (IF c + s = LineCycles THEN k + 1 ELSE k) % TotalLines
  BY <1>4, <1>7, <1>8 DEF LineAt
<1>14. q % LineCycles = IF c + s = LineCycles THEN 0 ELSE c + s
  BY <1>4, <1>7, <1>8
<1>15. QED
  BY <1>7, <1>10, <1>11, <1>12, <1>13, <1>14 DEF NewEdges

\* Every set of edges is finite.
LEMMA EdgesAreFinite ==
  ASSUME NEW p \in PpuState, NEW d \in Nat, NEW S, S \subseteq Window(p, d)
  PROVE  IsFiniteSet(S) /\ Cardinality(S) \in Nat
<1>1. FrameCycle(p) \in Nat
  BY MovedAt DEF Reaches
<1>2. FrameCycle(p) + 1 \in Int /\ FrameCycle(p) + d \in Int
  BY <1>1
<1>3. IsFiniteSet(Window(p, d))
  BY <1>2, FS_Interval DEF Window
<1>4. S \in SUBSET Window(p, d)
  OBVIOUS
<1>5. IsFiniteSet(S)
  BY <1>3, <1>4, FS_Subset
<1>6. QED
  BY <1>5, FS_CardinalityType

LEMMA OneMore ==
  ASSUME NEW p \in PpuState, NEW d \in Nat, NEW S, S \subseteq Window(p, d),
         NEW q, q \notin Window(p, d)
  PROVE  Cardinality(S \cup {q}) = Cardinality(S) + 1
BY EdgesAreFinite, FS_AddElement

---------------------------------------------------------------------------
(* The records of the loop.                                                 *)

EventRecord == [hblanks : Nat, vblanks : Nat, matches : Nat]

LEMMA EventsType ==
  ASSUME NEW p \in PpuState, NEW d \in Nat
  PROVE  Events(p, d) \in EventRecord
<1>1. /\ {q \in HblankEdges(p, d) : LineAt(q) < VisibleLines} \subseteq Window(p, d)
      /\ VblankEdges(p, d) \subseteq Window(p, d) /\ MatchEdges(p, d) \subseteq Window(p, d)
  BY DEF HblankEdges, LineEdges, VblankEdges, MatchEdges
<1>2. QED
  BY <1>1, EdgesAreFinite DEF Events, EventRecord

\* The display m in cycle c.
InCycle(m, c) == [line |-> m.line, cycle |-> c, dispstat |-> m.dispstat]

Counted(hblanks, vblanks, matches) ==
  [hblanks |-> hblanks, vblanks |-> vblanks, matches |-> matches]

\* The assignments of the loop's body, of enter_hblank and of enter_next_line.
Stepped(acc, cycle, left) == [acc EXCEPT !.ppu.cycle = cycle, !.left = left]
HblankSeen(acc, hblanks, raised) == [acc EXCEPT !.events.hblanks = hblanks, !.raised = raised]
LineStarted(m, line) == [m EXCEPT !.line = line, !.cycle = 0]
LineSeen(acc, p, raised, vblanks, matches) ==
  [acc EXCEPT !.ppu = p, !.raised = raised, !.events.vblanks = vblanks, !.events.matches = matches]

LEMMA SteppedIs ==
  ASSUME NEW m \in PpuState, NEW left, NEW raised, NEW events,
         NEW acc, acc = Acc(m, left, raised, events), NEW v, NEW w
  PROVE  Stepped(acc, v, w) = Acc(InCycle(m, v), w, raised, events)
<1>1. m = [line |-> m.line, cycle |-> m.cycle, dispstat |-> m.dispstat]
  BY DEF PpuState
<1>2. PICK y : y = [acc.ppu EXCEPT !.cycle = v]
  OBVIOUS
<1>3. acc.ppu = m
  BY DEF Acc
<1>4. y = InCycle(m, v)
  BY <1>1, <1>2, <1>3 DEF InCycle
<1>5. PICK a : a = [acc EXCEPT !.ppu = y]
  OBVIOUS
<1>6. a = Acc(y, left, raised, events)
  BY <1>5 DEF Acc
<1>7. [a EXCEPT !.left = w] = Acc(y, w, raised, events)
  BY <1>6 DEF Acc
<1>8. [acc EXCEPT !.ppu.cycle = v, !.left = w]
        = [[acc EXCEPT !.ppu = [acc.ppu EXCEPT !.cycle = v]] EXCEPT !.left = w]
  OBVIOUS
<1>9. QED
  BY <1>2, <1>4, <1>5, <1>7, <1>8 DEF Stepped

LEMMA HblankSeenIs ==
  ASSUME NEW m, NEW left, NEW raised, NEW events \in EventRecord,
         NEW acc, acc = Acc(m, left, raised, events), NEW v, NEW w
  PROVE  HblankSeen(acc, v, w) = Acc(m, left, w, Counted(v, events.vblanks, events.matches))
<1>1. events = [hblanks |-> events.hblanks, vblanks |-> events.vblanks, matches |-> events.matches]
  BY DEF EventRecord
<1>2. PICK y : y = [acc.events EXCEPT !.hblanks = v]
  OBVIOUS
<1>3. acc.events = events
  BY DEF Acc
<1>4. y = Counted(v, events.vblanks, events.matches)
  BY <1>1, <1>2, <1>3 DEF Counted
<1>5. PICK a : a = [acc EXCEPT !.events = y]
  OBVIOUS
<1>6. a = Acc(m, left, raised, y)
  BY <1>5 DEF Acc
<1>7. [a EXCEPT !.raised = w] = Acc(m, left, w, y)
  BY <1>6 DEF Acc
<1>8. [acc EXCEPT !.events.hblanks = v, !.raised = w]
        = [[acc EXCEPT !.events = [acc.events EXCEPT !.hblanks = v]] EXCEPT !.raised = w]
  OBVIOUS
<1>9. QED
  BY <1>2, <1>4, <1>5, <1>7, <1>8 DEF HblankSeen

\* A display, in the last cycle of its line too.
IsBeam(m) == m = [line |-> m.line, cycle |-> m.cycle, dispstat |-> m.dispstat]

LEMMA LineStartedIs ==
  ASSUME NEW m, IsBeam(m), NEW x
  PROVE  LineStarted(m, x) = [line |-> x, cycle |-> 0, dispstat |-> m.dispstat]
<1>0. PICK cycle, dispstat : /\ m = [line |-> m.line, cycle |-> cycle, dispstat |-> dispstat]
                             /\ dispstat = m.dispstat
  BY DEF IsBeam
<1>1. PICK k : k = [m EXCEPT !.line = x]
  OBVIOUS
<1>2. k = [line |-> x, cycle |-> cycle, dispstat |-> dispstat]
  BY <1>0, <1>1
<1>3. [k EXCEPT !.cycle = 0] = [line |-> x, cycle |-> 0, dispstat |-> dispstat]
  BY <1>2
<1>4. [m EXCEPT !.line = x, !.cycle = 0] = [[m EXCEPT !.line = x] EXCEPT !.cycle = 0]
  OBVIOUS
<1>5. QED
  BY <1>0, <1>1, <1>3, <1>4 DEF LineStarted

LEMMA LineSeenIs ==
  ASSUME NEW m, NEW left, NEW raised, NEW events \in EventRecord,
         NEW acc, acc = Acc(m, left, raised, events), NEW p, NEW w, NEW x, NEW y
  PROVE  LineSeen(acc, p, w, x, y) = Acc(p, left, w, Counted(events.hblanks, x, y))
<1>1. events = [hblanks |-> events.hblanks, vblanks |-> events.vblanks, matches |-> events.matches]
  BY DEF EventRecord
<1>2. PICK a : a = [acc EXCEPT !.ppu = p]
  OBVIOUS
<1>3. a = Acc(p, left, raised, events)
  BY <1>2 DEF Acc
<1>4. PICK b : b = [a EXCEPT !.raised = w]
  OBVIOUS
<1>5. b = Acc(p, left, w, events)
  BY <1>3, <1>4 DEF Acc
<1>6. PICK f : f = [events EXCEPT !.vblanks = x]
  OBVIOUS
<1>7. f = Counted(events.hblanks, x, events.matches)
  BY <1>1, <1>6 DEF Counted
<1>8. PICK g : g = [f EXCEPT !.matches = y]
  OBVIOUS
<1>9. g = Counted(events.hblanks, x, y)
  BY <1>7, <1>8 DEF Counted
<1>10. [b EXCEPT !.events = g] = Acc(p, left, w, g)
  BY <1>5 DEF Acc
<1>11. b.events = events
  BY <1>5 DEF Acc
<1>12. [acc EXCEPT !.ppu = p, !.raised = w, !.events.vblanks = x, !.events.matches = y]
         = [[[acc EXCEPT !.ppu = p] EXCEPT !.raised = w] EXCEPT !.events.vblanks = x, !.events.matches = y]
  OBVIOUS
<1>13. [b EXCEPT !.events.vblanks = x, !.events.matches = y]
         = [b EXCEPT !.events = [[b.events EXCEPT !.vblanks = x] EXCEPT !.matches = y]]
  OBVIOUS
<1>14. [b EXCEPT !.events.vblanks = x, !.events.matches = y] = [b EXCEPT !.events = g]
  BY <1>6, <1>8, <1>11, <1>13
<1>15. QED
  BY <1>2, <1>4, <1>9, <1>10, <1>12, <1>14 DEF LineSeen

Entered(m, c, left, raised, events) ==
  IF c = FlagCycles THEN EnterHblank(Acc(InCycle(m, c), left, raised, events))
  ELSE IF c = LineCycles THEN EnterNextLine(Acc(InCycle(m, c), left, raised, events))
  ELSE Acc(InCycle(m, c), left, raised, events)

LEMMA IterateIs ==
  ASSUME NEW m \in PpuState, NEW left \in Nat \ {0}, NEW raised, NEW events,
         NEW acc, acc = Acc(m, left, raised, events)
  PROVE  \E s \in 1 .. left :
           /\ ToEvent(m.cycle, s)
           /\ Iterate(acc) = Entered(m, m.cycle + s, left - s, raised, events)
<1> DEFINE event == IF m.cycle < FlagCycles THEN FlagCycles ELSE LineCycles
           step == IF left < event - m.cycle THEN left ELSE event - m.cycle
           at == [acc EXCEPT !.ppu.cycle = @ + step, !.left = @ - step]
<1>1. /\ m = [line |-> m.line, cycle |-> m.cycle, dispstat |-> m.dispstat]
      /\ m.cycle \in 0 .. LineCycles - 1
  BY DEF PpuState
<1>2. /\ LineCycles \in Nat /\ FlagCycles \in Nat /\ FlagCycles < LineCycles
  BY FrameFacts
<1>3. acc.ppu = m /\ acc.left = left
  BY DEF Acc
<1>4. step \in 1 .. left /\ ToEvent(m.cycle, step)
  BY <1>1, <1>2 DEF ToEvent
<1>5. Iterate(acc) = IF at.ppu.cycle = FlagCycles THEN EnterHblank(at)
                     ELSE IF at.ppu.cycle = LineCycles THEN EnterNextLine(at)
                     ELSE at
  BY <1>3 DEF Iterate
<1> HIDE DEF step
<1>6. PICK s \in 1 .. left : s = step
  BY <1>4
<1>7. at = Acc(InCycle(m, m.cycle + s), left - s, raised, events)
  <2>1. PICK v, w : v = m.cycle + s /\ w = left - s
    OBVIOUS
  <2>2. at = [acc EXCEPT !.ppu.cycle = v, !.left = w]
    BY <1>3, <1>6, <2>1
  <2>3. at = Stepped(acc, v, w)
    BY <2>2 DEF Stepped
  <2>4. Stepped(acc, v, w) = Acc(InCycle(m, v), w, raised, events)
    BY SteppedIs
  <2>5. QED
    BY <2>1, <2>3, <2>4
<1> HIDE DEF at
<1>8. at.ppu.cycle = m.cycle + s
  BY <1>7 DEF Acc, InCycle
<1>9. Iterate(acc) = Entered(m, m.cycle + s, left - s, raised, events)
  BY <1>5, <1>7, <1>8 DEF Entered
<1>10. QED
  BY <1>4, <1>6, <1>9

\* The locals after an HBlank, and those in a new line.
InHblank(m, left, raised, events) ==
  Acc(m, left, raised \cup (m.dispstat.irqs \cap {"hblank"}),
      Counted(IF m.line < VisibleLines THEN events.hblanks + 1 ELSE events.hblanks,
              events.vblanks, events.matches))

InLine(line, dispstat, left, raised, events) ==
  Acc([line |-> line, cycle |-> 0, dispstat |-> dispstat], left,
      raised \cup (dispstat.irqs \cap
        ((IF line = VisibleLines THEN {"vblank"} ELSE {})
           \cup (IF line = dispstat.setting THEN {"vcount"} ELSE {}))),
      Counted(events.hblanks,
              IF line = VisibleLines THEN events.vblanks + 1 ELSE events.vblanks,
              IF line = dispstat.setting THEN events.matches + 1 ELSE events.matches))

LEMMA EnterHblankIs ==
  ASSUME NEW m \in PpuState, NEW left, NEW raised, NEW events \in EventRecord,
         NEW acc, acc = Acc(m, left, raised, events)
  PROVE  EnterHblank(acc) = InHblank(m, left, raised, events)
<1>1. acc.events = events /\ acc.raised = raised /\ acc.ppu = m
  BY DEF Acc
<1>2. PICK v, w : /\ v = IF m.line < VisibleLines THEN events.hblanks + 1 ELSE events.hblanks
                  /\ w = raised \cup (m.dispstat.irqs \cap {"hblank"})
  OBVIOUS
<1>3. EnterHblank(acc) = [acc EXCEPT !.events.hblanks = v, !.raised = w]
  BY <1>1, <1>2 DEF EnterHblank
<1>4. EnterHblank(acc) = HblankSeen(acc, v, w)
  BY <1>3 DEF HblankSeen
<1>5. HblankSeen(acc, v, w) = Acc(m, left, w, Counted(v, events.vblanks, events.matches))
  BY HblankSeenIs
<1>6. QED
  BY <1>2, <1>4, <1>5 DEF InHblank

LEMMA EnterNextLineIs ==
  ASSUME NEW m, IsBeam(m), NEW left, NEW raised, NEW events \in EventRecord,
         NEW acc, acc = Acc(m, left, raised, events)
  PROVE  EnterNextLine(acc) = InLine(NextLine(m.line), m.dispstat, left, raised, events)
<1>0. PICK next, dispstat : next = NextLine(m.line) /\ dispstat = m.dispstat
  OBVIOUS
<1> DEFINE entered == (IF next = VisibleLines THEN {"vblank"} ELSE {})
                        \cup (IF next = dispstat.setting THEN {"vcount"} ELSE {})
<1>1. acc.ppu = m /\ acc.events = events /\ acc.raised = raised
  BY DEF Acc
<1>2. PICK p : p = LineStarted(m, next)
  OBVIOUS
<1>3. p = [line |-> next, cycle |-> 0, dispstat |-> dispstat]
  BY <1>0, <1>2, LineStartedIs
<1>4. /\ "vblank" \in entered <=> next = VisibleLines
      /\ "vcount" \in entered <=> next = dispstat.setting
  OBVIOUS
<1>5. (VcountMatch(p) <=> next = dispstat.setting) /\ p.dispstat = dispstat
  BY <1>3 DEF VcountMatch
<1>6. next = IF acc.ppu.line + 1 = TotalLines THEN 0 ELSE acc.ppu.line + 1
  BY <1>0, <1>1 DEF NextLine
<1>7. PICK w, x, y :
         /\ w = raised \cup (dispstat.irqs \cap entered)
         /\ x = IF next = VisibleLines THEN events.vblanks + 1 ELSE events.vblanks
         /\ y = IF next = dispstat.setting THEN events.matches + 1 ELSE events.matches
  OBVIOUS
<1>8. p = [acc.ppu EXCEPT !.line = next, !.cycle = 0]
  BY <1>1, <1>2 DEF LineStarted
<1>9. EnterNextLine(acc) =
         [acc EXCEPT !.ppu = p,
                     !.raised = @ \cup (p.dispstat.irqs \cap entered),
                     !.events.vblanks = IF "vblank" \in entered THEN @ + 1 ELSE @,
                     !.events.matches = IF "vcount" \in entered THEN @ + 1 ELSE @]
  <2> DEFINE seen == (IF next = VisibleLines THEN {"vblank"} ELSE {})
                       \cup (IF VcountMatch(p) THEN {"vcount"} ELSE {})
  <2>1. seen = entered
    BY <1>5
  <2>2. EnterNextLine(acc) =
          [acc EXCEPT !.ppu = p,
                      !.raised = @ \cup (p.dispstat.irqs \cap seen),
                      !.events.vblanks = IF "vblank" \in seen THEN @ + 1 ELSE @,
                      !.events.matches = IF "vcount" \in seen THEN @ + 1 ELSE @]
    BY ONLY <1>6, <1>8, ZenonT(60) DEF EnterNextLine
  <2> HIDE DEF seen, entered
  <2>3. QED
    BY <2>1, <2>2
<1>10. EnterNextLine(acc) =
         [acc EXCEPT !.ppu = p, !.raised = w, !.events.vblanks = x, !.events.matches = y]
  BY <1>1, <1>4, <1>5, <1>7, <1>9
<1>11. EnterNextLine(acc) = LineSeen(acc, p, w, x, y)
  BY <1>10 DEF LineSeen
<1>12. LineSeen(acc, p, w, x, y) = Acc(p, left, w, Counted(events.hblanks, x, y))
  BY LineSeenIs
<1>13. QED
  BY <1>0, <1>3, <1>7, <1>11, <1>12 DEF InLine

---------------------------------------------------------------------------
(* What a step adds.                                                        *)

\* Between two windows that end in e and in d cycles there is no edge, one
\* HBlank edge at q, or one start of a line at q.
LEMMA NothingNew ==
  ASSUME NEW p, NEW d, NEW e, HblankEdges(p, e) = HblankEdges(p, d), LineEdges(p, e) = LineEdges(p, d)
  PROVE  Raised(p, e) = Raised(p, d) /\ Events(p, e) = Events(p, d)
BY DEF Raised, Events, VblankEdges, MatchEdges

LEMMA HblankIsNew ==
  ASSUME NEW p \in PpuState, NEW d \in Nat, NEW e, NEW q, q \notin Window(p, d),
         HblankEdges(p, e) = HblankEdges(p, d) \cup {q}, LineEdges(p, e) = LineEdges(p, d)
  PROVE  /\ Raised(p, e) = Raised(p, d) \cup (p.dispstat.irqs \cap {"hblank"})
         /\ Events(p, e) = [hblanks |-> IF LineAt(q) < VisibleLines THEN Events(p, d).hblanks + 1
                                        ELSE Events(p, d).hblanks,
                            vblanks |-> Events(p, d).vblanks, matches |-> Events(p, d).matches]
<1>1. VblankEdges(p, e) = VblankEdges(p, d) /\ MatchEdges(p, e) = MatchEdges(p, d)
  BY DEF VblankEdges, MatchEdges
<1>2. Raised(p, e) = Raised(p, d) \cup (p.dispstat.irqs \cap {"hblank"})
  BY <1>1 DEF Raised
<1> DEFINE S == {x \in HblankEdges(p, d) : LineAt(x) < VisibleLines}
           T == {x \in HblankEdges(p, e) : LineAt(x) < VisibleLines}
<1>3. S \subseteq Window(p, d)
  BY DEF HblankEdges
<1>4. T = IF LineAt(q) < VisibleLines THEN S \cup {q} ELSE S
  OBVIOUS
<1>5. Events(p, e).hblanks = Cardinality(T) /\ Events(p, d).hblanks = Cardinality(S)
  BY DEF Events
<1>6. /\ Events(p, e).vblanks = Events(p, d).vblanks /\ Events(p, e).matches = Events(p, d).matches
      /\ Events(p, e) = [hblanks |-> Events(p, e).hblanks, vblanks |-> Events(p, e).vblanks,
                         matches |-> Events(p, e).matches]
  BY <1>1 DEF Events
<1> HIDE DEF S, T
<1>7. Cardinality(T) = IF LineAt(q) < VisibleLines THEN Cardinality(S) + 1 ELSE Cardinality(S)
  BY <1>3, <1>4, OneMore
<1>8. QED
  BY <1>2, <1>5, <1>6, <1>7

LEMMA LineIsNew ==
  ASSUME NEW p \in PpuState, NEW d \in Nat, NEW e, NEW q, q \notin Window(p, d),
         HblankEdges(p, e) = HblankEdges(p, d), LineEdges(p, e) = LineEdges(p, d) \cup {q}
  PROVE  /\ Raised(p, e) = Raised(p, d) \cup (p.dispstat.irqs \cap
                   ((IF LineAt(q) = VisibleLines THEN {"vblank"} ELSE {})
                      \cup (IF LineAt(q) = p.dispstat.setting THEN {"vcount"} ELSE {})))
         /\ Events(p, e) = [hblanks |-> Events(p, d).hblanks,
                  vblanks |-> IF LineAt(q) = VisibleLines THEN Events(p, d).vblanks + 1
                              ELSE Events(p, d).vblanks,
                  matches |-> IF LineAt(q) = p.dispstat.setting THEN Events(p, d).matches + 1
                              ELSE Events(p, d).matches]
<1> DEFINE V == VblankEdges(p, d)
           M == MatchEdges(p, d)
<1>1. /\ VblankEdges(p, e) = IF LineAt(q) = VisibleLines THEN V \cup {q} ELSE V
      /\ MatchEdges(p, e) = IF LineAt(q) = p.dispstat.setting THEN M \cup {q} ELSE M
  BY DEF VblankEdges, MatchEdges
<1>2. V \subseteq Window(p, d) /\ M \subseteq Window(p, d)
  BY DEF VblankEdges, MatchEdges, LineEdges
<1>3. /\ VblankEdges(p, e) # {} <=> V # {} \/ LineAt(q) = VisibleLines
      /\ MatchEdges(p, e) # {} <=> M # {} \/ LineAt(q) = p.dispstat.setting
  BY <1>1
<1>4. Raised(p, e) = Raised(p, d) \cup (p.dispstat.irqs \cap
                   ((IF LineAt(q) = VisibleLines THEN {"vblank"} ELSE {})
                      \cup (IF LineAt(q) = p.dispstat.setting THEN {"vcount"} ELSE {})))
  BY <1>3 DEF Raised
<1>5. /\ Cardinality(VblankEdges(p, e))
           = IF LineAt(q) = VisibleLines THEN Cardinality(V) + 1 ELSE Cardinality(V)
      /\ Cardinality(MatchEdges(p, e))
           = IF LineAt(q) = p.dispstat.setting THEN Cardinality(M) + 1 ELSE Cardinality(M)
  BY <1>1, <1>2, OneMore
<1>6. QED
  BY <1>4, <1>5 DEF Events

---------------------------------------------------------------------------
(* A step of the loop goes from one place of the window to a later one.      *)

LEMMA MovedIs ==
  ASSUME NEW p \in PpuState, NEW e
  PROVE  Moved(p, e) = [line |-> LineAt(FrameCycle(p) + e),
                        cycle |-> (FrameCycle(p) + e) % LineCycles, dispstat |-> p.dispstat]
<1>1. p = [line |-> p.line, cycle |-> p.cycle, dispstat |-> p.dispstat]
  BY DEF PpuState
<1>2. PICK x, y : x = LineAt(FrameCycle(p) + e) /\ y = (FrameCycle(p) + e) % LineCycles
  OBVIOUS
<1>3. Moved(p, e) = [p EXCEPT !.line = x, !.cycle = y]
  BY <1>2 DEF Moved
<1>4. PICK k : k = [p EXCEPT !.line = x]
  OBVIOUS
<1>5. k = [line |-> x, cycle |-> p.cycle, dispstat |-> p.dispstat]
  BY <1>1, <1>4
<1>6. [k EXCEPT !.cycle = y] = [line |-> x, cycle |-> y, dispstat |-> p.dispstat]
  BY <1>5
<1>7. [p EXCEPT !.line = x, !.cycle = y] = [[p EXCEPT !.line = x] EXCEPT !.cycle = y]
  OBVIOUS
<1>8. QED
  BY <1>2, <1>3, <1>4, <1>6, <1>7

LEMMA NextLineModulo ==
  ASSUME NEW k \in Nat
  PROVE  (k + 1) % TotalLines = NextLine(k % TotalLines)
<1>1. PICK x \in 0 .. TotalLines - 1 : x = k % TotalLines
  BY FrameFacts, Division
<1>2. (x + 1) % TotalLines = (k + 1) % TotalLines
  <2>1. PICK b \in Int : b = 1
    OBVIOUS
  <2>2. k \in Int /\ TotalLines \in Nat \ {0}
    BY FrameFacts
  <2>3. ((k % TotalLines) + b) % TotalLines = (k + b) % TotalLines
    BY <2>2, AddRemainder, ZenonT(30)
  <2>4. QED
    BY <1>1, <2>1, <2>3
<1>3. CASE x + 1 = TotalLines
  <2>1. TotalLines = 1 * TotalLines + 0 /\ 0 \in 0 .. TotalLines - 1
    BY FrameFacts
  <2>2. TotalLines % TotalLines = 0
    BY <2>1, FrameFacts, Remainder
  <2>3. QED
    BY <1>1, <1>2, <1>3, <2>2 DEF NextLine
<1>4. CASE x + 1 # TotalLines
  <2>1. x + 1 \in 0 .. TotalLines - 1
    BY <1>4, FrameFacts
  <2>2. (x + 1) % TotalLines = x + 1
    BY <2>1, FrameFacts, SmallRemainder
  <2>3. QED
    BY <1>1, <1>2, <1>4, <2>2 DEF NextLine
<1>5. QED
  BY <1>3, <1>4

LEMMA IterateStep ==
  ASSUME NEW p \in PpuState, NEW n \in Nat, NEW d \in Nat, d < n
  PROVE  \E s \in 1 .. n - d : Iterate(At(p, d, n)) = At(p, d + s, n)
<1>1. PICK k \in Nat, c \in 0 .. LineCycles - 1 : Reaches(p, d, Moved(p, d), k, c)
  BY MovedAt
<1>2. PICK m : m = Moved(p, d)
  OBVIOUS
<1>3. /\ m = [line |-> k % TotalLines, cycle |-> c, dispstat |-> p.dispstat] /\ m \in PpuState
      /\ FrameCycle(p) \in Nat
  BY <1>1, <1>2 DEF Reaches
<1>4. /\ m.line = k % TotalLines /\ m.cycle = c /\ m.dispstat = p.dispstat
  BY <1>3
<1>5a. PICK left \in Nat \ {0} : left = n - d
  OBVIOUS
<1>5b. PICK events \in EventRecord : events = Events(p, d)
  BY EventsType
<1>5c. PICK raised : raised = Raised(p, d)
  OBVIOUS
<1>5. left = n - d /\ raised = Raised(p, d) /\ events = Events(p, d)
  BY <1>5a, <1>5b, <1>5c
<1>6. PICK acc : acc = At(p, d, n) /\ acc = Acc(m, left, raised, events)
  BY <1>2, <1>5 DEF At
<1>7. PICK s \in 1 .. left : /\ ToEvent(c, s)
                             /\ Iterate(acc) = Entered(m, c + s, left - s, raised, events)
  <2>1. \E s \in 1 .. left : /\ ToEvent(m.cycle, s)
                             /\ Iterate(acc) = Entered(m, m.cycle + s, left - s, raised, events)
    BY <1>3, <1>6, IterateIs
  <2>2. QED
    BY <1>4, <2>1
<1>8. NewEdges(p, d, s, k, c)
  BY <1>1, <1>7, EdgesAreNew
<1>9. PICK e \in Nat, q \in Nat, w \in Nat :
        e = d + s /\ q = FrameCycle(p) + d + s /\ w = left - s
  <2>1. d + s \in Nat /\ FrameCycle(p) + d + s \in Nat /\ left - s \in Nat
    BY <1>3, <1>5, <1>7
  <2>2. QED
    BY <2>1
<1>10. w = n - e /\ q = FrameCycle(p) + e /\ c + s \in Nat /\ s \in 1 .. n - d
  BY <1>3, <1>5, <1>7, <1>9, FrameFacts
<1>11. /\ HblankEdges(p, e) = HblankEdges(p, d) \cup (IF c + s = FlagCycles THEN {q} ELSE {})
       /\ LineEdges(p, e) = LineEdges(p, d) \cup (IF c + s = LineCycles THEN {q} ELSE {})
       /\ LineAt(q) = (IF c + s = LineCycles THEN k + 1 ELSE k) % TotalLines
       /\ q % LineCycles = IF c + s = LineCycles THEN 0 ELSE c + s
       /\ q \notin Window(p, d)
  BY <1>8, <1>9 DEF NewEdges
<1>12. Moved(p, e) = [line |-> LineAt(q), cycle |-> q % LineCycles, dispstat |-> p.dispstat]
  BY <1>10, MovedIs
<1>13. Iterate(acc) = Entered(m, c + s, w, raised, events)
  BY <1>7, <1>9
<1>14. PICK y : y = InCycle(m, c + s)
  OBVIOUS
<1>15. y = [line |-> k % TotalLines, cycle |-> c + s, dispstat |-> p.dispstat]
  BY <1>4, <1>14 DEF InCycle
<1>16. PICK b : b = Acc(y, w, raised, events)
  OBVIOUS
<1>17. Iterate(acc) = At(p, e, n)
  <2>1. CASE c + s = FlagCycles
    <3>1. c + s # LineCycles
      BY <2>1, FrameFacts
    <3>2. y = Moved(p, e) /\ LineAt(q) = y.line /\ y.dispstat = p.dispstat
      BY <1>11, <1>12, <1>15, <3>1
    <3>3. y \in PpuState
      <4>1. m.line \in 0 .. TotalLines - 1 /\ p.dispstat \in Dispstat
        BY <1>3 DEF PpuState
      <4>2. c + s \in 0 .. LineCycles - 1
        BY <2>1, FrameFacts
      <4>3. QED
        BY <1>4, <1>15, <4>1, <4>2 DEF PpuState
    <3>4. HblankEdges(p, e) = HblankEdges(p, d) \cup {q} /\ LineEdges(p, e) = LineEdges(p, d)
      BY <1>11, <2>1, <3>1
    <3>5. /\ Raised(p, e) = raised \cup (p.dispstat.irqs \cap {"hblank"})
          /\ Events(p, e) = Counted(IF LineAt(q) < VisibleLines THEN events.hblanks + 1
                                    ELSE events.hblanks, events.vblanks, events.matches)
      BY <1>5, <1>11, <3>4, HblankIsNew DEF Counted
    <3>6. Iterate(acc) = EnterHblank(b)
      BY <1>13, <1>14, <1>16, <2>1 DEF Entered
    <3>7. EnterHblank(b) = InHblank(y, w, raised, events)
      BY <1>16, <3>3, EnterHblankIs
    <3>8. EnterHblank(b) = Acc(y, w, Raised(p, e), Events(p, e))
      BY <3>2, <3>5, <3>7 DEF InHblank
    <3>9. QED
      BY <1>10, <3>2, <3>6, <3>8 DEF At
  <2>2. CASE c + s = LineCycles
    <3>1. c + s # FlagCycles
      BY <2>2, FrameFacts
    <3>2. PICK next : next = NextLine(k % TotalLines)
      OBVIOUS
    <3>3. LineAt(q) = next /\ q % LineCycles = 0
      BY <1>11, <2>2, <3>2, NextLineModulo
    <3>4. HblankEdges(p, e) = HblankEdges(p, d) /\ LineEdges(p, e) = LineEdges(p, d) \cup {q}
      BY <1>11, <2>2, <3>1
    <3>5. /\ Raised(p, e) = raised \cup (p.dispstat.irqs \cap
                 ((IF next = VisibleLines THEN {"vblank"} ELSE {})
                    \cup (IF next = p.dispstat.setting THEN {"vcount"} ELSE {})))
          /\ Events(p, e) =
               Counted(events.hblanks,
                       IF next = VisibleLines THEN events.vblanks + 1 ELSE events.vblanks,
                       IF next = p.dispstat.setting THEN events.matches + 1 ELSE events.matches)
      BY <1>5, <1>11, <3>3, <3>4, LineIsNew DEF Counted
    <3>6. Iterate(acc) = EnterNextLine(b)
      BY <1>13, <1>14, <1>16, <2>2, <3>1 DEF Entered
    <3>7. EnterNextLine(b) = InLine(next, p.dispstat, w, raised, events)
      <4>1. IsBeam(y) /\ y.line = k % TotalLines /\ y.dispstat = p.dispstat
        BY <1>15 DEF IsBeam
      <4>2. EnterNextLine(b) = InLine(NextLine(y.line), y.dispstat, w, raised, events)
        BY <1>16, <4>1, EnterNextLineIs
      <4>3. QED
        BY <3>2, <4>1, <4>2
    <3>8. EnterNextLine(b) = Acc(Moved(p, e), w, Raised(p, e), Events(p, e))
      BY <1>12, <3>3, <3>5, <3>7 DEF InLine
    <3>9. QED
      BY <1>10, <3>6, <3>8 DEF At
  <2>3. CASE c + s # FlagCycles /\ c + s # LineCycles
    <3>1. Moved(p, e) = y
      BY <1>11, <1>12, <1>15, <2>3
    <3>2. HblankEdges(p, e) = HblankEdges(p, d) /\ LineEdges(p, e) = LineEdges(p, d)
      BY <1>11, <2>3
    <3>3. Raised(p, e) = raised /\ Events(p, e) = events
      BY <1>5, <3>2, NothingNew
    <3>4. Iterate(acc) = b
      BY <1>13, <1>14, <1>16, <2>3 DEF Entered
    <3>5. QED
      BY <1>10, <1>16, <3>1, <3>3, <3>4 DEF At
  <2>4. QED
    BY <2>1, <2>2, <2>3
<1>18. QED
  BY <1>6, <1>9, <1>10, <1>17

---------------------------------------------------------------------------
(* The whole loop.                                                          *)

LoopStart(p, n) == Acc(p, n, {}, NoEvents)
LoopStep(prev) == IF prev.left = 0 THEN prev ELSE Iterate(prev)

\* f holds the locals of the loop after each of its first j iterations.
Iterates(f, p, n, j) ==
  f = [i \in 0 .. j |-> IF i = 0 THEN LoopStart(p, n) ELSE LoopStep(f[i - 1])]

LEMMA IteratesExist ==
  ASSUME NEW p, NEW n, NEW j \in Nat
  PROVE  \E f : Iterates(f, p, n, j)
<1> DEFINE S == {k \in Nat : ~\E f : Iterates(f, p, n, k)}
<1>1. SUFFICES ASSUME S # {} PROVE FALSE
  OBVIOUS
<1>2. PICK k \in S : \A y \in S : k <= y
  BY <1>1, LeastExists
<1>3. k # 0
  <2>1. Iterates([i \in 0 .. 0 |-> LoopStart(p, n)], p, n, 0)
    BY DEF Iterates
  <2>2. QED
    BY <1>2, <2>1
<1>4. k \in Nat /\ k - 1 \in Nat /\ k - 1 \notin S
  BY <1>2, <1>3
<1>5. PICK f : Iterates(f, p, n, k - 1)
  BY <1>4
<1>6. PICK e : e = [i \in 0 .. k |-> IF i < k THEN f[i] ELSE LoopStep(f[k - 1])]
  OBVIOUS
<1>7. ASSUME NEW i \in 0 .. k
      PROVE  e[i] = IF i = 0 THEN LoopStart(p, n) ELSE LoopStep(e[i - 1])
  <2>1. CASE i = 0
    <3>1. e[0] = f[0] /\ f[0] = LoopStart(p, n)
      BY <1>3, <1>4, <1>5, <1>6 DEF Iterates
    <3>2. QED
      BY <2>1, <3>1
  <2>2. CASE i # 0 /\ i < k
    <3>1. i \in 0 .. k - 1 /\ i - 1 \in 0 .. k /\ i - 1 < k
      BY <1>4, <2>2
    <3>2. e[i] = f[i] /\ e[i - 1] = f[i - 1]
      BY <1>6, <2>2, <3>1
    <3>3. f[i] = LoopStep(f[i - 1])
      BY <1>5, <2>2, <3>1 DEF Iterates
    <3>4. QED
      BY <2>2, <3>2, <3>3
  <2>3. CASE i = k
    <3>1. e[k] = LoopStep(f[k - 1]) /\ e[k - 1] = f[k - 1]
      BY <1>4, <1>6
    <3>2. QED
      BY <1>3, <2>3, <3>1
  <2>4. QED
    BY <1>4, <2>1, <2>2, <2>3
<1>8. Iterates(e, p, n, k)
  <2>1. e = [i \in 0 .. k |-> e[i]]
    BY <1>6
  <2>2. QED
    BY <1>7, <2>1 DEF Iterates
<1>9. QED
  BY <1>2, <1>8

\* Before the first cycle nothing has happened.
LEMMA AtStart ==
  ASSUME NEW p \in PpuState, NEW n \in Nat
  PROVE  At(p, 0, n) = LoopStart(p, n)
<1>1. p.line \in Nat /\ p.cycle \in 0 .. LineCycles - 1 /\ p.line \in 0 .. TotalLines - 1
  BY FrameFacts DEF PpuState
<1>2. FrameCycle(p) \in Nat /\ FrameCycle(p) + 0 = p.line * LineCycles + p.cycle
  <2>1. p.line * LineCycles \in Nat
    BY <1>1, FrameFacts
  <2>2. QED
    BY <1>1, <2>1 DEF FrameCycle
<1>3. LineAt(FrameCycle(p) + 0) = p.line /\ (FrameCycle(p) + 0) % LineCycles = p.cycle
  <2>1. FrameCycle(p) + 0 \in Int /\ p.line \in Int
    BY <1>1, <1>2
  <2>2. (FrameCycle(p) + 0) \div LineCycles = p.line /\ (FrameCycle(p) + 0) % LineCycles = p.cycle
    BY <1>1, <1>2, <2>1, FrameFacts, Remainder
  <2>3. p.line % TotalLines = p.line
    BY <1>1, FrameFacts, SmallRemainder
  <2>4. QED
    BY <2>2, <2>3 DEF LineAt
<1>4. Moved(p, 0) = p
  <2>1. Moved(p, 0) = [line |-> p.line, cycle |-> p.cycle, dispstat |-> p.dispstat]
    BY <1>3, MovedIs
  <2>2. QED
    BY <2>1 DEF PpuState
<1>5. Window(p, 0) = {}
  BY <1>2 DEF Window
<1>6. HblankEdges(p, 0) = {} /\ LineEdges(p, 0) = {} /\ VblankEdges(p, 0) = {} /\ MatchEdges(p, 0) = {}
  BY <1>5 DEF HblankEdges, LineEdges, VblankEdges, MatchEdges
<1>7. Raised(p, 0) = {}
  BY <1>6 DEF Raised
<1>8. Events(p, 0) = NoEvents
  <2>1. {q \in HblankEdges(p, 0) : LineAt(q) < VisibleLines} = {}
    BY <1>6
  <2>2. Cardinality({}) = 0
    BY FS_EmptySet
  <2>3. QED
    BY <1>6, <2>1, <2>2 DEF Events, NoEvents
<1>9. n - 0 = n
  OBVIOUS
<1>10. QED
  BY <1>4, <1>7, <1>8, <1>9 DEF At, LoopStart

\* Each iteration takes the loop at least a cycle further.
LEMMA IteratesAdvance ==
  ASSUME NEW p \in PpuState, NEW n \in Nat, NEW f, Iterates(f, p, n, n), NEW j \in 0 .. n
  PROVE  \E d \in j .. n : f[j] = At(p, d, n)
<1> DEFINE S == {i \in 0 .. n : ~\E d \in i .. n : f[i] = At(p, d, n)}
<1>1. SUFFICES ASSUME S # {} PROVE FALSE
  OBVIOUS
<1>2. PICK k \in S : \A y \in S : k <= y
  <2>1. S \in SUBSET Nat
    OBVIOUS
  <2> HIDE DEF S
  <2>2. QED
    BY <1>1, <2>1, LeastExists
<1>3. k # 0
  <2>1. f[0] = At(p, 0, n) /\ 0 \in 0 .. n
    BY AtStart DEF Iterates
  <2>2. QED
    BY <1>2, <2>1
<1>4. k \in 1 .. n /\ k - 1 \in 0 .. n /\ k - 1 \notin S
  BY <1>2, <1>3
<1>5. PICK d \in k - 1 .. n : f[k - 1] = At(p, d, n)
  BY <1>4
<1>6. f[k] = LoopStep(At(p, d, n)) /\ d \in Nat
  BY <1>4, <1>5 DEF Iterates
<1>7. At(p, d, n).left = n - d
  BY DEF At, Acc
<1>8. CASE d = n
  <2>1. f[k] = At(p, n, n) /\ n \in k .. n
    BY <1>4, <1>6, <1>7, <1>8 DEF LoopStep
  <2>2. QED
    BY <1>2, <2>1
<1>9. CASE d # n
  <2>1. d < n /\ n - d # 0
    BY <1>4, <1>5, <1>9
  <2>2. PICK s \in 1 .. n - d : Iterate(At(p, d, n)) = At(p, d + s, n)
    BY <1>6, <2>1, IterateStep
  <2>3. d + s \in k .. n
    BY <1>4, <1>5, <2>1
  <2>4. f[k] = At(p, d + s, n)
    BY <1>6, <1>7, <2>1, <2>2 DEF LoopStep
  <2>5. QED
    BY <1>2, <2>3, <2>4
<1>10. QED
  BY <1>8, <1>9

LEMMA TickLoopIs ==
  ASSUME NEW p \in PpuState, NEW n \in Nat
  PROVE  TickLoop(p, n) = At(p, n, n)
<1> DEFINE F(f) == f = [i \in 0 .. n |-> IF i = 0 THEN [ppu |-> p, left |-> n, raised |-> {}, events |-> NoEvents]
                                       ELSE LET prev == f[i - 1] IN IF prev.left = 0 THEN prev ELSE Iterate(prev)]
           acc == CHOOSE f : F(f)
<1>1. \A f : F(f) <=> Iterates(f, p, n, n)
  BY DEF Iterates, LoopStart, LoopStep, Acc
<1>2. F(acc)
  <2>1. \E f : F(f)
    BY <1>1, IteratesExist
  <2> HIDE DEF F
  <2>2. QED
    BY <2>1
<1>3. TickLoop(p, n) = acc[n]
  BY DEF TickLoop
<1> HIDE DEF acc, F
<1>4. Iterates(acc, p, n, n) /\ n \in 0 .. n
  BY <1>1, <1>2
<1>5. PICK d \in n .. n : acc[n] = At(p, d, n)
  BY <1>4, IteratesAdvance
<1>6. d = n
  OBVIOUS
<1>7. QED
  BY <1>3, <1>5, <1>6

\* The loop of PpuTiming::tick sees every edge of its window once, whatever
\* the sizes of the frame, the position it starts from and the length of the
\* window.
THEOREM EveryEdgeIsSeen == WaitSpec => []LoopSeesEveryEdge
<1>1. Shape => LoopSeesEveryEdge
  <2> SUFFICES ASSUME Shape, NEW p, p = [ppu EXCEPT !.dispstat.irqs = Sources],
                      NEW n \in 0 .. FrameCycles + LineCycles
               PROVE  TickLoop(p, n) = [ppu |-> Moved(p, n), left |-> 0,
                                        raised |-> Raised(p, n), events |-> Events(p, n)]
    BY DEF LoopSeesEveryEdge
  <2>1. n \in Nat
    BY FrameFacts
  <2>2. p \in PpuState
    BY ShapeFacts DEF PpuState, Dispstat
  <2>3. TickLoop(p, n) = At(p, n, n) /\ n - n = 0
    BY <2>1, <2>2, TickLoopIs
  <2>4. QED
    BY <2>3 DEF At, Acc
<1>2. QED
  BY <1>1, ShapeHolds, PTL
=============================================================================
