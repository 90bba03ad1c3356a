----------------------------- MODULE CpuProofs -----------------------------
(***************************************************************************)
(* For every set of modes and registers: the register banks are well typed *)
(* and together form the banked file of RegisterFile (BanksHold). For      *)
(* every program, and calls and exceptions nested to any depth: each       *)
(* returns to where it came from (CallsReturn).                            *)
(***************************************************************************)
EXTENDS RegisterBanks, CallReturn, SequenceTheorems, TLAPS

Highs == [HighBanks -> [SharedRegs -> Values]]
Slots == [Banks -> [BankedRegs -> Values]]
Cpus == [mode : Modes, live : [Regs -> Values], high : Highs, slot : Slots]

\* Records updated in one or two fields.
LEMMA LiveUpdated ==
  ASSUME NEW c \in Cpus, NEW X
  PROVE  [c EXCEPT !.live = X] = [mode |-> c.mode, live |-> X, high |-> c.high, slot |-> c.slot]
BY DEF Cpus

LEMMA BanksUpdated ==
  ASSUME NEW c \in Cpus, NEW X, NEW Y
  PROVE  [c EXCEPT !.high = X, !.slot = Y]
           = [mode |-> c.mode, live |-> c.live, high |-> X, slot |-> Y]
<1> DEFINE d == [c EXCEPT !.high = X, !.slot = Y]
<1>1. c = [mode |-> c.mode, live |-> c.live, high |-> c.high, slot |-> c.slot]
  BY DEF Cpus
<1>2. DOMAIN c = {"mode", "live", "high", "slot"}
  BY <1>1
<1>3. d.mode = c.mode /\ d.live = c.live /\ d.high = X /\ d.slot = Y
  BY <1>2
<1>4. d = [f \in {"mode", "live", "high", "slot"} |-> d[f]]
  BY <1>2, Zenon
<1> HIDE DEF d
<1>5. d = [mode |-> d.mode, live |-> d.live, high |-> d.high, slot |-> d.slot]
  BY <1>4
<1>6. d = [mode |-> c.mode, live |-> c.live, high |-> X, slot |-> Y]
  BY <1>3, <1>5
<1>7. QED
  BY <1>6 DEF d

LEMMA UserBankUpdated ==
  ASSUME NEW c \in Cpus, NEW X, NEW Y
  PROVE  [c EXCEPT !.live = X, !.slot = Y]
           = [mode |-> c.mode, live |-> X, high |-> c.high, slot |-> Y]
<1> DEFINE d == [c EXCEPT !.live = X, !.slot = Y]
<1>1. c = [mode |-> c.mode, live |-> c.live, high |-> c.high, slot |-> c.slot]
  BY DEF Cpus
<1>2. DOMAIN c = {"mode", "live", "high", "slot"}
  BY <1>1
<1>3. d.mode = c.mode /\ d.live = X /\ d.high = c.high /\ d.slot = Y
  BY <1>2
<1>4. d = [f \in {"mode", "live", "high", "slot"} |-> d[f]]
  BY <1>2, Zenon
<1> HIDE DEF d
<1>5. d = [mode |-> d.mode, live |-> d.live, high |-> d.high, slot |-> d.slot]
  BY <1>4
<1>6. d = [mode |-> c.mode, live |-> X, high |-> c.high, slot |-> Y]
  BY <1>3, <1>5
<1>7. QED
  BY <1>6 DEF d

\* What save_banked_registers and load_banked_registers do, field by field.
SavedFields(c, d) ==
  /\ d \in Cpus /\ d.mode = c.mode /\ d.live = c.live
  /\ d.high = [c.high EXCEPT ![HighBank(c.mode)] = [r \in SharedRegs |-> c.live[r]]]
  /\ d.slot = [c.slot EXCEPT ![BankOf(c.mode)] = [r \in BankedRegs |-> c.live[r]]]

LEMMA SaveFields ==
  ASSUME NEW c \in Cpus PROVE SavedFields(c, SaveBanked(c))
<1>1. c.mode \in Modes /\ c.live \in [Regs -> Values] /\ c.high \in Highs /\ c.slot \in Slots
  BY DEF Cpus
<1>2. HighBank(c.mode) \in HighBanks /\ BankOf(c.mode) \in Banks
  BY <1>1 DEF HighBanks, Banks
<1>3. [r \in SharedRegs |-> c.live[r]] \in [SharedRegs -> Values]
  BY <1>1 DEF Regs
<1>4. [r \in BankedRegs |-> c.live[r]] \in [BankedRegs -> Values]
  BY <1>1 DEF Regs
<1>5. [c.high EXCEPT ![HighBank(c.mode)] = [r \in SharedRegs |-> c.live[r]]] \in Highs
  BY <1>1, <1>2, <1>3 DEF Highs
<1>6. [c.slot EXCEPT ![BankOf(c.mode)] = [r \in BankedRegs |-> c.live[r]]] \in Slots
  BY <1>1, <1>2, <1>4 DEF Slots
<1>7. SaveBanked(c) = [mode |-> c.mode, live |-> c.live,
         high |-> [c.high EXCEPT ![HighBank(c.mode)] = [r \in SharedRegs |-> c.live[r]]],
         slot |-> [c.slot EXCEPT ![BankOf(c.mode)] = [r \in BankedRegs |-> c.live[r]]]]
  BY BanksUpdated DEF SaveBanked
<1>8. QED
  BY <1>1, <1>5, <1>6, <1>7 DEF SavedFields, Cpus

\* The live registers that mode m gets from the banks of c.
LiveOf(c, m) ==
  [r \in Regs |-> IF r \in SharedRegs THEN c.high[HighBank(m)][r] ELSE c.slot[BankOf(m)][r]]

LEMMA LiveOfType ==
  ASSUME NEW c \in Cpus, NEW m \in Modes PROVE LiveOf(c, m) \in [Regs -> Values]
<1>1. c.high \in Highs /\ c.slot \in Slots
  BY DEF Cpus
<1>2. HighBank(m) \in HighBanks /\ BankOf(m) \in Banks
  BY DEF HighBanks, Banks
<1>3. \A r \in SharedRegs : c.high[HighBank(m)][r] \in Values
  BY <1>1, <1>2 DEF Highs
<1>4. \A r \in BankedRegs : c.slot[BankOf(m)][r] \in Values
  BY <1>1, <1>2 DEF Slots
<1>5. QED
  BY <1>3, <1>4 DEF LiveOf, Regs

\* switch_mode to another mode, field by field.
SwitchedFields(c, d, m) ==
  /\ d \in Cpus /\ d.mode = m
  /\ d.high = [c.high EXCEPT ![HighBank(c.mode)] = [r \in SharedRegs |-> c.live[r]]]
  /\ d.slot = [c.slot EXCEPT ![BankOf(c.mode)] = [r \in BankedRegs |-> c.live[r]]]
  /\ d.live = LiveOf(d, m)

LEMMA SwitchFields ==
  ASSUME NEW c \in Cpus, NEW m \in Modes, c.mode # m
  PROVE  SwitchedFields(c, Switched(c, m), m)
<1> DEFINE s == SaveBanked(c)
           t == [s EXCEPT !.mode = m]
<1>1. SavedFields(c, s)
  BY SaveFields
<1>2. t = [mode |-> m, live |-> s.live, high |-> s.high, slot |-> s.slot]
  BY <1>1 DEF SavedFields, Cpus
<1>3. t \in Cpus
  BY <1>1, <1>2 DEF SavedFields, Cpus
<1>4. Switched(c, m) = LoadBanked(t)
  BY DEF Switched
<1>5. LoadBanked(t) = [mode |-> t.mode, live |-> LiveOf(t, t.mode), high |-> t.high, slot |-> t.slot]
  BY <1>3, LiveUpdated DEF LoadBanked, LiveOf
<1>6. LiveOf(t, m) \in [Regs -> Values]
  BY <1>3, LiveOfType
<1>7. t.mode = m /\ t.high = s.high /\ t.slot = s.slot
  BY <1>2
<1>8. LoadBanked(t) \in Cpus
  BY <1>3, <1>5, <1>6, <1>7 DEF Cpus
<1>9. LiveOf(LoadBanked(t), m) = LiveOf(t, m)
  BY <1>5 DEF LiveOf
<1>10. QED
  BY <1>1, <1>4, <1>5, <1>7, <1>8, <1>9 DEF SwitchedFields, SavedFields

LEMMA SwitchedType ==
  ASSUME NEW c \in Cpus, NEW m \in Modes
  PROVE  Switched(c, m) \in Cpus /\ Switched(c, m).mode = m
<1>1. CASE c.mode = m
  BY <1>1 DEF Switched
<1>2. CASE c.mode # m
  BY <1>2, SwitchFields DEF SwitchedFields
<1>3. QED
  BY <1>1, <1>2
---------------------------------------------------------------------------
(* Every action keeps the types.                                            *)

LEMMA AssignedFields ==
  ASSUME NEW c \in Cpus, NEW w \in Lists
  PROVE  /\ Assigned(c, w) \in Cpus
         /\ Assigned(c, w) = [mode |-> c.mode, high |-> c.high, slot |-> c.slot,
              live |-> [r \in Regs |-> IF r \in DOMAIN w THEN w[r] ELSE c.live[r]]]
<1> DEFINE X == [r \in Regs |-> IF r \in DOMAIN w THEN w[r] ELSE c.live[r]]
<1>1. c.mode \in Modes /\ c.live \in [Regs -> Values] /\ c.high \in Highs /\ c.slot \in Slots
  BY DEF Cpus
<1>2. X \in [Regs -> Values]
  BY <1>1 DEF Lists
<1>3. Assigned(c, w) = [c EXCEPT !.live = X]
  BY DEF Assigned
<1>4. Assigned(c, w) = [mode |-> c.mode, live |-> X, high |-> c.high, slot |-> c.slot]
  BY <1>3, LiveUpdated
<1>5. QED
  BY <1>1, <1>2, <1>4 DEF Cpus

LEMMA OneType ==
  ASSUME NEW r \in Regs, NEW v \in Values
  PROVE  One(r, v) \in Lists
<1>1. {r} \in SUBSET Regs
  OBVIOUS
<1>2. One(r, v) \in [{r} -> Values]
  BY DEF One
<1>3. QED
  BY <1>1, <1>2 DEF Lists

LEMMA LinkedType ==
  ASSUME NEW c \in Cpus, NEW m \in Modes, NEW v \in Values
  PROVE  Linked(c, m, v) \in Cpus
<1>1. LinkReg \in Regs
  BY RegsAssumption DEF Regs
<1>2. QED
  BY <1>1, SwitchedType, OneType, AssignedFields DEF Linked

LEMMA WriteUserBankType ==
  ASSUME NEW c \in Cpus, NEW w \in Lists
  PROVE  WriteUserBank(c, w) \in Cpus /\ WriteUserBank(c, w).mode = c.mode
<1> DEFINE L == [r \in Regs |-> IF r \in SharedRegs /\ r \in DOMAIN w THEN w[r] ELSE c.live[r]]
           U == [r \in BankedRegs |-> IF r \in DOMAIN w THEN w[r] ELSE c.slot["usr"][r]]
           S == [c.slot EXCEPT !["usr"] = U]
<1>1. c.mode \in Modes /\ c.live \in [Regs -> Values] /\ c.high \in Highs /\ c.slot \in Slots
  BY DEF Cpus
<1>2. "usr" \in Banks
  BY ModesAssumption DEF Banks, BankOf
<1>3. \A r \in DOMAIN w : w[r] \in Values
  BY DEF Lists
<1>4. L \in [Regs -> Values]
  BY <1>1, <1>3
<1>5. U \in [BankedRegs -> Values]
  BY <1>1, <1>2, <1>3 DEF Slots
<1>6. S \in Slots
  BY <1>1, <1>2, <1>5 DEF Slots
<1>7. WriteUserBank(c, w) = [c EXCEPT !.live = L, !.slot = S]
  BY DEF WriteUserBank
<1> HIDE DEF L, S
<1>8. WriteUserBank(c, w) = [mode |-> c.mode, live |-> L, high |-> c.high, slot |-> S]
  BY <1>7, UserBankUpdated
<1>9. QED
  BY <1>1, <1>4, <1>6, <1>8 DEF Cpus

LEMMA UserLoadedType ==
  ASSUME NEW c \in Cpus, NEW w \in Lists, NEW b \in Bases, NEW m \in Modes
  PROVE  UserLoaded(c, w, b, m) \in Cpus
<1>1. b \in Lists
  BY DEF Bases, Lists
<1>2. QED
  BY <1>1, SwitchedType, WriteUserBankType, AssignedFields DEF UserLoaded

LEMMA InitType == Init => TypeOK
<1> SUFFICES ASSUME Init PROVE TypeOK
  OBVIOUS
<1>1. PICK v \in Values :
        cpu = [mode |-> "sys", live |-> [r \in Regs |-> v],
               high |-> [b \in HighBanks |-> [r \in SharedRegs |-> v]],
               slot |-> [b \in Banks |-> [r \in BankedRegs |-> v]]]
  BY DEF Init
<1>2. cpu \in Cpus
  BY <1>1, ModesAssumption DEF Cpus, Highs, Slots
<1>3. spsr \in [SpsrModes -> Modes \cup {BadMode}]
  BY DEF Init
<1>4. QED
  BY <1>2, <1>3 DEF TypeOK, Cpus, Highs, Slots

LEMMA NextType == TypeOK /\ [Next]_vars => TypeOK'
<1> SUFFICES ASSUME TypeOK, [Next]_vars PROVE TypeOK'
  OBVIOUS
<1>0. cpu \in Cpus /\ spsr \in [SpsrModes -> Modes \cup {BadMode}]
  BY DEF TypeOK, Cpus, Highs, Slots
<1>m. cpu.mode \in Modes
  BY <1>0 DEF Cpus
<1> SUFFICES cpu' \in Cpus /\ spsr' \in [SpsrModes -> Modes \cup {BadMode}]
  BY DEF TypeOK, Cpus, Highs, Slots
<1>1. ASSUME NEW r \in Regs, NEW v \in Values, SetRegister(r, v)
      PROVE  cpu' \in Cpus /\ spsr' \in [SpsrModes -> Modes \cup {BadMode}]
  BY <1>0, <1>1, OneType, AssignedFields DEF SetRegister
<1>2. ASSUME NEW m \in Modes, MsrCpsr(m)
      PROVE  cpu' \in Cpus /\ spsr' \in [SpsrModes -> Modes \cup {BadMode}]
  BY <1>0, <1>2, SwitchedType DEF MsrCpsr
<1>3. ASSUME NEW m \in Modes \cup {BadMode}, MsrSpsr(m)
      PROVE  cpu' \in Cpus /\ spsr' \in [SpsrModes -> Modes \cup {BadMode}]
  BY <1>0, <1>3 DEF MsrSpsr
<1>4. ASSUME NEW m \in SpsrModes, NEW value \in Values, EnterException(m, value)
      PROVE  cpu' \in Cpus /\ spsr' \in [SpsrModes -> Modes \cup {BadMode}]
  <2>1. m \in Modes
    BY DEF SpsrModes
  <2>2. QED
    BY <1>0, <1>m, <1>4, <2>1, LinkedType DEF EnterException
<1>5. ASSUME ReturnFromException
      PROVE  cpu' \in Cpus /\ spsr' \in [SpsrModes -> Modes \cup {BadMode}]
  BY <1>0, <1>5, SwitchedType DEF ReturnFromException
<1>6. ASSUME NEW w \in Lists, NEW b \in Bases, NEW m \in Modes, LoadUserBank(w, b, m)
      PROVE  cpu' \in Cpus /\ spsr' \in [SpsrModes -> Modes \cup {BadMode}]
  BY <1>0, <1>6, UserLoadedType DEF LoadUserBank
<1>7. ASSUME UNCHANGED vars
      PROVE  cpu' \in Cpus /\ spsr' \in [SpsrModes -> Modes \cup {BadMode}]
  BY <1>0, <1>7 DEF vars
<1>8. QED
  BY <1>1, <1>2, <1>3, <1>4, <1>5, <1>6, <1>7 DEF Next

\* The live registers and every slot hold register values, and a saved PSR
\* names a mode or none, whatever programs and exceptions do.
THEOREM TypeCorrect == Spec => []TypeOK
BY InitType, NextType, PTL DEF Spec

---------------------------------------------------------------------------
(* The banks are a banked register file.                                    *)

\* The value of a physical register.
ValueOf(c, p) ==
  IF p = File!Physical(c.mode, p[2]) THEN c.live[p[2]]
  ELSE IF p[2] \in SharedRegs THEN c.high[p[1]][p[2]] ELSE c.slot[p[1]][p[2]]

\* A physical register is a bank and a register that the bank holds.
LEMMA PhysicalShape ==
  ASSUME NEW p \in File!PhysicalRegs
  PROVE  /\ p = <<p[1], p[2]>> /\ p[2] \in Regs
         /\ p[2] \in SharedRegs => p[1] \in HighBanks
         /\ p[2] \notin SharedRegs => p[1] \in Banks
<1>1. PICK m \in Modes, r \in Regs : p = File!Physical(m, r)
  BY DEF File!PhysicalRegs, File!Regs, Regs
<1>2. p = <<IF r \in SharedRegs THEN HighBank(m) ELSE BankOf(m), r>>
  BY <1>1 DEF File!Physical, File!HighBank, File!BankOf, HighBank, BankOf
<1>3. QED
  BY <1>2 DEF HighBanks, Banks

\* Whether a mode sees a physical register.
LEMMA PhysicalOf ==
  ASSUME NEW p \in File!PhysicalRegs, NEW m \in Modes
  PROVE  p = File!Physical(m, p[2])
           <=> p[1] = IF p[2] \in SharedRegs THEN HighBank(m) ELSE BankOf(m)
BY PhysicalShape DEF File!Physical, File!HighBank, File!BankOf, HighBank, BankOf

\* Switching modes changes no physical register.
LEMMA SwitchKeeps ==
  ASSUME NEW c \in Cpus, NEW m \in Modes, NEW p \in File!PhysicalRegs
  PROVE  ValueOf(Switched(c, m), p) = ValueOf(c, p)
<1> DEFINE d == Switched(c, m)
           r == p[2]
           b == p[1]
<1>1. CASE c.mode = m
  BY <1>1 DEF Switched
<1>2. CASE c.mode # m
  <2>1. SwitchedFields(c, d, m)
    BY <1>2, SwitchFields
  <2>2. /\ c.mode \in Modes /\ c.high \in Highs /\ c.slot \in Slots /\ r \in Regs
        /\ d.mode = m
        /\ d.high = [c.high EXCEPT ![HighBank(c.mode)] = [q \in SharedRegs |-> c.live[q]]]
        /\ d.slot = [c.slot EXCEPT ![BankOf(c.mode)] = [q \in BankedRegs |-> c.live[q]]]
        /\ d.live = LiveOf(d, m)
    BY <2>1, PhysicalShape DEF Cpus, SwitchedFields
  <2> HIDE DEF d
  <2>3. CASE r \in SharedRegs
    <3>1. b \in HighBanks
      BY <2>3, PhysicalShape
    <3>2. d.high[b][r] = IF b = HighBank(c.mode) THEN c.live[r] ELSE c.high[b][r]
      BY <2>2, <2>3, <3>1 DEF Highs
    <3>3. ValueOf(c, p) = IF b = HighBank(c.mode) THEN c.live[r] ELSE c.high[b][r]
      BY <2>2, <2>3, PhysicalOf DEF ValueOf
    <3>4. ValueOf(d, p) = IF b = HighBank(m) THEN d.live[r] ELSE d.high[b][r]
      BY <2>2, <2>3, PhysicalOf DEF ValueOf
    <3>5. d.live[r] = d.high[HighBank(m)][r]
      BY <2>2, <2>3 DEF LiveOf
    <3>6. QED
      BY <3>2, <3>3, <3>4, <3>5 DEF d
  <2>4. CASE r \notin SharedRegs
    <3>1. b \in Banks /\ r \in BankedRegs
      BY <2>2, <2>4, PhysicalShape DEF Regs
    <3>2. d.slot[b][r] = IF b = BankOf(c.mode) THEN c.live[r] ELSE c.slot[b][r]
      BY <2>2, <2>4, <3>1 DEF Slots
    <3>3. ValueOf(c, p) = IF b = BankOf(c.mode) THEN c.live[r] ELSE c.slot[b][r]
      BY <2>2, <2>4, PhysicalOf DEF ValueOf
    <3>4. ValueOf(d, p) = IF b = BankOf(m) THEN d.live[r] ELSE d.slot[b][r]
      BY <2>2, <2>4, PhysicalOf DEF ValueOf
    <3>5. d.live[r] = d.slot[BankOf(m)][r]
      BY <2>2, <2>4 DEF LiveOf
    <3>6. QED
      BY <3>2, <3>3, <3>4, <3>5 DEF d
  <2>5. QED
    BY <2>3, <2>4
<1>3. QED
  BY <1>1, <1>2

LEMMA AssignReaches ==
  ASSUME NEW c \in Cpus, NEW w \in Lists, NEW p \in File!PhysicalRegs
  PROVE  ValueOf(Assigned(c, w), p)
           = IF \E r \in DOMAIN w : p = File!Physical(c.mode, r) THEN w[p[2]] ELSE ValueOf(c, p)
<1> DEFINE d == Assigned(c, w)
<1>1. d.mode = c.mode /\ d.high = c.high /\ d.slot = c.slot /\ c.mode \in Modes
  BY AssignedFields DEF Cpus
<1>2. d.live = [r \in Regs |-> IF r \in DOMAIN w THEN w[r] ELSE c.live[r]]
  BY AssignedFields
<1>3. p[2] \in Regs
  BY PhysicalShape
<1>4. (\E r \in DOMAIN w : p = File!Physical(c.mode, r))
        <=> p[2] \in DOMAIN w /\ p = File!Physical(c.mode, p[2])
  BY DEF File!Physical
<1> HIDE DEF d
<1>5. QED
  BY <1>1, <1>2, <1>3, <1>4 DEF ValueOf, d

LEMMA FileOf ==
  ASSUME NEW c PROVE AsFile(c) = [mode |-> c.mode, regs |-> [p \in File!PhysicalRegs |-> ValueOf(c, p)]]
BY DEF AsFile, ValueOf

\* The banks, whatever their contents, are a banked register file.
LEMMA BanksAreAFile == TypeOK => BanksHold
<1> SUFFICES ASSUME TypeOK PROVE BanksHold
  OBVIOUS
<1>0. cpu \in Cpus
  BY DEF TypeOK, Cpus, Highs, Slots
<1> DEFINE R(c) == [p \in File!PhysicalRegs |-> ValueOf(c, p)]
<1>1. ASSUME NEW c \in Cpus, NEW m \in Modes
      PROVE  AsFile(Switched(c, m)) = File!ChangeMode(AsFile(c), m)
  <2>1. R(Switched(c, m)) = R(c)
    BY SwitchKeeps
  <2>2. Switched(c, m).mode = m
    BY SwitchedType
  <2> HIDE DEF R
  <2>3. AsFile(c) = [mode |-> c.mode, regs |-> R(c)]
    BY FileOf DEF R
  <2>4. AsFile(Switched(c, m)) = [mode |-> m, regs |-> R(c)]
    BY FileOf, <2>1, <2>2 DEF R
  <2>5. QED
    BY <2>3, <2>4 DEF File!ChangeMode
<1>2. ASSUME NEW c \in Cpus, NEW w \in Lists
      PROVE  AsFile(Assigned(c, w)) = File!Write(AsFile(c), w)
  <2>1. R(Assigned(c, w)) = File!Update(R(c), c.mode, w)
    BY AssignReaches DEF File!Update
  <2>2. Assigned(c, w).mode = c.mode
    BY AssignedFields
  <2> HIDE DEF R
  <2>3. AsFile(c) = [mode |-> c.mode, regs |-> R(c)]
    BY FileOf DEF R
  <2>4. AsFile(Assigned(c, w)) = [mode |-> c.mode, regs |-> File!Update(R(c), c.mode, w)]
    BY FileOf, <2>1, <2>2 DEF R
  <2>5. QED
    BY <2>3, <2>4 DEF File!Write
<1>3. ASSUME NEW m \in SpsrModes, NEW v \in Values
      PROVE  AsFile(Linked(cpu, m, v)) = File!Enter(AsFile(cpu), m, v)
  <2> DEFINE c == Switched(cpu, m)
             w == One(LinkReg, v)
             q == File!Physical(m, LinkReg)
  <2>1. m \in Modes /\ LinkReg \in Regs
    BY RegsAssumption DEF SpsrModes, Regs
  <2>2. c \in Cpus /\ c.mode = m /\ w \in Lists
    BY <1>0, <2>1, SwitchedType, OneType
  <2>3. AsFile(Linked(cpu, m, v)) = File!Write(AsFile(c), w)
    BY <1>2, <2>2 DEF Linked
  <2>4. AsFile(c) = File!ChangeMode(AsFile(cpu), m)
    BY <1>0, <1>1, <2>1
  <2>5. AsFile(cpu) = [mode |-> cpu.mode, regs |-> R(cpu)]
    BY FileOf
  <2> HIDE DEF R, c
  <2>6. AsFile(c) = [mode |-> m, regs |-> R(cpu)]
    BY <2>4, <2>5 DEF File!ChangeMode
  <2>7. File!Write(AsFile(c), w) = [mode |-> m, regs |-> File!Update(R(cpu), m, w)]
    BY <2>6 DEF File!Write
  <2>8. File!Update(R(cpu), m, w) = [R(cpu) EXCEPT ![q] = v]
    <3>1. DOMAIN w = {LinkReg} /\ w[LinkReg] = v
      BY DEF One
    <3>2. q \in File!PhysicalRegs /\ q[2] = LinkReg
      BY <2>1 DEF File!PhysicalRegs, File!Regs, Regs, File!Physical
    <3>3. DOMAIN R(cpu) = File!PhysicalRegs
      BY DEF R
    <3> HIDE DEF w, q
    <3>4. File!Update(R(cpu), m, w)
            = [p \in File!PhysicalRegs |-> IF p = q THEN v ELSE R(cpu)[p]]
      BY <3>1, <3>2 DEF File!Update, q
    <3>5. [R(cpu) EXCEPT ![q] = v] = [p \in DOMAIN R(cpu) |-> IF p = q THEN v ELSE R(cpu)[p]]
      BY <3>2, <3>3
    <3>6. QED
      BY <3>3, <3>4, <3>5
  <2>9. File!Enter(AsFile(cpu), m, v) = [mode |-> m, regs |-> [R(cpu) EXCEPT ![q] = v]]
    BY <2>5 DEF File!Enter
  <2>10. QED
    BY <2>3, <2>7, <2>8, <2>9
<1>4. QED
  BY <1>0, <1>1, <1>2, <1>3, OneType DEF BanksHold

\* In every state, for every set of modes, registers and values: a mode switch
\* moves no value, a write reaches one physical register and an exception
\* links into the R14 of its own mode (switch_mode, enter_exception).
THEOREM BanksAlwaysHold == Spec => []BanksHold
BY TypeCorrect, BanksAreAFile, PTL

LEMMA UserBankReads == TypeOK => UserBankIsCurrent
<1> SUFFICES ASSUME TypeOK, HasSpsr(cpu.mode),
                    NEW r \in Regs, cpu.mode # "fiq" \/ r \in BankedRegs
             PROVE  UserBankValue(r) = AsFile(cpu).regs[File!Physical("usr", r)]
  BY DEF UserBankIsCurrent
<1> DEFINE p == File!Physical("usr", r)
<1>1. "usr" \in Modes /\ cpu.mode \in Modes
  BY ModesAssumption DEF TypeOK
<1>2. p \in File!PhysicalRegs
  BY <1>1 DEF File!PhysicalRegs, File!Regs, Regs
<1>3. p[2] = r /\ p[1] = IF r \in SharedRegs THEN HighBank("usr") ELSE BankOf("usr")
  BY DEF File!Physical, File!HighBank, File!BankOf, HighBank, BankOf
<1>4. AsFile(cpu).regs[p] = ValueOf(cpu, p)
  BY <1>2, FileOf
<1> HIDE DEF p
<1>5. CASE r \in SharedRegs
  <2>1. r \notin BankedRegs /\ HighBank(cpu.mode) = HighBank("usr")
    BY <1>5, RegsAssumption DEF HighBank
  <2>2. p = File!Physical(cpu.mode, p[2])
    BY <1>1, <1>2, <1>3, <1>5, <2>1, PhysicalOf
  <2>3. QED
    BY <1>3, <1>4, <2>1, <2>2 DEF ValueOf, UserBankValue, p
<1>6. CASE r \notin SharedRegs
  <2>1. r \in BankedRegs /\ BankOf(cpu.mode) # BankOf("usr") /\ BankOf("usr") = "usr"
    BY <1>6 DEF Regs, BankOf, HasSpsr
  <2>2. p # File!Physical(cpu.mode, p[2])
    BY <1>1, <1>2, <1>3, <1>6, <2>1, PhysicalOf
  <2>3. QED
    BY <1>3, <1>4, <1>6, <2>1, <2>2 DEF ValueOf, UserBankValue, p
<1>7. QED
  BY <1>5, <1>6

\* What STM^ stores is the register user mode sees, in every state
\* (user_bank_value in execute_arm).
THEOREM UserBankAlwaysCurrent == Spec => []UserBankIsCurrent
BY TypeCorrect, UserBankReads, PTL

\* No instruction takes a user-mode program to another mode; an exception
\* does, and remembers it (execute_psr_transfer, enter_exception).
THEOREM UserIsAlwaysRemembered == Spec => UserIsRemembered
<1> DEFINE Remembered ==
      cpu.mode = "usr" /\ cpu'.mode # "usr" => HasSpsr(cpu'.mode) /\ spsr'[cpu'.mode] = "usr"
<1>1. TypeOK /\ [Next]_vars => [Remembered]_vars
  <2> SUFFICES ASSUME TypeOK, Next, cpu.mode = "usr", cpu'.mode # "usr"
               PROVE  HasSpsr(cpu'.mode) /\ spsr'[cpu'.mode] = "usr"
    OBVIOUS
  <2>0. cpu \in Cpus /\ spsr \in [SpsrModes -> Modes \cup {BadMode}]
    BY DEF TypeOK, Cpus, Highs, Slots
  <2>1. ASSUME NEW r \in Regs, NEW v \in Values, SetRegister(r, v) PROVE FALSE
    BY <2>0, <2>1, OneType, AssignedFields DEF SetRegister
  <2>2. ASSUME NEW m \in SpsrModes, NEW value \in Values, EnterException(m, value)
        PROVE  HasSpsr(cpu'.mode) /\ spsr'[cpu'.mode] = "usr"
    <3>1. m \in Modes /\ LinkReg \in Regs
      BY RegsAssumption DEF SpsrModes, Regs
    <3>2. Switched(cpu, m) \in Cpus /\ Switched(cpu, m).mode = m /\ One(LinkReg, value) \in Lists
      BY <2>0, <3>1, SwitchedType, OneType
    <3>3. cpu'.mode = m
      BY <2>2, <3>2, AssignedFields DEF EnterException, Linked
    <3>4. spsr' = [spsr EXCEPT ![m] = "usr"] /\ HasSpsr(m)
      BY <2>2 DEF EnterException
    <3>5. QED
      BY <2>0, <3>3, <3>4
  <2>3. QED
    BY <2>1, <2>2 DEF Next, MsrCpsr, MsrSpsr, ReturnFromException, LoadUserBank, HasSpsr
<1>2. QED
  BY TypeCorrect, <1>1, PTL DEF Spec, UserIsRemembered

---------------------------------------------------------------------------
(* Calls and returns. What is said of the frames, when two instructions    *)
(* meet:                                                                   *)

DueType == [pc : Int, thumb : BOOLEAN, mode : CallModes]
HalfType ==
  {NoHalf} \cup [kind : {"exchange"}, target : {v \in Int : v % 4 # 2}] \cup [kind : {"suffix"}, rest : Int]
FrameType ==
  [kind : {"call", "swi", "irq"}, due : DueType, where : {"link", "stack"}, half : HalfType]

CallTypeOK ==
  /\ at \in [pc : Int, thumb : BOOLEAN, mode : CallModes, off : BOOLEAN]
  /\ link \in [CallModes -> Int]
  /\ saved \in [CallModes \ {"sys"} -> [thumb : BOOLEAN, mode : CallModes, off : BOOLEAN]]
  /\ stacks \in [CallModes -> Seq(Int)]
  /\ frames \in Seq(FrameType)
  /\ half \in HalfType

\* The mode of the code in which frame i runs; below the first there is the
\* program itself.
ModeOf(i) == IF i = Len(frames) THEN at.mode ELSE frames[i + 1].due.mode

\* What the link register or the stack holds for a frame.
Value(f) ==
  IF f.kind = "call" THEN f.due.pc + (IF f.due.thumb THEN 1 ELSE 0)
  ELSE IF f.kind = "swi" THEN f.due.pc
  ELSE f.due.pc + (IF f.due.thumb THEN 2 ELSE 4)

OnStack(k) == k # 0 => frames[k].where = "stack"

\* The first half of a call has run in the code of frame k, which is at pc.
Pending(h, pc, thumb, k) ==
  /\ h.kind = "exchange" => ~thumb /\ link[ModeOf(k)] = pc + 4
  /\ h.kind = "suffix" => thumb
  /\ h # NoHalf => OnStack(k)

\* A function runs in its caller's mode, and its caller has saved its own link.
Function(i) == frames[i].due.mode = ModeOf(i) /\ frames[i].half = NoHalf /\ OnStack(i - 1)

\* A handler has a mode of its own, whose SPSR is the interrupted state.
Handler(i) ==
  /\ ModeOf(i) = Vector[frames[i].kind].mode
  /\ \A j \in 0 .. i - 1 : ModeOf(j) # ModeOf(i)
  /\ saved[ModeOf(i)].thumb = frames[i].due.thumb
  /\ saved[ModeOf(i)].mode = frames[i].due.mode

FrameHolds(i) ==
  /\ Aligned(frames[i].due.pc, frames[i].due.thumb)
  /\ frames[i].kind = "call" => Function(i)
  /\ frames[i].kind # "call" => Handler(i)
  /\ frames[i].kind = "irq" => frames[i].where = "link"
  /\ frames[i].where = "link" => link[ModeOf(i)] = Value(frames[i])
  /\ Pending(frames[i].half, frames[i].due.pc, frames[i].due.thumb, i - 1)

\* The frames of a mode are next to each other.
Adjacent ==
  \A i, j \in 0 .. Len(frames) : i < j /\ ModeOf(i) = ModeOf(j) => frames[i + 1].kind = "call"

Chain ==
  /\ ModeOf(0) = "sys" /\ Aligned(at.pc, at.thumb)
  /\ \A i \in 1 .. Len(frames) : FrameHolds(i)
  /\ Pending(half, at.pc, at.thumb, Len(frames))
  /\ Adjacent

\* The stack of a mode holds the links of its frames in order; below them
\* there are base[m] frames of other modes.
Stacked(base) ==
  /\ base["sys"] = 0
  /\ \A i \in 1 .. Len(frames) :
       /\ i > base[ModeOf(i)]
       /\ frames[i].kind # "call" => base[ModeOf(i)] = i - 1
       /\ frames[i].where = "stack" =>
            /\ i - base[ModeOf(i)] <= Len(stacks[ModeOf(i)])
            /\ stacks[ModeOf(i)][i - base[ModeOf(i)]] = Value(frames[i])
  /\ \A i \in 0 .. Len(frames) :
       (i = Len(frames) \/ ModeOf(i + 1) # ModeOf(i)) =>
         /\ OnStack(i) => Len(stacks[ModeOf(i)]) = i - base[ModeOf(i)]
         /\ ~OnStack(i) => Len(stacks[ModeOf(i)]) = i - base[ModeOf(i)] - 1
  /\ \A m \in CallModes : (\A i \in 0 .. Len(frames) : ModeOf(i) # m) => stacks[m] = << >>

Stacks == \E base \in [CallModes -> Nat] : Stacked(base)

\* Inductive: what every frame's link register, stack entry and saved status
\* hold of it.
CallInv == CallTypeOK /\ Chain /\ Stacks

---------------------------------------------------------------------------
(* The frames after a step.                                                 *)

LEMMA FrontIs ==
  ASSUME NEW S, NEW s \in Seq(S), s # << >>
  PROVE  /\ Len(s) \in Nat \ {0} /\ Front(s) \in Seq(S) /\ Len(Front(s)) = Len(s) - 1
         /\ \A i \in 1 .. Len(s) - 1 : Front(s)[i] = s[i]
         /\ Last(s) = s[Len(s)] /\ Last(s) \in S
<1>1. Len(s) \in Nat \ {0}
  OBVIOUS
<1>2. \A i \in 1 .. Len(s) - 1 : s[i] \in S
  BY <1>1
<1>3. /\ SubSeq(s, 1, Len(s) - 1) \in Seq(S) /\ Len(SubSeq(s, 1, Len(s) - 1)) = Len(s) - 1
      /\ \A i \in 1 .. Len(s) - 1 : SubSeq(s, 1, Len(s) - 1)[i] = s[i]
  <2>1. /\ \A n \in 0 .. Len(s) : SubSeq(s, 1, n) \in Seq(S) /\ Len(SubSeq(s, 1, n)) = n
        /\ \A n \in 0 .. Len(s) : \A i \in 1 .. n : SubSeq(s, 1, n)[i] = s[i]
    BY <1>1, SubSeqProperties
  <2>2. Len(s) - 1 \in 0 .. Len(s)
    BY <1>1
  <2>3. QED
    BY <2>1, <2>2
<1>4. QED
  BY <1>1, <1>3 DEF Front, Last

LEMMA FramesPushed ==
  ASSUME CallTypeOK, NEW f \in FrameType, frames' = Append(frames, f), f.due.mode = at.mode
  PROVE  /\ Len(frames) \in Nat /\ Len(frames') = Len(frames) + 1 /\ frames' \in Seq(FrameType)
         /\ \A i \in 1 .. Len(frames) : frames'[i] = frames[i]
         /\ frames'[Len(frames) + 1] = f
         /\ \A i \in 0 .. Len(frames) : ModeOf(i)' = ModeOf(i)
         /\ \A i : i = Len(frames) + 1 => ModeOf(i)' = at'.mode
<1>1. /\ Len(frames) \in Nat /\ Len(frames') = Len(frames) + 1 /\ frames' \in Seq(FrameType)
      /\ \A i \in 1 .. Len(frames) : frames'[i] = frames[i]
      /\ frames'[Len(frames) + 1] = f
  BY DEF CallTypeOK
<1>2. ASSUME NEW i \in 0 .. Len(frames) PROVE ModeOf(i)' = ModeOf(i)
  BY <1>1 DEF ModeOf
<1>3. Len(frames) + 1 = Len(frames')
  BY <1>1
<1>4. ASSUME NEW i, i = Len(frames) + 1 PROVE ModeOf(i)' = at'.mode
  BY <1>3, <1>4 DEF ModeOf
<1>5. QED
  BY <1>1, <1>2, <1>4

LEMMA FramesPopped ==
  ASSUME CallTypeOK, frames # << >>, frames' = Front(frames), at'.mode = Last(frames).due.mode
  PROVE  /\ Len(frames) \in Nat \ {0} /\ Len(frames') = Len(frames) - 1 /\ frames' \in Seq(FrameType)
         /\ \A i \in 1 .. Len(frames) - 1 : frames'[i] = frames[i]
         /\ Last(frames) = frames[Len(frames)] /\ Last(frames) \in FrameType
         /\ \A i \in 0 .. Len(frames) - 1 : ModeOf(i)' = ModeOf(i)
<1>1. Len(frames) \in Nat \ {0} /\ frames \in Seq(FrameType)
  BY DEF CallTypeOK
<1>2. /\ Len(frames') = Len(frames) - 1 /\ frames' \in Seq(FrameType)
      /\ \A i \in 1 .. Len(frames) - 1 : frames'[i] = frames[i]
  BY <1>1, FrontIs
<1>3. Last(frames) = frames[Len(frames)] /\ Last(frames) \in FrameType
  BY <1>1, FrontIs
<1>4. ASSUME NEW i \in 0 .. Len(frames) - 1 PROVE ModeOf(i)' = ModeOf(i)
  BY <1>1, <1>2, <1>3 DEF ModeOf
<1>5. QED
  BY <1>1, <1>2, <1>3, <1>4

LEMMA FramesKept ==
  ASSUME CallTypeOK, frames' = frames, at'.mode = at.mode
  PROVE  Len(frames) \in Nat /\ \A i \in 0 .. Len(frames) : ModeOf(i)' = ModeOf(i)
BY DEF CallTypeOK, ModeOf

LEMMA ModesTyped ==
  ASSUME CallTypeOK, NEW i \in 0 .. Len(frames)
  PROVE  ModeOf(i) \in CallModes /\ (ModeOf(i) # "sys" => saved[ModeOf(i)] \in [thumb : BOOLEAN, mode : CallModes, off : BOOLEAN])
<1>1. Len(frames) \in Nat /\ at.mode \in CallModes
  BY DEF CallTypeOK
<1>2. CASE i # Len(frames)
  <2>1. frames[i + 1] \in FrameType
    BY <1>1, <1>2 DEF CallTypeOK
  <2>2. QED
    BY <1>2, <2>1 DEF ModeOf, FrameType, DueType, CallTypeOK
<1>3. QED
  BY <1>1, <1>2 DEF ModeOf, CallTypeOK

---------------------------------------------------------------------------
(* What the chain of frames says of two frames of one mode, and of the      *)
(* last one.                                                                *)

LEMMA SameMode ==
  ASSUME CallTypeOK, Chain, NEW i \in 0 .. Len(frames), NEW j \in 0 .. Len(frames),
         i < j, ModeOf(i) = ModeOf(j)
  PROVE  /\ i + 1 \in 1 .. Len(frames) /\ frames[i + 1].kind = "call"
         /\ ModeOf(i + 1) = ModeOf(i) /\ OnStack(i) /\ frames[i + 1].half = NoHalf
<1>1. Len(frames) \in Nat /\ i + 1 \in 1 .. Len(frames) /\ i + 1 - 1 = i /\ i # Len(frames)
  BY DEF CallTypeOK
<1>2. frames[i + 1].kind = "call"
  BY <1>1 DEF Chain, Adjacent
<1>3. Function(i + 1)
  BY <1>1, <1>2 DEF Chain, FrameHolds
<1>4. frames[i + 1].due.mode = ModeOf(i)
  BY <1>1 DEF ModeOf
<1>5. QED
  BY <1>1, <1>2, <1>3, <1>4 DEF Function

LEMMA FrameTyped ==
  ASSUME CallTypeOK, NEW i \in 1 .. Len(frames)
  PROVE  /\ frames[i] \in FrameType /\ frames[i].due \in DueType /\ frames[i].half \in HalfType
         /\ frames[i].kind \in {"call", "swi", "irq"} /\ frames[i].where \in {"link", "stack"}
         /\ frames[i].due.pc \in Int /\ frames[i].due.thumb \in BOOLEAN
         /\ frames[i].due.mode \in CallModes /\ Value(frames[i]) \in Int
<1>1. frames[i] \in FrameType
  BY DEF CallTypeOK
<1>2. /\ frames[i].due \in DueType /\ frames[i].half \in HalfType
      /\ frames[i].kind \in {"call", "swi", "irq"} /\ frames[i].where \in {"link", "stack"}
  BY <1>1 DEF FrameType
<1>3. /\ frames[i].due.pc \in Int /\ frames[i].due.thumb \in BOOLEAN
      /\ frames[i].due.mode \in CallModes
  BY <1>2 DEF DueType
<1>4. QED
  BY <1>1, <1>2, <1>3 DEF Value

\* A frame stays linked when nothing it speaks of changes.
LEMMA FrameHoldsKept ==
  ASSUME CallTypeOK, NEW i \in 1 .. Len(frames), FrameHolds(i),
         frames'[i] = frames[i], OnStack(i - 1) => OnStack(i - 1)',
         \A j \in 0 .. i : ModeOf(j)' = ModeOf(j),
         frames[i].where = "link" => link'[ModeOf(i)] = link[ModeOf(i)],
         frames[i].half # NoHalf => link'[ModeOf(i - 1)] = link[ModeOf(i - 1)],
         frames[i].kind # "call" => saved'[ModeOf(i)] = saved[ModeOf(i)]
  PROVE  FrameHolds(i)'
<1>1. ModeOf(i)' = ModeOf(i) /\ ModeOf(i - 1)' = ModeOf(i - 1) /\ \A j \in 0 .. i - 1 : ModeOf(j)' = ModeOf(j)
  OBVIOUS
<1>2. Function(i) => Function(i)'
  BY <1>1 DEF Function
<1>3. frames[i].kind # "call" /\ Handler(i) => Handler(i)'
  BY <1>1 DEF Handler
<1>4. Pending(frames[i].half, frames[i].due.pc, frames[i].due.thumb, i - 1)'
  <2>1. CASE frames[i].half = NoHalf
    BY <2>1 DEF Pending, NoHalf
  <2>2. CASE frames[i].half # NoHalf
    BY <2>2, <1>1 DEF Pending, FrameHolds
  <2>3. QED
    BY <2>1, <2>2
<1>5. QED
  BY <1>1, <1>2, <1>3, <1>4 DEF FrameHolds, Value

\* The frames stay linked when the code that is running writes the link
\* register of its mode, its own link being saved.
LEMMA LinkWritten ==
  ASSUME CallTypeOK, Chain, OnStack(Len(frames)), NEW v, SetLink(v), saved' = saved,
         \A i \in 1 .. Len(frames) : frames'[i] = frames[i],
         \A i \in 0 .. Len(frames) : ModeOf(i)' = ModeOf(i)
  PROVE  \A i \in 1 .. Len(frames) : FrameHolds(i)'
<1>1. Len(frames) \in Nat /\ ModeOf(Len(frames)) = at.mode
  BY DEF CallTypeOK, ModeOf
<1>2. ASSUME NEW m, m # at.mode PROVE link'[m] = link[m]
  BY <1>2 DEF SetLink, CallTypeOK
<1>3. SUFFICES ASSUME NEW i \in 1 .. Len(frames) PROVE FrameHolds(i)'
  OBVIOUS
<1>4. ModeOf(i) = at.mode => OnStack(i)
  BY <1>1, SameMode
<1>5. frames[i].where = "link" => link'[ModeOf(i)] = link[ModeOf(i)]
  BY <1>2, <1>4 DEF OnStack
<1>6. frames[i].half # NoHalf => link'[ModeOf(i - 1)] = link[ModeOf(i - 1)]
  <2>1. i - 1 \in 0 .. Len(frames) /\ i - 1 < Len(frames) /\ (i - 1) + 1 = i
    BY <1>1
  <2>2. ModeOf(i - 1) = at.mode => frames[i].half = NoHalf
    <3>1. ModeOf(i - 1) = ModeOf(Len(frames)) => frames[(i - 1) + 1].half = NoHalf
      <4>1. Len(frames) \in 0 .. Len(frames)
        BY <1>1
      <4>2. QED
        BY <2>1, <4>1, SameMode, ZenonT(60)
    <3>2. QED
      BY <1>1, <2>1, <3>1
  <2>3. QED
    BY <1>2, <2>2
<1>7. \A j \in 0 .. i : ModeOf(j)' = ModeOf(j)
  BY <1>1
<1>8. OnStack(i - 1) => OnStack(i - 1)'
  BY <1>1 DEF OnStack
<1>9. QED
  BY <1>5, <1>6, <1>7, <1>8, FrameHoldsKept DEF Chain

LEMMA AdjacentKept ==
  ASSUME CallTypeOK, Adjacent, Len(frames') = Len(frames),
         \A i \in 1 .. Len(frames) : frames'[i].kind = frames[i].kind,
         \A i \in 0 .. Len(frames) : ModeOf(i)' = ModeOf(i)
  PROVE  Adjacent'
<1>1. Len(frames) \in Nat
  BY DEF CallTypeOK
<1>2. QED
  BY <1>1 DEF Adjacent

LEMMA AdjacentPushed ==
  ASSUME CallTypeOK, Adjacent, Len(frames') = Len(frames) + 1,
         \A i \in 1 .. Len(frames) : frames'[i] = frames[i],
         \A i \in 0 .. Len(frames) : ModeOf(i)' = ModeOf(i),
         \A i : i = Len(frames) + 1 => ModeOf(i)' = at'.mode,
         \/ frames'[Len(frames) + 1].kind = "call" /\ at'.mode = at.mode
         \/ \A i \in 0 .. Len(frames) : ModeOf(i) # at'.mode
  PROVE  Adjacent'
<1>1. Len(frames) \in Nat /\ ModeOf(Len(frames)) = at.mode
  BY DEF CallTypeOK, ModeOf
<1>2. SUFFICES ASSUME NEW i \in 0 .. Len(frames'), NEW j \in 0 .. Len(frames'),
                      i < j, ModeOf(i)' = ModeOf(j)'
               PROVE  frames'[i + 1].kind = "call"
  BY DEF Adjacent
<1>3. i \in 0 .. Len(frames) /\ ModeOf(i)' = ModeOf(i)
  BY <1>1, <1>2
<1>4. CASE j \in 0 .. Len(frames)
  <2>0. ModeOf(j)' = ModeOf(j)
    BY <1>4
  <2>1. ModeOf(i) = ModeOf(j)
    BY <1>2, <1>3, <2>0
  <2>2. i + 1 \in 1 .. Len(frames)
    BY <1>1, <1>2, <1>3, <1>4
  <2>3. frames[i + 1].kind = "call"
    BY <1>2, <1>3, <1>4, <2>1 DEF Adjacent
  <2>4. QED
    BY <2>2, <2>3
<1>5. CASE j = Len(frames) + 1
  <2>1. ModeOf(i) = at'.mode
    BY <1>2, <1>3, <1>5
  <2>2. frames'[Len(frames) + 1].kind = "call" /\ ModeOf(i) = ModeOf(Len(frames))
    BY <2>1, <1>1, <1>3
  <2>3. CASE i = Len(frames)
    BY <2>2, <2>3
  <2>4. CASE i < Len(frames)
    BY <1>1, <1>3, <2>2, <2>4 DEF Adjacent
  <2>5. QED
    BY <1>1, <1>3, <2>3, <2>4
<1>6. QED
  BY <1>1, <1>2, <1>4, <1>5

---------------------------------------------------------------------------
(* The invariant after each kind of step.                                   *)

LEMMA AlignedStep ==
  ASSUME NEW pc \in Int, NEW thumb \in BOOLEAN, Aligned(pc, thumb)
  PROVE  /\ Aligned(pc + 4, thumb) /\ Aligned(pc + 8, thumb)
         /\ thumb => Aligned(pc + 2, thumb)
         /\ ~thumb => pc % 4 = 0
BY DEF Aligned

LEMMA EvenIsAligned ==
  ASSUME NEW v \in Int
  PROVE  v - (v % 2) \in Int /\ Aligned(v - (v % 2), TRUE)
BY DEF Aligned

\* What BX makes of an aligned address and the state's bit.
LEMMA ExchangeValue ==
  ASSUME NEW pc \in Int, NEW thumb \in BOOLEAN, Aligned(pc, thumb),
         NEW v, v = IF thumb THEN pc + 1 ELSE pc
  PROVE  v - (v % 2) = pc /\ ((v % 2 = 1) <=> thumb)
<1>1. CASE thumb
  <2>1. pc % 2 = 0 /\ v = pc + 1
    BY <1>1 DEF Aligned
  <2>2. QED
    BY <2>1, <1>1
<1>2. CASE ~thumb
  <2>1. pc % 4 = 0 /\ v = pc
    BY <1>2 DEF Aligned
  <2>2. QED
    BY <2>1, <1>2
<1>3. QED
  BY <1>1, <1>2

LEMMA StacksKept ==
  ASSUME CallTypeOK, Stacks, frames' = frames, stacks' = stacks,
         \A i \in 0 .. Len(frames) : ModeOf(i)' = ModeOf(i)
  PROVE  Stacks'
<1>1. PICK base \in [CallModes -> Nat] : Stacked(base)
  BY DEF Stacks
<1>2. Len(frames) \in Nat /\ Len(frames') = Len(frames)
  BY DEF CallTypeOK
<1>3. /\ \A i \in 0 .. Len(frames) : OnStack(i)' = OnStack(i)
      /\ \A i \in 1 .. Len(frames) : Value(frames[i])' = Value(frames[i])
  BY DEF OnStack, Value
<1>4. /\ \A i \in 1 .. Len(frames) : ModeOf(i)' = ModeOf(i)
      /\ \A i \in 0 .. Len(frames) : i # Len(frames) => ModeOf(i + 1)' = ModeOf(i + 1)
  BY <1>2
<1>5. Stacked(base)'
  BY <1>1, <1>2, <1>3, <1>4 DEF Stacked
<1>6. QED
  BY <1>5 DEF Stacks

\* A step that writes R15 only, or nothing.
LEMMA StraightKeeps ==
  ASSUME CallInv, UNCHANGED <<link, saved, stacks, frames, half>>, half = NoHalf \/ at' = at,
         at' \in [pc : Int, thumb : BOOLEAN, mode : {at.mode}, off : BOOLEAN],
         Aligned(at.pc, at.thumb)'
  PROVE  CallInv'
<1>1. Len(frames) \in Nat /\ \A i \in 0 .. Len(frames) : ModeOf(i)' = ModeOf(i)
  BY FramesKept DEF CallInv
<1>2. CallTypeOK'
  BY DEF CallInv, CallTypeOK
<1>3. \A i \in 1 .. Len(frames) : FrameHolds(i)'
  <2>1. SUFFICES ASSUME NEW i \in 1 .. Len(frames) PROVE FrameHolds(i)'
    OBVIOUS
  <2>2. FrameHolds(i) /\ \A j \in 0 .. i : ModeOf(j)' = ModeOf(j)
    BY <1>1 DEF CallInv, Chain
  <2>3. OnStack(i - 1) => OnStack(i - 1)'
    BY DEF OnStack
  <2>4. QED
    BY <2>2, <2>3, FrameHoldsKept DEF CallInv
<1>4. Adjacent'
  BY <1>1, AdjacentKept DEF CallInv, Chain
<1>5. Pending(half, at.pc, at.thumb, Len(frames))'
  <2>1. CASE half = NoHalf
    BY <2>1 DEF Pending, NoHalf
  <2>2. CASE at' = at
    <3>1. /\ Len(frames') = Len(frames) /\ ModeOf(Len(frames)) = at.mode
          /\ ModeOf(Len(frames))' = at'.mode
      BY DEF ModeOf
    <3>2. OnStack(Len(frames)) => OnStack(Len(frames))'
      BY DEF OnStack
    <3>3. Pending(half, at.pc, at.thumb, Len(frames))
      BY DEF CallInv, Chain
    <3>4. QED
      BY <2>2, <3>1, <3>2, <3>3 DEF Pending
  <2>3. QED
    BY <2>1, <2>2
<1>6. Chain'
  BY <1>1, <1>3, <1>4, <1>5 DEF Chain, CallInv
<1>7. Stacks'
  BY <1>1, StacksKept DEF CallInv
<1>8. QED
  BY <1>2, <1>6, <1>7 DEF CallInv

\* The first half of a call.
LEMMA HalfKeeps ==
  ASSUME CallInv, OnStack(Len(frames)), NEW v \in Int, SetLink(v),
         UNCHANGED <<saved, stacks, frames>>,
         at' \in [pc : Int, thumb : BOOLEAN, mode : {at.mode}, off : BOOLEAN],
         Aligned(at.pc, at.thumb)',
         half' \in HalfType,
         half'.kind = "exchange" => ~at'.thumb /\ v = at'.pc + 4,
         half'.kind = "suffix" => at'.thumb
  PROVE  CallInv'
<1>1. /\ Len(frames) \in Nat /\ \A i \in 0 .. Len(frames) : ModeOf(i)' = ModeOf(i)
      /\ ModeOf(Len(frames)) = at.mode
  BY FramesKept DEF CallInv, ModeOf
<1>2. CallTypeOK' /\ link'[at.mode] = v
  BY DEF CallInv, CallTypeOK, SetLink
<1>3. \A i \in 1 .. Len(frames) : FrameHolds(i)'
  BY <1>1, LinkWritten DEF CallInv
<1>4. Adjacent'
  BY <1>1, AdjacentKept DEF CallInv, Chain
<1>5. Pending(half, at.pc, at.thumb, Len(frames))'
  <2>1. ModeOf(Len(frames))' = at.mode
    BY <1>1
  <2>2. OnStack(Len(frames))'
    BY DEF OnStack
  <2>3. QED
    BY <1>2, <2>1, <2>2 DEF Pending
<1>6. Chain'
  BY <1>1, <1>3, <1>4, <1>5 DEF Chain, CallInv
<1>7. Stacks'
  BY <1>1, StacksKept DEF CallInv
<1>8. QED
  BY <1>2, <1>6, <1>7 DEF CallInv

\* PUSH {LR}.
LEMMA PushKeeps ==
  ASSUME CallInv, PushLink
  PROVE  CallInv'
<1>1. PICK n \in Nat \ {0} : n = Len(frames) /\ n \in 1 .. n /\ n - 1 \in 0 .. n
  <2>1. frames \in Seq(FrameType) /\ frames # << >>
    BY DEF PushLink, Within, CallInv, CallTypeOK
  <2>2. Len(frames) \in Nat \ {0}
    BY <2>1
  <2>3. QED
    BY <2>2
<1>2. PICK f \in FrameType : /\ f = frames[n] /\ f.where = "link" /\ f.kind \in {"call", "swi"}
                            /\ Last(frames) = f
  BY <1>1, FrameTyped DEF PushLink, Within, CallInv, Last
<1>3. PICK g \in FrameType : /\ g = [f EXCEPT !.where = "stack"]
                            /\ g.where = "stack" /\ g.kind = f.kind /\ g.due = f.due
                            /\ g.half = f.half /\ Value(g) = Value(f)
  <2>1. f \in FrameType
    OBVIOUS
  <2>2. /\ [f EXCEPT !.where = "stack"] \in FrameType
        /\ [f EXCEPT !.where = "stack"].where = "stack"
        /\ [f EXCEPT !.where = "stack"].kind = f.kind
        /\ [f EXCEPT !.where = "stack"].due = f.due
        /\ [f EXCEPT !.where = "stack"].half = f.half
    BY <2>1 DEF FrameType
  <2>3. Value([f EXCEPT !.where = "stack"]) = Value(f)
    BY <2>2 DEF Value
  <2>4. QED
    BY <2>2, <2>3
<1>4. /\ frames' \in Seq(FrameType) /\ Len(frames') = n /\ frames'[n] = g
      /\ \A i \in 1 .. n - 1 : frames'[i] = frames[i]
  <2>1. frames' = [frames EXCEPT ![n] = g] /\ frames \in Seq(FrameType)
    BY <1>1, <1>2, <1>3 DEF PushLink, CallInv, CallTypeOK
  <2>2. QED
    BY <1>1, <2>1
<1>5. /\ \A i \in 1 .. n : frames'[i].due = frames[i].due /\ frames'[i].kind = frames[i].kind
      /\ \A i \in 1 .. n : Value(frames[i])' = Value(frames[i])
  <2>1. SUFFICES ASSUME NEW i \in 1 .. n
                 PROVE  /\ frames'[i].due = frames[i].due /\ frames'[i].kind = frames[i].kind
                        /\ Value(frames[i])' = Value(frames[i])
    OBVIOUS
  <2>2. CASE i = n
    BY <2>2, <1>2, <1>3, <1>4 DEF Value
  <2>3. CASE i # n
    BY <2>3, <1>1, <1>4 DEF Value
  <2>4. QED
    BY <2>2, <2>3
<1>6. at'.mode = at.mode /\ at'.pc = at.pc + Size /\ at'.thumb = at.thumb
  BY DEF PushLink, Goto, CallInv, CallTypeOK
<1>7. \A i \in 0 .. n : ModeOf(i)' = ModeOf(i)
  BY <1>1, <1>4, <1>5, <1>6 DEF ModeOf
<1>8. link' = link /\ saved' = saved /\ half' = NoHalf
  BY DEF PushLink
<1>9. CallTypeOK'
  <2>0. at \in [pc : Int, thumb : BOOLEAN, mode : CallModes, off : BOOLEAN] /\ at.pc + Size \in Int
    BY DEF CallInv, CallTypeOK, Size
  <2>1. at' \in [pc : Int, thumb : BOOLEAN, mode : CallModes, off : BOOLEAN]
    BY <2>0 DEF PushLink, Goto
  <2>2. Append(stacks[at.mode], link[at.mode]) \in Seq(Int) /\ stacks' \in [CallModes -> Seq(Int)]
    BY DEF PushLink, CallInv, CallTypeOK
  <2>3. QED
    BY <2>1, <2>2, <1>4, <1>8 DEF CallInv, CallTypeOK, HalfType
<1>10. \A i \in 0 .. n : OnStack(i) => OnStack(i)'
  BY <1>1, <1>2, <1>3, <1>4 DEF OnStack
<1>11. \A i \in 1 .. n : FrameHolds(i)'
  <2>1. SUFFICES ASSUME NEW i \in 1 .. n PROVE FrameHolds(i)'
    OBVIOUS
  <2>2. FrameHolds(i) /\ i - 1 \in 0 .. n /\ \A j \in 0 .. i : ModeOf(j)' = ModeOf(j)
    BY <1>1, <1>7 DEF CallInv, Chain
  <2>3. CASE i # n
    BY <1>1, <1>4, <1>8, <1>10, <2>2, <2>3, FrameHoldsKept DEF CallInv
  <2>4. CASE i = n
    <3>1. /\ ModeOf(n)' = ModeOf(n) /\ ModeOf(n - 1)' = ModeOf(n - 1)
          /\ \A j \in 0 .. n - 1 : ModeOf(j)' = ModeOf(j)
      BY <1>1, <1>7
    <3>2. Function(n) => Function(n)'
      BY <1>1, <1>2, <1>3, <1>4, <1>10, <3>1 DEF Function
    <3>3. Handler(n) => Handler(n)'
      BY <1>2, <1>3, <1>4, <1>8, <3>1 DEF Handler
    <3>4. Pending(frames[n].half, frames[n].due.pc, frames[n].due.thumb, n - 1)'
      BY <1>1, <1>2, <1>3, <1>4, <1>8, <1>10, <2>2, <2>4, <3>1 DEF FrameHolds, Pending
    <3>5. QED
      BY <1>2, <1>3, <1>4, <2>2, <2>4, <3>2, <3>3, <3>4 DEF FrameHolds
  <2>5. QED
    BY <2>3, <2>4
<1>12. Adjacent'
  BY <1>1, <1>4, <1>5, <1>7, AdjacentKept DEF CallInv, Chain
<1>13. Chain'
  <2>1. Aligned(at.pc, at.thumb)'
    <3>1. at.pc \in Int /\ at.thumb \in BOOLEAN /\ Aligned(at.pc, at.thumb)
      BY DEF CallInv, Chain, CallTypeOK
    <3>2. QED
      BY <1>6, <3>1, AlignedStep DEF Size
  <2>2. Pending(half, at.pc, at.thumb, Len(frames))'
    BY <1>8 DEF Pending, NoHalf
  <2>3. ModeOf(0)' = "sys"
    BY <1>1, <1>7 DEF CallInv, Chain
  <2>4. QED
    BY <1>1, <1>4, <1>11, <1>12, <2>1, <2>2, <2>3 DEF Chain
<1>14. Stacks'
  <2>1. PICK base \in [CallModes -> Nat] : Stacked(base)
    BY DEF CallInv, Stacks
  <2>2. /\ at.mode \in CallModes /\ ModeOf(n) = at.mode /\ stacks[at.mode] \in Seq(Int)
        /\ link[at.mode] = Value(f) /\ Value(f) \in Int
    BY <1>1, <1>2, FrameTyped DEF CallInv, Chain, FrameHolds, CallTypeOK, ModeOf
  <2>3. /\ \A m \in CallModes : m # at.mode => stacks'[m] = stacks[m]
        /\ Len(stacks'[at.mode]) = Len(stacks[at.mode]) + 1
        /\ stacks'[at.mode][Len(stacks[at.mode]) + 1] = Value(f)
        /\ \A k \in 1 .. Len(stacks[at.mode]) : stacks'[at.mode][k] = stacks[at.mode][k]
    BY <2>2 DEF PushLink, CallInv, CallTypeOK
  <2>4. Len(stacks[at.mode]) = n - base[at.mode] - 1 /\ base[at.mode] \in Nat /\ n > base[at.mode]
    BY <1>1, <1>2, <2>1, <2>2 DEF Stacked, OnStack
  <2>5. \A i \in 0 .. n : ModeOf(i) \in CallModes /\ base[ModeOf(i)] \in Nat
    <3>1. \A i \in 0 .. n : ModeOf(i) \in CallModes
      BY <1>1, ModesTyped DEF CallInv
    <3>2. QED
      BY <3>1
  <2>6. ASSUME NEW i \in 1 .. n
        PROVE  /\ i > base[ModeOf(i)]
               /\ frames'[i].kind # "call" => base[ModeOf(i)] = i - 1
               /\ frames'[i].where = "stack" =>
                    /\ i - base[ModeOf(i)] <= Len(stacks'[ModeOf(i)])
                    /\ stacks'[ModeOf(i)][i - base[ModeOf(i)]] = Value(frames[i])
    <3>1. i > base[ModeOf(i)] /\ (frames[i].kind # "call" => base[ModeOf(i)] = i - 1)
      BY <1>1, <2>1 DEF Stacked
    <3>2. CASE i = n
      <4>1. n - base[at.mode] = Len(stacks[at.mode]) + 1 /\ Len(stacks'[at.mode]) = n - base[at.mode]
        BY <1>1, <2>3, <2>4
      <4>2. stacks'[at.mode][n - base[at.mode]] = Value(frames[n]) /\ n - base[at.mode] \in Int
        BY <1>1, <1>2, <2>3, <2>4, <4>1
      <4>3. ModeOf(i) = at.mode /\ frames'[i].kind = frames[i].kind /\ i = n
        BY <1>2, <1>3, <1>4, <2>2, <3>2
      <4>4. i - base[ModeOf(i)] <= Len(stacks'[ModeOf(i)])
        BY <4>1, <4>2, <4>3
      <4>5. stacks'[ModeOf(i)][i - base[ModeOf(i)]] = Value(frames[i])
        BY <4>2, <4>3
      <4>6. QED
        BY <3>1, <4>3, <4>4, <4>5
    <3>3. CASE i # n
      <4>1. frames[i].where = "stack" =>
              /\ i - base[ModeOf(i)] \in 1 .. Len(stacks[ModeOf(i)])
              /\ stacks[ModeOf(i)][i - base[ModeOf(i)]] = Value(frames[i])
        <5>1. Len(stacks[ModeOf(i)]) \in Nat /\ i \in 0 .. n
          BY <2>5, <1>1 DEF CallInv, CallTypeOK
        <5>2. QED
          <6>1. base[ModeOf(i)] \in Nat
            BY <2>5, <5>1
          <6>2. frames[i].where = "stack" =>
                  /\ i - base[ModeOf(i)] <= Len(stacks[ModeOf(i)])
                  /\ stacks[ModeOf(i)][i - base[ModeOf(i)]] = Value(frames[i])
            BY <1>1, <2>1 DEF Stacked
          <6>3. QED
            BY <3>1, <5>1, <6>1, <6>2
      <4>2. frames'[i] = frames[i] /\ i \in 0 .. n
        BY <1>1, <1>4, <3>3
      <4>3. CASE ModeOf(i) # at.mode
        BY <2>3, <2>5, <3>1, <4>1, <4>2, <4>3
      <4>4. CASE ModeOf(i) = at.mode
        <5>1. /\ Len(stacks[at.mode]) \in Nat
              /\ \A k \in 1 .. Len(stacks[at.mode]) :
                   k <= Len(stacks'[at.mode]) /\ stacks'[at.mode][k] = stacks[at.mode][k]
          BY <2>2, <2>3
        <5>2. QED
          BY <3>1, <4>1, <4>2, <4>4, <5>1
      <4>5. QED
        BY <4>3, <4>4
    <3>4. QED
      BY <3>2, <3>3
  <2>7. ASSUME NEW i \in 0 .. n, i = n \/ ModeOf(i + 1) # ModeOf(i)
        PROVE  /\ OnStack(i)' => Len(stacks'[ModeOf(i)]) = i - base[ModeOf(i)]
               /\ ~OnStack(i)' => Len(stacks'[ModeOf(i)]) = i - base[ModeOf(i)] - 1
    <3>1. CASE i = n
      <4>1. OnStack(i)' /\ ModeOf(i) = at.mode
        BY <1>1, <1>3, <1>4, <2>2, <3>1 DEF OnStack
      <4>2. Len(stacks'[at.mode]) = i - base[at.mode]
        BY <1>1, <2>3, <2>4, <3>1
      <4>3. QED
        BY <4>1, <4>2
    <3>2. CASE i # n
      <4>1. i < n /\ ModeOf(i) # at.mode
        BY <1>1, <2>2, <2>7, <3>2, SameMode DEF CallInv
      <4>2. OnStack(i)' <=> OnStack(i)
        BY <1>1, <1>4, <4>1 DEF OnStack
      <4>3. /\ OnStack(i) => Len(stacks[ModeOf(i)]) = i - base[ModeOf(i)]
            /\ ~OnStack(i) => Len(stacks[ModeOf(i)]) = i - base[ModeOf(i)] - 1
        BY <1>1, <2>1, <2>7, <4>1 DEF Stacked
      <4>4. stacks'[ModeOf(i)] = stacks[ModeOf(i)]
        BY <2>3, <2>5, <4>1
      <4>5. QED
        BY <4>2, <4>3, <4>4
    <3>3. QED
      BY <3>1, <3>2
  <2>8. ASSUME NEW m \in CallModes, \A i \in 0 .. n : ModeOf(i) # m PROVE stacks'[m] = << >>
    BY <1>1, <2>1, <2>2, <2>3, <2>8 DEF Stacked
  <2>9. Stacked(base)'
    <3>1. \A i \in 0 .. n : i # n => ModeOf(i + 1)' = ModeOf(i + 1)
      BY <1>1, <1>7
    <3>2. \A i \in 1 .. n : ModeOf(i)' = ModeOf(i)
      BY <1>1, <1>7
    <3>3. base["sys"] = 0
      BY <2>1 DEF Stacked
    <3>4. QED
      BY <1>1, <1>4, <1>5, <1>7, <2>6, <2>7, <2>8, <3>1, <3>2, <3>3 DEF Stacked
  <2>10. QED
    BY <2>9 DEF Stacks
<1>15. QED
  BY <1>9, <1>13, <1>14 DEF CallInv

\* The stacks under a frame that is pushed and has its link in the link
\* register: a call's, in the mode of its caller, whose own link is saved, or
\* a handler's, in a mode of its own.
LEMMA StacksPushed ==
  ASSUME CallTypeOK, Chain, Stacks, NEW f \in FrameType, frames' = Append(frames, f),
         f.due.mode = at.mode, f.where = "link", stacks' = stacks, at'.mode \in CallModes,
         \/ f.kind = "call" /\ at'.mode = at.mode /\ OnStack(Len(frames))
         \/ at'.mode # "sys" /\ \A i \in 0 .. Len(frames) : ModeOf(i) # at'.mode
  PROVE  Stacks'
<1>1. PICK n \in Nat : n = Len(frames)
  BY DEF CallTypeOK
<1>2. /\ Len(frames') = n + 1 /\ \A i \in 1 .. n : frames'[i] = frames[i] /\ frames'[n + 1] = f
      /\ \A i \in 0 .. n : ModeOf(i)' = ModeOf(i)
      /\ \A i : i = n + 1 => ModeOf(i)' = at'.mode
  BY <1>1, FramesPushed
<1>3. PICK base \in [CallModes -> Nat] : Stacked(base)
  BY DEF Stacks
<1>4. \A i \in 0 .. n : ModeOf(i) \in CallModes /\ base[ModeOf(i)] \in Nat
  <2>1. \A i \in 0 .. n : ModeOf(i) \in CallModes
    BY <1>1, ModesTyped
  <2>2. QED
    BY <2>1
<1>5. ModeOf(n) = at.mode /\ (n = 0 => at.mode = "sys")
  BY <1>1 DEF ModeOf, Chain
<1>6. at'.mode \in CallModes /\ frames'[n + 1] = f
  BY <1>1, <1>2, FramesPushed
<1>7. \A i \in 1 .. n : Value(frames[i])' = Value(frames[i])
  BY <1>2 DEF Value
<1>8. /\ \A i \in 0 .. n : OnStack(i)' <=> OnStack(i)
      /\ \A i : i = n + 1 => ~OnStack(i)'
  BY <1>1, <1>2, <1>6 DEF OnStack
<1>9. CASE f.kind = "call" /\ at'.mode = at.mode /\ OnStack(Len(frames))
  <2>1. n + 1 > base[at.mode] /\ Len(stacks[at.mode]) = n - base[at.mode]
    <3>1. n = 0 \/ n > base[at.mode]
      BY <1>1, <1>3, <1>5 DEF Stacked
    <3>2. n = 0 => base[at.mode] = 0
      BY <1>3, <1>5 DEF Stacked
    <3>3. Len(stacks[at.mode]) = n - base[at.mode]
      BY <1>1, <1>3, <1>5, <1>9 DEF Stacked
    <3>4. QED
      BY <1>4, <1>5, <3>1, <3>2, <3>3
  <2>2. ASSUME NEW i \in 1 .. n + 1
        PROVE  /\ i > base[ModeOf(i)']
               /\ frames'[i].kind # "call" => base[ModeOf(i)'] = i - 1
               /\ frames'[i].where = "stack" =>
                    /\ i - base[ModeOf(i)'] <= Len(stacks[ModeOf(i)'])
                    /\ stacks[ModeOf(i)'][i - base[ModeOf(i)']] = Value(frames[i])'
    <3>1. CASE i = n + 1
      BY <1>2, <1>6, <1>9, <2>1, <3>1
    <3>2. CASE i \in 1 .. n
      <4>1. ModeOf(i)' = ModeOf(i) /\ frames'[i] = frames[i]
        BY <1>2, <3>2
      <4>2. /\ i > base[ModeOf(i)]
            /\ frames[i].kind # "call" => base[ModeOf(i)] = i - 1
            /\ frames[i].where = "stack" =>
                 /\ i - base[ModeOf(i)] <= Len(stacks[ModeOf(i)])
                 /\ stacks[ModeOf(i)][i - base[ModeOf(i)]] = Value(frames[i])
        BY <1>1, <1>3, <3>2 DEF Stacked
      <4>3. Value(frames[i])' = Value(frames[i])
        BY <1>7, <3>2
      <4>4. QED
        BY <4>1, <4>2, <4>3
    <3>3. QED
      BY <1>1, <3>1, <3>2
  <2>3. ASSUME NEW i \in 0 .. n + 1, i = n + 1 \/ ModeOf(i + 1)' # ModeOf(i)'
        PROVE  /\ OnStack(i)' => Len(stacks[ModeOf(i)']) = i - base[ModeOf(i)']
               /\ ~OnStack(i)' => Len(stacks[ModeOf(i)']) = i - base[ModeOf(i)'] - 1
    <3>1. CASE i = n + 1
      <4>1. ModeOf(i)' = at.mode /\ ~OnStack(i)'
        BY <1>2, <1>8, <1>9, <3>1
      <4>2. Len(stacks[at.mode]) = i - base[at.mode] - 1
        BY <1>1, <1>4, <1>5, <2>1, <3>1
      <4>3. QED
        BY <4>1, <4>2
    <3>2. CASE i = n
      BY <1>2, <1>5, <1>9, <2>3, <3>2
    <3>3. CASE i \in 0 .. n /\ i # n
      <4>1. ModeOf(i)' = ModeOf(i) /\ ModeOf(i + 1)' = ModeOf(i + 1)
        BY <1>2, <3>3
      <4>2. /\ OnStack(i) => Len(stacks[ModeOf(i)]) = i - base[ModeOf(i)]
            /\ ~OnStack(i) => Len(stacks[ModeOf(i)]) = i - base[ModeOf(i)] - 1
        BY <1>1, <1>3, <2>3, <3>3, <4>1 DEF Stacked
      <4>3. OnStack(i)' <=> OnStack(i)
        BY <1>8, <3>3
      <4>4. QED
        BY <4>1, <4>2, <4>3
    <3>4. QED
      BY <3>1, <3>2, <3>3
  <2>4. ASSUME NEW m \in CallModes, \A i \in 0 .. n + 1 : ModeOf(i)' # m PROVE stacks[m] = << >>
    <3>1. \A i \in 0 .. n : ModeOf(i) # m
      BY <1>2, <2>4
    <3>2. QED
      BY <1>1, <1>3, <3>1 DEF Stacked
  <2>5. base["sys"] = 0
    BY <1>3 DEF Stacked
  <2>6. Stacked(base)'
    BY <1>2, <2>2, <2>3, <2>4, <2>5 DEF Stacked
  <2>7. QED
    BY <2>6 DEF Stacks
<1>10. CASE at'.mode # "sys" /\ \A i \in 0 .. Len(frames) : ModeOf(i) # at'.mode
  <2>1. PICK entered \in [CallModes -> Nat] : entered = [base EXCEPT ![at'.mode] = n]
    BY <1>1
  <2>2. entered[at'.mode] = n /\ \A i \in 0 .. n : entered[ModeOf(i)] = base[ModeOf(i)]
    BY <1>1, <1>4, <1>6, <1>10, <2>1
  <2>3. stacks[at'.mode] = << >> /\ entered["sys"] = 0
    BY <1>1, <1>3, <1>6, <1>10, <2>1 DEF Stacked, CallModes
  <2>4. ASSUME NEW i \in 1 .. n + 1
        PROVE  /\ i > entered[ModeOf(i)']
               /\ frames'[i].kind # "call" => entered[ModeOf(i)'] = i - 1
               /\ frames'[i].where = "stack" =>
                    /\ i - entered[ModeOf(i)'] <= Len(stacks[ModeOf(i)'])
                    /\ stacks[ModeOf(i)'][i - entered[ModeOf(i)']] = Value(frames[i])'
    <3>1. CASE i = n + 1
      BY <1>2, <1>6, <2>2, <3>1
    <3>2. CASE i \in 1 .. n
      <4>1. ModeOf(i)' = ModeOf(i) /\ frames'[i] = frames[i]
        BY <1>2, <3>2
      <4>2. /\ i > base[ModeOf(i)]
            /\ frames[i].kind # "call" => base[ModeOf(i)] = i - 1
            /\ frames[i].where = "stack" =>
                 /\ i - base[ModeOf(i)] <= Len(stacks[ModeOf(i)])
                 /\ stacks[ModeOf(i)][i - base[ModeOf(i)]] = Value(frames[i])
        BY <1>1, <1>3, <3>2 DEF Stacked
      <4>3. entered[ModeOf(i)] = base[ModeOf(i)]
        BY <2>2, <3>2
      <4>4. Value(frames[i])' = Value(frames[i])
        BY <1>7, <3>2
      <4>5. QED
        BY <4>1, <4>2, <4>3, <4>4
    <3>3. QED
      BY <1>1, <3>1, <3>2
  <2>5. ASSUME NEW i \in 0 .. n + 1, i = n + 1 \/ ModeOf(i + 1)' # ModeOf(i)'
        PROVE  /\ OnStack(i)' => Len(stacks[ModeOf(i)']) = i - entered[ModeOf(i)']
               /\ ~OnStack(i)' => Len(stacks[ModeOf(i)']) = i - entered[ModeOf(i)'] - 1
    <3>1. CASE i = n + 1
      <4>1. ModeOf(i)' = at'.mode /\ ~OnStack(i)'
        BY <1>2, <1>8, <3>1
      <4>2. Len(stacks[at'.mode]) = i - entered[at'.mode] - 1
        BY <2>2, <2>3, <3>1
      <4>3. QED
        BY <4>1, <4>2
    <3>2. CASE i \in 0 .. n
      <4>1. ModeOf(i)' = ModeOf(i) /\ (i # n => ModeOf(i + 1)' = ModeOf(i + 1))
        BY <1>2, <3>2
      <4>2. /\ OnStack(i) => Len(stacks[ModeOf(i)]) = i - base[ModeOf(i)]
            /\ ~OnStack(i) => Len(stacks[ModeOf(i)]) = i - base[ModeOf(i)] - 1
        BY <1>1, <1>3, <2>5, <3>2, <4>1 DEF Stacked
      <4>3. (OnStack(i)' <=> OnStack(i)) /\ entered[ModeOf(i)] = base[ModeOf(i)]
        BY <1>8, <2>2, <3>2
      <4>4. QED
        BY <4>1, <4>2, <4>3
    <3>3. QED
      BY <1>1, <3>1, <3>2
  <2>6. ASSUME NEW m \in CallModes, \A i \in 0 .. n + 1 : ModeOf(i)' # m PROVE stacks[m] = << >>
    <3>1. \A i \in 0 .. n : ModeOf(i) # m
      BY <1>2, <2>6
    <3>2. QED
      BY <1>1, <1>3, <3>1 DEF Stacked
  <2>7. Stacked(entered)'
    BY <1>2, <2>3, <2>4, <2>5, <2>6 DEF Stacked
  <2>8. QED
    BY <2>7 DEF Stacks
<1>11. QED
  BY <1>9, <1>10

\* A call.
LEMMA CallKeeps ==
  ASSUME CallInv, OnStack(Len(frames)), NEW f \in FrameType, frames' = Append(frames, f),
         f.kind = "call", f.where = "link", f.half = NoHalf, f.due.mode = at.mode,
         Aligned(f.due.pc, f.due.thumb), Value(f) \in Int, SetLink(Value(f)),
         UNCHANGED <<saved, stacks>>, half' = NoHalf,
         at' \in [pc : Int, thumb : BOOLEAN, mode : {at.mode}, off : BOOLEAN],
         Aligned(at.pc, at.thumb)'
  PROVE  CallInv'
<1>1. PICK n \in Nat : n = Len(frames)
  BY DEF CallInv, CallTypeOK
<1>2. /\ Len(frames') = n + 1 /\ frames'[n + 1] = f /\ frames' \in Seq(FrameType)
      /\ \A i \in 1 .. n : frames'[i] = frames[i]
      /\ \A i \in 0 .. n : ModeOf(i)' = ModeOf(i)
      /\ \A i : i = n + 1 => ModeOf(i)' = at.mode
  BY <1>1, FramesPushed DEF CallInv
<1>3. CallTypeOK' /\ link'[at.mode] = Value(f)
  BY <1>2 DEF CallInv, CallTypeOK, SetLink, HalfType
<1>4. \A i \in 1 .. n : FrameHolds(i)'
  BY <1>1, <1>2, LinkWritten DEF CallInv
<1>5. ASSUME NEW i, i = n + 1 PROVE FrameHolds(i)'
  <2>1. ModeOf(i)' = at.mode /\ frames'[i] = f /\ i - 1 = n
    BY <1>1, <1>2, <1>5
  <2>2. ModeOf(i - 1)' = at.mode
    BY <1>1, <1>2, <2>1 DEF ModeOf
  <2>3. OnStack(i - 1)'
    <3>1. n # 0 => frames'[n] = frames[n] /\ frames[n].where = "stack"
      BY <1>1, <1>2 DEF OnStack
    <3>2. QED
      BY <2>1, <3>1 DEF OnStack
  <2>4. Function(i)'
    BY <2>1, <2>3 DEF Function
  <2>5. Value(frames[i])' = Value(f)
    BY <2>1 DEF Value
  <2>6. Pending(frames[i].half, frames[i].due.pc, frames[i].due.thumb, i - 1)'
    BY <2>1 DEF Pending, NoHalf
  <2>7. QED
    BY <1>3, <2>1, <2>4, <2>5, <2>6 DEF FrameHolds
<1>6. Adjacent'
  BY <1>1, <1>2, AdjacentPushed DEF CallInv, Chain
<1>7. Pending(half, at.pc, at.thumb, Len(frames))'
  BY DEF Pending, NoHalf
<1>8. Chain'
  <2>1. ModeOf(0)' = "sys" /\ \A i \in 1 .. n + 1 : FrameHolds(i)'
    BY <1>1, <1>2, <1>4, <1>5 DEF CallInv, Chain
  <2>2. QED
    BY <1>2, <1>6, <1>7, <2>1 DEF Chain
<1>9. Stacks'
  BY <1>1, StacksPushed DEF CallInv, CallTypeOK
<1>10. QED
  BY <1>3, <1>8, <1>9 DEF CallInv

\* SWI and the interrupt, into a mode that nothing uses.
LEMMA EnterKeeps ==
  ASSUME CallInv, NEW f \in FrameType, frames' = Append(frames, f),
         f.kind \in {"swi", "irq"}, f.where = "link",
         NEW m, m = Vector[f.kind].mode, Unused(m),
         f.due.thumb = at.thumb, f.due.mode = at.mode, Aligned(f.due.pc, f.due.thumb),
         Pending(f.half, f.due.pc, f.due.thumb, Len(frames)),
         Value(f) \in Int, link' = [link EXCEPT ![m] = Value(f)],
         saved' = [saved EXCEPT ![m] = [thumb |-> at.thumb, mode |-> at.mode, off |-> at.off]],
         NEW pc \in {8, 24}, at' = [pc |-> pc, thumb |-> FALSE, mode |-> m, off |-> TRUE],
         half' = NoHalf, UNCHANGED stacks
  PROVE  CallInv'
<1>1. PICK n \in Nat : n = Len(frames)
  BY DEF CallInv, CallTypeOK
<1>2. /\ Len(frames') = n + 1 /\ frames'[n + 1] = f /\ frames' \in Seq(FrameType)
      /\ \A i \in 1 .. n : frames'[i] = frames[i]
      /\ \A i \in 0 .. n : ModeOf(i)' = ModeOf(i)
      /\ \A i : i = n + 1 => ModeOf(i)' = m
  BY <1>1, FramesPushed DEF CallInv
<1>3. m \in {"svc", "irq"} /\ m \in CallModes /\ m \in CallModes \ {"sys"}
  BY DEF Vector, CallModes
<1>4. \A i \in 0 .. n : ModeOf(i) # m
  BY <1>1 DEF Unused, ModeOf
<1>5. [thumb |-> at.thumb, mode |-> at.mode, off |-> at.off]
        \in [thumb : BOOLEAN, mode : CallModes, off : BOOLEAN]
  BY DEF CallInv, CallTypeOK
<1>6. CallTypeOK'
  <2>1. link' \in [CallModes -> Int]
    BY <1>3 DEF CallInv, CallTypeOK
  <2>2. saved' \in [CallModes \ {"sys"} -> [thumb : BOOLEAN, mode : CallModes, off : BOOLEAN]]
    BY <1>3, <1>5 DEF CallInv, CallTypeOK
  <2>3. at' \in [pc : Int, thumb : BOOLEAN, mode : CallModes, off : BOOLEAN]
    BY <1>3
  <2>4. stacks' \in [CallModes -> Seq(Int)] /\ half' \in HalfType
    BY DEF CallInv, CallTypeOK, HalfType
  <2>5. QED
    BY <1>2, <2>1, <2>2, <2>3, <2>4 DEF CallTypeOK
<1>7. /\ link'[m] = Value(f) /\ saved'[m].thumb = at.thumb /\ saved'[m].mode = at.mode
      /\ \A x \in CallModes : x # m => link'[x] = link[x]
      /\ \A x \in CallModes \ {"sys"} : x # m => saved'[x] = saved[x]
  BY <1>3 DEF CallInv, CallTypeOK
<1>8. \A i \in 0 .. n : ModeOf(i) \in CallModes
  BY <1>1, ModesTyped DEF CallInv
<1>9. \A i \in 1 .. n : FrameHolds(i)'
  <2>1. SUFFICES ASSUME NEW i \in 1 .. n PROVE FrameHolds(i)'
    OBVIOUS
  <2>2. FrameHolds(i) /\ \A j \in 0 .. i : ModeOf(j)' = ModeOf(j)
    BY <1>1, <1>2 DEF CallInv, Chain
  <2>3. OnStack(i - 1) => OnStack(i - 1)'
    BY <1>1, <1>2 DEF OnStack
  <2>4. link'[ModeOf(i)] = link[ModeOf(i)] /\ link'[ModeOf(i - 1)] = link[ModeOf(i - 1)]
    BY <1>1, <1>4, <1>7, <1>8
  <2>5. frames[i].kind # "call" => saved'[ModeOf(i)] = saved[ModeOf(i)]
    <3>1. frames[i].kind # "call" => ModeOf(i) # "sys"
      BY <1>1, <2>2, FrameTyped DEF FrameHolds, Handler, Vector, CallInv
    <3>2. QED
      BY <1>1, <1>4, <1>7, <1>8, <3>1
  <2>6. QED
    BY <1>1, <1>2, <2>2, <2>3, <2>4, <2>5, FrameHoldsKept DEF CallInv
<1>10. ASSUME NEW i, i = n + 1 PROVE FrameHolds(i)'
  <2>1. ModeOf(i)' = m /\ frames'[i] = f /\ i - 1 = n
    BY <1>1, <1>2, <1>10
  <2>2. ModeOf(i - 1)' = at.mode /\ ModeOf(n) = at.mode /\ at.mode # m
    BY <1>1, <1>2, <1>4, <2>1 DEF ModeOf
  <2>3. Handler(i)'
    <3>1. \A j \in 0 .. i - 1 : ModeOf(j)' # m
      BY <1>2, <1>4, <2>1
    <3>2. QED
      BY <1>7, <2>1, <3>1 DEF Handler
  <2>4. Value(frames[i])' = Value(f)
    BY <2>1 DEF Value
  <2>5. OnStack(n) => OnStack(i - 1)'
    <3>1. n # 0 => frames'[n] = frames[n]
      BY <1>1, <1>2
    <3>2. QED
      BY <2>1, <3>1 DEF OnStack
  <2>6. Pending(frames[i].half, frames[i].due.pc, frames[i].due.thumb, i - 1)'
    BY <1>1, <1>7, <1>8, <2>1, <2>2, <2>5 DEF Pending
  <2>7. QED
    BY <1>7, <2>1, <2>3, <2>4, <2>6 DEF FrameHolds
<1>11. Adjacent'
  BY <1>1, <1>2, <1>4, AdjacentPushed DEF CallInv, Chain
<1>12. Pending(half, at.pc, at.thumb, Len(frames))'
  BY DEF Pending, NoHalf
<1>13. Chain'
  <2>1. ModeOf(0)' = "sys" /\ \A i \in 1 .. n + 1 : FrameHolds(i)'
    BY <1>1, <1>2, <1>9, <1>10 DEF CallInv, Chain
  <2>2. Aligned(at.pc, at.thumb)'
    BY DEF Aligned
  <2>3. QED
    BY <1>2, <1>11, <1>12, <2>1, <2>2 DEF Chain
<1>14. Stacks'
  BY <1>1, <1>3, <1>4, StacksPushed DEF CallInv, CallTypeOK
<1>15. QED
  BY <1>6, <1>13, <1>14 DEF CallInv

\* What a return finds: the value of its frame, in the link register or on top
\* of the stack of its mode.
LEMMA ReturnFinds ==
  ASSUME CallInv, frames # << >>
  PROVE  /\ Len(frames) \in 1 .. Len(frames) /\ Last(frames) = frames[Len(frames)]
         /\ FrameHolds(Len(frames)) /\ ModeOf(Len(frames)) = at.mode
         /\ Last(frames).where = "link" => link[at.mode] = Value(Last(frames))
         /\ Last(frames).where = "stack" =>
              stacks[at.mode] # << >> /\ Last(stacks[at.mode]) = Value(Last(frames))
<1>1. Len(frames) \in 1 .. Len(frames) /\ Last(frames) = frames[Len(frames)]
  <2>1. frames \in Seq(FrameType)
    BY DEF CallInv, CallTypeOK
  <2>2. Len(frames) \in Nat \ {0} /\ Last(frames) = frames[Len(frames)]
    BY <2>1, FrontIs
  <2>3. QED
    BY <2>2
<1>2. FrameHolds(Len(frames)) /\ ModeOf(Len(frames)) = at.mode
  BY <1>1 DEF CallInv, Chain, ModeOf
<1>3. Last(frames).where = "link" => link[at.mode] = Value(Last(frames))
  BY <1>1, <1>2 DEF FrameHolds
<1>4. ASSUME Last(frames).where = "stack"
      PROVE  stacks[at.mode] # << >> /\ Last(stacks[at.mode]) = Value(Last(frames))
  <2>1. PICK base \in [CallModes -> Nat] : Stacked(base)
    BY DEF CallInv, Stacks
  <2>2. /\ Len(frames) > base[at.mode] /\ Len(stacks[at.mode]) = Len(frames) - base[at.mode]
        /\ stacks[at.mode][Len(frames) - base[at.mode]] = Value(Last(frames))
    BY <1>1, <1>2, <1>4, <2>1 DEF Stacked, OnStack
  <2>3. stacks[at.mode] \in Seq(Int) /\ base[at.mode] \in Nat /\ Len(frames) \in Nat
    BY <1>1 DEF CallInv, CallTypeOK
  <2>4. Len(stacks[at.mode]) > 0
    BY <2>2, <2>3
  <2>5. stacks[at.mode] # << >>
    BY <2>3, <2>4
  <2>6. QED
    BY <2>2, <2>3, <2>5, FrontIs
<1>5. QED
  BY <1>1, <1>2, <1>3, <1>4

LEMMA StacksPopped ==
  ASSUME CallInv, frames # << >>, frames' = Front(frames), at'.mode = Last(frames).due.mode,
         \/ Last(frames).where = "link" /\ stacks' = stacks
         \/ /\ Last(frames).where = "stack"
            /\ stacks' = [stacks EXCEPT ![at.mode] = Front(@)]
  PROVE  Stacks' /\ stacks' \in [CallModes -> Seq(Int)]
<1>1. PICK n \in Nat \ {0} : n = Len(frames) /\ n \in 1 .. n /\ n - 1 \in 0 .. n
  BY ReturnFinds DEF CallInv, CallTypeOK
<1>2. /\ Len(frames') = n - 1 /\ \A i \in 1 .. n - 1 : frames'[i] = frames[i]
      /\ \A i \in 0 .. n - 1 : ModeOf(i)' = ModeOf(i)
  BY <1>1, FramesPopped DEF CallInv
<1>3. /\ Last(frames) = frames[n] /\ FrameHolds(n) /\ ModeOf(n) = at.mode /\ at.mode \in CallModes
      /\ Last(frames).where = "stack" => stacks[at.mode] # << >>
  BY <1>1, ReturnFinds DEF CallInv, CallTypeOK
<1>4. PICK base \in [CallModes -> Nat] : Stacked(base)
  BY DEF CallInv, Stacks
<1>5. /\ Last(frames).where \in {"link", "stack"} /\ Last(frames).kind \in {"call", "swi", "irq"}
      /\ n > base[at.mode] /\ base[at.mode] \in Nat
      /\ Last(frames).kind # "call" => base[at.mode] = n - 1
      /\ Last(frames).where = "stack" => Len(stacks[at.mode]) = n - base[at.mode]
      /\ Last(frames).where = "link" => Len(stacks[at.mode]) = n - base[at.mode] - 1
  <2>1. Last(frames).where \in {"link", "stack"} /\ Last(frames).kind \in {"call", "swi", "irq"}
    BY <1>1, <1>3, FrameTyped DEF CallInv
  <2>2. OnStack(n) <=> Last(frames).where = "stack"
    BY <1>1, <1>3 DEF OnStack
  <2>3. n > base[at.mode] /\ (Last(frames).kind # "call" => base[at.mode] = n - 1)
    BY <1>1, <1>3, <1>4 DEF Stacked
  <2>4. /\ OnStack(n) => Len(stacks[at.mode]) = n - base[at.mode]
        /\ ~OnStack(n) => Len(stacks[at.mode]) = n - base[at.mode] - 1
    BY <1>1, <1>3, <1>4 DEF Stacked
  <2>5. QED
    BY <1>3, <2>1, <2>2, <2>3, <2>4
<1>6. /\ stacks' \in [CallModes -> Seq(Int)]
      /\ \A x \in CallModes : x # at.mode => stacks'[x] = stacks[x]
      /\ Len(stacks'[at.mode]) = n - base[at.mode] - 1
      /\ \A k \in 1 .. n - base[at.mode] - 1 : stacks'[at.mode][k] = stacks[at.mode][k]
  <2>1. stacks \in [CallModes -> Seq(Int)]
    BY DEF CallInv, CallTypeOK
  <2>2. CASE Last(frames).where = "link" /\ stacks' = stacks
    BY <1>3, <1>5, <2>1, <2>2
  <2>3. CASE /\ Last(frames).where = "stack"
             /\ stacks' = [stacks EXCEPT ![at.mode] = Front(@)]
    <3>1. /\ Front(stacks[at.mode]) \in Seq(Int)
          /\ Len(Front(stacks[at.mode])) = Len(stacks[at.mode]) - 1
          /\ \A k \in 1 .. Len(stacks[at.mode]) - 1 : Front(stacks[at.mode])[k] = stacks[at.mode][k]
      <4>1. stacks[at.mode] \in Seq(Int) /\ stacks[at.mode] # << >>
        BY <1>3, <2>1, <2>3
      <4>2. QED
        BY <4>1, FrontIs
    <3>2. stacks'[at.mode] = Front(stacks[at.mode])
      BY <1>3, <2>1, <2>3
    <3>3. stacks' \in [CallModes -> Seq(Int)] /\ \A x \in CallModes : x # at.mode => stacks'[x] = stacks[x]
      BY <1>3, <2>1, <2>3, <3>1
    <3>4. QED
      BY <1>5, <2>3, <3>1, <3>2, <3>3
  <2>4. QED
    BY <2>2, <2>3
<1>7. \A i \in 0 .. n : ModeOf(i) \in CallModes /\ base[ModeOf(i)] \in Nat
  <2>1. \A i \in 0 .. n : ModeOf(i) \in CallModes
    BY <1>1, ModesTyped DEF CallInv
  <2>2. QED
    BY <2>1
<1>8. \A i \in 0 .. n - 1 : (OnStack(i)' <=> OnStack(i))
  BY <1>1, <1>2 DEF OnStack
<1>9. ASSUME NEW i \in 1 .. n - 1
      PROVE  /\ i > base[ModeOf(i)']
             /\ frames'[i].kind # "call" => base[ModeOf(i)'] = i - 1
             /\ frames'[i].where = "stack" =>
                  /\ i - base[ModeOf(i)'] <= Len(stacks'[ModeOf(i)'])
                  /\ stacks'[ModeOf(i)'][i - base[ModeOf(i)']] = Value(frames[i])'
  <2>1. i \in 1 .. n /\ i \in 0 .. n /\ ModeOf(i)' = ModeOf(i) /\ frames'[i] = frames[i] /\ i < n
    BY <1>1, <1>2
  <2>2. Value(frames[i])' = Value(frames[i])
    BY <2>1 DEF Value
  <2>3. /\ i > base[ModeOf(i)]
        /\ frames[i].kind # "call" => base[ModeOf(i)] = i - 1
        /\ frames[i].where = "stack" =>
             /\ i - base[ModeOf(i)] <= Len(stacks[ModeOf(i)])
             /\ stacks[ModeOf(i)][i - base[ModeOf(i)]] = Value(frames[i])
    BY <1>1, <1>4, <2>1 DEF Stacked
  <2>4. ModeOf(i) \in CallModes /\ base[ModeOf(i)] \in Nat
    BY <1>7, <2>1
  <2>5. CASE ModeOf(i) # at.mode
    BY <1>6, <2>1, <2>2, <2>3, <2>4, <2>5
  <2>6. CASE ModeOf(i) = at.mode
    <3>1. i - base[at.mode] \in 1 .. n - base[at.mode] - 1
      <4>1. base[at.mode] \in Nat /\ i > base[at.mode]
        BY <2>3, <2>4, <2>6
      <4>2. i \in Nat /\ i <= n - 1 /\ n \in Nat
        BY <1>1
      <4>3. QED
        BY <4>1, <4>2
    <3>2. /\ i - base[at.mode] <= Len(stacks'[at.mode])
          /\ stacks'[at.mode][i - base[at.mode]] = stacks[at.mode][i - base[at.mode]]
      BY <1>6, <3>1
    <3>3. QED
      BY <2>1, <2>2, <2>3, <2>6, <3>2
  <2>7. QED
    BY <2>5, <2>6
<1>10. ASSUME NEW i \in 0 .. n - 1, i = n - 1 \/ ModeOf(i + 1)' # ModeOf(i)'
       PROVE  /\ OnStack(i)' => Len(stacks'[ModeOf(i)']) = i - base[ModeOf(i)']
              /\ ~OnStack(i)' => Len(stacks'[ModeOf(i)']) = i - base[ModeOf(i)'] - 1
  <2>1. i \in 0 .. n /\ ModeOf(i)' = ModeOf(i) /\ i < n /\ ModeOf(i) \in CallModes
    <3>1. i \in 0 .. n /\ i < n
      BY <1>1
    <3>2. QED
      BY <1>2, <1>7, <3>1
  <2>2. OnStack(i)' <=> OnStack(i)
    BY <1>8
  <2>3. CASE ModeOf(i) = at.mode
    <3>1. frames[i + 1].kind = "call" /\ ModeOf(i + 1) = ModeOf(i) /\ OnStack(i)
      BY <1>1, <1>3, <2>1, <2>3, SameMode DEF CallInv
    <3>2. i = n - 1
      BY <1>1, <1>2, <1>10, <2>1, <3>1
    <3>3. Len(stacks'[at.mode]) = i - base[at.mode]
      <4>1. base[at.mode] \in Nat
        BY <1>5
      <4>2. Len(stacks'[at.mode]) = n - base[at.mode] - 1
        BY <1>6
      <4>3. QED
        BY <1>1, <3>2, <4>1, <4>2
    <3>4. QED
      BY <2>1, <2>2, <2>3, <3>1, <3>3
  <2>4. CASE ModeOf(i) # at.mode
    <3>1. ModeOf(i + 1) # ModeOf(i)
      BY <1>1, <1>2, <1>3, <1>10, <2>1, <2>4
    <3>2. /\ OnStack(i) => Len(stacks[ModeOf(i)]) = i - base[ModeOf(i)]
          /\ ~OnStack(i) => Len(stacks[ModeOf(i)]) = i - base[ModeOf(i)] - 1
      BY <1>1, <1>4, <2>1, <3>1 DEF Stacked
    <3>3. stacks'[ModeOf(i)] = stacks[ModeOf(i)]
      BY <1>6, <2>1, <2>4
    <3>4. QED
      BY <2>1, <2>2, <3>2, <3>3
  <2>5. QED
    BY <2>3, <2>4
<1>11. ASSUME NEW m \in CallModes, \A i \in 0 .. n - 1 : ModeOf(i)' # m PROVE stacks'[m] = << >>
  <2>1. \A i \in 0 .. n - 1 : ModeOf(i) # m
    BY <1>2, <1>11
  <2>2. CASE m = at.mode
    <3>1. frames[n].kind # "call"
      <4>1. frames[n].kind = "call" => frames[n].due.mode = ModeOf(n)
        BY <1>3 DEF FrameHolds, Function
      <4>2. ModeOf(n - 1) = frames[n].due.mode
        BY <1>1 DEF ModeOf
      <4>3. QED
        BY <1>1, <1>3, <2>1, <2>2, <4>1, <4>2
    <3>2. Len(stacks'[m]) = 0 /\ stacks'[m] \in Seq(Int)
      BY <1>1, <1>3, <1>5, <1>6, <2>2, <3>1
    <3>3. QED
      BY <3>2
  <2>3. CASE m # at.mode
    <3>1. \A i \in 0 .. n : ModeOf(i) # m
      BY <1>1, <1>3, <2>1, <2>3
    <3>2. QED
      BY <1>1, <1>4, <1>6, <2>3, <3>1 DEF Stacked
  <2>4. QED
    BY <2>2, <2>3
<1>12. Stacked(base)'
  <2>1. base["sys"] = 0
    BY <1>4 DEF Stacked
  <2>2. QED
    BY <1>2, <1>9, <1>10, <1>11, <2>1 DEF Stacked
<1>13. QED
  BY <1>6, <1>12 DEF Stacks

\* A return to where its frame is due.
LEMMA ReturnKeeps ==
  ASSUME CallInv, frames # << >>, Left, UNCHANGED <<link, saved>>,
         at'.pc = Last(frames).due.pc, at'.thumb = Last(frames).due.thumb,
         at'.mode = Last(frames).due.mode,
         at' \in [pc : Int, thumb : BOOLEAN, mode : CallModes, off : BOOLEAN],
         \/ Last(frames).where = "link" /\ stacks' = stacks
         \/ /\ Last(frames).where = "stack"
            /\ stacks' = [stacks EXCEPT ![at.mode] = Front(@)]
  PROVE  CallInv'
<1>1. PICK n \in Nat \ {0} : n = Len(frames) /\ n \in 1 .. n /\ n - 1 \in 0 .. n
  BY ReturnFinds DEF CallInv, CallTypeOK
<1>2. frames' = Front(frames) /\ half' = Last(frames).half
  BY DEF Left
<1>3. /\ Len(frames') = n - 1 /\ frames' \in Seq(FrameType)
      /\ \A i \in 1 .. n - 1 : frames'[i] = frames[i]
      /\ \A i \in 0 .. n - 1 : ModeOf(i)' = ModeOf(i)
  BY <1>1, <1>2, FramesPopped DEF CallInv
<1>4. Last(frames) = frames[n] /\ FrameHolds(n) /\ ModeOf(n) = at.mode
  BY <1>1, ReturnFinds
<1>5. Stacks' /\ stacks' \in [CallModes -> Seq(Int)]
  BY <1>2, StacksPopped
<1>6. CallTypeOK'
  <2>1. half' \in HalfType
    BY <1>1, <1>2, <1>4, FrameTyped DEF CallInv
  <2>2. QED
    BY <1>3, <1>5, <2>1 DEF CallInv, CallTypeOK
<1>7. \A i \in 0 .. n - 1 : OnStack(i) => OnStack(i)'
  BY <1>1, <1>3 DEF OnStack
<1>8. \A i \in 1 .. n - 1 : FrameHolds(i)'
  <2>1. SUFFICES ASSUME NEW i \in 1 .. n - 1 PROVE FrameHolds(i)'
    OBVIOUS
  <2>2. i \in 1 .. n /\ FrameHolds(i) /\ i - 1 \in 0 .. n - 1 /\ \A j \in 0 .. i : ModeOf(j)' = ModeOf(j)
    BY <1>1, <1>3 DEF CallInv, Chain
  <2>3. QED
    BY <1>1, <1>3, <1>7, <2>2, FrameHoldsKept DEF CallInv
<1>9. Adjacent'
  <2>1. ASSUME NEW i \in 0 .. n - 1, NEW j \in 0 .. n - 1, i < j, ModeOf(i)' = ModeOf(j)'
        PROVE  frames'[i + 1].kind = "call"
    <3>1. i \in 0 .. n /\ j \in 0 .. n /\ ModeOf(i) = ModeOf(j) /\ i + 1 \in 1 .. n - 1
      BY <1>1, <1>3, <2>1
    <3>2. frames[i + 1].kind = "call"
      BY <1>1, <2>1, <3>1 DEF CallInv, Chain, Adjacent
    <3>3. QED
      BY <1>3, <3>1, <3>2
  <2>2. QED
    BY <1>3, <2>1 DEF Adjacent
<1>10. Pending(half, at.pc, at.thumb, Len(frames))'
  <2>1. Pending(frames[n].half, frames[n].due.pc, frames[n].due.thumb, n - 1)
    BY <1>4 DEF FrameHolds
  <2>2. ModeOf(n - 1)' = ModeOf(n - 1) /\ n - 1 \in 0 .. n - 1
    BY <1>1, <1>3
  <2>3. OnStack(n - 1) => OnStack(n - 1)'
    BY <1>7, <2>2
  <2>4. Len(frames') = n - 1 /\ half' = frames[n].half /\ at'.pc = frames[n].due.pc /\ at'.thumb = frames[n].due.thumb
    BY <1>2, <1>3, <1>4
  <2>5. QED
    BY <2>1, <2>2, <2>3, <2>4 DEF Pending
<1>11. Chain'
  <2>1. ModeOf(0)' = "sys" /\ Aligned(at.pc, at.thumb)'
    BY <1>1, <1>3, <1>4 DEF CallInv, Chain, FrameHolds, Aligned
  <2>2. QED
    BY <1>3, <1>8, <1>9, <1>10, <2>1 DEF Chain
<1>12. QED
  BY <1>5, <1>6, <1>11 DEF CallInv

Returns ==
  \/ ReturnExchange \/ ReturnMove \/ ReturnPop
  \/ ReturnMovs \/ ReturnLoad \/ ReturnFromInterrupt

\* Where each of the returns goes.
LEMMA ReturnsToDue ==
  ASSUME CallInv, Returns, "halfword" \notin ReturnForms
  PROVE  /\ frames # << >> /\ Left /\ UNCHANGED <<link, saved>>
         /\ at'.pc = Last(frames).due.pc /\ at'.thumb = Last(frames).due.thumb
         /\ at'.mode = Last(frames).due.mode
         /\ at' \in [pc : Int, thumb : BOOLEAN, mode : CallModes, off : BOOLEAN]
         /\ \/ Last(frames).where = "link" /\ stacks' = stacks
            \/ /\ Last(frames).where = "stack"
               /\ stacks' = [stacks EXCEPT ![at.mode] = Front(@)]
<1>1. frames # << >> /\ Left /\ UNCHANGED <<link, saved>>
  BY DEF Returns, ReturnExchange, ReturnMove, ReturnPop, ReturnMovs, ReturnLoad,
         ReturnFromInterrupt, Within, Left
<1>2. \/ Last(frames).where = "link" /\ stacks' = stacks
      \/ /\ Last(frames).where = "stack"
         /\ stacks' = [stacks EXCEPT ![at.mode] = Front(@)]
  BY DEF Returns, ReturnExchange, ReturnMove, ReturnPop, ReturnMovs, ReturnLoad,
         ReturnFromInterrupt, Within
<1>3. PICK n \in 1 .. Len(frames) : n = Len(frames)
  BY <1>1, ReturnFinds
<1>4. PICK f : f = Last(frames)
  OBVIOUS
<1>5. /\ f = frames[n] /\ FrameHolds(n) /\ ModeOf(n) = at.mode /\ Last(frames) = f
      /\ f.where = "link" => link[at.mode] = Value(f)
      /\ f.where = "stack" => Last(stacks[at.mode]) = Value(f)
  BY <1>1, <1>3, <1>4, ReturnFinds
<1>6. /\ f.due.pc \in Int /\ f.due.thumb \in BOOLEAN /\ f.due.mode \in CallModes
      /\ f.kind \in {"call", "swi", "irq"} /\ Aligned(f.due.pc, f.due.thumb)
  BY <1>3, <1>5, FrameTyped DEF CallInv, FrameHolds
<1>7. at \in [pc : Int, thumb : BOOLEAN, mode : CallModes, off : BOOLEAN]
  BY DEF CallInv, CallTypeOK
<1>8. f.kind = "call" => f.due.mode = at.mode /\ Value(f) = IF f.due.thumb THEN f.due.pc + 1 ELSE f.due.pc
  BY <1>5, <1>6 DEF FrameHolds, Function, Value
<1>9. f.kind # "call" => /\ at.mode = Vector[f.kind].mode
                         /\ saved[at.mode].thumb = f.due.thumb
                         /\ saved[at.mode].mode = f.due.mode
                         /\ saved[at.mode] \in [thumb : BOOLEAN, mode : CallModes, off : BOOLEAN]
  <2>1. f.kind # "call" => Handler(n)
    BY <1>5 DEF FrameHolds
  <2>2. f.kind # "call" => at.mode # "sys"
    BY <1>5, <1>6, <2>1 DEF Handler, Vector
  <2>3. n \in 0 .. Len(frames)
    BY <1>3
  <2>4. QED
    BY <1>5, <2>1, <2>2, <2>3, ModesTyped DEF Handler, CallInv
\* The three returns of a function.
<1>10. ASSUME f.kind = "call", NEW v, v = Value(f), Exchanged(v)
       PROVE  /\ at'.pc = f.due.pc /\ at'.thumb = f.due.thumb /\ at'.mode = f.due.mode
              /\ at' \in [pc : Int, thumb : BOOLEAN, mode : CallModes, off : BOOLEAN]
  <2>1. v - (v % 2) = f.due.pc /\ ((v % 2 = 1) <=> f.due.thumb)
    <3>1. /\ f.due.pc \in Int /\ f.due.thumb \in BOOLEAN /\ Aligned(f.due.pc, f.due.thumb)
          /\ v = IF f.due.thumb THEN f.due.pc + 1 ELSE f.due.pc
      BY <1>6, <1>8, <1>10
    <3>2. QED
      BY <3>1, ExchangeValue, SMTT(60)
  <2>2. at' = [at EXCEPT !.pc = f.due.pc, !.thumb = (v % 2 = 1)]
    BY <1>10, <2>1 DEF Exchanged, Goto
  <2>3. QED
    BY <1>6, <1>7, <1>8, <1>10, <2>1, <2>2
<1>11. CASE ReturnExchange
  BY <1>1, <1>2, <1>4, <1>5, <1>10, <1>11 DEF ReturnExchange, Within
<1>12. CASE ReturnPop
  BY <1>1, <1>2, <1>4, <1>5, <1>10, <1>12 DEF ReturnPop, Within
<1>13. CASE ReturnMove
  <2>1. /\ f.kind = "call" /\ f.where = "link" /\ f.due.thumb = at.thumb
        /\ Goto(IF at.thumb THEN link[at.mode] - (link[at.mode] % 2) ELSE link[at.mode], at.thumb)
    BY <1>4, <1>13 DEF ReturnMove, Within
  <2>2. (IF at.thumb THEN link[at.mode] - (link[at.mode] % 2) ELSE link[at.mode]) = f.due.pc
    <3>1. PICK v : v = IF f.due.thumb THEN f.due.pc + 1 ELSE f.due.pc
      OBVIOUS
    <3>2. link[at.mode] = v
      BY <1>5, <1>8, <2>1, <3>1
    <3>3. v - (v % 2) = f.due.pc
      <4>1. f.due.pc \in Int /\ f.due.thumb \in BOOLEAN /\ Aligned(f.due.pc, f.due.thumb)
        BY <1>6
      <4>2. QED
        BY <3>1, <4>1, ExchangeValue, SMTT(60)
    <3>4. QED
      BY <1>6, <2>1, <3>1, <3>2, <3>3
  <2>3. at' = [at EXCEPT !.pc = f.due.pc, !.thumb = f.due.thumb]
    BY <2>1, <2>2 DEF Goto
  <2>4. QED
    BY <1>1, <1>2, <1>4, <1>6, <1>7, <1>8, <2>1, <2>3
\* The three returns of a handler.
<1>14. ASSUME f.kind # "call", Restored(f.due.pc)
       PROVE  /\ at'.pc = f.due.pc /\ at'.thumb = f.due.thumb /\ at'.mode = f.due.mode
              /\ at' \in [pc : Int, thumb : BOOLEAN, mode : CallModes, off : BOOLEAN]
  BY <1>6, <1>9, <1>14 DEF Restored
<1>15. ASSUME NEW v, Returnable(v), v \in Int PROVE Word(v) = v
  BY <1>15 DEF Returnable, Word
<1>16. CASE ReturnMovs
  <2>1. /\ f.kind \in {"swi", "irq"} /\ f.where = "link"
        /\ f.kind = "irq" => ~saved["irq"].thumb
    BY <1>4, <1>16 DEF ReturnMovs, Within
  <2>2. link[at.mode] - (IF f.kind = "irq" THEN 4 ELSE 0) = f.due.pc
    <3>1. link[at.mode] = Value(f)
      BY <1>5, <2>1
    <3>2. f.kind = "irq" => ~f.due.thumb
      BY <1>9, <2>1 DEF Vector
    <3>3. QED
      BY <1>6, <2>1, <3>1, <3>2 DEF Value
  <2>3. Returnable(f.due.pc) /\ Restored(Word(f.due.pc))
    BY <1>4, <1>16, <2>2 DEF ReturnMovs
  <2>4. QED
    BY <1>1, <1>2, <1>4, <1>6, <1>14, <1>15, <2>1, <2>3
<1>17. CASE ReturnLoad
  <2>1. f.kind = "swi" /\ f.where = "stack"
    BY <1>4, <1>17 DEF ReturnLoad, Within
  <2>2. Last(stacks[at.mode]) = f.due.pc
    BY <1>5, <2>1 DEF Value
  <2>3. Returnable(f.due.pc) /\ Restored(Word(f.due.pc))
    BY <1>17, <2>2 DEF ReturnLoad
  <2>4. QED
    BY <1>1, <1>2, <1>4, <1>6, <1>14, <1>15, <2>1, <2>3
<1>18. CASE ReturnFromInterrupt
  <2>1. f.kind = "irq" /\ f.where = "link"
    BY <1>4, <1>18 DEF ReturnFromInterrupt, Within
  <2>2. at.mode = "irq" /\ saved["irq"].thumb = f.due.thumb /\ link["irq"] = Value(f)
    BY <1>5, <1>9, <2>1 DEF Vector
  <2>3. link["irq"] - (IF saved["irq"].thumb THEN 2 ELSE 4) = f.due.pc
    BY <1>6, <2>1, <2>2 DEF Value
  <2>4. Restored(f.due.pc)
    BY <1>18, <2>3 DEF ReturnFromInterrupt
  <2>5. QED
    BY <1>1, <1>2, <1>4, <1>14, <2>1, <2>4
<1>19. QED
  BY <1>11, <1>12, <1>13, <1>16, <1>17, <1>18 DEF Returns

\* A step that is not a return does not lose a frame.
LEMMA CallsPush ==
  ASSUME CallTypeOK, NEW f, frames' = Append(frames, f)
  PROVE  Len(frames') = Len(frames) + 1 /\ Len(frames) \in Nat
BY DEF CallTypeOK

LEMMA FreeIsOnStack ==
  ASSUME CallInv, Free
  PROVE  OnStack(Len(frames))
<1>1. CASE frames = << >>
  BY <1>1 DEF OnStack
<1>2. CASE frames # << >>
  BY <1>2, ReturnFinds DEF Free, OnStack
<1>3. QED
  BY <1>1, <1>2

\* What a running instruction knows of its place.
LEMMA Here ==
  ASSUME CallInv
  PROVE  /\ at \in [pc : Int, thumb : BOOLEAN, mode : CallModes, off : BOOLEAN]
         /\ at.pc \in Int /\ at.thumb \in BOOLEAN /\ at.mode \in CallModes /\ at.off \in BOOLEAN
         /\ Aligned(at.pc, at.thumb) /\ Size \in {2, 4} /\ Aligned(at.pc + Size, at.thumb)
         /\ at.pc + 4 \in Int /\ Aligned(at.pc + 4, at.thumb)
         /\ at.pc + 2 \in Int /\ (at.thumb => Aligned(at.pc + 2, at.thumb))
         /\ link[at.mode] \in Int
         /\ Pending(half, at.pc, at.thumb, Len(frames)) /\ ModeOf(Len(frames)) = at.mode
<1>1. /\ at \in [pc : Int, thumb : BOOLEAN, mode : CallModes, off : BOOLEAN]
      /\ at.pc \in Int /\ at.thumb \in BOOLEAN /\ at.mode \in CallModes /\ at.off \in BOOLEAN
      /\ link[at.mode] \in Int
  BY DEF CallInv, CallTypeOK
<1>2. /\ Aligned(at.pc, at.thumb) /\ Pending(half, at.pc, at.thumb, Len(frames))
      /\ ModeOf(Len(frames)) = at.mode
  BY DEF CallInv, Chain, ModeOf
<1>3. Size \in {2, 4} /\ Aligned(at.pc + Size, at.thumb)
  BY <1>1, <1>2, AlignedStep DEF Size
<1>4. /\ at.pc + 4 \in Int /\ Aligned(at.pc + 4, at.thumb)
      /\ at.pc + 2 \in Int /\ (at.thumb => Aligned(at.pc + 2, at.thumb))
  <2>1. at.pc + 4 \in Int /\ at.pc + 2 \in Int
    BY <1>1
  <2>2. Aligned(at.pc + 4, at.thumb) /\ (at.thumb => Aligned(at.pc + 2, at.thumb))
    BY <1>1, <1>2, AlignedStep, SMTT(40)
  <2>3. QED
    BY <2>1, <2>2
<1>5. QED
  BY <1>1, <1>2, <1>3, <1>4

\* A frame the code pushes for a call.
LEMMA CallFrame ==
  ASSUME CallInv, NEW pc \in Int, NEW h \in HalfType, NEW kind \in {"call", "swi", "irq"},
         NEW f, f = [kind |-> kind, due |-> Due(pc), where |-> "link", half |-> h]
  PROVE  /\ f \in FrameType /\ f.kind = kind /\ f.where = "link" /\ f.half = h
         /\ f.due.pc = pc /\ f.due.thumb = at.thumb /\ f.due.mode = at.mode
         /\ Value(f) \in Int
         /\ kind = "call" => Value(f) = pc + (IF at.thumb THEN 1 ELSE 0)
<1>1. Due(pc) \in DueType /\ Due(pc).pc = pc /\ Due(pc).thumb = at.thumb /\ Due(pc).mode = at.mode
  BY Here DEF Due, DueType
<1>2. /\ f \in FrameType /\ f.kind = kind /\ f.where = "link" /\ f.half = h
      /\ f.due.pc = pc /\ f.due.thumb = at.thumb /\ f.due.mode = at.mode
  BY <1>1 DEF FrameType
<1>3. QED
  BY <1>2 DEF Value

LEMMA Moved ==
  ASSUME CallInv, NEW pc \in Int, NEW thumb \in BOOLEAN, at' = [at EXCEPT !.pc = pc, !.thumb = thumb]
  PROVE  /\ at' \in [pc : Int, thumb : BOOLEAN, mode : {at.mode}, off : BOOLEAN]
         /\ at'.pc = pc /\ at'.thumb = thumb
         /\ Aligned(pc, thumb) => Aligned(at.pc, at.thumb)'
<1>1. at \in [pc : Int, thumb : BOOLEAN, mode : CallModes, off : BOOLEAN]
  BY Here
<1>2. at' = [pc |-> pc, thumb |-> thumb, mode |-> at.mode, off |-> at.off]
  BY <1>1
<1>3. at.off \in BOOLEAN
  BY Here
<1>4. at'.pc = pc /\ at'.thumb = thumb
  BY <1>2
<1>5. at' \in [pc : Int, thumb : BOOLEAN, mode : {at.mode}, off : BOOLEAN]
  BY <1>2, <1>3
<1>6. Aligned(pc, thumb) => Aligned(at.pc, at.thumb)'
  BY <1>4 DEF Aligned
<1>7. QED
  BY <1>4, <1>5, <1>6

LEMMA StraightSteps ==
  ASSUME CallInv,
         \/ Proceed \/ EnableInterrupts
         \/ \E t \in Targets, thumb \in BOOLEAN : BranchExchange(t, thumb)
  PROVE  CallInv' /\ Len(frames') = Len(frames)
<1>1. UNCHANGED <<link, saved, stacks, frames, half>> /\ half = NoHalf
  BY DEF Proceed, EnableInterrupts, BranchExchange
<1>2. /\ at' \in [pc : Int, thumb : BOOLEAN, mode : {at.mode}, off : BOOLEAN]
      /\ Aligned(at.pc, at.thumb)'
  <2>1. CASE Proceed
    <3>1. at' = [at EXCEPT !.pc = at.pc + Size, !.thumb = at.thumb]
      BY <2>1 DEF Proceed, Goto
    <3>2. at.pc + Size \in Int /\ at.thumb \in BOOLEAN /\ Aligned(at.pc + Size, at.thumb)
      BY Here
    <3>3. QED
      BY <3>1, <3>2, Moved
  <2>2. CASE EnableInterrupts
    <3>1. at' = [at EXCEPT !.pc = at.pc + Size, !.off = FALSE]
      BY <2>2 DEF EnableInterrupts
    <3>2. at' = [pc |-> at.pc + Size, thumb |-> at.thumb, mode |-> at.mode, off |-> FALSE]
      BY <3>1, Here
    <3>3. at.pc + Size \in Int /\ at.thumb \in BOOLEAN /\ Aligned(at.pc + Size, at.thumb)
      BY Here
    <3>4. at' \in [pc : Int, thumb : BOOLEAN, mode : {at.mode}, off : BOOLEAN]
      BY <3>2, <3>3
    <3>5. Aligned(at.pc, at.thumb)'
      BY <3>2, <3>3 DEF Aligned
    <3>6. QED
      BY <3>4, <3>5
  <2>3. ASSUME NEW t \in Targets, NEW thumb \in BOOLEAN, BranchExchange(t, thumb)
        PROVE  /\ at' \in [pc : Int, thumb : BOOLEAN, mode : {at.mode}, off : BOOLEAN]
               /\ Aligned(at.pc, at.thumb)'
    <3>1. PICK v : v = IF thumb THEN t + 1 ELSE t
      OBVIOUS
    <3>0. t \in Int
      BY CodeAssumption
    <3>2. Aligned(t, thumb) /\ at' = [at EXCEPT !.pc = v - (v % 2), !.thumb = (v % 2 = 1)] /\ t \in Int
      BY <2>3, <3>0, <3>1 DEF BranchExchange, Exchanged, Goto
    <3>3. v - (v % 2) = t /\ ((v % 2 = 1) <=> thumb)
      BY <3>1, <3>2, ExchangeValue
    <3>4. at' = [at EXCEPT !.pc = t, !.thumb = thumb]
      BY <3>2, <3>3
    <3>5. QED
      BY <3>2, <3>4, Moved
  <2>4. QED
    BY <2>1, <2>2, <2>3
<1>3. QED
  BY <1>1, <1>2, StraightKeeps

LEMMA HalfSteps ==
  ASSUME CallInv, NEW t \in Targets,
         \/ \E thumb \in BOOLEAN : MovLinkPc(t, thumb)
         \/ ThumbLinkPrefix(t, 2)
  PROVE  CallInv' /\ Len(frames') = Len(frames)
<1>0. t \in Int
  BY CodeAssumption
<1>1. OnStack(Len(frames)) /\ UNCHANGED <<saved, stacks, frames>>
  BY FreeIsOnStack DEF MovLinkPc, ThumbLinkPrefix
<1>2. ASSUME NEW thumb \in BOOLEAN, MovLinkPc(t, thumb) PROVE CallInv'
  <2>1. /\ ~at.thumb /\ Aligned(t, thumb) /\ SetLink(at.pc + 8) /\ at' = [at EXCEPT !.pc = at.pc + 4, !.thumb = FALSE]
        /\ half' = [kind |-> "exchange", target |-> IF thumb THEN t + 1 ELSE t]
    BY <1>2 DEF MovLinkPc, Goto
  <2>2. half' \in HalfType /\ half'.kind = "exchange"
    <3>1. PICK v : v = IF thumb THEN t + 1 ELSE t
      OBVIOUS
    <3>2. v \in {x \in Int : x % 4 # 2}
      BY <1>0, <2>1, <3>1 DEF Aligned
    <3>3. half' = [kind |-> "exchange", target |-> v]
      BY <2>1, <3>1
    <3>4. QED
      BY <3>2, <3>3 DEF HalfType
  <2>3. /\ at' \in [pc : Int, thumb : BOOLEAN, mode : {at.mode}, off : BOOLEAN]
        /\ at'.pc = at.pc + 4 /\ ~at'.thumb
    <3>1. at.pc + 4 \in Int /\ FALSE \in BOOLEAN
      BY Here
    <3>2. QED
      BY <2>1, <3>1, Moved
  <2>4. Aligned(at.pc, at.thumb)'
    BY <2>1, <2>3, Here, AlignedStep
  <2>5. at.pc + 8 \in Int /\ at.pc + 8 = at'.pc + 4
    BY <2>3, Here
  <2>6. QED
    BY <1>1, <2>1, <2>2, <2>3, <2>4, <2>5, HalfKeeps
<1>3. CASE ThumbLinkPrefix(t, 2)
  <2>1. PICK v : v = (at.pc + 4) + (t - 2 - (at.pc + 4))
    OBVIOUS
  <2>2. /\ at.thumb /\ SetLink(v) /\ at' = [at EXCEPT !.pc = at.pc + 2, !.thumb = TRUE]
        /\ half' = [kind |-> "suffix", rest |-> 2]
    BY <1>3, <2>1 DEF ThumbLinkPrefix, Goto
  <2>3. half' \in HalfType /\ half'.kind = "suffix"
    BY <2>2 DEF HalfType
  <2>4. /\ at' \in [pc : Int, thumb : BOOLEAN, mode : {at.mode}, off : BOOLEAN]
        /\ at'.pc = at.pc + 2 /\ at'.thumb
    <3>1. at.pc + 2 \in Int /\ TRUE \in BOOLEAN
      BY Here
    <3>2. QED
      BY <2>2, <3>1, Moved
  <2>5. Aligned(at.pc, at.thumb)'
    BY <2>2, <2>4, Here, AlignedStep
  <2>6. v \in Int
    BY <1>0, <2>1, Here
  <2>7. QED
    BY <1>1, <2>2, <2>3, <2>4, <2>5, <2>6, HalfKeeps
<1>4. QED
  BY <1>1, <1>2, <1>3

LEMMA CallSteps ==
  ASSUME CallInv,
         \/ \E t \in Targets : ArmBranchLink(t)
         \/ CallExchange \/ ThumbLinkSuffix
  PROVE  CallInv' /\ Len(frames') = Len(frames) + 1
<1>1. NoHalf \in HalfType /\ half \in HalfType
  BY DEF HalfType, CallInv, CallTypeOK
<1>2. ASSUME NEW t \in Targets, ArmBranchLink(t) PROVE CallInv' /\ Len(frames') = Len(frames) + 1
  <2>1. PICK f : f = [kind |-> "call", due |-> Due(at.pc + 4), where |-> "link", half |-> NoHalf]
    OBVIOUS
  <2>2. /\ half = NoHalf /\ ~at.thumb /\ OnStack(Len(frames)) /\ Aligned(t, FALSE)
        /\ SetLink(at.pc + 4) /\ at' = [at EXCEPT !.pc = t, !.thumb = FALSE]
        /\ frames' = Append(frames, f) /\ UNCHANGED <<saved, stacks>> /\ half' = NoHalf
    BY <1>2, <2>1, FreeIsOnStack DEF ArmBranchLink, Goto, Entered, Frame
  <2>3. at.pc + 4 \in Int /\ Aligned(at.pc + 4, at.thumb)
    BY Here
  <2>4. /\ f \in FrameType /\ f.kind = "call" /\ f.where = "link" /\ f.half = NoHalf
        /\ f.due.pc = at.pc + 4 /\ f.due.thumb = at.thumb /\ f.due.mode = at.mode
        /\ Value(f) = at.pc + 4 + (IF at.thumb THEN 1 ELSE 0)
    BY <1>1, <2>1, <2>3, CallFrame
  <2>5. Value(f) = at.pc + 4
    BY <2>2, <2>3, <2>4
  <2>6. /\ at' \in [pc : Int, thumb : BOOLEAN, mode : {at.mode}, off : BOOLEAN]
        /\ Aligned(at.pc, at.thumb)'
    <3>1. t \in Int /\ FALSE \in BOOLEAN
      BY CodeAssumption
    <3>2. QED
      BY <2>2, <3>1, Moved
  <2>7. QED
    BY <2>2, <2>3, <2>4, <2>5, <2>6, CallKeeps, CallsPush DEF CallInv
<1>3. CASE CallExchange
  <2>1. PICK f : f = [kind |-> "call", due |-> Due(at.pc + 4), where |-> "link", half |-> NoHalf]
    OBVIOUS
  <2>2. /\ half.kind = "exchange" /\ Exchanged(half.target)
        /\ frames' = Append(frames, f) /\ UNCHANGED <<link, saved, stacks>> /\ half' = NoHalf
    BY <1>3, <2>1 DEF CallExchange, Frame
  <2>3. /\ half # NoHalf /\ OnStack(Len(frames)) /\ ~at.thumb /\ link[at.mode] = at.pc + 4
        /\ half.target \in {v \in Int : v % 4 # 2}
    BY <1>1, <2>2, Here DEF Pending, HalfType, NoHalf
  <2>4. at.pc + 4 \in Int /\ Aligned(at.pc + 4, at.thumb)
    BY Here
  <2>5. /\ f \in FrameType /\ f.kind = "call" /\ f.where = "link" /\ f.half = NoHalf
        /\ f.due.pc = at.pc + 4 /\ f.due.thumb = at.thumb /\ f.due.mode = at.mode
        /\ Value(f) = at.pc + 4 + (IF at.thumb THEN 1 ELSE 0)
    BY <1>1, <2>1, <2>4, CallFrame
  <2>6. Value(f) = at.pc + 4 /\ SetLink(Value(f))
    BY <2>2, <2>3, <2>4, <2>5 DEF SetLink, CallInv, CallTypeOK
  <2>7. /\ at' \in [pc : Int, thumb : BOOLEAN, mode : {at.mode}, off : BOOLEAN]
        /\ Aligned(at.pc, at.thumb)'
    <3>1. PICK v \in Int : v = half.target /\ v % 4 # 2
      BY <2>3
    <3>2. /\ v - (v % 2) \in Int /\ (v % 2 = 1) \in BOOLEAN
          /\ at' = [at EXCEPT !.pc = v - (v % 2), !.thumb = (v % 2 = 1)]
      BY <2>2, <3>1 DEF Exchanged, Goto
    <3>3. Aligned(v - (v % 2), v % 2 = 1)
      BY <3>1 DEF Aligned
    <3>4. QED
      BY <3>2, <3>3, Moved
  <2>8. QED
    BY <2>2, <2>3, <2>4, <2>5, <2>6, <2>7, CallKeeps, CallsPush DEF CallInv
<1>4. CASE ThumbLinkSuffix
  <2>1. PICK f : f = [kind |-> "call", due |-> Due(at.pc + 2), where |-> "link", half |-> NoHalf]
    OBVIOUS
  <2>2. PICK v : v = link[at.mode] + half.rest
    OBVIOUS
  <2>3. /\ half.kind = "suffix" /\ SetLink(at.pc + 2 + 1)
        /\ at' = [at EXCEPT !.pc = v - (v % 2), !.thumb = TRUE]
        /\ frames' = Append(frames, f) /\ UNCHANGED <<saved, stacks>> /\ half' = NoHalf
    BY <1>4, <2>1, <2>2 DEF ThumbLinkSuffix, Goto, Frame
  <2>4. half # NoHalf /\ OnStack(Len(frames)) /\ at.thumb /\ half.rest \in Int
    BY <1>1, <2>3, Here DEF Pending, HalfType, NoHalf
  <2>5. at.pc + 2 \in Int /\ Aligned(at.pc + 2, at.thumb) /\ v \in Int
    <3>1. link[at.mode] \in Int /\ at.pc + 2 \in Int /\ Aligned(at.pc + 2, at.thumb)
      BY <2>4, Here
    <3>2. half.rest \in Int
      BY <2>4
    <3>3. v \in Int
      BY <2>2, <3>1, <3>2
    <3>4. QED
      BY <3>1, <3>3
  <2>6. /\ f \in FrameType /\ f.kind = "call" /\ f.where = "link" /\ f.half = NoHalf
        /\ f.due.pc = at.pc + 2 /\ f.due.thumb = at.thumb /\ f.due.mode = at.mode
        /\ Value(f) = at.pc + 2 + (IF at.thumb THEN 1 ELSE 0)
    BY <1>1, <2>1, <2>5, CallFrame
  <2>7. Value(f) \in Int /\ SetLink(Value(f))
    <3>1. Value(f) = at.pc + 2 + 1
      BY <2>4, <2>5, <2>6
    <3>2. QED
      BY <2>3, <2>5, <3>1
  <2>8. /\ at' \in [pc : Int, thumb : BOOLEAN, mode : {at.mode}, off : BOOLEAN]
        /\ Aligned(at.pc, at.thumb)'
    BY <2>3, <2>5, Moved, EvenIsAligned
  <2>9. QED
    BY <2>3, <2>4, <2>5, <2>6, <2>7, <2>8, CallKeeps, CallsPush DEF CallInv
<1>5. QED
  BY <1>2, <1>3, <1>4

LEMMA EnterSteps ==
  ASSUME CallInv, SoftwareInterrupt \/ Interrupt
  PROVE  CallInv' /\ Len(frames') = Len(frames) + 1
<1>1. NoHalf \in HalfType /\ half \in HalfType
  BY DEF HalfType, CallInv, CallTypeOK
<1>2. CASE SoftwareInterrupt
  <2>1. PICK f : f = [kind |-> "swi", due |-> Due(at.pc + Size), where |-> "link", half |-> half]
    OBVIOUS
  <2>2. /\ half = NoHalf /\ Unused("svc") /\ frames' = Append(frames, f) /\ half' = NoHalf
        /\ link' = [link EXCEPT !["svc"] = at.pc + Size] /\ UNCHANGED stacks
        /\ saved' = [saved EXCEPT !["svc"] = [thumb |-> at.thumb, mode |-> at.mode, off |-> at.off]]
        /\ at' = [pc |-> 8, thumb |-> FALSE, mode |-> "svc", off |-> TRUE]
    BY <1>2, <2>1 DEF SoftwareInterrupt, EnterVector, Entered, Frame, Vector
  <2>3. at.pc + Size \in Int /\ Aligned(at.pc + Size, at.thumb)
    BY Here
  <2>4. /\ f \in FrameType /\ f.kind = "swi" /\ f.where = "link" /\ f.half = half
        /\ f.due.pc = at.pc + Size /\ f.due.thumb = at.thumb /\ f.due.mode = at.mode
        /\ Value(f) \in Int
    BY <1>1, <2>1, <2>3, CallFrame
  <2>5. Value(f) = at.pc + Size /\ Vector[f.kind].mode = "svc"
    BY <2>4 DEF Value, Vector
  <2>6. Pending(f.half, f.due.pc, f.due.thumb, Len(frames))
    BY <2>2, <2>4 DEF Pending, NoHalf
  <2>7. QED
    BY <2>2, <2>3, <2>4, <2>5, <2>6, EnterKeeps, CallsPush DEF CallInv
<1>3. CASE Interrupt
  <2>1. PICK f : f = [kind |-> "irq", due |-> Due(at.pc), where |-> "link", half |-> half]
    OBVIOUS
  <2>2. /\ Unused("irq") /\ frames' = Append(frames, f) /\ half' = NoHalf
        /\ link' = [link EXCEPT !["irq"] = at.pc + Size] /\ UNCHANGED stacks
        /\ saved' = [saved EXCEPT !["irq"] = [thumb |-> at.thumb, mode |-> at.mode, off |-> at.off]]
        /\ at' = [pc |-> 24, thumb |-> FALSE, mode |-> "irq", off |-> TRUE]
    BY <1>3, <2>1 DEF Interrupt, EnterVector, Entered, Frame, Vector
  <2>3. at.pc \in Int /\ Aligned(at.pc, at.thumb)
    BY Here
  <2>4. /\ f \in FrameType /\ f.kind = "irq" /\ f.where = "link" /\ f.half = half
        /\ f.due.pc = at.pc /\ f.due.thumb = at.thumb /\ f.due.mode = at.mode
        /\ Value(f) \in Int
    BY <1>1, <2>1, <2>3, CallFrame
  <2>5. Value(f) = at.pc + Size /\ Vector[f.kind].mode = "irq"
    BY <2>4 DEF Value, Vector, Size
  <2>6. Pending(f.half, f.due.pc, f.due.thumb, Len(frames))
    BY <2>4, Here
  <2>7. QED
    BY <2>2, <2>3, <2>4, <2>5, <2>6, EnterKeeps, CallsPush DEF CallInv
<1>4. QED
  BY <1>2, <1>3

---------------------------------------------------------------------------
LEMMA CallInvInit == CallInit => CallInv
<1>1. SUFFICES ASSUME CallInit PROVE CallInv
  OBVIOUS
<1>2. PICK start \in Targets, thumb \in BOOLEAN :
        /\ Aligned(start, thumb)
        /\ at = [pc |-> start, thumb |-> thumb, mode |-> "sys", off |-> FALSE]
  BY <1>1 DEF CallInit
<1>3. start \in Int
  BY CodeAssumption
<1>4. frames = << >> /\ Len(frames) = 0 /\ half = NoHalf
  BY <1>1 DEF CallInit
<1>5. CallTypeOK
  <2>1. /\ link = [m \in CallModes |-> 0] /\ stacks = [m \in CallModes |-> << >>]
        /\ saved = [m \in CallModes \ {"sys"} |-> [thumb |-> FALSE, mode |-> "sys", off |-> FALSE]]
    BY <1>1 DEF CallInit
  <2>2. link \in [CallModes -> Int] /\ stacks \in [CallModes -> Seq(Int)]
    BY <2>1
  <2>3. saved \in [CallModes \ {"sys"} -> [thumb : BOOLEAN, mode : CallModes, off : BOOLEAN]]
    BY <2>1 DEF CallModes
  <2>4. frames \in Seq(FrameType) /\ half \in HalfType
    BY <1>4 DEF HalfType
  <2>5. at \in [pc : Int, thumb : BOOLEAN, mode : CallModes, off : BOOLEAN]
    BY <1>2, <1>3 DEF CallModes
  <2>6. QED
    BY <2>2, <2>3, <2>4, <2>5 DEF CallTypeOK
<1>6. \A i \in 0 .. Len(frames) : i = 0 /\ ModeOf(i) = "sys" /\ OnStack(i)
  BY <1>2, <1>4 DEF ModeOf, OnStack
<1>7. Chain
  <2>1. Pending(half, at.pc, at.thumb, Len(frames))
    BY <1>4 DEF Pending, NoHalf
  <2>2. Adjacent
    BY <1>4 DEF Adjacent
  <2>3. Aligned(at.pc, at.thumb) /\ ModeOf(0) = "sys"
    BY <1>2, <1>4, <1>6
  <2>4. QED
    BY <1>4, <2>1, <2>2, <2>3 DEF Chain
<1>8. Stacks
  <2>1. PICK base \in [CallModes -> Nat] : base = [m \in CallModes |-> 0]
    OBVIOUS
  <2>2. base["sys"] = 0 /\ stacks = [m \in CallModes |-> << >>] /\ "sys" \in CallModes
    BY <1>1, <2>1 DEF CallInit, CallModes
  <2>3. stacks["sys"] = << >> /\ Len(stacks["sys"]) = 0
    BY <2>2
  <2>4. Stacked(base)
    BY <1>4, <1>6, <2>2, <2>3 DEF Stacked
  <2>5. QED
    BY <2>4 DEF Stacks
<1>9. QED
  BY <1>5, <1>7, <1>8 DEF CallInv

LEMMA CallInvNext ==
  ASSUME CallInv, [CallNext]_callVars, "halfword" \notin ReturnForms
  PROVE  /\ CallInv'
         /\ Len(frames') < Len(frames) =>
              [pc |-> at'.pc, thumb |-> at'.thumb, mode |-> at'.mode] = Last(frames).due
<1>1. Len(frames) \in Nat
  BY DEF CallInv, CallTypeOK
<1>2. CASE UNCHANGED callVars
  <2>1. at' = at /\ UNCHANGED <<link, saved, stacks, frames, half>>
    BY <1>2 DEF callVars
  <2>2. at' = [at EXCEPT !.pc = at.pc, !.thumb = at.thumb]
    BY <2>1, Here
  <2>3. CallInv'
    BY <2>1, <2>2, Here, Moved, StraightKeeps
  <2>4. QED
    BY <1>1, <2>1, <2>3
<1>3. CASE \/ Proceed \/ EnableInterrupts
           \/ \E t \in Targets, thumb \in BOOLEAN : BranchExchange(t, thumb)
  BY <1>1, <1>3, StraightSteps
<1>4. CASE PushLink
  <2>1. Len(frames') = Len(frames)
    BY <1>4 DEF PushLink, CallInv, CallTypeOK
  <2>2. QED
    BY <1>1, <1>4, <2>1, PushKeeps
<1>5. CASE \E t \in Targets : \/ \E thumb \in BOOLEAN : MovLinkPc(t, thumb)
                              \/ ThumbLinkPrefix(t, 2)
  BY <1>1, <1>5, HalfSteps
<1>6. CASE \/ \E t \in Targets : ArmBranchLink(t)
           \/ CallExchange \/ ThumbLinkSuffix
  BY <1>1, <1>6, CallSteps
<1>7. CASE SoftwareInterrupt \/ Interrupt
  BY <1>1, <1>7, EnterSteps
<1>8. CASE Returns
  <2>1. CallInv'
    BY <1>8, ReturnsToDue, ReturnKeeps
  <2>2. Last(frames).due \in DueType
    BY <1>8, ReturnsToDue, ReturnFinds, FrameTyped DEF CallInv
  <2>3. [pc |-> at'.pc, thumb |-> at'.thumb, mode |-> at'.mode] = Last(frames).due
    BY <1>8, <2>2, ReturnsToDue DEF DueType
  <2>4. QED
    BY <2>1, <2>3
<1>9. QED
  BY <1>2, <1>3, <1>4, <1>5, <1>6, <1>7, <1>8 DEF CallNext, Returns

\* Every call and every exception returns to the instruction after it, in its
\* state and its mode, in every program that keeps the calling convention and
\* never uses MOVS PC, LR on a link that is no multiple of 4 (execute_arm,
\* execute_thumb_long_branch_link, enter_exception).
THEOREM CallsReturnHold ==
  ASSUME "halfword" \notin ReturnForms
  PROVE  CallSpec => CallsReturn
<1>1. CallInit => CallInv
  BY CallInvInit
<1>2. CallInv /\ [CallNext]_callVars => CallInv'
  BY CallInvNext
<1>3. CallInv /\ [CallNext]_callVars =>
        [Len(frames') < Len(frames) =>
           [pc |-> at'.pc, thumb |-> at'.thumb, mode |-> at'.mode] = Last(frames).due]_callVars
  BY CallInvNext
<1>4. QED
  BY <1>1, <1>2, <1>3, PTL DEF CallSpec, CallsReturn
=============================================================================
