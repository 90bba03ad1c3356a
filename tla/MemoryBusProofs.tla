---------------------------- MODULE MemoryBusProofs ----------------------------
(***************************************************************************)
(* For every size of chip, bank and sector and every byte the game writes: *)
(* the backup memory keeps its shape, a bank is selected only where there  *)
(* are two, no index leaves the save, every saved state loads again, and   *)
(* the state machine of the Flash commands implements the command table.   *)
(*                                                                         *)
(* For every size of the regions and every address: no key condition is    *)
(* missed, wide loads agree with byte loads, and a store is local.         *)
(***************************************************************************)
EXTENDS MemoryBus, SequenceTheorems, WellFoundedInduction, TLAPS

\* A second bank is selected in a flash128 only.
BankFits == bank # 0 => type = "flash128"

IInv == TypeOK /\ BankFits

\* The Flash states of a backing of n cells.
Shapes(n) == [data : [Cells(n) -> {0, 1}], cmd : CommandStates, id : BOOLEAN, bank : {0, 1}]

\* A Flash state of the configured type with a bank that it has.
Fits(s) == s \in Shapes(SizeOf(type)) /\ (s.bank # 0 => type = "flash128")

LEMMA SizesAreNat == ASSUME NEW t \in Types PROVE SizeOf(t) \in Nat
BY SizeAssumption DEF SizeOf, Types

LEMMA FilledType ==
  ASSUME NEW n \in Nat, NEW b \in {0, 1} PROVE Filled(n, b) \in [Cells(n) -> {0, 1}]
BY DEF Filled

LEMMA ProtocolReset ==
  ASSUME ResetProtocol PROVE cmd' \in CommandStates /\ id' \in BOOLEAN
BY DEF ResetProtocol, CommandStates

LEMMA InitHolds == Init => IInv
BY DEF Init, IInv, TypeOK, BankFits, Types, CommandStates, Filled, SizeOf

---------------------------------------------------------------------------
(* The writes of the command protocol.                                      *)

LEMMA TimesOrdered ==
  ASSUME NEW a \in Nat, NEW b \in Nat, NEW n \in Nat, a <= b
  PROVE  a * n <= b * n
<1>1. b - a \in Nat /\ (b - a) * n \in Nat
  OBVIOUS
<1>2. b * n = a * n + (b - a) * n
  OBVIOUS
<1>3. a * n \in Nat /\ b * n \in Nat
  OBVIOUS
<1>4. QED
  BY <1>1, <1>2, <1>3

\* Where k sectors end, the sector of a cell before it ends too.
LEMMA SectorEnds ==
  ASSUME NEW k \in Nat, NEW n \in Nat, n > 0, NEW e \in Nat, e < k * n
  PROVE  (e \div n) * n \in Nat /\ (e \div n) * n + n <= k * n
<1>1. e \div n \in Nat /\ (e \div n) * n <= e /\ (e \div n) * n \in Nat
  OBVIOUS
<1>2. e \div n < k
  <2>1. SUFFICES ASSUME k <= e \div n PROVE FALSE
    BY <1>1
  <2>2. k * n <= (e \div n) * n
    BY <1>1, <2>1, TimesOrdered
  <2>3. k * n \in Nat
    OBVIOUS
  <2>4. QED
    BY <1>1, <2>2, <2>3
<1>3. ((e \div n) + 1) * n <= k * n
  BY <1>1, <1>2, TimesOrdered
<1>4. ((e \div n) + 1) * n = (e \div n) * n + n
  BY <1>1
<1>5. QED
  BY <1>1, <1>3, <1>4

\* The cell of an offset and its sector lie in the chip.
LEMMA OffsetInChip ==
  ASSUME NEW t \in FlashTypes, NEW b \in {0, 1}, NEW o \in Nat, b # 0 => t = "flash128"
  PROVE  /\ EffectiveOffset(t, b, o) \in Cells(SizeOf(t))
         /\ SectorStart(t, b, o) .. SectorStart(t, b, o) + SectorSize - 1 \subseteq Cells(SizeOf(t))
<1>1. BankSize \in Nat /\ BankSize > 0 /\ SectorSize \in Nat /\ SectorSize > 0
  BY SizeAssumption
<1>2. o % BankSize \in 0 .. BankSize - 1
  BY <1>1
<1>3. EffectiveOffset(t, b, o) \in Nat /\ EffectiveOffset(t, b, o) < SizeOf(t)
  BY <1>1, <1>2, SMTT(60) DEF EffectiveOffset, SizeOf, FlashTypes
<1>4. PICK k \in Nat : SizeOf(t) = k * SectorSize
  <2>1. BankSize = (BankSize \div SectorSize) * SectorSize /\ BankSize \div SectorSize \in Nat
    BY <1>1, SizeAssumption
  <2>2. 2 * BankSize = (2 * (BankSize \div SectorSize)) * SectorSize
    BY <1>1, <2>1
  <2>3. QED
    BY <2>1, <2>2 DEF SizeOf, FlashTypes
<1>5. SectorStart(t, b, o) \in Nat /\ SectorStart(t, b, o) + SectorSize <= SizeOf(t)
  <2>1. PICK e \in Nat : e = EffectiveOffset(t, b, o) /\ e < SizeOf(t)
    BY <1>3
  <2>2. e < k * SectorSize
    BY <1>4, <2>1
  <2>3. (e \div SectorSize) * SectorSize \in Nat /\ (e \div SectorSize) * SectorSize + SectorSize <= k * SectorSize
    BY <1>1, <2>2, SectorEnds, ZenonT(60)
  <2>4. QED
    BY <1>4, <2>1, <2>3 DEF SectorStart
<1>6. SizeOf(t) \in Nat
  BY SizesAreNat DEF FlashTypes, Types
<1>7. QED
  BY <1>1, <1>3, <1>5, <1>6 DEF Cells

LEMMA AdvanceFits ==
  ASSUME NEW s, Fits(s), NEW c \in CommandStates PROVE Fits(Advance(s, c))
BY DEF Fits, Shapes, Advance

LEMMA AbortedFits ==
  ASSUME NEW s, Fits(s) PROVE Fits(Aborted(s))
BY DEF Fits, Shapes, Aborted, CommandStates

LEMMA IdleFits ==
  ASSUME NEW s, Fits(s), NEW o, NEW v PROVE Fits(Idle(s, o, v))
BY AdvanceFits, AbortedFits DEF Idle, Fits, CommandStates

LEMMA ExpectFits ==
  ASSUME NEW s, Fits(s), NEW o, NEW v, NEW p, NEW b, NEW c \in CommandStates
  PROVE  Fits(Expect(s, o, v, p, b, c))
BY AdvanceFits, AbortedFits DEF Expect

LEMMA RequestFits ==
  ASSUME NEW s, Fits(s), NEW o, NEW v PROVE Fits(Request(s, o, v))
<1>1. Fits([s EXCEPT !.cmd = "idle", !.id = TRUE])
  BY DEF Fits, Shapes, CommandStates
<1>2. QED
  BY <1>1, AdvanceFits, AbortedFits DEF Request, CommandStates

LEMMA ProgramFits ==
  ASSUME NEW s, Fits(s), NEW o, NEW v PROVE Fits(Program(s, o, v))
<1>1. \A a, b : And(a, b) \in {0, 1}
  BY DEF And
<1>2. QED
  BY <1>1 DEF Fits, Shapes, Program, CommandStates

LEMMA EraseFits ==
  ASSUME NEW s, Fits(s), NEW o, NEW v PROVE Fits(Erase(s, o, v))
<1>1. ASSUME NEW f, NEW n PROVE Fits(Erased(s, f, n))
  BY DEF Fits, Shapes, Erased, CommandStates
<1>2. QED
  BY <1>1, AbortedFits DEF Erase

LEMMA SelectBankFits ==
  ASSUME NEW s, Fits(s), NEW o, NEW v \in Nat PROVE Fits(SelectBank(s, o, v))
<1>1. Bit(v) \in {0, 1}
  BY DEF Bit
<1>2. QED
  BY <1>1, AbortedFits DEF Fits, Shapes, SelectBank, CommandStates

LEMMA WriteFlashFits ==
  ASSUME NEW s, Fits(s), NEW o, NEW v \in Nat PROVE Fits(WriteFlash(s, o, v))
BY IdleFits, ExpectFits, RequestFits, ProgramFits, EraseFits, SelectBankFits
   DEF WriteFlash, CommandStates

---------------------------------------------------------------------------
(* Every action keeps the invariant.                                        *)

LEMMA ConfigureHolds ==
  ASSUME NEW t \in Types, Configure(t) PROVE IInv'
<1>1. SizeOf(t) \in Nat
  BY SizesAreNat
<1>2. data' \in [Cells(SizeOf(type')) -> {0, 1}]
  BY <1>1, FilledType DEF Configure
<1>3. QED
  BY <1>2, ProtocolReset DEF Configure, IInv, TypeOK, BankFits

LEMMA StepHolds == IInv /\ [Next]_vars => IInv'
<1> SUFFICES ASSUME IInv, [Next]_vars PROVE IInv'
  OBVIOUS
<1> USE DEF IInv, TypeOK, BankFits
<1>1. ASSUME NEW t \in Types, Configure(t) PROVE IInv'
  BY <1>1, ConfigureHolds
<1>2. CASE HardReset
  BY <1>2, ConfigureHolds DEF HardReset, Types
<1>3. CASE SoftReset
  BY <1>3, ProtocolReset DEF SoftReset
<1>4. ASSUME NEW t \in Types, NEW d \in Images \cup {data}, Import(t, d) PROVE IInv'
  <2>1. d \in [Cells(SizeOf(t)) -> {0, 1}]
    BY <1>4, ImagesAssumption DEF Import
  <2>2. QED
    BY <1>4, <2>1, ProtocolReset DEF Import
<1>5. ASSUME NEW o \in Aperture, NEW v \in Bytes, StoreFlash(o, v) PROVE IInv'
  <2>1. Fits(Flash)
    BY DEF Fits, Shapes, Flash
  <2>2. v \in Nat
    BY BytesAssumption
  <2>3. Fits(WriteFlash(Flash, o, v))
    BY <2>1, <2>2, WriteFlashFits
  <2>4. QED
    BY <1>5, <2>3 DEF StoreFlash, Fits, Shapes
<1>6. ASSUME NEW o \in Aperture, NEW v \in Bytes, StoreSram(o, v) PROVE IInv'
  <2>1. Bit(v) \in {0, 1}
    BY BytesAssumption DEF Bit
  <2>2. QED
    BY <1>6, <2>1 DEF StoreSram
<1>7. ASSUME NEW b \in Cells(Eeprom8kSize \div BlockSize),
             NEW block \in [Cells(BlockSize) -> {0, 1}], StoreBlock(b, block)
      PROVE  IInv'
  <2>1. \A i \in DOMAIN data : i % BlockSize \in Cells(BlockSize)
    <3>1. SizeOf(type) \in Nat /\ DOMAIN data = Cells(SizeOf(type))
      BY SizesAreNat
    <3>2. BlockSize \in Nat /\ BlockSize > 0
      BY SizeAssumption
    <3>3. QED
      BY <3>1, <3>2 DEF Cells
  <2>2. data' \in [Cells(SizeOf(type)) -> {0, 1}]
    BY <1>7, <2>1 DEF StoreBlock
  <2>3. QED
    BY <1>7, <2>2 DEF StoreBlock
<1>8. ASSUME NEW s \in Snapshots, LoadState(s) PROVE IInv'
  BY <1>8, SnapshotsAssumption DEF LoadState, Accepts
<1>9. CASE UNCHANGED vars
  BY <1>9 DEF vars
<1>10. QED
  BY <1>1, <1>2, <1>3, <1>4, <1>5, <1>6, <1>7, <1>8, <1>9 DEF Next

LEMMA InvariantHolds == Spec => []IInv
BY InitHolds, StepHolds, PTL DEF Spec

\* Every reachable state of the backup memory is well typed: the save always
\* has the size of its type.
THEOREM TypeCorrect == Spec => []TypeOK
<1>1. IInv => TypeOK
  BY DEF IInv
<1>2. QED
  BY <1>1, InvariantHolds, PTL

\* No write of the game, whatever the host configured, imported or restored
\* before it, addresses a byte outside the save (flash_effective_offset).
THEOREM IndexesStayInBounds == Spec => []InBounds
<1>1. IInv => InBounds
  <2> SUFFICES ASSUME IInv PROVE InBounds
    OBVIOUS
  <2>1. bank \in {0, 1} /\ (bank # 0 => type = "flash128") /\ DOMAIN data = Cells(SizeOf(type))
    BY DEF IInv, TypeOK, BankFits
  <2>2. Aperture \subseteq Nat
    BY SizeAssumption DEF Aperture
  <2>3. ASSUME IsFlash, NEW o \in Aperture
        PROVE  /\ EffectiveOffset(type, bank, o) \in DOMAIN data
               /\ SectorStart(type, bank, o) .. SectorStart(type, bank, o) + SectorSize - 1
                    \subseteq DOMAIN data
    BY <2>1, <2>2, <2>3, OffsetInChip DEF IsFlash
  <2>4. ASSUME type = "sram", NEW o \in Aperture PROVE o % SramSize \in DOMAIN data
    BY <2>1, <2>2, <2>4, SizeAssumption DEF SizeOf, Cells
  <2>5. QED
    BY <2>3, <2>4 DEF InBounds
<1>2. QED
  BY <1>1, InvariantHolds, PTL

\* Every state that save_state produces passes load_state, in the middle of
\* any command and in any bank.
THEOREM SavedStatesLoad == Spec => []SavedIsAcceptable
<1>1. IInv => SavedIsAcceptable
  BY DEF IInv, TypeOK, BankFits, SavedIsAcceptable, Accepts, Saved
<1>2. QED
  BY <1>1, InvariantHolds, PTL

---------------------------------------------------------------------------
(* The command table. A command is spelled step by step, so what a write     *)
(* does depends on the commands the writes before it spell, and on the next  *)
(* step of each.                                                             *)

Commands == Chip!Commands
Step1(byte) == Chip!On({Unlock1}, {byte})
Step2 == Chip!On({Unlock2}, {85})

LEMMA CommandNames ==
  DOMAIN Commands = {"identify", "program", "selectBank", "eraseChip", "eraseSector",
                     "leave", "leaveShort"}
BY DEF Commands, Chip!Commands

LEMMA ShortCommands ==
  /\ Len(Commands["identify"]) = 3 /\ Len(Commands["leave"]) = 3
  /\ Len(Commands["leaveShort"]) = 1 /\ Commands["leaveShort"][1] = Chip!On(Aperture, {240})
  /\ Commands["identify"][1] = Step1(170) /\ Commands["leave"][1] = Step1(170)
  /\ Commands["identify"][2] = Step2 /\ Commands["leave"][2] = Step2
  /\ Commands["identify"][3] = Step1(144) /\ Commands["leave"][3] = Step1(240)
BY DEF Commands, Chip!Commands, Chip!Request, Chip!Unlock, Chip!Offsets, Aperture, Step1, Step2

LEMMA MiddleCommands ==
  /\ Len(Commands["program"]) = 4 /\ Len(Commands["selectBank"]) = 4
  /\ Commands["program"][1] = Step1(170) /\ Commands["selectBank"][1] = Step1(170)
  /\ Commands["program"][2] = Step2 /\ Commands["selectBank"][2] = Step2
  /\ Commands["program"][3] = Step1(160) /\ Commands["selectBank"][3] = Step1(176)
  /\ Commands["program"][4] = Chip!On(Aperture, Bytes)
  /\ Commands["selectBank"][4] = Chip!On({0}, Bytes)
BY DEF Commands, Chip!Commands, Chip!Request, Chip!Unlock, Chip!Offsets, Aperture, Step1, Step2

LEMMA EraseCommands ==
  /\ Len(Commands["eraseChip"]) = 6 /\ Len(Commands["eraseSector"]) = 6
  /\ \A c \in {"eraseChip", "eraseSector"} :
       /\ Commands[c][1] = Step1(170) /\ Commands[c][2] = Step2 /\ Commands[c][3] = Step1(128)
       /\ Commands[c][4] = Step1(170) /\ Commands[c][5] = Step2
  /\ Commands["eraseChip"][6] = Step1(16)
  /\ Commands["eraseSector"][6] = Chip!On(Aperture, {48})
BY DEF Commands, Chip!Commands, Chip!Request, Chip!Unlock, Chip!Offsets, Aperture, Step1, Step2

\* The writes of the game.
Writes == [at : Nat, val : Nat]
Wr1(byte) == [at |-> Unlock1, val |-> byte]
Wr2 == [at |-> Unlock2, val |-> 85]

LEMMA OnIs ==
  ASSUME NEW w \in Writes, NEW offsets, NEW bytes
  PROVE  w \in Chip!On(offsets, bytes) <=> w.at \in offsets /\ w.val \in bytes
BY DEF Writes, Chip!On

LEMMA WritesType == /\ Wr2 \in Writes /\ \A b \in Nat : Wr1(b) \in Writes
                    /\ Unlock1 \in Nat /\ Unlock2 \in Nat
BY SizeAssumption, UnlockAssumption DEF Wr1, Wr2, Writes

LEMMA TypedIs ==
  /\ Typed["idle"] = <<>>
  /\ Typed["unlock1"] = <<Wr1(170)>>
  /\ Typed["unlock2"] = <<Wr1(170), Wr2>>
  /\ Typed["program_data"] = <<Wr1(170), Wr2>> \o <<Wr1(160)>>
  /\ Typed["bank_select"] = <<Wr1(170), Wr2>> \o <<Wr1(176)>>
  /\ Typed["erase_unlock1"] = <<Wr1(170), Wr2>> \o <<Wr1(128)>>
  /\ Typed["erase_unlock2"] = (<<Wr1(170), Wr2>> \o <<Wr1(128)>>) \o <<Wr1(170)>>
  /\ Typed["erase_command"] = (<<Wr1(170), Wr2>> \o <<Wr1(128)>>) \o <<Wr1(170), Wr2>>
<1>1. <<Wr1(170), Wr2>>[1] = Wr1(170)
  OBVIOUS
<1> QED
  BY <1>1 DEF Typed, CommandStates, Wr1, Wr2

\* The writes that lead to a state, one by one.
TypedLen(c) ==
  IF c = "idle" THEN 0 ELSE IF c = "unlock1" THEN 1 ELSE IF c = "unlock2" THEN 2
  ELSE IF c = "erase_unlock2" THEN 4 ELSE IF c = "erase_command" THEN 5 ELSE 3

TypedThird(c) ==
  IF c = "program_data" THEN 160 ELSE IF c = "bank_select" THEN 176 ELSE 128

LEMMA TypedFacts ==
  ASSUME NEW c \in CommandStates
  PROVE  /\ Typed[c] \in Seq(Writes) /\ Len(Typed[c]) = TypedLen(c)
         /\ TypedLen(c) >= 1 => Typed[c][1] = Wr1(170)
         /\ TypedLen(c) >= 2 => Typed[c][2] = Wr2
         /\ TypedLen(c) >= 3 => Typed[c][3] = Wr1(TypedThird(c))
         /\ TypedLen(c) >= 4 => Typed[c][4] = Wr1(170)
         /\ TypedLen(c) >= 5 => Typed[c][5] = Wr2
<1>1. /\ <<Wr1(170)>> \in Seq(Writes) /\ <<Wr1(170), Wr2>> \in Seq(Writes)
      /\ <<Wr1(160)>> \in Seq(Writes) /\ <<Wr1(176)>> \in Seq(Writes)
      /\ <<Wr1(128)>> \in Seq(Writes) /\ <<>> \in Seq(Writes)
  BY WritesType
<1>2. \A s, t \in Seq(Writes) : s \o t \in Seq(Writes)
  BY ConcatProperties
<1>3. <<Wr1(170), Wr2>> \o <<Wr1(128)>> \in Seq(Writes)
  BY <1>1, <1>2
<1>4. CASE c = "idle"
  <2>1. Typed[c] \in Seq(Writes)
    BY <1>1, <1>2, <1>3, <1>4, TypedIs
  <2>2. TypedLen(c) = 0
    BY <1>4 DEF TypedLen, TypedThird
  <2> QED
    BY <1>4, <2>1, <2>2, TypedIs
<1>5. CASE c = "unlock1"
  <2>1. Typed[c] \in Seq(Writes)
    BY <1>1, <1>2, <1>3, <1>5, TypedIs
  <2>2. TypedLen(c) = 1
    BY <1>5 DEF TypedLen, TypedThird
  <2> QED
    BY <1>5, <2>1, <2>2, TypedIs
<1>6. CASE c = "unlock2"
  <2>1. Typed[c] \in Seq(Writes)
    BY <1>1, <1>2, <1>3, <1>6, TypedIs
  <2>2. TypedLen(c) = 2
    BY <1>6 DEF TypedLen, TypedThird
  <2> QED
    BY <1>6, <2>1, <2>2, TypedIs
<1>7. CASE c = "program_data"
  <2>1. Typed[c] \in Seq(Writes)
    BY <1>1, <1>2, <1>3, <1>7, TypedIs
  <2>2. TypedLen(c) = 3 /\ TypedThird(c) = 160
    BY <1>7 DEF TypedLen, TypedThird
  <2> QED
    BY <1>7, <2>1, <2>2, TypedIs
<1>8. CASE c = "bank_select"
  <2>1. Typed[c] \in Seq(Writes)
    BY <1>1, <1>2, <1>3, <1>8, TypedIs
  <2>2. TypedLen(c) = 3 /\ TypedThird(c) = 176
    BY <1>8 DEF TypedLen, TypedThird
  <2> QED
    BY <1>8, <2>1, <2>2, TypedIs
<1>9. CASE c = "erase_unlock1"
  <2>1. Typed[c] \in Seq(Writes)
    BY <1>1, <1>2, <1>3, <1>9, TypedIs
  <2>2. TypedLen(c) = 3 /\ TypedThird(c) = 128
    BY <1>9 DEF TypedLen, TypedThird
  <2> QED
    BY <1>9, <2>1, <2>2, TypedIs
<1>10. CASE c = "erase_unlock2"
  <2>1. Typed[c] \in Seq(Writes)
    BY <1>1, <1>2, <1>3, <1>10, TypedIs
  <2>2. TypedLen(c) = 4 /\ TypedThird(c) = 128
    BY <1>10 DEF TypedLen, TypedThird
  <2> QED
    BY <1>10, <2>1, <2>2, TypedIs
<1>11. CASE c = "erase_command"
  <2>1. Typed[c] \in Seq(Writes)
    BY <1>1, <1>2, <1>3, <1>11, TypedIs
  <2>2. TypedLen(c) = 5 /\ TypedThird(c) = 128
    BY <1>11 DEF TypedLen, TypedThird
  <2> QED
    BY <1>11, <2>1, <2>2, TypedIs
<1> QED
  BY <1>4, <1>5, <1>6, <1>7, <1>8, <1>9, <1>10, <1>11 DEF CommandStates

\* A write extends the spelling of a command by its next step.
LEMMA SpellsNext ==
  ASSUME NEW t \in Seq(Writes), NEW w \in Writes, NEW steps, Len(steps) \in Nat
  PROVE  Chip!Spells(Append(t, w), steps)
           <=> Chip!Spells(t, steps) /\ Len(t) < Len(steps) /\ w \in steps[Len(t) + 1]
<1>1. /\ Len(Append(t, w)) = Len(t) + 1 /\ Len(t) \in Nat
      /\ \A i \in 1 .. Len(t) : Append(t, w)[i] = t[i]
      /\ Append(t, w)[Len(t) + 1] = w
  BY AppendProperties
<1>2. ASSUME Chip!Spells(Append(t, w), steps)
      PROVE  Chip!Spells(t, steps) /\ Len(t) < Len(steps) /\ w \in steps[Len(t) + 1]
  BY <1>1, <1>2 DEF Chip!Spells
<1>3. ASSUME Chip!Spells(t, steps), Len(t) < Len(steps), w \in steps[Len(t) + 1]
      PROVE  Chip!Spells(Append(t, w), steps)
  BY <1>1, <1>3 DEF Chip!Spells
<1> QED
  BY <1>2, <1>3

\* The commands the writes before a state spell.
Spelled(c) ==
  IF c = "idle" THEN DOMAIN Commands
  ELSE IF c \in {"unlock1", "unlock2"} THEN DOMAIN Commands \ {"leaveShort"}
  ELSE IF c = "program_data" THEN {"program"}
  ELSE IF c = "bank_select" THEN {"selectBank"}
  ELSE {"eraseChip", "eraseSector"}

LEMMA StepMembers ==
  /\ Wr2 \in Step2
  /\ \A a, b \in Nat : Wr1(a) \in Step1(b) <=> a = b
  /\ \A b \in Nat : Wr1(b) \in Chip!On(Aperture, {240}) => b = 240
<1>1. Wr2 \in Writes /\ Wr2.at = Unlock2 /\ Wr2.val = 85
  BY WritesType DEF Wr2
<1>2. \A b \in Nat : Wr1(b) \in Writes /\ Wr1(b).at = Unlock1 /\ Wr1(b).val = b
  BY WritesType DEF Wr1
<1> QED
  BY <1>1, <1>2, OnIs DEF Step1, Step2

CommandLen(d) ==
  IF d = "leaveShort" THEN 1 ELSE IF d \in {"identify", "leave"} THEN 3
  ELSE IF d \in {"program", "selectBank"} THEN 4 ELSE 6

CommandThird(d) ==
  IF d = "identify" THEN 144 ELSE IF d = "leave" THEN 240 ELSE IF d = "program" THEN 160
  ELSE IF d = "selectBank" THEN 176 ELSE IF d = "leaveShort" THEN 0 ELSE 128

LEMMA CommandFacts ==
  ASSUME NEW d \in DOMAIN Commands
  PROVE  /\ Len(Commands[d]) = CommandLen(d)
         /\ d # "leaveShort" => /\ Commands[d][1] = Step1(170) /\ Commands[d][2] = Step2
                                /\ Commands[d][3] = Step1(CommandThird(d))
         /\ d = "leaveShort" => Commands[d][1] = Chip!On(Aperture, {240})
         /\ d = "program" => Commands[d][4] = Chip!On(Aperture, Bytes)
         /\ d = "selectBank" => Commands[d][4] = Chip!On({0}, Bytes)
         /\ CommandLen(d) = 6 => Commands[d][4] = Step1(170) /\ Commands[d][5] = Step2
         /\ d = "eraseChip" => Commands[d][6] = Step1(16)
         /\ d = "eraseSector" => Commands[d][6] = Chip!On(Aperture, {48})
<1>1. CASE d \in {"identify", "leave", "leaveShort"}
  <2>1. /\ CommandLen(d) = IF d = "leaveShort" THEN 1 ELSE 3
        /\ CommandThird(d) = IF d = "identify" THEN 144 ELSE IF d = "leave" THEN 240 ELSE 0
    BY <1>1 DEF CommandLen, CommandThird
  <2> QED
    BY <1>1, <2>1, ShortCommands
<1>2. CASE d \in {"program", "selectBank"}
  <2>1. CommandLen(d) = 4 /\ CommandThird(d) = IF d = "program" THEN 160 ELSE 176
    BY <1>2 DEF CommandLen, CommandThird
  <2> QED
    BY <1>2, <2>1, MiddleCommands
<1>3. CASE d \in {"eraseChip", "eraseSector"}
  <2>1. CommandLen(d) = 6 /\ CommandThird(d) = 128
    BY <1>3 DEF CommandLen, CommandThird
  <2> QED
    BY <1>3, <2>1, EraseCommands
<1> QED
  BY <1>1, <1>2, <1>3, CommandNames

LEMMA SpelledIs ==
  ASSUME NEW c \in CommandStates, NEW d \in DOMAIN Commands
  PROVE  Chip!Spells(Typed[c], Commands[d]) <=> d \in Spelled(c)
<1> DEFINE t == Typed[c]
           s == Commands[d]
<1>1. Chip!Spells(t, s) <=> /\ TypedLen(c) <= CommandLen(d)
                            /\ \A i \in 1 .. TypedLen(c) : t[i] \in s[i]
  BY TypedFacts, CommandFacts DEF Chip!Spells
<1>2. TypedLen(c) \in 0 .. 5
  BY DEF TypedLen
<1>3. /\ TypedLen(c) >= 1 => t[1] = Wr1(170)
      /\ TypedLen(c) >= 2 => t[2] = Wr2
      /\ TypedLen(c) >= 3 => t[3] = Wr1(TypedThird(c))
      /\ TypedLen(c) >= 4 => t[4] = Wr1(170)
      /\ TypedLen(c) >= 5 => t[5] = Wr2
  BY TypedFacts
<1>4. /\ d # "leaveShort" => s[1] = Step1(170) /\ s[2] = Step2 /\ s[3] = Step1(CommandThird(d))
      /\ d = "leaveShort" => s[1] = Chip!On(Aperture, {240})
      /\ CommandLen(d) = 6 => s[4] = Step1(170) /\ s[5] = Step2
  BY CommandFacts
<1> HIDE DEF t, s
<1>5. ASSUME NEW k \in 0 .. 5
      PROVE  (\A i \in 1 .. k : t[i] \in s[i])
               <=> /\ k >= 1 => t[1] \in s[1]
                   /\ k >= 2 => t[2] \in s[2]
                   /\ k >= 3 => t[3] \in s[3]
                   /\ k >= 4 => t[4] \in s[4]
                   /\ k >= 5 => t[5] \in s[5]
  OBVIOUS
<1>6. t[1] = Wr1(170) => (t[1] \in s[1] <=> d # "leaveShort")
  BY <1>4, StepMembers
<1>7. t[2] = Wr2 /\ d # "leaveShort" => t[2] \in s[2]
  BY <1>4, StepMembers
<1>8. t[3] = Wr1(TypedThird(c)) /\ d # "leaveShort"
        => (t[3] \in s[3] <=> TypedThird(c) = CommandThird(d))
  <2>1. TypedThird(c) \in Nat /\ CommandThird(d) \in Nat
    BY DEF TypedThird, CommandThird
  <2> QED
    BY <1>4, <2>1, StepMembers
<1>9. CommandLen(d) = 6 => /\ t[4] = Wr1(170) => t[4] \in s[4]
                           /\ t[5] = Wr2 => t[5] \in s[5]
  BY <1>4, StepMembers
<1>10. CASE c = "idle"
  BY <1>1, <1>10, CommandNames DEF TypedLen, CommandLen, Spelled, t, s
<1>11. CASE c = "unlock1"
  <2>1. TypedLen(c) = 1
    BY <1>11 DEF TypedLen
  <2> QED
    BY <1>1, <1>3, <1>5, <1>6, <1>11, <2>1, CommandNames DEF CommandLen, Spelled, t, s
<1>12. CASE c = "unlock2"
  <2>1. TypedLen(c) = 2
    BY <1>12 DEF TypedLen
  <2> QED
    BY <1>1, <1>3, <1>5, <1>6, <1>7, <1>12, <2>1, CommandNames DEF CommandLen, Spelled, t, s
<1>13. CASE c \in {"program_data", "bank_select", "erase_unlock1"}
  <2>1. TypedLen(c) = 3
    BY <1>13 DEF TypedLen
  <2>2. Chip!Spells(t, s) <=> CommandLen(d) >= 3 /\ TypedThird(c) = CommandThird(d)
    BY <1>1, <1>3, <1>5, <1>6, <1>7, <1>8, <2>1 DEF CommandLen
  <2> QED
    BY <1>13, <2>2, CommandNames DEF CommandLen, CommandThird, TypedThird, Spelled, t, s
<1>14. CASE c \in {"erase_unlock2", "erase_command"}
  <2>1. TypedLen(c) \in {4, 5} /\ TypedThird(c) = 128
    BY <1>14 DEF TypedLen, TypedThird
  <2>2. Chip!Spells(t, s) <=> CommandLen(d) = 6 /\ CommandThird(d) = 128
    <3>1. CASE CommandLen(d) = 6
      BY <1>1, <1>3, <1>5, <1>6, <1>7, <1>8, <1>9, <2>1, <3>1 DEF CommandLen
    <3>2. CASE CommandLen(d) # 6
      <4>1. d \notin {"eraseChip", "eraseSector"} => CommandThird(d) # 128
        BY CommandNames DEF CommandThird
      <4>2. d \notin {"eraseChip", "eraseSector"}
        BY <3>2 DEF CommandLen
      <4> QED
        BY <1>1, <1>2, <1>3, <1>5, <1>6, <1>8, <2>1, <3>2, <4>1, <4>2
    <3> QED
      BY <3>1, <3>2
  <2> QED
    BY <1>14, <2>2, CommandNames DEF CommandLen, CommandThird, Spelled, t, s
<1> QED
  BY <1>10, <1>11, <1>12, <1>13, <1>14 DEF CommandStates, t, s

\* The commands a write completes in a state, and whether it goes on with one.
Finishing(c, w) == {d \in DOMAIN Commands : Chip!Completes(Append(Typed[c], w), d)}
GoesOn(c, w) == Chip!Begins(Append(Typed[c], w))

LEMMA OutcomeIs ==
  ASSUME NEW c \in CommandStates, NEW w \in Writes
  PROVE  /\ Finishing(c, w)
              = {d \in Spelled(c) : /\ CommandLen(d) = TypedLen(c) + 1
                                    /\ w \in Commands[d][TypedLen(c) + 1]}
         /\ GoesOn(c, w)
              <=> \E d \in Spelled(c) : /\ CommandLen(d) > TypedLen(c) + 1
                                        /\ w \in Commands[d][TypedLen(c) + 1]
<1> DEFINE k == TypedLen(c) + 1
           now == Append(Typed[c], w)
<1>1. TypedLen(c) \in Nat /\ Len(now) = k /\ k \in Nat
  BY TypedFacts, AppendProperties DEF TypedLen
<1>2. Spelled(c) \subseteq DOMAIN Commands
  BY CommandNames DEF Spelled
<1>3. ASSUME NEW d \in DOMAIN Commands
      PROVE  /\ CommandLen(d) \in Nat /\ Len(Commands[d]) = CommandLen(d)
             /\ Chip!Spells(now, Commands[d])
                  <=> d \in Spelled(c) /\ TypedLen(c) < CommandLen(d) /\ w \in Commands[d][k]
  <2>1. CommandLen(d) \in Nat /\ Len(Commands[d]) = CommandLen(d)
    BY CommandFacts DEF CommandLen
  <2>2. Typed[c] \in Seq(Writes) /\ Len(Typed[c]) = TypedLen(c)
    BY TypedFacts
  <2>3. Chip!Spells(now, Commands[d])
          <=> /\ Chip!Spells(Typed[c], Commands[d]) /\ Len(Typed[c]) < Len(Commands[d])
              /\ w \in Commands[d][Len(Typed[c]) + 1]
    BY <2>1, <2>2, SpellsNext
  <2> QED
    BY <2>1, <2>2, <2>3, SpelledIs
<1> HIDE DEF now, k
<1>4. ASSUME NEW d \in DOMAIN Commands
      PROVE  /\ Chip!Completes(now, d)
                  <=> d \in Spelled(c) /\ CommandLen(d) = k /\ w \in Commands[d][k]
             /\ Len(now) < Len(Commands[d]) /\ Chip!Spells(now, Commands[d])
                  <=> d \in Spelled(c) /\ CommandLen(d) > k /\ w \in Commands[d][k]
  <2>1. /\ CommandLen(d) \in Nat /\ Len(Commands[d]) = CommandLen(d)
        /\ Chip!Spells(now, Commands[d])
             <=> d \in Spelled(c) /\ TypedLen(c) < CommandLen(d) /\ w \in Commands[d][k]
    BY <1>3
  <2>2. Chip!Completes(now, d) <=> k = CommandLen(d) /\ Chip!Spells(now, Commands[d])
    BY <1>1, <2>1 DEF Chip!Completes, Commands
  <2>3. CommandLen(d) >= k => TypedLen(c) < CommandLen(d)
    BY <1>1, <2>1 DEF k
  <2> QED
    BY <1>1, <2>1, <2>2, <2>3
<1>5. Finishing(c, w) = {d \in Spelled(c) : CommandLen(d) = k /\ w \in Commands[d][k]}
  BY <1>2, <1>4 DEF Finishing, now
<1>6. GoesOn(c, w) <=> \E d \in Spelled(c) : CommandLen(d) > k /\ w \in Commands[d][k]
  <2>1. Chip!Begins(now)
          <=> \E d \in DOMAIN Commands : Len(now) < Len(Commands[d]) /\ Chip!Spells(now, Commands[d])
    BY DEF Chip!Begins, Commands
  <2> QED
    BY <1>2, <1>4, <2>1 DEF GoesOn, now
<1> QED
  BY <1>5, <1>6 DEF k

Is1(w, byte) == w.at = Unlock1 /\ w.val = byte
Is2(w) == w.at = Unlock2 /\ w.val = 85

\* What a write of the game does in each state, read off the table.
LEMMA Outcomes ==
  ASSUME NEW w \in Writes, w.at \in Aperture, w.val \in Bytes
  PROVE  /\ Finishing("idle", w) = IF w.val = 240 THEN {"leaveShort"} ELSE {}
         /\ GoesOn("idle", w) <=> Is1(w, 170)
         /\ Finishing("unlock1", w) = {}
         /\ GoesOn("unlock1", w) <=> Is2(w)
         /\ Finishing("unlock2", w) = IF Is1(w, 144) THEN {"identify"}
                                      ELSE IF Is1(w, 240) THEN {"leave"} ELSE {}
         /\ GoesOn("unlock2", w) <=> Is1(w, 160) \/ Is1(w, 176) \/ Is1(w, 128)
         /\ Finishing("program_data", w) = {"program"}
         /\ Finishing("bank_select", w) = IF w.at = 0 THEN {"selectBank"} ELSE {}
         /\ ~GoesOn("bank_select", w)
         /\ Finishing("erase_unlock1", w) = {}
         /\ GoesOn("erase_unlock1", w) <=> Is1(w, 170)
         /\ Finishing("erase_unlock2", w) = {}
         /\ GoesOn("erase_unlock2", w) <=> Is2(w)
         /\ Finishing("erase_command", w) = IF Is1(w, 16) THEN {"eraseChip"}
                                            ELSE IF w.val = 48 THEN {"eraseSector"} ELSE {}
         /\ ~GoesOn("erase_command", w)
<1>1. /\ \A b \in Nat : w \in Step1(b) <=> Is1(w, b)
      /\ w \in Step2 <=> Is2(w)
      /\ \A b \in Nat : w \in Chip!On(Aperture, {b}) <=> w.val = b
      /\ w \in Chip!On(Aperture, Bytes)
      /\ w \in Chip!On({0}, Bytes) <=> w.at = 0
  BY OnIs DEF Step1, Step2, Is1, Is2
<1>2. /\ Finishing("idle", w) = IF w.val = 240 THEN {"leaveShort"} ELSE {}
      /\ GoesOn("idle", w) <=> Is1(w, 170)
  <2>1. /\ Finishing("idle", w) = {d \in DOMAIN Commands : CommandLen(d) = 1 /\ w \in Commands[d][1]}
        /\ GoesOn("idle", w)
             <=> \E d \in DOMAIN Commands : CommandLen(d) > 1 /\ w \in Commands[d][1]
    BY OutcomeIs DEF CommandStates, TypedLen, Spelled
  <2>2. \A d \in DOMAIN Commands : /\ CommandLen(d) = 1 <=> d = "leaveShort"
                                   /\ CommandLen(d) > 1 <=> d # "leaveShort"
    BY CommandNames DEF CommandLen
  <2>3. /\ w \in Commands["leaveShort"][1] <=> w.val = 240
        /\ \A d \in DOMAIN Commands \ {"leaveShort"} : w \in Commands[d][1] <=> Is1(w, 170)
    <3>1. Commands["leaveShort"][1] = Chip!On(Aperture, {240})
      BY ShortCommands
    <3>2. \A d \in DOMAIN Commands \ {"leaveShort"} : Commands[d][1] = Step1(170)
      BY CommandFacts
    <3> QED
      BY <1>1, <3>1, <3>2
  <2>4. {"leaveShort", "leave"} \subseteq DOMAIN Commands
    BY CommandNames
  <2>5. Finishing("idle", w) = IF w.val = 240 THEN {"leaveShort"} ELSE {}
    BY <2>1, <2>2, <2>3, <2>4
  <2>6. GoesOn("idle", w) <=> Is1(w, 170)
    BY <2>1, <2>2, <2>3, <2>4
  <2> QED
    BY <2>5, <2>6
<1>3. Finishing("unlock1", w) = {} /\ (GoesOn("unlock1", w) <=> Is2(w))
  <2> DEFINE D == DOMAIN Commands \ {"leaveShort"}
  <2>1. /\ Finishing("unlock1", w) = {d \in D : CommandLen(d) = 2 /\ w \in Commands[d][2]}
        /\ GoesOn("unlock1", w) <=> \E d \in D : CommandLen(d) > 2 /\ w \in Commands[d][2]
    BY OutcomeIs DEF CommandStates, TypedLen, Spelled
  <2>2. \A d \in D : CommandLen(d) > 2 /\ CommandLen(d) # 2 /\ (w \in Commands[d][2] <=> Is2(w))
    BY <1>1, CommandFacts DEF CommandLen
  <2>3. "leave" \in D
    BY CommandNames
  <2> HIDE DEF D
  <2> QED
    BY <2>1, <2>2, <2>3
<1>4. /\ Finishing("unlock2", w) = IF Is1(w, 144) THEN {"identify"}
                                   ELSE IF Is1(w, 240) THEN {"leave"} ELSE {}
      /\ GoesOn("unlock2", w) <=> Is1(w, 160) \/ Is1(w, 176) \/ Is1(w, 128)
  <2> DEFINE D == DOMAIN Commands \ {"leaveShort"}
  <2>1. /\ Finishing("unlock2", w) = {d \in D : CommandLen(d) = 3 /\ w \in Commands[d][3]}
        /\ GoesOn("unlock2", w) <=> \E d \in D : CommandLen(d) > 3 /\ w \in Commands[d][3]
    BY OutcomeIs DEF CommandStates, TypedLen, Spelled
  <2>2. \A d \in D : w \in Commands[d][3] <=> Is1(w, CommandThird(d))
    BY <1>1, CommandFacts DEF CommandThird
  <2>3. D = {"identify", "leave", "program", "selectBank", "eraseChip", "eraseSector"}
    BY CommandNames
  <2>4. /\ CommandLen("identify") = 3 /\ CommandLen("leave") = 3 /\ CommandLen("program") = 4
        /\ CommandLen("selectBank") = 4 /\ CommandLen("eraseChip") = 6
        /\ CommandLen("eraseSector") = 6
    BY DEF CommandLen
  <2>5. /\ CommandThird("identify") = 144 /\ CommandThird("leave") = 240
        /\ CommandThird("program") = 160 /\ CommandThird("selectBank") = 176
        /\ CommandThird("eraseChip") = 128 /\ CommandThird("eraseSector") = 128
    BY DEF CommandThird
  <2>6. ~(Is1(w, 144) /\ Is1(w, 240))
    BY DEF Is1
  <2> HIDE DEF D
  <2>7. Finishing("unlock2", w) = IF Is1(w, 144) THEN {"identify"}
                                  ELSE IF Is1(w, 240) THEN {"leave"} ELSE {}
    BY <2>1, <2>2, <2>3, <2>4, <2>5, <2>6
  <2>8. GoesOn("unlock2", w) <=> Is1(w, 160) \/ Is1(w, 176) \/ Is1(w, 128)
    BY <2>1, <2>2, <2>3, <2>4, <2>5
  <2> QED
    BY <2>7, <2>8
<1>5. Finishing("program_data", w) = {"program"}
  <2>1. Finishing("program_data", w) = {d \in {"program"} : CommandLen(d) = 4 /\ w \in Commands[d][4]}
    BY OutcomeIs DEF CommandStates, TypedLen, Spelled
  <2>2. CommandLen("program") = 4 /\ w \in Commands["program"][4]
    BY <1>1, CommandNames, CommandFacts DEF CommandLen
  <2> QED
    BY <2>1, <2>2
<1>6. /\ Finishing("bank_select", w) = IF w.at = 0 THEN {"selectBank"} ELSE {}
      /\ ~GoesOn("bank_select", w)
  <2>1. /\ Finishing("bank_select", w)
             = {d \in {"selectBank"} : CommandLen(d) = 4 /\ w \in Commands[d][4]}
        /\ GoesOn("bank_select", w)
             <=> \E d \in {"selectBank"} : CommandLen(d) > 4 /\ w \in Commands[d][4]
    BY OutcomeIs DEF CommandStates, TypedLen, Spelled
  <2>2. CommandLen("selectBank") = 4 /\ (w \in Commands["selectBank"][4] <=> w.at = 0)
    BY <1>1, CommandNames, CommandFacts DEF CommandLen
  <2> QED
    BY <2>1, <2>2
<1> DEFINE E == {"eraseChip", "eraseSector"}
<1>7. /\ E \subseteq DOMAIN Commands
      /\ \A d \in E : /\ CommandLen(d) = 6
                      /\ w \in Commands[d][4] <=> Is1(w, 170)
                      /\ w \in Commands[d][5] <=> Is2(w)
      /\ w \in Commands["eraseChip"][6] <=> Is1(w, 16)
      /\ w \in Commands["eraseSector"][6] <=> w.val = 48
  BY <1>1, CommandNames, CommandFacts DEF CommandLen
<1>8. Finishing("erase_unlock1", w) = {} /\ (GoesOn("erase_unlock1", w) <=> Is1(w, 170))
  <2>1. /\ Finishing("erase_unlock1", w) = {d \in E : CommandLen(d) = 4 /\ w \in Commands[d][4]}
        /\ GoesOn("erase_unlock1", w) <=> \E d \in E : CommandLen(d) > 4 /\ w \in Commands[d][4]
    BY OutcomeIs DEF CommandStates, TypedLen, Spelled
  <2> QED
    BY <1>7, <2>1
<1>9. Finishing("erase_unlock2", w) = {} /\ (GoesOn("erase_unlock2", w) <=> Is2(w))
  <2>1. /\ Finishing("erase_unlock2", w) = {d \in E : CommandLen(d) = 5 /\ w \in Commands[d][5]}
        /\ GoesOn("erase_unlock2", w) <=> \E d \in E : CommandLen(d) > 5 /\ w \in Commands[d][5]
    BY OutcomeIs DEF CommandStates, TypedLen, Spelled
  <2> QED
    BY <1>7, <2>1
<1>10. /\ Finishing("erase_command", w) = IF Is1(w, 16) THEN {"eraseChip"}
                                          ELSE IF w.val = 48 THEN {"eraseSector"} ELSE {}
       /\ ~GoesOn("erase_command", w)
  <2>1. /\ Finishing("erase_command", w) = {d \in E : CommandLen(d) = 6 /\ w \in Commands[d][6]}
        /\ GoesOn("erase_command", w) <=> \E d \in E : CommandLen(d) > 6 /\ w \in Commands[d][6]
    BY OutcomeIs DEF CommandStates, TypedLen, Spelled
  <2>2. ~(Is1(w, 16) /\ w.val = 48)
    BY DEF Is1
  <2>3. ~GoesOn("erase_command", w)
    BY <1>7, <2>1
  <2>4. Finishing("erase_command", w) = IF Is1(w, 16) THEN {"eraseChip"}
                                        ELSE IF w.val = 48 THEN {"eraseSector"} ELSE {}
    BY <1>7, <2>1, <2>2
  <2> QED
    BY <2>3, <2>4
<1> QED
  BY <1>2, <1>3, <1>4, <1>5, <1>6, <1>8, <1>9, <1>10

---------------------------------------------------------------------------
(* The state machine against the table.                                      *)

\* A chip, field by field.
ChipIs(cells, typed, idMode, b) ==
  [cells |-> cells, typed |-> typed, idMode |-> idMode, bank |-> b]

LEMMA ChipFields ==
  ASSUME NEW A, NEW B, NEW C, NEW D, NEW y \in [cells : A, typed : B, idMode : C, bank : D]
  PROVE  y = ChipIs(y.cells, y.typed, y.idMode, y.bank)
BY DEF ChipIs

Retyped(x, u) == [x EXCEPT !.typed = u]
Ended(x, u, n) == [x EXCEPT !.typed = u, !.idMode = n]

LEMMA ChipUpdates ==
  ASSUME NEW c, NEW t, NEW m, NEW b, NEW u, NEW n, NEW x, x = ChipIs(c, t, m, b)
  PROVE  Retyped(x, u) = ChipIs(c, u, m, b) /\ Ended(x, u, n) = ChipIs(c, u, n, b)
<1> DEFINE X == [cells : {c}, typed : {t, u}, idMode : {m, n}, bank : {b}]
           y == [x EXCEPT !.typed = u, !.idMode = n]
<1>1. x \in X
  BY DEF ChipIs
<1>2. y \in X
  BY <1>1
<1>3. y.typed = u /\ y.idMode = n /\ y.cells = c /\ y.bank = b
  BY <1>1
<1>4. y = ChipIs(y.cells, y.typed, y.idMode, y.bank)
  <2> HIDE DEF y
  <2> QED
    BY <1>2, ChipFields
<1>5. [x EXCEPT !.typed = u] = ChipIs(c, u, m, b)
  BY DEF ChipIs
<1> HIDE DEF y
<1>6. y = ChipIs(c, u, n, b)
  BY <1>3, <1>4
<1> QED
  BY <1>5, <1>6 DEF y, Retyped, Ended

LEMMA WrittenIs ==
  ASSUME NEW s, NEW w
  PROVE  /\ \A d : Finishing(s.cmd, w) = {d}
              => Chip!Written(AsChip(s), w) = Chip!Effect(AsChip(s), d, w)
         /\ Finishing(s.cmd, w) = {} /\ GoesOn(s.cmd, w)
              => Chip!Written(AsChip(s), w)
                   = ChipIs(s.data, Append(Typed[s.cmd], w), s.id, s.bank)
         /\ Finishing(s.cmd, w) = {} /\ ~GoesOn(s.cmd, w)
              => Chip!Written(AsChip(s), w)
                   = ChipIs(s.data, <<>>, s.id /\ Typed[s.cmd] = <<>>, s.bank)
<1> DEFINE chip == AsChip(s)
           F == Finishing(s.cmd, w)
<1>1. chip = ChipIs(s.data, Typed[s.cmd], s.id, s.bank)
  BY DEF AsChip, ChipIs
<1>2. chip.typed = Typed[s.cmd] /\ chip.idMode = s.id
  BY <1>1 DEF ChipIs
<1>3. Chip!Written(chip, w)
        = IF F # {} THEN Chip!Effect(chip, CHOOSE c \in F : TRUE, w)
          ELSE IF GoesOn(s.cmd, w) THEN [chip EXCEPT !.typed = Append(Typed[s.cmd], w)]
          ELSE [chip EXCEPT !.typed = <<>>, !.idMode = s.id /\ Typed[s.cmd] = <<>>]
  BY <1>2 DEF Chip!Written, Finishing, GoesOn, Commands
<1> HIDE DEF F
<1>4. \A d : F = {d} => Chip!Written(chip, w) = Chip!Effect(chip, d, w)
  <2> TAKE d
  <2> HAVE F = {d}
  <2>1. (CHOOSE c \in F : TRUE) = d
    OBVIOUS
  <2> HIDE DEF chip
  <2> QED
    BY <1>3, <2>1
<1> DEFINE next == Append(Typed[s.cmd], w)
           stays == s.id /\ Typed[s.cmd] = <<>>
<1>5. F = {} /\ GoesOn(s.cmd, w)
        => Chip!Written(chip, w) = ChipIs(s.data, next, s.id, s.bank)
  <2> SUFFICES ASSUME F = {}, GoesOn(s.cmd, w)
               PROVE  Chip!Written(chip, w) = ChipIs(s.data, next, s.id, s.bank)
    OBVIOUS
  <2>1. Chip!Written(chip, w) = Retyped(chip, next)
    BY <1>3 DEF Retyped
  <2> HIDE DEF next, chip
  <2>2. Retyped(chip, next) = ChipIs(s.data, next, s.id, s.bank)
    BY <1>1, ChipUpdates
  <2> QED
    BY <2>1, <2>2
<1>6. F = {} /\ ~GoesOn(s.cmd, w)
        => Chip!Written(chip, w) = ChipIs(s.data, <<>>, stays, s.bank)
  <2> SUFFICES ASSUME F = {}, ~GoesOn(s.cmd, w)
               PROVE  Chip!Written(chip, w) = ChipIs(s.data, <<>>, stays, s.bank)
    OBVIOUS
  <2>1. Chip!Written(chip, w) = Ended(chip, <<>>, stays)
    BY <1>3 DEF Ended
  <2> HIDE DEF stays, chip
  <2>2. Ended(chip, <<>>, stays) = ChipIs(s.data, <<>>, stays, s.bank)
    BY <1>1, ChipUpdates
  <2> QED
    BY <2>1, <2>2
<1> QED
  BY <1>4, <1>5, <1>6 DEF F

\* The cells an offset and its sector stand for are those of the table.
LEMMA SectorIs ==
  ASSUME NEW n \in Nat \ {0}, NEW e \in Nat, NEW i \in Nat
  PROVE  i \in (e \div n) * n .. (e \div n) * n + n - 1 <=> i \div n = e \div n
<1> DEFINE q == e \div n
           p == i \div n
           r == i % n
<1>1. q \in Nat /\ p \in Nat /\ r \in 0 .. n - 1 /\ n \in Nat
  OBVIOUS
<1>2. i = p * n + r
  <2>1. n \in Int /\ n > 0 /\ i \in Int
    OBVIOUS
  <2>2. i = n * p + r
    BY <2>1, Z3
  <2> HIDE DEF p, r
  <2> QED
    BY <1>1, <2>2
<1> HIDE DEF p, q, r
<1>3. p * n \in Nat /\ q * n \in Nat
  BY <1>1
<1>4. (p + 1) * n = p * n + n /\ (q + 1) * n = q * n + n
  BY <1>1
<1>5. p < q => p * n + n <= q * n
  <2> SUFFICES ASSUME p < q PROVE p * n + n <= q * n
    OBVIOUS
  <2>1. p + 1 <= q /\ p + 1 \in Nat
    BY <1>1
  <2>2. (p + 1) * n <= q * n
    BY <1>1, <2>1, TimesOrdered
  <2> QED
    BY <1>4, <2>2
<1>6. q < p => q * n + n <= p * n
  <2> SUFFICES ASSUME q < p PROVE q * n + n <= p * n
    OBVIOUS
  <2>1. q + 1 <= p /\ q + 1 \in Nat
    BY <1>1
  <2>2. (q + 1) * n <= p * n
    BY <1>1, <2>1, TimesOrdered
  <2> QED
    BY <1>4, <2>2
<1>7. i \in q * n .. q * n + n - 1 <=> p = q
  BY <1>1, <1>2, <1>3, <1>5, <1>6
<1> QED
  BY <1>7 DEF p, q

LEMMA TargetIs ==
  ASSUME IsFlash, NEW s, Fits(s), NEW w \in Writes, w.at \in Aperture
  PROVE  /\ EffectiveOffset(type, s.bank, w.at) = Chip!Cell(AsChip(s), w.at)
         /\ Chip!Cell(AsChip(s), w.at) \in Nat
         /\ Chip!TwoBanks(AsChip(s)) <=> type = "flash128"
<1>1. /\ s.bank \in {0, 1} /\ (s.bank # 0 => type = "flash128")
      /\ DOMAIN s.data = Cells(SizeOf(type))
  BY DEF Fits, Shapes
<1>2. AsChip(s).bank = s.bank /\ AsChip(s).cells = s.data
  BY DEF AsChip
<1>3. BankSize \in Nat /\ BankSize > 0
  BY SizeAssumption
<1>4. w.at \in Nat /\ w.at < BankSize
  BY <1>3 DEF Aperture
<1>5. w.at % BankSize = w.at
  BY <1>3, <1>4
<1>6. EffectiveOffset(type, s.bank, w.at) = s.bank * BankSize + w.at
  BY <1>1, <1>3, <1>4, <1>5 DEF EffectiveOffset
<1>7. BankSize \in Cells(SizeOf(type)) <=> type = "flash128"
  BY <1>3 DEF SizeOf, Cells, IsFlash, FlashTypes
<1> QED
  BY <1>1, <1>2, <1>3, <1>4, <1>6, <1>7 DEF Chip!Cell, Chip!TwoBanks

\* Going on with a command is typing its next write.
Follows(c, w, d) ==
  /\ c \in CommandStates /\ d \in CommandStates /\ w \in Writes
  /\ TypedLen(d) = TypedLen(c) + 1 /\ Typed[d][TypedLen(d)] = w
  /\ TypedLen(c) >= 3 => TypedThird(d) = TypedThird(c)

LEMMA NextTyped ==
  ASSUME NEW c, NEW d, NEW w, Follows(c, w, d)
  PROVE  Append(Typed[c], w) = Typed[d]
<1> DEFINE t == Typed[c]
           u == Typed[d]
           k == TypedLen(c)
<1>0. /\ c \in CommandStates /\ d \in CommandStates /\ w \in Writes
      /\ TypedLen(d) = k + 1 /\ Typed[d][TypedLen(d)] = w
      /\ k >= 3 => TypedThird(d) = TypedThird(c)
  BY DEF Follows
<1>1. /\ t \in Seq(Writes) /\ u \in Seq(Writes) /\ Len(t) = k /\ Len(u) = k + 1
      /\ k \in 0 .. 5
  BY <1>0, TypedFacts DEF TypedLen
<1>2. /\ k >= 1 => t[1] = u[1]
      /\ k >= 2 => t[2] = u[2]
      /\ k >= 3 => t[3] = u[3]
      /\ k >= 4 => t[4] = u[4]
      /\ k >= 5 => t[5] = u[5]
  <2>1. TypedLen(d) = k + 1 /\ k \in Nat
    BY <1>0, <1>1
  <2>2. /\ k >= 1 => t[1] = Wr1(170)
        /\ k >= 2 => t[2] = Wr2
        /\ k >= 3 => t[3] = Wr1(TypedThird(c))
        /\ k >= 4 => t[4] = Wr1(170)
        /\ k >= 5 => t[5] = Wr2
    BY <1>0, TypedFacts
  <2>3. /\ k + 1 >= 1 => u[1] = Wr1(170)
        /\ k + 1 >= 2 => u[2] = Wr2
        /\ k + 1 >= 3 => u[3] = Wr1(TypedThird(d))
        /\ k + 1 >= 4 => u[4] = Wr1(170)
        /\ k + 1 >= 5 => u[5] = Wr2
    BY <1>0, <2>1, TypedFacts
  <2> HIDE DEF t, u, k
  <2> QED
    BY <1>0, <2>1, <2>2, <2>3
<1>3. u[k + 1] = w
  BY <1>0
<1> HIDE DEF t, u, k
<1>4. \A i \in 1 .. k : t[i] = u[i]
  BY <1>1, <1>2
<1>5. /\ Append(t, w) \in Seq(Writes) /\ Len(Append(t, w)) = k + 1
      /\ \A i \in 1 .. k : Append(t, w)[i] = t[i]
      /\ Append(t, w)[k + 1] = w
  BY <1>0, <1>1, AppendProperties
<1>6. \A i \in 1 .. k + 1 : Append(t, w)[i] = u[i]
  BY <1>1, <1>3, <1>4, <1>5
<1>7. Append(t, w) = u
  BY <1>1, <1>5, <1>6, SeqEqual
<1> QED
  BY <1>7 DEF t, u

LEMMA TypingOn ==
  ASSUME NEW w \in Writes
  PROVE  /\ Is1(w, 170) => Append(Typed["idle"], w) = Typed["unlock1"]
         /\ Is2(w) => Append(Typed["unlock1"], w) = Typed["unlock2"]
         /\ Is1(w, 160) => Append(Typed["unlock2"], w) = Typed["program_data"]
         /\ Is1(w, 176) => Append(Typed["unlock2"], w) = Typed["bank_select"]
         /\ Is1(w, 128) => Append(Typed["unlock2"], w) = Typed["erase_unlock1"]
         /\ Is1(w, 170) => Append(Typed["erase_unlock1"], w) = Typed["erase_unlock2"]
         /\ Is2(w) => Append(Typed["erase_unlock2"], w) = Typed["erase_command"]
<1>1. (Is2(w) => w = Wr2) /\ \A b : Is1(w, b) => w = Wr1(b)
  BY DEF Writes, Is1, Is2, Wr1, Wr2
<1>2. /\ Typed["unlock1"][1] = Wr1(170) /\ Typed["unlock2"][2] = Wr2
      /\ Typed["program_data"][3] = Wr1(160) /\ Typed["bank_select"][3] = Wr1(176)
      /\ Typed["erase_unlock1"][3] = Wr1(128) /\ Typed["erase_unlock2"][4] = Wr1(170)
      /\ Typed["erase_command"][5] = Wr2
  BY TypedIs
<1>3. /\ TypedLen("idle") = 0 /\ TypedLen("unlock1") = 1 /\ TypedLen("unlock2") = 2
      /\ TypedLen("program_data") = 3 /\ TypedLen("bank_select") = 3
      /\ TypedLen("erase_unlock1") = 3 /\ TypedLen("erase_unlock2") = 4
      /\ TypedLen("erase_command") = 5
  BY DEF TypedLen
<1>4. /\ TypedThird("erase_unlock1") = TypedThird("erase_unlock2")
      /\ TypedThird("erase_unlock2") = TypedThird("erase_command")
  BY DEF TypedThird
<1>5. {"idle", "unlock1", "unlock2", "program_data", "bank_select", "erase_unlock1",
       "erase_unlock2", "erase_command"} \subseteq CommandStates
  BY DEF CommandStates
<1>6. Is1(w, 170) => Follows("idle", w, "unlock1")
  BY <1>1, <1>2, <1>3, <1>4, <1>5 DEF Follows
<1>7. Is2(w) => Follows("unlock1", w, "unlock2")
  BY <1>1, <1>2, <1>3, <1>4, <1>5 DEF Follows
<1>8. Is1(w, 160) => Follows("unlock2", w, "program_data")
  BY <1>1, <1>2, <1>3, <1>4, <1>5 DEF Follows
<1>9. Is1(w, 176) => Follows("unlock2", w, "bank_select")
  BY <1>1, <1>2, <1>3, <1>4, <1>5 DEF Follows
<1>10. Is1(w, 128) => Follows("unlock2", w, "erase_unlock1")
  BY <1>1, <1>2, <1>3, <1>4, <1>5 DEF Follows
<1>11. Is1(w, 170) => Follows("erase_unlock1", w, "erase_unlock2")
  BY <1>1, <1>2, <1>3, <1>4, <1>5 DEF Follows
<1>12. Is2(w) => Follows("erase_unlock2", w, "erase_command")
  BY <1>1, <1>2, <1>3, <1>4, <1>5 DEF Follows
<1> QED
  BY <1>6, <1>7, <1>8, <1>9, <1>10, <1>11, <1>12, NextTyped

LEMMA AsChipIs ==
  ASSUME NEW s PROVE AsChip(s) = ChipIs(s.data, Typed[s.cmd], s.id, s.bank)
BY DEF AsChip, ChipIs

\* The commands that leave the cells alone.
LEMMA QuietEffect ==
  ASSUME IsFlash, NEW s, Fits(s), NEW w \in Writes, w.at \in Aperture,
         NEW d \in {"identify", "leave", "leaveShort", "selectBank"}
  PROVE  Chip!Effect(AsChip(s), d, w)
           = ChipIs(s.data, <<>>,
                    d = "identify" \/ (s.id /\ d \notin {"leave", "leaveShort"}),
                    IF d # "selectBank" THEN s.bank
                    ELSE IF type = "flash128" THEN w.val % 2 ELSE 0)
<1>1. /\ AsChip(s).cells = s.data /\ AsChip(s).idMode = s.id /\ AsChip(s).bank = s.bank
  BY DEF AsChip
<1>2. s.data \in [DOMAIN s.data -> {0, 1}]
  BY DEF Fits, Shapes
<1>3. s.data = [i \in DOMAIN s.data |-> s.data[i]]
  BY <1>2
<1>4. Chip!TwoBanks(AsChip(s)) <=> type = "flash128"
  BY TargetIs
<1> QED
  BY <1>1, <1>3, <1>4 DEF Chip!Effect, ChipIs

LEMMA ProgramEffect ==
  ASSUME IsFlash, NEW s, Fits(s), NEW w \in Writes, w.at \in Aperture
  PROVE  Chip!Effect(AsChip(s), "program", w)
           = ChipIs(Program(s, w.at, w.val).data, <<>>, s.id, s.bank)
<1> DEFINE e == EffectiveOffset(type, s.bank, w.at)
           x == s.data
           v == And(x[e], Bit(w.val))
<1>1. /\ AsChip(s).cells = x /\ AsChip(s).idMode = s.id /\ AsChip(s).bank = s.bank
  BY DEF AsChip
<1>2. x \in [DOMAIN x -> {0, 1}] /\ s.id \in BOOLEAN
  BY DEF Fits, Shapes
<1>3. Chip!Cell(AsChip(s), w.at) = e
  BY TargetIs
<1>4. Program(s, w.at, w.val).data = [x EXCEPT ![e] = v]
  BY DEF Program, Fits, Shapes
<1>5. e \in DOMAIN x => v = IF w.val % 2 = 0 THEN 0 ELSE x[e]
  <2>1. w.val % 2 \in {0, 1}
    BY DEF Writes
  <2> QED
    BY <1>2, <2>1 DEF And, Bit
<1>6. [x EXCEPT ![e] = v] = [i \in DOMAIN x |-> IF i = e /\ w.val % 2 = 0 THEN 0 ELSE x[i]]
  <2> HIDE DEF e, x, v
  <2> QED
    BY <1>2, <1>5
<1>7. Chip!Effect(AsChip(s), "program", w)
        = ChipIs([i \in DOMAIN x |-> IF i = e /\ w.val % 2 = 0 THEN 0 ELSE x[i]],
                 <<>>, s.id, s.bank)
  BY <1>1, <1>2, <1>3 DEF Chip!Effect, ChipIs
<1> QED
  BY <1>4, <1>6, <1>7

LEMMA EraseEffect ==
  ASSUME IsFlash, NEW s, Fits(s), NEW w \in Writes, w.at \in Aperture
  PROVE  /\ Chip!Effect(AsChip(s), "eraseChip", w)
              = ChipIs(Erased(s, 0, SizeOf(type)).data, <<>>, s.id, s.bank)
         /\ Chip!Effect(AsChip(s), "eraseSector", w)
              = ChipIs(Erased(s, SectorStart(type, s.bank, w.at), SectorSize).data,
                       <<>>, s.id, s.bank)
<1> DEFINE e == EffectiveOffset(type, s.bank, w.at)
           f == SectorStart(type, s.bank, w.at)
           x == s.data
           S == {i \in DOMAIN x : i \div SectorSize = e \div SectorSize}
<1>1. /\ AsChip(s).cells = x /\ AsChip(s).idMode = s.id /\ AsChip(s).bank = s.bank
  BY DEF AsChip
<1>2. x \in [DOMAIN x -> {0, 1}] /\ s.id \in BOOLEAN /\ DOMAIN x = Cells(SizeOf(type))
  BY DEF Fits, Shapes
<1>3. Chip!Cell(AsChip(s), w.at) = e /\ e \in Nat
  BY TargetIs
<1>4. DOMAIN x \subseteq Nat
  BY <1>2 DEF Cells
<1>5. \A a, n : Erased(s, a, n).data
                  = [i \in DOMAIN x |-> IF i \in a .. a + n - 1 THEN 1 ELSE x[i]]
  BY DEF Erased, Fits, Shapes
<1>6. SizeOf(type) \in Nat /\ SectorSize \in Nat \ {0}
  BY SizesAreNat, SizeAssumption DEF IsFlash, FlashTypes, Types
<1>7. Chip!Effect(AsChip(s), "eraseChip", w)
        = ChipIs(Erased(s, 0, SizeOf(type)).data, <<>>, s.id, s.bank)
  <2>1. \A i \in DOMAIN x : i \in 0 .. 0 + SizeOf(type) - 1
    BY <1>2, <1>6 DEF Cells
  <2>2. Erased(s, 0, SizeOf(type)).data = [i \in DOMAIN x |-> 1]
    BY <1>5, <2>1
  <2>3. Chip!Effect(AsChip(s), "eraseChip", w) = ChipIs([i \in DOMAIN x |-> 1], <<>>, s.id, s.bank)
    BY <1>1, <1>2 DEF Chip!Effect, ChipIs
  <2> QED
    BY <2>2, <2>3
<1>8. Chip!Effect(AsChip(s), "eraseSector", w)
        = ChipIs(Erased(s, f, SectorSize).data, <<>>, s.id, s.bank)
  <2>1. f = (e \div SectorSize) * SectorSize
    BY DEF SectorStart
  <2>2. \A i \in DOMAIN x : i \in f .. f + SectorSize - 1 <=> i \in S
    <3> TAKE i \in DOMAIN x
    <3>1. i \in Nat
      BY <1>4
    <3>2. i \in f .. f + SectorSize - 1 <=> i \div SectorSize = e \div SectorSize
      <4> HIDE DEF e, f
      <4> QED
        BY <1>3, <1>6, <2>1, <3>1, SectorIs
    <3> QED
      BY <3>2
  <2>3. Erased(s, f, SectorSize).data = [i \in DOMAIN x |-> IF i \in S THEN 1 ELSE x[i]]
    <3>1. Erased(s, f, SectorSize).data
            = [i \in DOMAIN x |-> IF i \in f .. f + SectorSize - 1 THEN 1 ELSE x[i]]
      BY <1>5
    <3> HIDE DEF f, S, x
    <3> QED
      BY <2>2, <3>1
  <2>4. Chip!Effect(AsChip(s), "eraseSector", w)
          = ChipIs([i \in DOMAIN x |-> IF i \in S THEN 1 ELSE x[i]], <<>>, s.id, s.bank)
    BY <1>1, <1>2, <1>3 DEF Chip!Effect, ChipIs
  <2> QED
    BY <2>3, <2>4
<1> QED
  BY <1>7, <1>8

LEMMA StepsAsChip ==
  ASSUME NEW s, Fits(s), NEW c \in CommandStates
  PROVE  /\ AsChip(s) = ChipIs(s.data, Typed[s.cmd], s.id, s.bank)
         /\ AsChip(Advance(s, c)) = ChipIs(s.data, Typed[c], s.id, s.bank)
         /\ AsChip(Aborted(s)) = ChipIs(s.data, <<>>, FALSE, s.bank)
<1>1. /\ Advance(s, c).data = s.data /\ Advance(s, c).cmd = c
      /\ Advance(s, c).id = s.id /\ Advance(s, c).bank = s.bank
  BY DEF Fits, Shapes, Advance
<1>2. /\ Aborted(s).data = s.data /\ Aborted(s).cmd = "idle"
      /\ Aborted(s).id = FALSE /\ Aborted(s).bank = s.bank
  BY DEF Fits, Shapes, Aborted
<1> QED
  BY <1>1, <1>2, AsChipIs, TypedIs

\* What ends a command without an effect ends the identification mode too,
\* unless no command was being typed.
LEMMA BrokenOff ==
  ASSUME NEW s, Fits(s), NEW w, Finishing(s.cmd, w) = {}, ~GoesOn(s.cmd, w)
  PROVE  Chip!Written(AsChip(s), w)
           = IF s.cmd = "idle" THEN AsChip(s) ELSE AsChip(Aborted(s))
<1> DEFINE stays == s.id /\ Typed[s.cmd] = <<>>
<1>1. Chip!Written(AsChip(s), w) = ChipIs(s.data, <<>>, stays, s.bank)
  BY WrittenIs
<1>2. s.cmd \in CommandStates /\ s.id \in BOOLEAN
  BY DEF Fits, Shapes
<1>3. AsChip(s) = ChipIs(s.data, Typed[s.cmd], s.id, s.bank)
        /\ AsChip(Aborted(s)) = ChipIs(s.data, <<>>, FALSE, s.bank)
  BY <1>2, StepsAsChip
<1>4. CASE s.cmd = "idle"
  <2>1. Typed[s.cmd] = <<>>
    BY <1>4, TypedIs
  <2>2. stays = s.id
    BY <1>2, <2>1
  <2> HIDE DEF stays
  <2> QED
    BY <1>1, <1>3, <1>4, <2>1, <2>2
<1>5. CASE s.cmd # "idle"
  <2>1. Len(Typed[s.cmd]) = TypedLen(s.cmd) /\ TypedLen(s.cmd) # 0 /\ Len(<<>>) = 0
    BY <1>2, <1>5, TypedFacts DEF TypedLen
  <2>2. Typed[s.cmd] # <<>>
    BY <2>1
  <2>3. stays = FALSE
    BY <2>2
  <2> HIDE DEF stays
  <2> QED
    BY <1>1, <1>3, <1>5, <2>3
<1> QED
  BY <1>4, <1>5

LEMMA GoneOn ==
  ASSUME NEW s, Fits(s), NEW w, NEW c \in CommandStates,
         Finishing(s.cmd, w) = {}, GoesOn(s.cmd, w), Append(Typed[s.cmd], w) = Typed[c]
  PROVE  Chip!Written(AsChip(s), w) = AsChip(Advance(s, c))
<1>1. Chip!Written(AsChip(s), w) = ChipIs(s.data, Typed[c], s.id, s.bank)
  BY WrittenIs
<1> QED
  BY <1>1, StepsAsChip

LEMMA WriteIsWritten ==
  ASSUME IsFlash, NEW s, Fits(s), NEW w \in Writes, w.at \in Aperture, w.val \in Bytes
  PROVE  AsChip(WriteFlash(s, w.at, w.val)) = Chip!Written(AsChip(s), w)
<1> DEFINE o == w.at
           v == w.val
           R == AsChip(WriteFlash(s, o, v)) = Chip!Written(AsChip(s), w)
<1>0. s.cmd \in CommandStates /\ s.id \in BOOLEAN /\ s \in Shapes(SizeOf(type))
  BY DEF Fits, Shapes
<1>a. {"idle", "unlock1", "unlock2", "program_data", "bank_select", "erase_unlock1",
       "erase_unlock2", "erase_command"} = CommandStates
  BY DEF CommandStates
<1>b. AsChip(Aborted(s)) = ChipIs(s.data, <<>>, FALSE, s.bank)
  BY <1>0, StepsAsChip
<1>1. CASE s.cmd = "idle"
  <2>0. WriteFlash(s, o, v) = Idle(s, o, v)
    BY <1>1 DEF WriteFlash
  <2>1. CASE v = 240
    <3>1. WriteFlash(s, o, v) = Aborted(s)
      BY <2>0, <2>1 DEF Idle
    <3>2. Finishing(s.cmd, w) = {"leaveShort"}
      BY <1>1, <2>1, Outcomes
    <3>3. Chip!Written(AsChip(s), w) = Chip!Effect(AsChip(s), "leaveShort", w)
      BY <3>2, WrittenIs
    <3>4. Chip!Effect(AsChip(s), "leaveShort", w) = ChipIs(s.data, <<>>, FALSE, s.bank)
      BY QuietEffect
    <3> QED
      BY <1>b, <3>1, <3>3, <3>4
  <2>2. CASE v # 240 /\ Is1(w, 170)
    <3>1. WriteFlash(s, o, v) = Advance(s, "unlock1")
      BY <2>0, <2>2 DEF Idle, Is1
    <3>2. Finishing(s.cmd, w) = {} /\ GoesOn(s.cmd, w)
      BY <1>1, <2>2, Outcomes
    <3>3. Append(Typed[s.cmd], w) = Typed["unlock1"]
      BY <1>1, <2>2, TypingOn
    <3> QED
      BY <1>a, <3>1, <3>2, <3>3, GoneOn
  <2>3. CASE v # 240 /\ ~Is1(w, 170)
    <3>1. WriteFlash(s, o, v) = s
      BY <2>0, <2>3 DEF Idle, Is1
    <3>2. Finishing(s.cmd, w) = {} /\ ~GoesOn(s.cmd, w)
      BY <1>1, <2>3, Outcomes
    <3> QED
      BY <1>1, <3>1, <3>2, BrokenOff
  <2> QED
    BY <2>1, <2>2, <2>3
<1>2. ASSUME NEW offset, NEW byte, NEW c \in CommandStates,
             s.cmd # "idle", Finishing(s.cmd, w) = {},
             GoesOn(s.cmd, w) <=> o = offset /\ v = byte,
             o = offset /\ v = byte => Append(Typed[s.cmd], w) = Typed[c]
      PROVE  AsChip(Expect(s, o, v, offset, byte, c)) = Chip!Written(AsChip(s), w)
  <2>1. CASE o = offset /\ v = byte
    <3>1. Expect(s, o, v, offset, byte, c) = Advance(s, c)
      BY <2>1 DEF Expect
    <3>2. Append(Typed[s.cmd], w) = Typed[c] /\ GoesOn(s.cmd, w)
      BY <1>2, <2>1
    <3> QED
      BY <1>2, <3>1, <3>2, GoneOn
  <2>2. CASE ~(o = offset /\ v = byte)
    <3>1. Expect(s, o, v, offset, byte, c) = Aborted(s)
      BY <2>2 DEF Expect
    <3>2. ~GoesOn(s.cmd, w)
      BY <1>2, <2>2
    <3> QED
      BY <1>2, <3>1, <3>2, BrokenOff
  <2> QED
    BY <2>1, <2>2
<1>3. CASE s.cmd = "unlock1"
  <2>1. WriteFlash(s, o, v) = Expect(s, o, v, Unlock2, 85, "unlock2")
    BY <1>3 DEF WriteFlash
  <2>2. Finishing(s.cmd, w) = {} /\ (GoesOn(s.cmd, w) <=> o = Unlock2 /\ v = 85)
    BY <1>3, Outcomes DEF Is2
  <2>3. o = Unlock2 /\ v = 85 => Append(Typed[s.cmd], w) = Typed["unlock2"]
    BY <1>3, TypingOn DEF Is2
  <2> QED
    BY <1>2, <1>3, <1>a, <2>1, <2>2, <2>3
<1>4. CASE s.cmd = "unlock2"
  <2>0. WriteFlash(s, o, v) = Request(s, o, v)
    BY <1>4 DEF WriteFlash
  <2>1. CASE Is1(w, 144)
    <3> DEFINE x == [s EXCEPT !.cmd = "idle", !.id = TRUE]
    <3>1. WriteFlash(s, o, v) = x
      BY <2>0, <2>1 DEF Request, Is1
    <3>2. x.data = s.data /\ x.cmd = "idle" /\ x.id = TRUE /\ x.bank = s.bank
      BY <1>0 DEF Shapes
    <3>3. AsChip(x) = ChipIs(s.data, <<>>, TRUE, s.bank)
      BY <3>2, AsChipIs, TypedIs
    <3>4. Finishing(s.cmd, w) = {"identify"}
      BY <1>4, <2>1, Outcomes
    <3>5. Chip!Written(AsChip(s), w) = Chip!Effect(AsChip(s), "identify", w)
      BY <3>4, WrittenIs
    <3>6. Chip!Effect(AsChip(s), "identify", w) = ChipIs(s.data, <<>>, TRUE, s.bank)
      BY QuietEffect
    <3> QED
      BY <3>1, <3>3, <3>5, <3>6
  <2>2. CASE Is1(w, 240)
    <3>1. WriteFlash(s, o, v) = Aborted(s)
      BY <2>0, <2>2 DEF Request, Is1
    <3>2. Finishing(s.cmd, w) = {"leave"}
      <4>1. ~Is1(w, 144)
        BY <2>2 DEF Is1
      <4> QED
        BY <1>4, <2>2, <4>1, Outcomes
    <3>3. Chip!Written(AsChip(s), w) = Chip!Effect(AsChip(s), "leave", w)
      BY <3>2, WrittenIs
    <3>4. Chip!Effect(AsChip(s), "leave", w) = ChipIs(s.data, <<>>, FALSE, s.bank)
      BY QuietEffect
    <3> QED
      BY <1>b, <3>1, <3>3, <3>4
  <2>3. ASSUME NEW byte \in {160, 176, 128}, NEW c \in CommandStates, Is1(w, byte),
               Request(s, o, v) = Advance(s, c), Append(Typed[s.cmd], w) = Typed[c]
        PROVE  R
    <3>1. ~Is1(w, 144) /\ ~Is1(w, 240)
      BY <2>3 DEF Is1
    <3>2. Is1(w, 160) \/ Is1(w, 176) \/ Is1(w, 128)
      BY <2>3
    <3>3. Finishing(s.cmd, w) = {} /\ GoesOn(s.cmd, w)
      BY <1>4, <3>1, <3>2, Outcomes
    <3> QED
      BY <2>0, <2>3, <3>3, GoneOn
  <2>4. CASE Is1(w, 160)
    <3>1. Request(s, o, v) = Advance(s, "program_data")
      BY <2>4 DEF Request, Is1
    <3>2. Append(Typed[s.cmd], w) = Typed["program_data"]
      BY <1>4, <2>4, TypingOn
    <3> QED
      BY <1>a, <2>3, <2>4, <3>1, <3>2
  <2>5. CASE Is1(w, 176)
    <3>1. Request(s, o, v) = Advance(s, "bank_select")
      BY <2>5 DEF Request, Is1
    <3>2. Append(Typed[s.cmd], w) = Typed["bank_select"]
      BY <1>4, <2>5, TypingOn
    <3> QED
      BY <1>a, <2>3, <2>5, <3>1, <3>2
  <2>6. CASE Is1(w, 128)
    <3>1. Request(s, o, v) = Advance(s, "erase_unlock1")
      BY <2>6 DEF Request, Is1
    <3>2. Append(Typed[s.cmd], w) = Typed["erase_unlock1"]
      BY <1>4, <2>6, TypingOn
    <3> QED
      BY <1>a, <2>3, <2>6, <3>1, <3>2
  <2>7. CASE ~(\E byte \in {144, 240, 160, 176, 128} : Is1(w, byte))
    <3>1. Request(s, o, v) = Aborted(s)
      BY <2>7 DEF Request, Is1
    <3>2. Finishing(s.cmd, w) = {} /\ ~GoesOn(s.cmd, w)
      BY <1>4, <2>7, Outcomes
    <3> QED
      BY <1>4, <2>0, <3>1, <3>2, BrokenOff
  <2> QED
    BY <2>1, <2>2, <2>4, <2>5, <2>6, <2>7
<1>5. CASE s.cmd = "program_data"
  <2>1. WriteFlash(s, o, v) = Program(s, o, v)
    BY <1>5 DEF WriteFlash
  <2>2. /\ Program(s, o, v).cmd = "idle" /\ Program(s, o, v).id = s.id
        /\ Program(s, o, v).bank = s.bank
    BY <1>0 DEF Program, Shapes
  <2>3. AsChip(Program(s, o, v)) = ChipIs(Program(s, o, v).data, <<>>, s.id, s.bank)
    BY <2>2, AsChipIs, TypedIs
  <2>4. Chip!Written(AsChip(s), w) = Chip!Effect(AsChip(s), "program", w)
    <3>1. Finishing(s.cmd, w) = {"program"}
      BY <1>5, Outcomes
    <3> QED
      BY <3>1, WrittenIs
  <2> QED
    BY <2>1, <2>3, <2>4, ProgramEffect
<1>6. CASE s.cmd = "bank_select"
  <2>0. WriteFlash(s, o, v) = SelectBank(s, o, v)
    BY <1>6 DEF WriteFlash
  <2>1. CASE o = 0
    <3> DEFINE b == IF type = "flash128" THEN v % 2 ELSE 0
               x == [s EXCEPT !.bank = b, !.cmd = "idle"]
    <3>1. WriteFlash(s, o, v) = x
      BY <2>0, <2>1 DEF SelectBank, Bit
    <3>2. x.data = s.data /\ x.cmd = "idle" /\ x.id = s.id /\ x.bank = b
      <4> HIDE DEF b
      <4> QED
        BY <1>0 DEF Shapes
    <3>3. AsChip(x) = ChipIs(s.data, <<>>, s.id, b)
      <4> HIDE DEF x, b
      <4> QED
        BY <3>2, AsChipIs, TypedIs
    <3>4. Chip!Written(AsChip(s), w) = Chip!Effect(AsChip(s), "selectBank", w)
      <4>1. Finishing(s.cmd, w) = {"selectBank"}
        BY <1>6, <2>1, Outcomes
      <4> QED
        BY <4>1, WrittenIs
    <3>5. Chip!Effect(AsChip(s), "selectBank", w) = ChipIs(s.data, <<>>, s.id, b)
      BY <1>0, QuietEffect
    <3> QED
      BY <3>1, <3>3, <3>4, <3>5
  <2>2. CASE o # 0
    <3>1. WriteFlash(s, o, v) = Aborted(s)
      BY <2>0, <2>2 DEF SelectBank
    <3>2. Finishing(s.cmd, w) = {} /\ ~GoesOn(s.cmd, w)
      BY <1>6, <2>2, Outcomes
    <3> QED
      BY <1>6, <3>1, <3>2, BrokenOff
  <2> QED
    BY <2>1, <2>2
<1>7. CASE s.cmd = "erase_unlock1"
  <2>1. WriteFlash(s, o, v) = Expect(s, o, v, Unlock1, 170, "erase_unlock2")
    BY <1>7 DEF WriteFlash
  <2>2. Finishing(s.cmd, w) = {} /\ (GoesOn(s.cmd, w) <=> o = Unlock1 /\ v = 170)
    BY <1>7, Outcomes DEF Is1
  <2>3. o = Unlock1 /\ v = 170 => Append(Typed[s.cmd], w) = Typed["erase_unlock2"]
    BY <1>7, TypingOn DEF Is1
  <2> QED
    BY <1>2, <1>7, <1>a, <2>1, <2>2, <2>3
<1>8. CASE s.cmd = "erase_unlock2"
  <2>1. WriteFlash(s, o, v) = Expect(s, o, v, Unlock2, 85, "erase_command")
    BY <1>8 DEF WriteFlash
  <2>2. Finishing(s.cmd, w) = {} /\ (GoesOn(s.cmd, w) <=> o = Unlock2 /\ v = 85)
    BY <1>8, Outcomes DEF Is2
  <2>3. o = Unlock2 /\ v = 85 => Append(Typed[s.cmd], w) = Typed["erase_command"]
    BY <1>8, TypingOn DEF Is2
  <2> QED
    BY <1>2, <1>8, <1>a, <2>1, <2>2, <2>3
<1>9. CASE s.cmd = "erase_command"
  <2>0. WriteFlash(s, o, v) = Erase(s, o, v)
    BY <1>9 DEF WriteFlash
  <2>1. ASSUME NEW a, NEW n
        PROVE  AsChip(Erased(s, a, n)) = ChipIs(Erased(s, a, n).data, <<>>, s.id, s.bank)
    <3>1. /\ Erased(s, a, n).cmd = "idle" /\ Erased(s, a, n).id = s.id
          /\ Erased(s, a, n).bank = s.bank
      BY <1>0 DEF Erased, Shapes
    <3> QED
      BY <3>1, AsChipIs, TypedIs
  <2>2. CASE Is1(w, 16)
    <3>1. WriteFlash(s, o, v) = Erased(s, 0, SizeOf(type))
      BY <2>0, <2>2 DEF Erase, Is1
    <3>2. Finishing(s.cmd, w) = {"eraseChip"}
      BY <1>9, <2>2, Outcomes
    <3>3. Chip!Written(AsChip(s), w) = Chip!Effect(AsChip(s), "eraseChip", w)
      BY <3>2, WrittenIs
    <3> QED
      BY <2>1, <3>1, <3>3, EraseEffect
  <2>3. CASE ~Is1(w, 16) /\ v = 48
    <3>1. WriteFlash(s, o, v) = Erased(s, SectorStart(type, s.bank, o), SectorSize)
      BY <2>0, <2>3 DEF Erase
    <3>2. Finishing(s.cmd, w) = {"eraseSector"}
      BY <1>9, <2>3, Outcomes
    <3>3. Chip!Written(AsChip(s), w) = Chip!Effect(AsChip(s), "eraseSector", w)
      BY <3>2, WrittenIs
    <3> QED
      BY <2>1, <3>1, <3>3, EraseEffect
  <2>4. CASE ~Is1(w, 16) /\ v # 48
    <3>1. WriteFlash(s, o, v) = Aborted(s)
      BY <2>0, <2>4 DEF Erase, Is1
    <3>2. Finishing(s.cmd, w) = {} /\ ~GoesOn(s.cmd, w)
      BY <1>9, <2>4, Outcomes
    <3> QED
      BY <1>9, <3>1, <3>2, BrokenOff
  <2> QED
    BY <2>2, <2>3, <2>4
<1> QED
  BY <1>0, <1>1, <1>3, <1>4, <1>5, <1>6, <1>7, <1>8, <1>9 DEF CommandStates

\* The state machine of write_flash_byte implements the command table, for
\* every size of chip, bank and sector, every pair of unlock offsets and every
\* set of bytes the game writes: in whatever state and bank the last writes
\* left it, a write extends, completes or abandons exactly the command the
\* table says, and changes nothing else.
THEOREM ProtocolImplementsTable == Spec => []ImplementsTable
<1>1. ASSUME IInv PROVE ImplementsTable
  <2> SUFFICES ASSUME IsFlash, NEW w \in [at : Aperture, val : Bytes]
               PROVE  AsChip(WriteFlash(Flash, w.at, w.val)) = Chip!Written(AsChip(Flash), w)
    BY DEF ImplementsTable
  <2>1. Fits(Flash)
    BY <1>1 DEF IInv, TypeOK, BankFits, Fits, Shapes, Flash
  <2>2. w \in Writes /\ w.at \in Aperture /\ w.val \in Bytes
    <3>1. Aperture \subseteq Nat /\ Bytes \subseteq Nat
      BY SizeAssumption, BytesAssumption DEF Aperture
    <3> QED
      BY <3>1 DEF Writes
  <2> QED
    BY <2>1, <2>2, WriteIsWritten
<1> QED
  BY <1>1, InvariantHolds, PTL

---------------------------------------------------------------------------
(* The IO registers.                                                        *)

\* The registers, and their state with either bit of the keypad's request.
\* A register of whose high byte one bit is supported.
Masked == {half \in Half : half[2] \in {0, 1}}

IoShapes ==
  [dispcnt : Half, source : [1 .. 2 -> Half], fifo : {0, 1}, waitcnt : Masked, ie : Masked,
   flags : [1 .. 2 -> Byte], ime : BOOLEAN, keys : Byte, keycnt : Half]

IoShape(i) == i \in IoShapes /\ i.flags[2] \in {0, 1}

\* What a step may do to the registers so that a new key condition is seen.
Noticed(i, j) == ConditionMet(j) => j.flags[2] = 1 \/ i.flags[2] = 1 \/ ConditionMet(i)

LEMMA Pairs ==
  ASSUME NEW S, NEW x \in S, NEW y \in S PROVE <<x, y>> \in [1 .. 2 -> S]
OBVIOUS

LEMMA ZeroIsHalf == Zero \in Half
BY Pairs DEF Zero, Half, Byte

LEMMA SupportedIs ==
  ASSUME NEW half \in Half
  PROVE  /\ half[1] \in Byte /\ half[2] \in Byte
         /\ half[2] % 2 \in {0, 1} /\ half[2] % 2 \in Byte /\ half[1] % 2 \in {0, 1}
         /\ Supported(half) \in Masked /\ <<half[1], half[2] % 2>> \in Masked
<1>1. half[1] \in Byte /\ half[2] \in Byte
  BY DEF Half
<1>2. \A b \in Byte : b % 2 \in {0, 1}
  BY DEF Byte
<1>3. half[2] % 2 \in Byte
  BY <1>1, <1>2 DEF Byte
<1>4. <<half[1], half[2] % 2>> \in Masked
  BY <1>1, <1>2, <1>3, Pairs DEF Half, Masked
<1>5. QED
  BY <1>1, <1>2, <1>3, <1>4 DEF Supported

LEMMA PolledKeeps ==
  ASSUME NEW i, IoShape(i)
  PROVE  /\ IoShape(Polled(i)) /\ Noticed(i, Polled(i))
         /\ ConditionMet(Polled(i)) => Polled(i).flags[2] = 1
<1>1. CASE ~ConditionMet(i)
  BY <1>1 DEF Polled, Noticed
<1>2. CASE ConditionMet(i)
  <2>1. PICK f : f = [i.flags EXCEPT ![2] = 1]
    OBVIOUS
  <2>2. f \in [1 .. 2 -> Byte] /\ f[2] = 1
    BY <2>1 DEF IoShape, IoShapes, Byte
  <2>3. Polled(i) = [i EXCEPT !.flags = f]
    BY <1>2, <2>1 DEF Polled
  <2>4. Polled(i) \in IoShapes /\ Polled(i).flags[2] = 1
    BY <2>2, <2>3 DEF IoShape, IoShapes
  <2>5. QED
    BY <2>4 DEF IoShape, Noticed
<1>3. QED
  BY <1>1, <1>2

\* The keypad's condition depends on the keys and on KEYCNT alone.
LEMMA SameCondition ==
  ASSUME NEW i, NEW j, j.keys = i.keys, j.keycnt = i.keycnt
  PROVE  Noticed(i, j)
BY DEF Noticed, ConditionMet

LEMMA MinusIs ==
  /\ \A b, c \in Byte : Minus(b, c) \in Byte
  /\ \A b, c \in {0, 1} : Minus(b, c) \in {0, 1}
BY DEF Minus, Both, Byte

\* A write of a halfword.
LEMMA WriteKeeps ==
  ASSUME NEW i, IoShape(i), NEW r, NEW half \in Half
  PROVE  /\ IoShape(IoWritten16(i, r, half)) /\ Noticed(i, IoWritten16(i, r, half))
         /\ r # Keycnt => /\ IoWritten16(i, r, half).keys = i.keys
                          /\ IoWritten16(i, r, half).keycnt = i.keycnt
         /\ (r # Keycnt /\ r # If) => IoWritten16(i, r, half).flags = i.flags
<1> DEFINE j == IoWritten16(i, r, half)
<1>1. half[1] \in Byte /\ half[2] \in Byte /\ half[2] % 2 \in {0, 1} /\ half[2] % 2 \in Byte
      /\ Supported(half) \in Masked /\ <<half[1], half[2] % 2>> \in Masked
  BY SupportedIs
<1>2. CASE r = Keycnt
  <2>1. PICK k : k = [i EXCEPT !.keycnt = half]
    OBVIOUS
  <2>2. IoShape(k) /\ j = Polled(k)
    BY <1>2, <2>1 DEF IoWritten16, KeycntWritten, Keycnt, Dispcnt, IoShape, IoShapes
  <2>3. QED
    BY <1>2, <2>2, PolledKeeps DEF Noticed, Keycnt, If
<1>3. CASE r = If
  <2>1. PICK f : f = <<Minus(i.flags[1], half[1]), Minus(i.flags[2], half[2] % 2)>>
    OBVIOUS
  <2>2. f \in [1 .. 2 -> Byte] /\ f[2] \in {0, 1}
    <3>1. i.flags[1] \in Byte /\ i.flags[2] \in {0, 1}
      BY DEF IoShape, IoShapes
    <3>2. Minus(i.flags[1], half[1]) \in Byte /\ Minus(i.flags[2], half[2] % 2) \in {0, 1}
      BY <1>1, <3>1, MinusIs
    <3>3. Minus(i.flags[2], half[2] % 2) \in Byte
      BY <3>2 DEF Byte
    <3>4. QED
      BY <2>1, <3>2, <3>3
  <2>3. j = [i EXCEPT !.flags = f]
    BY <1>3, <2>1 DEF IoWritten16, Acknowledged, Keycnt, Dispcnt, Ie, If
  <2>4. j \in IoShapes /\ j.flags = f /\ j.keys = i.keys /\ j.keycnt = i.keycnt
    BY <2>2, <2>3 DEF IoShape, IoShapes
  <2>5. QED
    BY <1>3, <2>2, <2>4, SameCondition DEF IoShape, Keycnt, If
<1>4. CASE r # Keycnt /\ r # If
  <2>1. \/ j = i
        \/ j = [i EXCEPT !.dispcnt = half]
        \/ j = [i EXCEPT !.ie = Supported(half)]
        \/ j = [i EXCEPT !.waitcnt = <<half[1], half[2] % 2>>]
        \/ j = [i EXCEPT !.ime = half[1] % 2 = 1]
        \/ j = [i EXCEPT !.source[1] = half]
        \/ j = [i EXCEPT !.source[2] = half]
    BY <1>4 DEF IoWritten16
  <2>2. \A n \in 1 .. 2 : [i.source EXCEPT ![n] = half] \in [1 .. 2 -> Half]
    BY DEF IoShape, IoShapes
  <2>6. /\ [i.source EXCEPT ![1] = half] \in [1 .. 2 -> Half]
        /\ [i.source EXCEPT ![2] = half] \in [1 .. 2 -> Half]
    BY <2>2
  <2>3. j \in IoShapes /\ j.flags = i.flags /\ j.keys = i.keys /\ j.keycnt = i.keycnt
    <3>1. PICK s1 \in [1 .. 2 -> Half], s2 \in [1 .. 2 -> Half], e \in Masked, w \in Masked, b \in BOOLEAN :
            /\ s1 = [i.source EXCEPT ![1] = half] /\ s2 = [i.source EXCEPT ![2] = half]
            /\ e = Supported(half) /\ w = <<half[1], half[2] % 2>> /\ b = (half[1] % 2 = 1)
      BY <1>1, <2>6, Zenon
    <3>2. \/ j = i
          \/ j = [i EXCEPT !.dispcnt = half]
          \/ j = [i EXCEPT !.ie = e]
          \/ j = [i EXCEPT !.waitcnt = w]
          \/ j = [i EXCEPT !.ime = b]
          \/ j = [i EXCEPT !.source = s1]
          \/ j = [i EXCEPT !.source = s2]
      BY <2>1, <3>1
    <3> HIDE DEF j
    <3>3. QED
      BY <3>2 DEF IoShape, IoShapes
  <2> HIDE DEF j
  <2>4. QED
    BY <2>3, SameCondition DEF j, IoShape
<1>5. QED
  BY <1>2, <1>3, <1>4

\* A write of a word, of whose halves at most one is the keypad's.
LEMMA WriteWordKeeps ==
  ASSUME NEW i, IoShape(i), NEW r \in Nat, r % 4 = 0, NEW w \in [1 .. 4 -> Byte]
  PROVE  IoShape(IoWritten32(i, r, w)) /\ Noticed(i, IoWritten32(i, r, w))
<1> DEFINE low == SubSeq(w, 1, 2)
           high == SubSeq(w, 3, 4)
           first == IF r \in Writable THEN IoWritten16(i, r, low) ELSE i
<1>1. low \in Half /\ high \in Half
  <2>1. w \in Seq(Byte) /\ Len(w) = 4
    OBVIOUS
  <2>2. low = <<w[1], w[2]>> /\ high = <<w[3], w[4]>>
    <3>1. /\ low \in Seq(Byte) /\ Len(low) = 2 /\ \A n \in 1 .. 2 : low[n] = w[1 + n - 1]
      BY <2>1, SubSeqProperties
    <3>2. /\ high \in Seq(Byte) /\ Len(high) = 2 /\ \A n \in 1 .. 2 : high[n] = w[3 + n - 1]
      BY <2>1, SubSeqProperties
    <3> HIDE DEF low, high
    <3>3. low[1] = w[1] /\ low[2] = w[2] /\ high[1] = w[3] /\ high[2] = w[4]
      BY <3>1, <3>2
    <3>4. QED
      BY <3>1, <3>2, <3>3
  <2>3. QED
    BY <2>2, Pairs DEF Half
<1>2. r # Keycnt
  BY DEF Keycnt
<1>3. /\ IoShape(first) /\ Noticed(i, first)
      /\ first.keys = i.keys /\ first.keycnt = i.keycnt
  BY <1>1, <1>2, WriteKeeps, SameCondition
<1> HIDE DEF low, high, first
<1>4. CASE r \in {Ime, Waitcnt}
  BY <1>1, <1>4, WriteKeeps DEF IoWritten32, low
<1>5. CASE r \notin {Ime, Waitcnt} /\ r = Fifo
  <2>1. PICK n \in {0, 1} : n = (i.fifo + 1) % 2
    BY DEF IoShape, IoShapes
  <2>2. IoWritten32(i, r, w) = [i EXCEPT !.fifo = n]
    BY <1>5, <2>1 DEF IoWritten32
  <2>3. QED
    BY <2>1, <2>2, SameCondition DEF IoShape, IoShapes
<1>6. CASE r \notin {Ime, Waitcnt, Fifo} /\ r + 2 \in Writable
  <2>1. IoWritten32(i, r, w) = IoWritten16(first, r + 2, high)
    BY <1>6 DEF IoWritten32, first, low, high
  <2>2. IoShape(IoWritten32(i, r, w)) /\ Noticed(first, IoWritten32(i, r, w))
    BY <1>1, <1>3, <2>1, WriteKeeps
  <2>3. CASE r + 2 = Keycnt
    <3>1. r \notin Writable
      BY <2>3 DEF Keycnt, Writable, Dispcnt, Ie, If, Waitcnt, Ime, SourceLow
    <3>2. first = i
      BY <3>1 DEF first
    <3>3. QED
      BY <2>2, <3>2
  <2>4. CASE r + 2 # Keycnt
    <3>1. IoWritten32(i, r, w).keys = i.keys /\ IoWritten32(i, r, w).keycnt = i.keycnt
      BY <1>1, <1>3, <2>1, <2>4, WriteKeeps
    <3>2. QED
      BY <2>2, <3>1, SameCondition
  <2>5. QED
    BY <2>3, <2>4
<1>7. CASE r \notin {Ime, Waitcnt, Fifo} /\ r + 2 \notin Writable
  <2>1. IoWritten32(i, r, w) = first
    BY <1>7 DEF IoWritten32, first, low
  <2>2. QED
    BY <1>3, <2>1
<1>8. QED
  BY <1>4, <1>5, <1>6, <1>7

\* What can be read is a halfword.
LEMMA ReadIsHalf ==
  ASSUME NEW i, IoShape(i), NEW r
  PROVE  IoRead16(i, r) = <<>> \/ IoRead16(i, r) \in Half
<1>1. /\ i.dispcnt \in Half /\ i.keycnt \in Half /\ i.ie \in Half /\ i.flags \in Half
      /\ i.waitcnt \in Half
  BY DEF IoShape, IoShapes, Half, Masked
<1>2. /\ <<1, 0>> \in Half /\ Zero \in Half /\ <<3 - i.keys, 0>> \in Half
      /\ <<IF i.ime THEN 1 ELSE 0, 0>> \in Half
  <2>1. /\ 3 - i.keys \in Byte /\ 0 \in Byte /\ 1 \in Byte
        /\ (IF i.ime THEN 1 ELSE 0) \in Byte
    BY DEF IoShape, IoShapes, Byte
  <2>2. QED
    BY <2>1, Pairs, ZeroIsHalf DEF Half
<1>3. QED
  BY <1>1, <1>2 DEF IoRead16

LEMMA MergedIsHalf ==
  ASSUME NEW m, IoShape(m.io), NEW r, NEW odd \in BOOLEAN, NEW b \in Byte
  PROVE  Merged(m, r, odd, b) \in Half
<1>1. PICK half \in Half :
        half = IF IoRead16(m.io, r) = <<>> THEN Zero ELSE IoRead16(m.io, r)
  BY ReadIsHalf, ZeroIsHalf
<1>2. half[1] \in Byte /\ half[2] \in Byte
  BY SupportedIs
<1>3. Merged(m, r, odd, b) = IF odd THEN <<half[1], b>> ELSE <<b, half[2]>>
  BY <1>1 DEF Merged
<1>4. QED
  BY <1>2, <1>3, Pairs DEF Half

---------------------------------------------------------------------------
(* Division with remainder, and addresses.                                  *)

LEMMA MultiplesOrder ==
  ASSUME NEW F \in Nat \ {0}, NEW m \in Int, NEW p \in Int, m * F < p * F
  PROVE  m < p
<1> SUFFICES ASSUME m >= p PROVE FALSE
  OBVIOUS
<1>1. (m - p) * F >= 0
  OBVIOUS
<1>2. (m - p) * F = m * F - p * F
  OBVIOUS
<1> QED
  BY <1>1, <1>2

LEMMA Division ==
  ASSUME NEW F \in Nat \ {0}, NEW a \in Int
  PROVE  /\ a \div F \in Int
         /\ a % F \in 0 .. F - 1
         /\ a = (a \div F) * F + (a % F)
<1>1. F \in Int /\ F > 0
  OBVIOUS
<1>2. a = F * (a \div F) + (a % F)
  BY <1>1, Z3
<1>3. a % F \in 0 .. F - 1 /\ a \div F \in Int
  OBVIOUS
<1> DEFINE q == a \div F
           r == a % F
<1> HIDE DEF q, r
<1>4. q \in Int /\ r \in Int /\ a = F * q + r
  BY <1>2, <1>3 DEF q, r
<1>5. a = q * F + r
  BY <1>4
<1> QED
  BY <1>3, <1>5, Zenon DEF q, r

\* Quotient and remainder are unique.
LEMMA Remainder ==
  ASSUME NEW F \in Nat \ {0}, NEW a \in Int, NEW k \in Int, NEW r \in 0 .. F - 1,
         a = k * F + r
  PROVE  a % F = r /\ a \div F = k
<1> DEFINE q == a \div F
           s == a % F
<1>1. q \in Int /\ s \in 0 .. F - 1 /\ a = q * F + s
  BY Division
<1> HIDE DEF q, s
<1>2. (k + 1) * F = k * F + F /\ (q + 1) * F = q * F + F
  BY <1>1
<1>3. k * F \in Int /\ q * F \in Int
  BY <1>1
<1>4. k < q + 1
  <2>1. k * F < (q + 1) * F /\ q + 1 \in Int
    BY <1>1, <1>2, <1>3
  <2> QED
    BY <1>1, <2>1, MultiplesOrder
<1>5. q < k + 1
  <2>1. q * F < (k + 1) * F /\ k + 1 \in Int
    BY <1>1, <1>2, <1>3
  <2> QED
    BY <1>1, <2>1, MultiplesOrder
<1>6. q = k
  BY <1>1, <1>4, <1>5
<1>7. s = r
  BY <1>1, <1>3, <1>6
<1> QED
  BY <1>6, <1>7 DEF q, s

LEMMA LeastElement ==
  ASSUME NEW S \in SUBSET Nat, S # {}
  PROVE  \E x \in S : \A y \in S : x <= y
<1> DEFINE R == {ss \in Nat \X Nat : ss[1] < ss[2]}
<1>1. IsWellFoundedOn(R, Nat)
  BY NatLessThanWellFounded DEF OpToRel
<1> HIDE DEF R
<1>2. PICK x \in S : \A y \in S : ~(<<y, x>> \in R)
  BY <1>1, WFMin
<1>3. ASSUME NEW y \in S PROVE x <= y
  <2>1. x \in Nat /\ y \in Nat /\ <<y, x>> \in Nat \X Nat
    OBVIOUS
  <2>2. ~(y < x)
    BY <1>2, <2>1 DEF R
  <2>3. QED
    BY <2>1, <2>2
<1>4. QED
  BY <1>3

\* Addresses that follow an aligned one lie in the same block of F bytes.
InBlock(F, n, a, k) ==
  /\ (a + k) % F = (a % F) + k /\ (a + k) \div F = a \div F
  /\ a % F \in Nat /\ (a % F) % n = 0 /\ (a % F) + n <= F

LEMMA Aligned ==
  ASSUME NEW F \in Nat \ {0}, F % 4 = 0, NEW n \in {2, 4}, NEW a \in Nat, a % n = 0,
         NEW k \in 0 .. n - 1
  PROVE  InBlock(F, n, a, k)
<1>1. PICK q \in Int, u \in 0 .. F - 1 : q = a \div F /\ u = a % F /\ a = q * F + u
  BY Division
<1>2. PICK g \in Int : F = g * 4
  <2>1. 4 \in Nat \ {0} /\ F \in Int
    OBVIOUS
  <2>2. F = (F \div 4) * 4 + (F % 4) /\ F \div 4 \in Int
    BY <2>1, Division
  <2>3. QED
    BY <2>2
<1>3. PICK t \in Int : t = q * g /\ q * F = 4 * t
  <2>1. q * (g * 4) = 4 * (q * g) /\ q * g \in Int
    OBVIOUS
  <2>2. QED
    BY <1>2, <2>1
<1>4. u % n = 0 /\ u + n <= F
  <2>1. a = 4 * t + u /\ F = 4 * g
    BY <1>1, <1>2, <1>3
  <2>2. CASE n = 2
    BY <2>1, <2>2
  <2>3. CASE n = 4
    BY <2>1, <2>3
  <2>4. QED
    BY <2>2, <2>3
<1>5. u + k \in 0 .. F - 1 /\ a + k \in Int
  BY <1>1, <1>4
<1>6. a + k = q * F + (u + k)
  <2>1. PICK p \in Int : p = q * F
    BY <1>3
  <2>2. a = p + u
    BY <1>1, <2>1
  <2>3. QED
    BY <2>1, <2>2
<1>7. (a + k) % F = u + k /\ (a + k) \div F = q
  BY <1>5, <1>6, Remainder
<1>8. QED
  BY <1>1, <1>4, <1>7 DEF InBlock

\* A block of F bytes is aligned.
LEMMA SameAlignment ==
  ASSUME NEW F \in Nat \ {0}, F % 4 = 0, NEW n \in {2, 4}, NEW a \in Nat
  PROVE  a % F \in Nat /\ (a % F) % n = a % n
<1>1. PICK q \in Int, u \in 0 .. F - 1 : q = a \div F /\ u = a % F /\ a = q * F + u
  BY Division
<1>2. PICK g \in Int : F = g * 4
  <2>1. 4 \in Nat \ {0} /\ F \in Int
    OBVIOUS
  <2>2. F = (F \div 4) * 4 + (F % 4) /\ F \div 4 \in Int
    BY <2>1, Division
  <2>3. QED
    BY <2>2
<1>3. PICK t \in Int : t = q * g /\ q * F = 4 * t
  <2>1. q * (g * 4) = 4 * (q * g) /\ q * g \in Int
    OBVIOUS
  <2>2. QED
    BY <1>2, <2>1
<1>4. a = 4 * t + u
  BY <1>1, <1>3
<1>5. CASE n = 2
  BY <1>1, <1>4, <1>5
<1>6. CASE n = 4
  BY <1>1, <1>4, <1>6
<1>7. QED
  BY <1>5, <1>6

LEMMA BusSizes ==
  /\ Span \in Nat \ {0} /\ Span % 4 = 0 /\ RamSize \in Nat \ {0} /\ RamSize % 4 = 0
  /\ VramBank \in Nat \ {0} /\ VramBank % 4 = 0 /\ VramSize \in Nat \ {0} /\ VramSize % 4 = 0
  /\ VramFold \in Nat \ {0} /\ VramFold % 4 = 0 /\ ObjBase \in Nat \ {0} /\ ObjBase % 4 = 0
  /\ VramSize + VramFold = VramBank /\ RomSize \in Nat
  /\ IoEnd \in Nat /\ IoEnd >= 27
<1>1. \A n \in {Span, RamSize, VramBank, VramSize, VramFold, ObjBase} :
        n \in Nat \ {0} /\ n % 4 = 0
  BY SpanAssumption
<1>2. /\ Span \in Nat \ {0} /\ Span % 4 = 0 /\ RamSize \in Nat \ {0} /\ RamSize % 4 = 0
      /\ VramBank \in Nat \ {0} /\ VramBank % 4 = 0 /\ VramSize \in Nat \ {0} /\ VramSize % 4 = 0
      /\ VramFold \in Nat \ {0} /\ VramFold % 4 = 0 /\ ObjBase \in Nat \ {0} /\ ObjBase % 4 = 0
  BY <1>1, Zenon
<1>3. VramSize + VramFold = VramBank /\ RomSize \in Nat
  BY SpanAssumption
<1>4. IoEnd \in Nat /\ IoEnd >= 27
  BY AddressAssumption DEF SourceLow
<1>5. QED
  BY <1>2, <1>3, <1>4

LEMMA IoRegion ==
  ASSUME NEW a \in Nat
  PROVE  Region(a) = "io" <=> a \div Span = 4 /\ a % Span <= IoEnd
<1>1. PICK b \in Int, o \in Nat : b = a \div Span /\ o = a % Span
  <2>1. Span \in Nat \ {0} /\ a \in Int
    BY BusSizes
  <2>2. a \div Span \in Int /\ a % Span \in 0 .. Span - 1
    BY <2>1, Division
  <2>3. QED
    BY <2>1, <2>2
<1>2. Region(a) = IF b \in 0 .. 1 THEN "bios"
     ELSE IF b = 4 /\ o > IoEnd THEN "unknown"
     ELSE IF b \in 2 .. 7 THEN <<"ewram", "iwram", "io", "palette", "vram", "oam">>[b - 1]
     ELSE IF b \in 8 .. 13 THEN "rom"
     ELSE IF b \in 14 .. 15 THEN "save"
     ELSE "unknown"
  BY <1>1 DEF Region, Bank
<1>3. CASE b \in 2 .. 7
  <2>1. b = 2 \/ b = 3 \/ b = 4 \/ b = 5 \/ b = 6 \/ b = 7
    BY <1>3
  <2>2. QED
    BY <1>1, <1>2, <2>1, BusSizes
<1>4. CASE b \notin 2 .. 7
  BY <1>1, <1>2, <1>4
<1>5. QED
  BY <1>3, <1>4

\* An access that starts before IO reaches its first bytes at most.
LEMMA CrossesAtStart ==
  ASSUME NEW a \in Nat, Region(a) # "io", NEW k \in 0 .. 3, Region(a + k) = "io"
  PROVE  (a + k) % Span \in 0 .. 2
<1>1. Span \in Nat \ {0} /\ Span >= 4 /\ a \in Int
  BY BusSizes
<1>2. PICK q \in Int, u \in 0 .. Span - 1 : q = a \div Span /\ u = a % Span /\ a = q * Span + u
  BY <1>1, Division
<1>3. a + k \in Nat /\ a + k \in Int /\ (a + k) \div Span = 4 /\ (a + k) % Span <= IoEnd
  BY IoRegion
<1>4. PICK p \in Int : p = q * Span /\ a = p + u
  BY <1>1, <1>2
<1>5. CASE u + k < Span
  <2>1. u + k \in 0 .. Span - 1 /\ a + k = q * Span + (u + k)
    BY <1>1, <1>4, <1>5
  <2>2. (a + k) % Span = u + k /\ (a + k) \div Span = q
    BY <1>1, <1>3, <2>1, Remainder
  <2>3. q = 4 /\ u <= IoEnd
    BY <1>2, <1>3, <2>2, BusSizes
  <2>4. QED
    BY <1>2, <2>3, IoRegion
<1>6. CASE ~(u + k < Span)
  <2>1. /\ u + k - Span \in 0 .. Span - 1 /\ u + k - Span \in 0 .. 2
        /\ a + k = (q * Span + Span) + (u + k - Span)
    BY <1>1, <1>4, <1>6
  <2>2. (q + 1) * Span = q * Span + Span /\ q + 1 \in Int
    BY <1>1, <1>2
  <2>3. (a + k) % Span = u + k - Span
    BY <1>1, <1>3, <2>1, <2>2, Remainder, ZenonT(60)
  <2>4. QED
    BY <2>1, <2>3
<1>7. QED
  BY <1>5, <1>6

---------------------------------------------------------------------------
(* Stores of bytes.                                                         *)

IsBus(m) == m = [ram |-> m.ram, io |-> m.io] /\ IoShape(m.io)

LEMMA ByteKeeps ==
  ASSUME NEW m, IsBus(m), NEW a \in Nat, NEW b \in Byte
  PROVE  /\ IsBus(Written8(m, a, b)) /\ Noticed(m.io, Written8(m, a, b).io)
         /\ Region(a) # "io" => Written8(m, a, b).io = m.io
         /\ (Region(a) = "io" /\ Offset(a) \in 0 .. 2) =>
              /\ Written8(m, a, b).io.keys = m.io.keys
              /\ Written8(m, a, b).io.keycnt = m.io.keycnt
<1> DEFINE w == Written8(m, a, b)
           half == Offset(a) - (Offset(a) % 2)
<1>1. CASE Region(a) = "io"
  <2>1. PICK h \in Half : h = Merged(m, half, a % 2 = 1, b)
    BY MergedIsHalf DEF IsBus
  <2>2. PICK j : j = IoWritten16(m.io, half, h)
    OBVIOUS
  <2>3. w = [m EXCEPT !.io = j]
    BY <1>1, <2>1, <2>2 DEF Written8
  <2>4. w = [ram |-> m.ram, io |-> j]
    BY <2>3 DEF IsBus
  <2>5. IoShape(j) /\ Noticed(m.io, j)
    BY <2>2, WriteKeeps DEF IsBus
  <2>6. (Offset(a) \in 0 .. 2) => half # Keycnt
    BY DEF Keycnt
  <2>7. (Offset(a) \in 0 .. 2) => j.keys = m.io.keys /\ j.keycnt = m.io.keycnt
    BY <2>2, <2>6, WriteKeeps DEF IsBus
  <2>8. w.ram = m.ram /\ w.io = j
    BY <2>4
  <2> HIDE DEF w
  <2>9. QED
    BY <1>1, <2>4, <2>5, <2>7, <2>8 DEF IsBus, w
<1>2. CASE Region(a) # "io"
  <2>1. \E r : w = [m EXCEPT !.ram = r]
    <3>1. m = [m EXCEPT !.ram = m.ram]
      BY DEF IsBus
    <3>2. QED
      BY <1>2, <3>1 DEF Written8
  <2>2. PICK r : w = [m EXCEPT !.ram = r]
    BY <2>1
  <2>3. w = [ram |-> r, io |-> m.io]
    BY <2>2 DEF IsBus
  <2>4. w.ram = r /\ w.io = m.io
    BY <2>3
  <2> HIDE DEF w
  <2>5. QED
    BY <1>2, <2>3, <2>4, SameCondition DEF IsBus, w
<1>3. QED
  BY <1>1, <1>2

\* One byte of a wide store.
ByteStore(x, a, value, n) ==
  IF x.refused \/ Refuses8(a + n - 1) THEN [x EXCEPT !.refused = TRUE]
  ELSE [x EXCEPT !.m = Written8(@, a + n - 1, value[n])]

\* f holds the bus after each of the first N bytes of a store.
ByteStores(f, m, a, value, N) ==
  f = [i \in 0 .. N |-> IF i = 0 THEN [m |-> m, refused |-> FALSE] ELSE ByteStore(f[i - 1], a, value, i)]

LEMMA ByteStoresExists ==
  ASSUME NEW m, NEW a, NEW value, NEW N \in Nat
  PROVE  \E f : ByteStores(f, m, a, value, N)
<1> DEFINE S == {k \in Nat : ~\E f : ByteStores(f, m, a, value, k)}
<1>1. SUFFICES ASSUME S # {} PROVE FALSE
  OBVIOUS
<1>2. PICK k \in S : \A y \in S : k <= y
  BY <1>1, LeastElement
<1>3. k # 0
  <2>1. ByteStores([i \in 0 .. 0 |-> [m |-> m, refused |-> FALSE]], m, a, value, 0)
    BY DEF ByteStores
  <2>2. QED
    BY <1>2, <2>1
<1>4. k \in Nat /\ k - 1 \in Nat /\ k - 1 \notin S
  BY <1>2, <1>3
<1>5. PICK f : ByteStores(f, m, a, value, k - 1)
  BY <1>4
<1>6. PICK e : e = [i \in 0 .. k |-> IF i < k THEN f[i] ELSE ByteStore(f[k - 1], a, value, k)]
  OBVIOUS
<1>7. ASSUME NEW i \in 0 .. k
      PROVE  e[i] = IF i = 0 THEN [m |-> m, refused |-> FALSE] ELSE ByteStore(e[i - 1], a, value, i)
  <2>1. CASE i = 0
    <3>1. e[0] = f[0] /\ f[0] = [m |-> m, refused |-> FALSE]
      BY <1>3, <1>4, <1>5, <1>6 DEF ByteStores
    <3>2. QED
      BY <2>1, <3>1
  <2>2. CASE i # 0 /\ i < k
    <3>1. i \in 0 .. k - 1 /\ i - 1 \in 0 .. k /\ i - 1 < k
      BY <1>4, <2>2
    <3>2. e[i] = f[i] /\ e[i - 1] = f[i - 1]
      BY <1>6, <2>2, <3>1
    <3>3. f[i] = ByteStore(f[i - 1], a, value, i)
      BY <1>5, <2>2, <3>1 DEF ByteStores
    <3>4. QED
      BY <2>2, <3>2, <3>3
  <2>3. CASE i = k
    <3>1. e[k] = ByteStore(f[k - 1], a, value, k) /\ e[k - 1] = f[k - 1]
      BY <1>4, <1>6
    <3>2. QED
      BY <1>3, <2>3, <3>1
  <2>4. QED
    BY <1>4, <2>1, <2>2, <2>3
<1>8. ByteStores(e, m, a, value, k)
  <2>1. e = [i \in 0 .. k |-> e[i]]
    BY <1>6
  <2>2. QED
    BY <1>7, <2>1 DEF ByteStores
<1>9. QED
  BY <1>2, <1>8

\* The bus in the middle of a wide store that starts outside IO: the keypad
\* is as it was.
Quiet(m, x) ==
  /\ x = [m |-> x.m, refused |-> x.refused] /\ IsBus(x.m)
  /\ x.m.io.keys = m.io.keys /\ x.m.io.keycnt = m.io.keycnt

LEMMA ByteStoreKeeps ==
  ASSUME NEW m, NEW x, Quiet(m, x), NEW a \in Nat, Region(a) # "io", NEW value,
         NEW n \in 1 .. 4, value[n] \in Byte
  PROVE  Quiet(m, ByteStore(x, a, value, n))
<1> DEFINE y == ByteStore(x, a, value, n)
<1>1. CASE x.refused \/ Refuses8(a + n - 1)
  <2>1. y = [m |-> x.m, refused |-> TRUE]
    BY <1>1 DEF ByteStore, Quiet
  <2>2. y.m = x.m /\ y.refused = TRUE
    BY <2>1
  <2> HIDE DEF y
  <2>3. QED
    BY <2>1, <2>2 DEF Quiet, y
<1>2. CASE ~(x.refused \/ Refuses8(a + n - 1))
  <2>1. PICK b \in Byte, c \in Nat, k \in 0 .. 3 : b = value[n] /\ k = n - 1 /\ c = a + n - 1 /\ c = a + k
    <3>1. n - 1 \in 0 .. 3 /\ a + n - 1 \in Nat /\ a + n - 1 = a + (n - 1)
      OBVIOUS
    <3>2. QED
      BY <3>1
  <2>2. PICK w : w = Written8(x.m, c, b)
    OBVIOUS
  <2>3. y = [m |-> w, refused |-> x.refused]
    BY <1>2, <2>1, <2>2 DEF ByteStore, Quiet
  <2>4. y.m = w /\ y.refused = x.refused
    BY <2>3
  <2>5. IsBus(w)
    BY <2>2, ByteKeeps DEF Quiet
  <2>6. w.io.keys = x.m.io.keys /\ w.io.keycnt = x.m.io.keycnt
    <3>1. CASE Region(c) # "io"
      BY <2>2, <3>1, ByteKeeps DEF Quiet
    <3>2. CASE Region(c) = "io"
      <4>1. c % Span \in 0 .. 2
        BY <2>1, <3>2, CrossesAtStart
      <4>2. Offset(c) \in 0 .. 2
        BY <3>2, <4>1 DEF Offset, Rams
      <4>3. QED
        BY <2>2, <3>2, <4>2, ByteKeeps DEF Quiet
    <3>3. QED
      BY <3>1, <3>2
  <2> HIDE DEF y
  <2>7. QED
    BY <2>3, <2>4, <2>5, <2>6 DEF Quiet, y
<1>3. QED
  BY <1>1, <1>2

LEMMA BytewiseKeeps ==
  ASSUME NEW m, IsBus(m), NEW a \in Nat, Region(a) # "io", NEW value, Len(value) \in 0 .. 4,
         \A n \in 1 .. Len(value) : value[n] \in Byte
  PROVE  /\ IsBus(WrittenBytewise(m, a, value))
         /\ WrittenBytewise(m, a, value).io.keys = m.io.keys
         /\ WrittenBytewise(m, a, value).io.keycnt = m.io.keycnt
<1> DEFINE N == Len(value)
<1>1. PICK f : ByteStores(f, m, a, value, N) /\ WrittenBytewise(m, a, value) = f[N].m
  <2> DEFINE f == CHOOSE f : ByteStores(f, m, a, value, N)
  <2>1. ByteStores(f, m, a, value, N)
    <3>1. N \in Nat
      OBVIOUS
    <3>2. \E g : ByteStores(g, m, a, value, N)
      BY <3>1, ByteStoresExists
    <3>3. QED
      BY <3>2
  <2>2. WrittenBytewise(m, a, value) = f[N].m
    BY DEF WrittenBytewise, ByteStores, ByteStore
  <2>3. QED
    BY <2>1, <2>2
<1> DEFINE S == {k \in 0 .. N : ~Quiet(m, f[k])}
<1>2. S = {}
  <2>1. SUFFICES ASSUME S # {} PROVE FALSE
    OBVIOUS
  <2>2. S \in SUBSET Nat
    OBVIOUS
  <2>3. PICK k \in S : \A y \in S : k <= y
    <3> HIDE DEF S
    <3>1. QED
      BY <2>1, <2>2, LeastElement
  <2>4. k \in 0 .. N /\ ~Quiet(m, f[k])
    BY <2>3
  <2>5. k # 0
    <3>1. f[0] = [m |-> m, refused |-> FALSE]
      BY <1>1 DEF ByteStores
    <3>2. f[0].m = m /\ f[0].refused = FALSE
      BY <3>1
    <3>3. Quiet(m, f[0])
      BY <3>1, <3>2 DEF Quiet
    <3>4. QED
      BY <2>4, <3>3
  <2>6. k - 1 \in 0 .. N /\ Quiet(m, f[k - 1])
    BY <2>3, <2>4, <2>5
  <2>7. f[k] = ByteStore(f[k - 1], a, value, k)
    BY <1>1, <2>4, <2>5 DEF ByteStores
  <2>8. k \in 1 .. 4 /\ value[k] \in Byte
    BY <2>4, <2>5
  <2>9. QED
    BY <2>4, <2>6, <2>7, <2>8, ByteStoreKeeps
<1>3. Quiet(m, f[N])
  BY <1>2
<1>4. QED
  BY <1>1, <1>3 DEF Quiet

LEMMA ValueIs ==
  ASSUME NEW value \in Values
  PROVE  /\ Len(value) \in {1, 2, 4} /\ value = [n \in 1 .. Len(value) |-> value[n]]
         /\ \A n \in 1 .. Len(value) : value[n] \in Byte
<1>1. CASE value = <<1>>
  BY <1>1 DEF Byte
<1>2. CASE value = <<2>>
  BY <1>2 DEF Byte
<1>3. CASE value = <<1, 2>>
  BY <1>3 DEF Byte
<1>4. CASE value = <<3, 1>>
  BY <1>4 DEF Byte
<1>5. CASE value = <<1, 2, 3, 1>>
  BY <1>5 DEF Byte
<1>6. QED
  BY <1>1, <1>2, <1>3, <1>4, <1>5 DEF Values

\* The value of an unaligned store to IO.
Turned(a, value, n) == [i \in 1 .. n |-> value[((i - 1 + (a % n)) % n) + 1]]

LEMMA TurnedIs ==
  ASSUME NEW n \in {2, 4}, NEW a \in Nat, NEW value, \A i \in 1 .. n : value[i] \in Byte
  PROVE  Turned(a, value, n) \in [1 .. n -> Byte]
<1>1. a % n \in 0 .. n - 1
  OBVIOUS
<1>2. ASSUME NEW i \in 1 .. n PROVE ((i - 1 + (a % n)) % n) + 1 \in 1 .. n
  <2>1. PICK s \in Nat : s = i - 1 + (a % n)
    BY <1>1
  <2>2. s % n \in 0 .. n - 1
    OBVIOUS
  <2>3. QED
    BY <2>1, <2>2
<1>3. QED
  BY <1>2 DEF Turned

\* The five outcomes of a wide store.
WideOutcome(m, a, value, n, w) ==
  \/ w = m /\ Region(a) # "io"
  \/ /\ Region(a) = "io" /\ n = 2
     /\ w = [m EXCEPT !.io = IoWritten16(@, Offset(a) - (a % 2), Turned(a, value, 2))]
  \/ /\ Region(a) = "io" /\ n # 2
     /\ w = [m EXCEPT !.io = IoWritten32(@, Offset(a) - (a % n), Turned(a, value, n))]
  \/ /\ a % n = 0 /\ Region(a) \in {"palette", "vram", "oam"}
     /\ w = [m EXCEPT !.ram[Region(a)] = [i \in DOMAIN @ |->
               IF i \in Offset(a) .. Offset(a) + n - 1 THEN value[i - Offset(a) + 1] ELSE @[i]]]
  \/ Region(a) # "io" /\ Region(a) # "rom" /\ w = WrittenBytewise(m, a, value)

LEMMA WideCases ==
  ASSUME NEW m, NEW a, NEW value, NEW n, n = Len(value), NEW w, w = WrittenWide(m, a, value)
  PROVE  WideOutcome(m, a, value, n, w)
BY DEF WrittenWide, Turned, WideOutcome

LEMMA WrittenKeeps ==
  ASSUME NEW m, IsBus(m), NEW a \in Nat, NEW value \in Values
  PROVE  IsBus(Written(m, a, value)) /\ Noticed(m.io, Written(m, a, value).io)
<1>1. CASE Len(value) = 1
  <2>1. value[1] \in Byte
    BY <1>1, ValueIs, SMTT(30), ZenonT(60)
  <2>2. QED
    BY <1>1, <2>1, ByteKeeps DEF Written
<1>2. CASE Len(value) # 1
  <2>1. PICK n \in {2, 4} : n = Len(value)
    BY <1>2, ValueIs
  <2>10. PICK w : w = Written(m, a, value) /\ w = WrittenWide(m, a, value)
    BY <1>2 DEF Written
  <2>2. \A i \in 1 .. n : value[i] \in Byte
    BY <2>1, ValueIs
  <2>3. CASE w = m
    BY <2>1, <2>10, <2>3, SameCondition DEF IsBus
  <2>4. CASE /\ Region(a) = "io" /\ n = 2
             /\ w = [m EXCEPT !.io = IoWritten16(@, Offset(a) - (a % 2), Turned(a, value, 2))]
    <3>6. PICK half \in Half : half = Turned(a, value, 2)
      <4>1. Turned(a, value, 2) \in [1 .. 2 -> Byte]
        BY <2>2, <2>4, TurnedIs
      <4>2. QED
        BY <4>1 DEF Half
    <3>1. PICK j : j = IoWritten16(m.io, Offset(a) - (a % 2), half)
      OBVIOUS
    <3>2. w = [ram |-> m.ram, io |-> j]
      BY <2>4, <3>1, <3>6 DEF IsBus
    <3>3. IoShape(j) /\ Noticed(m.io, j)
      BY <3>1, WriteKeeps DEF IsBus
    <3>4. w.ram = m.ram /\ w.io = j
      BY <3>2
    <3>5. QED
      BY <2>1, <2>10, <3>2, <3>3, <3>4 DEF IsBus
  <2>5. CASE /\ Region(a) = "io" /\ n # 2
             /\ w = [m EXCEPT !.io = IoWritten32(@, Offset(a) - (a % n), Turned(a, value, n))]
    <3>1. n = 4
      BY <2>5
    <3>2. PICK r \in Nat, word \in [1 .. 4 -> Byte] :
            r = Offset(a) - (a % n) /\ r % 4 = 0 /\ word = Turned(a, value, n)
      <4>1. Turned(a, value, 4) \in [1 .. 4 -> Byte]
        BY <2>2, <3>1, TurnedIs
      <4>2. PICK o \in Nat : o = a % Span /\ o % 4 = a % 4
        <5>1. Span \in Nat \ {0} /\ Span % 4 = 0 /\ 4 \in {2, 4}
          BY BusSizes
        <5>2. QED
          BY <5>1, SameAlignment
      <4>3. Offset(a) = o
        BY <2>5, <4>2 DEF Offset, Rams
      <4>4. o - (o % 4) \in Nat /\ (o - (o % 4)) % 4 = 0
        OBVIOUS
      <4>5. QED
        BY <3>1, <4>1, <4>2, <4>3, <4>4
    <3>3. PICK j : j = IoWritten32(m.io, r, word)
      OBVIOUS
    <3>4. w = [ram |-> m.ram, io |-> j]
      BY <2>5, <3>2, <3>3 DEF IsBus
    <3>5. IoShape(j) /\ Noticed(m.io, j)
      BY <3>2, <3>3, WriteWordKeeps DEF IsBus
    <3>6. w.ram = m.ram /\ w.io = j
      BY <3>4
    <3>7. QED
      BY <2>1, <2>10, <3>4, <3>5, <3>6 DEF IsBus
  <2>6. ASSUME NEW r, w = [m EXCEPT !.ram = r] PROVE IsBus(w) /\ Noticed(m.io, w.io)
    <3>1. w = [ram |-> r, io |-> m.io]
      BY <2>6 DEF IsBus
    <3>2. w.ram = r /\ w.io = m.io
      BY <3>1
    <3>3. QED
      BY <3>1, <3>2, SameCondition DEF IsBus
  <2>7. CASE /\ a % n = 0 /\ Region(a) \in {"palette", "vram", "oam"}
             /\ w = [m EXCEPT !.ram[Region(a)] = [i \in DOMAIN @ |->
                      IF i \in Offset(a) .. Offset(a) + n - 1 THEN value[i - Offset(a) + 1] ELSE @[i]]]
    <3>1. PICK r : w = [m EXCEPT !.ram = r]
      BY <2>7
    <3>2. QED
      BY <2>1, <2>10, <2>6, <3>1
  <2>8. CASE Region(a) # "io" /\ w = WrittenBytewise(m, a, value)
    <3>1. Len(value) \in 0 .. 4 /\ \A i \in 1 .. Len(value) : value[i] \in Byte
      BY <2>1, ValueIs
    <3>2. IsBus(w) /\ w.io.keys = m.io.keys /\ w.io.keycnt = m.io.keycnt
      BY <2>8, <3>1, BytewiseKeeps
    <3>3. QED
      BY <2>1, <2>10, <3>2, SameCondition
  <2>9. QED
    <3>1. WideOutcome(m, a, value, n, w)
      BY <2>1, <2>10, WideCases
    <3>2. QED
      BY <2>10, <2>3, <2>4, <2>5, <2>7, <2>8, <3>1 DEF WideOutcome
<1>3. QED
  BY <1>1, <1>2

---------------------------------------------------------------------------
(* The keypad's request.                                                    *)

\* What the bus keeps in every step.
BusInv == IoShape(io) /\ acked \in BOOLEAN /\ KeypadSeen

\* A step that notes what it does to the keypad's request.
LEMMA NotedStep ==
  ASSUME BusInv, IoShape(io'), Noticed(io, io'), NoteRequest(io')
  PROVE  BusInv'
<1>1. io.flags[2] \in {0, 1} /\ io'.flags[2] \in {0, 1}
  BY DEF BusInv, IoShape
<1>2. acked' = IF io.flags[2] = 1 /\ io'.flags[2] = 0 THEN TRUE
               ELSE IF io'.flags[2] = 1 THEN FALSE ELSE acked
  BY DEF NoteRequest
<1>3. ConditionMet(io') => io'.flags[2] = 1 \/ acked'
  BY <1>1, <1>2 DEF Noticed, BusInv, KeypadSeen, KeypadRequested
<1>4. acked' \in BOOLEAN
  BY <1>2 DEF BusInv
<1>5. QED
  BY <1>3, <1>4 DEF BusInv, IoShape, IoShapes, KeypadSeen, KeypadRequested, ConditionMet

LEMMA BusStays == ASSUME BusInv, UNCHANGED <<io, acked>> PROVE BusInv'
BY DEF BusInv, IoShape, IoShapes, KeypadSeen, KeypadRequested, ConditionMet

LEMMA BusInitHolds == BusInit => BusInv
<1>1. SUFFICES ASSUME BusInit PROVE BusInv
  OBVIOUS
<1>2. io = NewIo /\ acked = FALSE
  BY <1>1 DEF BusInit
<1>3. /\ <<Zero, Zero>> \in [1 .. 2 -> Half] /\ Zero \in Half /\ Zero \in [1 .. 2 -> Byte]
      /\ Zero[2] = 0
  BY ZeroIsHalf, Pairs DEF Half, Zero
<1>4. NewIo \in IoShapes
  <2>1. Zero \in Masked
    BY <1>3 DEF Masked
  <2>2. QED
    BY <1>3, <2>1 DEF NewIo, IoShapes, Byte
<1>5. NewIo.flags[2] = 0 /\ NewIo.keycnt[2] = 0
  BY <1>3 DEF NewIo
<1>6. ~ConditionMet(NewIo)
  BY <1>5 DEF ConditionMet, Flag
<1>7. QED
  BY <1>2, <1>4, <1>5, <1>6 DEF BusInv, IoShape, KeypadSeen

LEMMA RequestKeeps ==
  ASSUME BusInv, DeviceRequest PROVE BusInv'
<1>1. io' = Requested(io, 1) /\ acked' = acked
  BY DEF DeviceRequest
<1>2. IoShape(io) /\ io.flags \in [1 .. 2 -> Byte]
  BY DEF BusInv, IoShape, IoShapes
<1>3. CASE Flag(io.flags[1], 1) = 1
  BY <1>1, <1>3, BusStays DEF Requested
<1>4. CASE Flag(io.flags[1], 1) # 1
  <2>1. io.flags[1] + 1 \in Byte
    BY <1>2, <1>4 DEF Byte, Flag
  <2>2. PICK f : f = [io.flags EXCEPT ![1] = @ + 1]
    OBVIOUS
  <2>3. f \in [1 .. 2 -> Byte] /\ f[2] = io.flags[2]
    BY <1>2, <2>1, <2>2
  <2>4. io' = [io EXCEPT !.flags = f]
    BY <1>1, <1>4, <2>2 DEF Requested
  <2>5. /\ io' \in IoShapes /\ io'.flags = f /\ io'.keys = io.keys /\ io'.keycnt = io.keycnt
    BY <1>2, <2>3, <2>4 DEF IoShape, IoShapes
  <2>6. IoShape(io') /\ io'.flags[2] = io.flags[2]
    BY <1>2, <2>3, <2>5 DEF IoShape
  <2>7. ConditionMet(io') = ConditionMet(io)
    BY <2>5 DEF ConditionMet
  <2>8. BusInv
    OBVIOUS
  <2>9. IoShape(io') /\ acked' \in BOOLEAN /\ (ConditionMet(io') => io'.flags[2] = 1 \/ acked')
    BY <1>1, <2>6, <2>7 DEF BusInv, KeypadSeen, KeypadRequested
  <2>10. QED
    BY <2>9 DEF BusInv, IoShape, IoShapes, KeypadSeen, KeypadRequested, ConditionMet
<1>5. QED
  BY <1>3, <1>4

LEMMA PressKeeps ==
  ASSUME BusInv, NEW keys \in Byte, Press(keys) PROVE BusInv'
<1>1. PICK k : k = [io EXCEPT !.keys = keys]
  OBVIOUS
<1>2. IoShape(k) /\ k.flags = io.flags
  BY <1>1 DEF BusInv, IoShape, IoShapes
<1>3. io' = Polled(k) /\ NoteRequest(io')
  BY <1>1 DEF Press, KeysPressed
<1>4. IoShape(io') /\ (ConditionMet(io') => io'.flags[2] = 1)
  BY <1>2, <1>3, PolledKeeps
<1>5. Noticed(io, io')
  BY <1>4 DEF Noticed
<1>6. QED
  BY <1>3, <1>4, <1>5, NotedStep

LEMMA StoreKeeps ==
  ASSUME BusInv, NEW a \in Addresses, NEW value \in Values, Store(a, value) PROVE BusInv'
<1>1. PICK m : m = [ram |-> ram, io |-> io]
  OBVIOUS
<1>2. m.ram = ram /\ m.io = io
  BY <1>1
<1>3. IsBus(m)
  BY <1>1, <1>2 DEF IsBus, BusInv
<1>4. a \in Nat
  BY AddressAssumption
<1>5. io' = Written(m, a, value).io /\ NoteRequest(io')
  BY <1>1 DEF Store
<1>6. IoShape(io') /\ Noticed(io, io')
  BY <1>2, <1>3, <1>4, <1>5, WrittenKeeps DEF IsBus
<1>7. QED
  BY <1>5, <1>6, NotedStep

LEMMA BusStepHolds == BusInv /\ [BusNext]_<<vars, busVars>> => BusInv'
<1>1. SUFFICES ASSUME BusInv, [BusNext]_<<vars, busVars>> PROVE BusInv'
  OBVIOUS
<1>2. CASE UNCHANGED <<vars, busVars>>
  BY <1>1, <1>2, BusStays DEF busVars
<1>3. ASSUME NEW a \in Addresses, NEW value \in Values, Store(a, value) PROVE BusInv'
  BY <1>1, <1>3, StoreKeeps
<1>4. ASSUME NEW keys \in Byte, Press(keys) PROVE BusInv'
  BY <1>1, <1>4, PressKeeps
<1>5. CASE DeviceRequest
  BY <1>1, <1>5, RequestKeeps
<1>6. ASSUME NEW r \in Rams, RamReset({r}) PROVE BusInv'
  BY <1>1, <1>6, BusStays DEF RamReset
<1>7. CASE OfSave
  <2>1. UNCHANGED <<io, acked>>
    BY <1>7 DEF OfSave, StoreSave, BusLoadState, BackupStep, busVars
  <2>2. QED
    BY <1>1, <2>1, BusStays
<1>8. CASE BusReset
  BY <1>1, <1>8, BusStays DEF BusReset
<1>9. QED
  BY <1>1, <1>2, <1>3, <1>4, <1>5, <1>6, <1>7, <1>8 DEF BusNext, OfRamAndIo

\* The registers keep their shape, and the flag that remembers an
\* acknowledgement of the keypad's request is kept with them.
THEOREM BusInvHolds == BusSpec => []BusInv
<1>1. QED
  BY BusInitHolds, BusStepHolds, PTL DEF BusSpec

\* A key combination that is held and selected has requested its interrupt,
\* whether it was pressed or selected first.
THEOREM KeypadIsSeen == BusSpec => []KeypadSeen
<1>1. BusInv => KeypadSeen
  BY DEF BusInv
<1>2. QED
  BY <1>1, BusInvHolds, PTL

---------------------------------------------------------------------------
(* Loads.                                                                   *)

Direction == Rams \cup {"rom"}

LEMMA RegionIs ==
  ASSUME NEW a \in Nat
  PROVE  Region(a) = IF Bank(a) \in 0 .. 1 THEN "bios"
           ELSE IF Bank(a) = 4 /\ a % Span > IoEnd THEN "unknown"
           ELSE IF Bank(a) \in 2 .. 7
           THEN <<"ewram", "iwram", "io", "palette", "vram", "oam">>[Bank(a) - 1]
           ELSE IF Bank(a) \in 8 .. 13 THEN "rom"
           ELSE IF Bank(a) \in 14 .. 15 THEN "save"
           ELSE "unknown"
BY DEF Region

\* A bank of RAM or ROM is of one region, and so is IO as far as it goes.
LEMMA OneRegion ==
  ASSUME NEW a \in Nat, NEW b \in Nat, Bank(b) = Bank(a)
  PROVE  /\ Region(a) \in Direction => Region(b) = Region(a)
         /\ Region(a) = "io" => Region(b) = IF b % Span <= IoEnd THEN "io" ELSE "unknown"
<1>1. PICK n : n = Bank(a)
  OBVIOUS
<1>2. a % Span \in Nat /\ b % Span \in Nat /\ IoEnd \in Nat
  <2>1. Span \in Nat \ {0} /\ a \in Int /\ b \in Int
    BY BusSizes
  <2>2. a % Span \in 0 .. Span - 1
    BY <2>1, Division
  <2>3. b % Span \in 0 .. Span - 1
    BY <2>1, Division
  <2>4. QED
    BY <2>1, <2>2, <2>3, BusSizes
<1>3. CASE n = 4
  <2>1. ASSUME NEW c \in Nat, Bank(c) = 4, NEW o \in Nat, o = c % Span
        PROVE  Region(c) = IF o <= IoEnd THEN "io" ELSE "unknown"
    <3>1. CASE o <= IoEnd
      BY <2>1, <3>1, IoRegion DEF Bank
    <3>2. CASE o > IoEnd
      <4>1. Bank(c) = 4 /\ ~(4 \in 0 .. 1) /\ c % Span > IoEnd
        BY <2>1, <3>2
      <4>2. Region(c) = "unknown"
        BY <4>1, RegionIs
      <4>3. QED
        BY <1>2, <3>2, <4>2
    <3>3. QED
      BY <1>2, <2>1, <3>1, <3>2
  <2>2. Region(a) = IF a % Span <= IoEnd THEN "io" ELSE "unknown"
    BY <1>1, <1>2, <1>3, <2>1
  <2>3. Region(b) = IF b % Span <= IoEnd THEN "io" ELSE "unknown"
    BY <1>1, <1>2, <1>3, <2>1
  <2>4. QED
    BY <2>2, <2>3 DEF Direction, Rams
<1>4. CASE n # 4
  <2>1. Region(b) = Region(a)
    BY <1>1, <1>4, RegionIs
  <2>2. Region(a) # "io"
    BY <1>1, <1>4, IoRegion DEF Bank
  <2>3. QED
    BY <2>1, <2>2
<1>5. QED
  BY <1>3, <1>4

LEMMA NextInBank ==
  ASSUME NEW n \in {2, 4}, NEW a \in Nat, a % n = 0, NEW k \in 0 .. n - 1
  PROVE  /\ a + k \in Nat /\ Bank(a + k) = Bank(a) /\ a % Span \in Nat /\ (a % Span) % n = 0
         /\ (a + k) % Span = (a % Span) + k
<1>1. Span \in Nat \ {0} /\ Span % 4 = 0
  BY BusSizes
<1>2. a + k \in Nat
  OBVIOUS
<1>3. InBlock(Span, n, a, k)
  BY <1>1, Aligned
<1>4. QED
  BY <1>2, <1>3 DEF Bank, InBlock

\* The fold of VRAM.
LEMMA NextInVram ==
  ASSUME NEW n \in {2, 4}, NEW o \in Nat, o % n = 0, NEW k \in 0 .. n - 1
  PROVE  VramOffset(o + k) = VramOffset(o) + k /\ VramOffset(o) \in Int
<1>1. PICK i \in Nat : i = o % VramBank /\ (o + k) % VramBank = i + k /\ i % n = 0
  <2>1. VramBank \in Nat \ {0} /\ VramBank % 4 = 0
    BY BusSizes
  <2>2. InBlock(VramBank, n, o, k)
    BY <2>1, Aligned
  <2>3. QED
    BY <2>2 DEF InBlock
<1>2. VramSize \in Nat /\ VramFold \in Nat /\ VramSize % 4 = 0
  BY BusSizes
<1>3. i < VramSize => i + k < VramSize
  <2>1. PICK v \in Nat : v = VramSize
    BY <1>2
  <2>2. CASE n = 2
    BY <1>1, <1>2, <2>1, <2>2
  <2>3. CASE n = 4
    BY <1>1, <1>2, <2>1, <2>3
  <2>4. QED
    BY <2>2, <2>3
<1>4. k \in Nat
  OBVIOUS
<1>5. PICK v \in Nat, d \in Nat : v = VramSize /\ d = VramFold
  BY <1>2
<1>6. /\ VramOffset(o) = IF i >= v THEN i - d ELSE i
      /\ VramOffset(o + k) = IF i + k >= v THEN (i + k) - d ELSE i + k
  BY <1>1, <1>5 DEF VramOffset
<1>8. CASE i >= v
  <2>1. VramOffset(o) = i - d /\ VramOffset(o + k) = (i + k) - d
    BY <1>4, <1>6, <1>8
  <2>2. QED
    BY <1>4, <1>8, <2>1
<1>9. CASE ~(i >= v)
  <2>1. VramOffset(o) = i /\ VramOffset(o + k) = i + k
    BY <1>3, <1>4, <1>5, <1>6, <1>9
  <2>2. QED
    BY <2>1
<1>10. QED
  BY <1>8, <1>9

LEMMA NextOffset ==
  ASSUME NEW n \in {2, 4}, NEW a \in Nat, a % n = 0, NEW k \in 0 .. n - 1,
         Region(a) \in Direction
  PROVE  Region(a + k) = Region(a) /\ Offset(a + k) = Offset(a) + k
<1>1. PICK o \in Nat : /\ o = a % Span /\ o % n = 0 /\ (a + k) % Span = o + k
                       /\ a + k \in Nat /\ Bank(a + k) = Bank(a)
  BY NextInBank, ZenonT(60)
<1>2. Region(a + k) = Region(a)
  BY <1>1, OneRegion
<1>3. CASE Region(a) = "vram"
  <2>1. Offset(a) = VramOffset(o) /\ Offset(a + k) = VramOffset(o + k)
    BY <1>1, <1>2, <1>3 DEF Offset
  <2>2. QED
    BY <1>1, <1>2, <2>1, NextInVram
<1>4. CASE Region(a) \in Rams \ {"vram"}
  <2>1. Offset(a) = o % RamSize /\ Offset(a + k) = (o + k) % RamSize
    BY <1>1, <1>2, <1>4 DEF Offset
  <2>2. RamSize \in Nat \ {0} /\ RamSize % 4 = 0
    BY BusSizes
  <2>3. InBlock(RamSize, n, o, k)
    BY <1>1, <2>2, Aligned
  <2>4. QED
    BY <1>2, <2>1, <2>3 DEF InBlock
<1>5. CASE Region(a) = "rom"
  <2>1. PICK F \in Nat \ {0} : F = 2 * Span /\ F % 4 = 0
    <3>1. Span \in Nat \ {0} /\ Span % 4 = 0
      BY BusSizes
    <3>2. 2 * Span \in Nat \ {0} /\ (2 * Span) % 4 = 0
      BY <3>1
    <3>3. QED
      BY <3>2
  <2>2. InBlock(F, n, a, k)
    BY <2>1, Aligned
  <2>3. Offset(a) = a % F /\ Offset(a + k) = (a + k) % F
    BY <1>2, <1>5, <2>1 DEF Offset, Rams
  <2>4. QED
    BY <1>2, <2>2, <2>3 DEF InBlock
<1>6. QED
  BY <1>3, <1>4, <1>5 DEF Direction

\* A wide load of bytes that are all there.
HasBytes(a, n, v) ==
  v = [i \in 1 .. n |-> v[i]] /\ \A i \in 1 .. n : Read8(a + i - 1) = <<v[i]>>

LEMMA BytesAre ==
  ASSUME NEW a, NEW n, NEW v, HasBytes(a, n, v)
  PROVE  Bytewise(a, n) = v
<1> USE DEF HasBytes
<1>1. PICK bytes : bytes = [i \in 1 .. n |-> Read8(a + i - 1)]
  OBVIOUS
<1>2. \A i \in 1 .. n : bytes[i] = <<v[i]>>
  BY <1>1
<1>3. \A i \in 1 .. n : bytes[i] # <<>> /\ bytes[i][1] = v[i]
  BY <1>2
<1>4. Bytewise(a, n) = [i \in 1 .. n |-> bytes[i][1]]
  BY <1>1, <1>3 DEF Bytewise
<1>5. [i \in 1 .. n |-> bytes[i][1]] = [i \in 1 .. n |-> v[i]]
  BY <1>3
<1>6. QED
  BY <1>4, <1>5

LEMMA NoBytes ==
  ASSUME NEW a \in Nat, NEW n \in Nat, NEW i \in 1 .. n, Read8(a + i - 1) = <<>>
  PROVE  Bytewise(a, n) = <<>>
<1>1. PICK bytes : bytes = [j \in 1 .. n |-> Read8(a + j - 1)]
  OBVIOUS
<1>2. bytes[i] = <<>>
  BY <1>1
<1>3. QED
  BY <1>1, <1>2 DEF Bytewise

\* The direct paths of RAM and ROM.
LEMMA DirectAgrees ==
  ASSUME NEW n \in {2, 4}, NEW a \in Nat, a % n = 0, Direct(a, n)
  PROVE  Directly(a, n) = Bytewise(a, n)
<1>1. Region(a) \in Direction
  BY DEF Direct, Direction
<1>2. PICK v : v = Directly(a, n)
  OBVIOUS
<1>3. v = [i \in 1 .. n |-> IF Region(a) = "rom" THEN RomByte(Offset(a) + i - 1)
                            ELSE ram[Region(a)][Offset(a) + i - 1]]
  BY <1>2 DEF Directly
<1>4. Offset(a) \in Int /\ (Region(a) = "rom" => Offset(a) \in Nat)
  <2>1. Span \in Nat \ {0} /\ a % Span \in Nat /\ 0 \in 0 .. n - 1 /\ (a % Span) % n = 0
    BY BusSizes, NextInBank
  <2>2. CASE Region(a) = "vram"
    BY <2>1, <2>2, NextInVram DEF Offset
  <2>3. CASE Region(a) \in Rams \ {"vram"}
    <3>1. RamSize \in Nat \ {0} /\ a % Span \in Int
      BY <2>1, BusSizes
    <3>2. (a % Span) % RamSize \in 0 .. RamSize - 1
      BY <3>1, Division
    <3>3. QED
      BY <2>3, <3>1, <3>2 DEF Offset
  <2>4. CASE Region(a) = "rom"
    <3>1. 2 * Span \in Nat \ {0} /\ a \in Int
      BY <2>1
    <3>2. a % (2 * Span) \in 0 .. 2 * Span - 1
      BY <3>1, Division
    <3>3. QED
      BY <2>4, <3>1, <3>2 DEF Offset, Rams
  <2>5. QED
    BY <1>1, <2>2, <2>3, <2>4 DEF Direction
<1>5. ASSUME NEW i \in 1 .. n PROVE Read8(a + i - 1) = <<v[i]>>
  <2>1. PICK k \in 0 .. n - 1 : k = i - 1 /\ a + i - 1 = a + k
    <3>1. i - 1 \in 0 .. n - 1 /\ a + i - 1 = a + (i - 1)
      OBVIOUS
    <3>2. QED
      BY <3>1
  <2>2. Region(a + k) = Region(a) /\ Offset(a + k) = Offset(a) + k
    BY <1>1, NextOffset
  <2>3. Offset(a) + i - 1 = Offset(a) + k
    BY <1>4, <2>1
  <2>4. CASE Region(a) \in Rams
    <3>1. Read8(a + k) = <<ram[Region(a)][Offset(a) + k]>>
      BY <2>2, <2>4 DEF Read8
    <3>2. v[i] = ram[Region(a)][Offset(a) + k]
      BY <1>3, <2>3, <2>4 DEF Rams
    <3>3. QED
      BY <2>1, <3>1, <3>2
  <2>5. CASE Region(a) = "rom"
    <3>1. Offset(a) + n - 1 < RomSize
      BY <2>5 DEF Direct, Rams
    <3>2. Offset(a) + k < RomSize /\ RomSize # 0
      BY <1>4, <2>5, <3>1, BusSizes
    <3>3. Read8(a + k) = <<RomByte(Offset(a) + k)>>
      BY <2>2, <2>5, <3>2 DEF Read8, Rams
    <3>4. v[i] = RomByte(Offset(a) + k)
      BY <1>3, <2>3, <2>5
    <3>5. QED
      BY <2>1, <3>3, <3>4
  <2>6. QED
    BY <1>1, <2>4, <2>5 DEF Direction
<1>6. v = [i \in 1 .. n |-> v[i]]
  BY <1>3
<1>7. HasBytes(a, n, v)
  BY <1>5, <1>6 DEF HasBytes
<1>8. QED
  BY <1>2, <1>7, BytesAre

\* The registers.
LEMMA ReadableIsLow ==
  ASSUME NEW i, NEW r \in Nat, IoRead16(i, r) # <<>> PROVE r <= 18
BY DEF IoRead16, Dispcnt, Vcount, Keyinput, Keycnt, Ie, If, Waitcnt, Ime

LEMMA IoByte ==
  ASSUME IoShape(io), NEW a \in Nat, Region(a) = "io"
  PROVE  LET half == IoRead16(io, (a % Span) - ((a % Span) % 2))
         IN  Read8(a) = IF half # <<>> THEN <<half[(a % 2) + 1]>> ELSE <<>>
BY DEF Read8, Offset, Rams

LEMMA UnknownByte ==
  ASSUME NEW a \in Nat, Region(a) = "unknown" PROVE Read8(a) = <<>>
BY DEF Read8, Rams

\* The bytes of a halfword of IO, read one by one.
LEMMA IoBytes ==
  ASSUME IoShape(io), NEW a \in Nat, a % 2 = 0, NEW o \in Nat, o = a % Span, o % 2 = 0,
         Bank(a) = 4, (a + 1) % Span = o + 1, Bank(a + 1) = 4
  PROVE  LET half == IoRead16(io, o)
         IN  /\ half = <<>> => Read8(a) = <<>>
             /\ half # <<>> => /\ half \in Half
                               /\ Read8(a) = <<half[1]>> /\ Read8(a + 1) = <<half[2]>>
<1>1. PICK half : half = IoRead16(io, o)
  OBVIOUS
<1>2. IoEnd \in Nat /\ IoEnd >= 27
  BY BusSizes
<1>3. CASE half = <<>>
  <2>1. CASE o <= IoEnd
    <3>1. Region(a) = "io"
      BY <2>1, IoRegion DEF Bank
    <3>2. o - (o % 2) = o
      OBVIOUS
    <3>3. Read8(a) = <<>>
      BY <1>1, <1>3, <3>1, <3>2, IoByte
    <3>4. QED
      BY <1>1, <1>3, <3>3
  <2>2. CASE ~(o <= IoEnd)
    <3>1. Region(a) = "unknown"
      BY <1>2, <2>2, RegionIs
    <3>2. QED
      BY <1>1, <1>3, <3>1, UnknownByte
  <2>3. QED
    BY <2>1, <2>2
<1>4. CASE half # <<>>
  <2>1. half \in Half /\ o <= 18
    BY <1>1, <1>4, ReadIsHalf, ReadableIsLow
  <2>2. Region(a) = "io" /\ Region(a + 1) = "io" /\ a + 1 \in Nat
    BY <1>2, <2>1, IoRegion DEF Bank
  <2>3. /\ o - (o % 2) = o /\ (o + 1) - ((o + 1) % 2) = o
        /\ (a % 2) + 1 = 1 /\ ((a + 1) % 2) + 1 = 2
    OBVIOUS
  <2>4. Read8(a) = <<half[1]>>
    BY <1>1, <1>4, <2>2, <2>3, IoByte
  <2>5. Read8(a + 1) = <<half[2]>>
    BY <1>1, <1>4, <2>2, <2>3, IoByte
  <2>6. QED
    BY <1>1, <1>4, <2>1, <2>4, <2>5
<1>5. QED
  BY <1>3, <1>4

LEMMA HalfIs ==
  ASSUME NEW h \in Half
  PROVE  h = [i \in 1 .. 2 |-> h[i]] /\ h # <<>> /\ h \in Seq(Byte) /\ Len(h) = 2
<1>0. h \in [1 .. 2 -> Byte]
  BY DEF Half
<1>3. PICK x \in Byte, y \in Byte : x = h[1] /\ y = h[2]
  BY <1>0
<1>4. h = <<x, y>>
  BY <1>0, <1>3
<1>1. h \in Seq(Byte) /\ Len(h) = 2
  BY <1>4
<1>2. QED
  BY <1>1, EmptySeq DEF Half

LEMMA IoHalfAgrees ==
  ASSUME IoShape(io), NEW a \in Nat, a % 2 = 0, Region(a) = "io"
  PROVE  Read16(a) = Bytewise(a, 2)
<1>1. PICK o \in Nat : /\ o = a % Span /\ o % 2 = 0 /\ (a + 1) % Span = o + 1
                       /\ Bank(a) = 4 /\ Bank(a + 1) = 4
  <2>1. 2 \in {2, 4} /\ 1 \in 0 .. 2 - 1
    OBVIOUS
  <2>2. Bank(a) = 4
    BY IoRegion DEF Bank
  <2>3. QED
    BY <2>1, <2>2, NextInBank
<1>2. PICK half : half = IoRead16(io, o)
  OBVIOUS
<1>3. Read16(a) = half
  BY <1>1, <1>2 DEF Read16, Offset, Rams
<1>4. CASE half = <<>>
  <2>1. Read8(a) = <<>>
    BY <1>1, <1>2, <1>4, IoBytes
  <2>2. a + 1 - 1 = a /\ 1 \in 1 .. 2 /\ 2 \in Nat
    OBVIOUS
  <2>3. Bytewise(a, 2) = <<>>
    BY <2>1, <2>2, NoBytes
  <2>4. QED
    BY <1>3, <1>4, <2>3
<1>5. CASE half # <<>>
  <2>1. half \in Half /\ Read8(a) = <<half[1]>> /\ Read8(a + 1) = <<half[2]>>
    BY <1>1, <1>2, <1>5, IoBytes
  <2>2. \A i \in 1 .. 2 : Read8(a + i - 1) = <<half[i]>>
    <3>1. a + 1 - 1 = a /\ a + 2 - 1 = a + 1
      OBVIOUS
    <3>2. \A i \in 1 .. 2 : i = 1 \/ i = 2
      OBVIOUS
    <3>3. QED
      BY <2>1, <3>1, <3>2
  <2>3. half = [i \in 1 .. 2 |-> half[i]]
    BY <2>1, HalfIs
  <2>4. HasBytes(a, 2, half)
    BY <2>2, <2>3 DEF HasBytes
  <2>5. Bytewise(a, 2) = half
    BY <2>4, BytesAre
  <2>6. QED
    BY <1>3, <2>5
<1>6. QED
  BY <1>4, <1>5

LEMMA IoWordAgrees ==
  ASSUME IoShape(io), NEW a \in Nat, a % 4 = 0, Region(a) = "io"
  PROVE  IoRead32(io, Offset(a)) = Bytewise(a, 4)
<1>1. Bank(a) = 4 /\ 4 \in {2, 4}
  BY IoRegion DEF Bank
<1>2. PICK o \in Nat : o = a % Span /\ o % 4 = 0 /\ (\A k \in 0 .. 3 : (a + k) % Span = o + k /\ Bank(a + k) = 4)
  <2>1. a % Span \in Nat /\ (a % Span) % 4 = 0
    <3>1. 0 \in 0 .. 4 - 1
      OBVIOUS
    <3>2. QED
      BY <1>1, <3>1, NextInBank
  <2>2. ASSUME NEW k \in 0 .. 3 PROVE (a + k) % Span = (a % Span) + k /\ Bank(a + k) = 4
    <3>1. k \in 0 .. 4 - 1
      OBVIOUS
    <3>2. QED
      BY <1>1, <3>1, NextInBank
  <2>3. QED
    BY <2>1, <2>2
<1>11. /\ (a + 1) % Span = o + 1 /\ (a + 2) % Span = o + 2 /\ (a + 3) % Span = o + 3
       /\ Bank(a + 1) = 4 /\ Bank(a + 2) = 4 /\ Bank(a + 3) = 4
  <2>1. 1 \in 0 .. 3 /\ 2 \in 0 .. 3 /\ 3 \in 0 .. 3
    OBVIOUS
  <2>2. QED
    BY <1>2, <2>1
<1>3. PICK low, high : low = IoRead16(io, o) /\ high = IoRead16(io, o + 2)
  OBVIOUS
<1>4. IoRead32(io, Offset(a)) = IF low = <<>> \/ high = <<>> THEN <<>> ELSE low \o high
  <2>1. Offset(a) = o
    BY <1>2 DEF Offset, Rams
  <2>2. IoRead16(io, Ime + 2) = Zero
    BY DEF IoRead16, Dispcnt, Vcount, Keyinput, Keycnt, Ie, If, Waitcnt, Ime
  <2>3. high = IF o = Ime THEN Zero ELSE IoRead16(io, o + 2)
    BY <1>3, <2>2
  <2>4. QED
    BY <1>3, <2>1, <2>3 DEF IoRead32
<1>5. /\ low = <<>> => Read8(a) = <<>>
      /\ low # <<>> => low \in Half /\ Read8(a) = <<low[1]>> /\ Read8(a + 1) = <<low[2]>>
  <2>1. a % 2 = 0 /\ o % 2 = 0
    <3>1. o % 4 = 0
      BY <1>2
    <3>2. QED
      BY <3>1
  <2>2. QED
    BY <1>1, <1>11, <1>2, <1>3, <2>1, IoBytes
<1>6. /\ high = <<>> => Read8(a + 2) = <<>>
      /\ high # <<>> => high \in Half /\ Read8(a + 2) = <<high[1]>> /\ Read8(a + 3) = <<high[2]>>
  <2>1. PICK b \in Nat, r \in Nat : b = a + 2 /\ r = o + 2 /\ b + 1 = a + 3 /\ r + 1 = o + 3
    OBVIOUS
  <2>5. b % 2 = 0 /\ r % 2 = 0
    <3>1. o % 4 = 0
      BY <1>2
    <3>2. QED
      BY <2>1, <3>1
  <2>2. r = b % Span /\ (b + 1) % Span = r + 1 /\ Bank(b) = 4 /\ Bank(b + 1) = 4
    BY <1>11, <2>1
  <2>3. /\ high = <<>> => Read8(b) = <<>>
        /\ high # <<>> => high \in Half /\ Read8(b) = <<high[1]>> /\ Read8(b + 1) = <<high[2]>>
    BY <1>3, <2>1, <2>2, <2>5, IoBytes
  <2>4. QED
    BY <2>1, <2>3
<1>7. CASE low = <<>>
  <2>1. a + 1 - 1 = a /\ 1 \in 1 .. 4 /\ 4 \in Nat
    OBVIOUS
  <2>2. QED
    BY <1>4, <1>5, <1>7, <2>1, NoBytes
<1>8. CASE high = <<>>
  <2>1. a + 3 - 1 = a + 2 /\ 3 \in 1 .. 4 /\ 4 \in Nat
    OBVIOUS
  <2>2. QED
    BY <1>4, <1>6, <1>8, <2>1, NoBytes
<1>9. CASE low # <<>> /\ high # <<>>
  <2>1. PICK v : v = low \o high
    OBVIOUS
  <2>2. /\ low \in Half /\ Read8(a) = <<low[1]>> /\ Read8(a + 1) = <<low[2]>>
        /\ high \in Half /\ Read8(a + 2) = <<high[1]>> /\ Read8(a + 3) = <<high[2]>>
    BY <1>5, <1>6, <1>9
  <2>3. /\ v \in Seq(Byte) /\ Len(v) = 4
        /\ v[1] = low[1] /\ v[2] = low[2] /\ v[3] = high[1] /\ v[4] = high[2]
    <3>1. low \in Seq(Byte) /\ Len(low) = 2 /\ high \in Seq(Byte) /\ Len(high) = 2
      BY <2>2, HalfIs
    <3>2. /\ v \in Seq(Byte) /\ Len(v) = 4
          /\ \A i \in 1 .. 4 : v[i] = IF i <= 2 THEN low[i] ELSE high[i - 2]
      <4>1. /\ low \o high \in Seq(Byte) /\ Len(low \o high) = Len(low) + Len(high)
            /\ \A i \in 1 .. Len(low) + Len(high) :
                 (low \o high)[i] = IF i <= Len(low) THEN low[i] ELSE high[i - Len(low)]
        BY <3>1, ConcatProperties
      <4>2. Len(low) + Len(high) = 4
        BY <3>1
      <4>3. QED
        BY <2>1, <3>1, <4>1, <4>2
    <3>3. QED
      BY <3>2
  <2>4. \A i \in 1 .. 4 : Read8(a + i - 1) = <<v[i]>>
    <3>1. a + 1 - 1 = a /\ a + 2 - 1 = a + 1 /\ a + 3 - 1 = a + 2 /\ a + 4 - 1 = a + 3
      OBVIOUS
    <3>2. \A i \in 1 .. 4 : i = 1 \/ i = 2 \/ i = 3 \/ i = 4
      OBVIOUS
    <3>3. QED
      BY <2>2, <2>3, <3>1, <3>2
  <2>5. v = [i \in 1 .. 4 |-> v[i]]
    BY <2>3
  <2>6. HasBytes(a, 4, v)
    BY <2>4, <2>5 DEF HasBytes
  <2>7. Bytewise(a, 4) = v
    BY <2>6, BytesAre
  <2>8. QED
    BY <1>4, <1>9, <2>1, <2>7
<1>10. QED
  BY <1>7, <1>8, <1>9

\* Past the end of the ROM.
LEMMA OpenBusAgrees ==
  ASSUME NEW a \in Nat, a % 4 = 0, Region(a) = "rom", RomSize > 0, Offset(a) >= RomSize
  PROVE  OpenBus(a) = Bytewise(a, 4)
<1>1. PICK v : v = OpenBus(a) /\ v = [i \in 1 .. 4 |-> v[i]]
  <2>1. OpenBus(a) = [i \in 1 .. 4 |-> OpenBus(a)[i]]
    BY DEF OpenBus
  <2>2. QED
    BY <2>1
<1>2. ASSUME NEW i \in 1 .. 4 PROVE Read8(a + i - 1) = <<v[i]>>
  <2>1. PICK k \in 0 .. 3, b \in Nat : k = i - 1 /\ b = a + i - 1 /\ b = a + k
    <3>1. i - 1 \in 0 .. 3 /\ a + i - 1 \in Nat /\ a + i - 1 = a + (i - 1)
      OBVIOUS
    <3>2. QED
      BY <3>1
  <2>2. Region(b) = "rom" /\ Offset(b) = Offset(a) + k
    <3>1. k \in 0 .. 4 - 1 /\ 4 \in {2, 4} /\ Region(a) \in Direction
      BY DEF Direction
    <3>2. QED
      BY <2>1, <3>1, NextOffset
  <2>3. ~(Offset(b) < RomSize)
    <3>1. Offset(a) \in Int
      <4>1. 2 * Span \in Nat \ {0} /\ a \in Int
        BY BusSizes
      <4>2. a % (2 * Span) \in 0 .. 2 * Span - 1
        BY <4>1, Division
      <4>3. QED
        BY <4>1, <4>2 DEF Offset, Rams
    <3>2. QED
      BY <2>2, <3>1, BusSizes
  <2>4. Word(b) = Word(a) /\ (b % 4) + 1 = i
    BY <2>1 DEF Word
  <2>5. OpenBus(b) = v
    BY <1>1, <2>4 DEF OpenBus
  <2>6. Read8(b) = <<OpenBus(b)[(b % 4) + 1]>>
    BY <2>2, <2>3, BusSizes DEF Read8, Rams
  <2>7. QED
    BY <2>1, <2>4, <2>5, <2>6
<1>3. HasBytes(a, 4, v)
  BY <1>1, <1>2 DEF HasBytes
<1>4. QED
  BY <1>1, <1>3, BytesAre

LEMMA BytewiseForm ==
  ASSUME NEW a, NEW n
  PROVE  Bytewise(a, n) = <<>> \/ Bytewise(a, n) = [i \in 1 .. n |-> Bytewise(a, n)[i]]
BY DEF Bytewise

LEMMA NotRotated ==
  ASSUME NEW w, w = <<>> \/ w = [i \in 1 .. 4 |-> w[i]]
  PROVE  Rotated(w, 0) = w
<1>1. CASE w = <<>>
  BY <1>1 DEF Rotated
<1>2. CASE w # <<>> /\ w = [i \in 1 .. 4 |-> w[i]]
  <2>1. \A i \in 1 .. 4 : ((i - 1 + 0) % 4) + 1 = i
    OBVIOUS
  <2>2. Rotated(w, 0) = [i \in 1 .. 4 |-> w[((i - 1 + 0) % 4) + 1]]
    BY <1>2 DEF Rotated
  <2>3. QED
    BY <1>2, <2>1, <2>2
<1>3. QED
  BY <1>1, <1>2

LEMMA HalfReadsAgree ==
  ASSUME IoShape(io), NEW a \in Nat, a % 2 = 0, Region(a) # "save"
  PROVE  Read16(a) = Bytewise(a, 2)
<1>1. CASE Region(a) = "io"
  BY <1>1, IoHalfAgrees
<1>2. CASE Region(a) # "io" /\ Direct(a, 2)
  <2>1. Read16(a) = Directly(a, 2)
    BY <1>2 DEF Read16
  <2>2. 2 \in {2, 4}
    OBVIOUS
  <2>3. QED
    BY <1>2, <2>1, <2>2, DirectAgrees
<1>3. CASE Region(a) # "io" /\ ~Direct(a, 2)
  BY <1>3 DEF Read16
<1>4. QED
  BY <1>1, <1>2, <1>3

LEMMA WordReadsAgree ==
  ASSUME IoShape(io), NEW a \in Nat, Region(a) # "save",
         a % 4 = 0 \/ Region(a) # "rom" \/ Offset(a) < RomSize
  PROVE  Read32(a) = Rotated(Bytewise(Word(a), 4), a % 4)
<1>1. PICK w \in Nat : w = Word(a) /\ w % 4 = 0 /\ (a % 4 = 0 => w = a)
  BY DEF Word
<1>2. CASE Region(a) = "rom" /\ RomSize > 0 /\ Offset(a) >= RomSize
  <2>1. a % 4 = 0
    <3>1. Offset(a) \in Int
      <4>1. 2 * Span \in Nat \ {0} /\ a \in Int
        BY BusSizes
      <4>2. a % (2 * Span) \in 0 .. 2 * Span - 1
        BY <4>1, Division
      <4>3. QED
        BY <1>2, <4>1, <4>2 DEF Offset, Rams
    <3>2. QED
      BY <1>2, <3>1, BusSizes
  <2>2. Read32(a) = Rotated(OpenBus(a), a % 4)
    BY <1>2 DEF Read32
  <2>3. OpenBus(a) = Bytewise(w, 4)
    BY <1>1, <1>2, <2>1, OpenBusAgrees
  <2>4. QED
    BY <1>1, <2>2, <2>3
<1>3. CASE Region(a) = "io" /\ a % 4 = 0
  <2>1. Read32(a) = IoRead32(io, Offset(a))
    BY <1>3 DEF Read32
  <2>2. Read32(a) = Bytewise(a, 4)
    BY <1>3, <2>1, IoWordAgrees
  <2>3. Rotated(Bytewise(a, 4), 0) = Bytewise(a, 4)
    BY BytewiseForm, NotRotated
  <2>4. QED
    BY <1>1, <1>3, <2>2, <2>3
<1>4. CASE /\ ~(Region(a) = "rom" /\ RomSize > 0 /\ Offset(a) >= RomSize)
           /\ ~(Region(a) = "io" /\ a % 4 = 0)
  <2>1. Read32(a) = Rotated(IF Direct(w, 4) THEN Directly(w, 4) ELSE Bytewise(w, 4), a % 4)
    BY <1>1, <1>4 DEF Read32
  <2>2. Direct(w, 4) => Directly(w, 4) = Bytewise(w, 4)
    <3>1. 4 \in {2, 4}
      OBVIOUS
    <3>2. QED
      BY <1>1, <3>1, DirectAgrees
  <2>3. QED
    BY <1>1, <2>1, <2>2
<1>5. QED
  BY <1>2, <1>3, <1>4

LEMMA ReadsAgreeNow == BusInv => ReadsAgree
<1>1. SUFFICES ASSUME BusInv, NEW a \in Addresses, Region(a) # "save"
               PROVE  /\ a % 2 = 0 => Read16(a) = Bytewise(a, 2)
                      /\ (a % 4 = 0 \/ Region(a) # "rom" \/ Offset(a) < RomSize) =>
                           Read32(a) = Rotated(Bytewise(Word(a), 4), a % 4)
  BY DEF ReadsAgree
<1>2. a \in Nat /\ IoShape(io)
  BY <1>1, AddressAssumption DEF BusInv
<1>3. QED
  BY <1>1, <1>2, HalfReadsAgree, WordReadsAgree

\* Wide loads return what byte loads at the same addresses return, for any
\* sizes of the regions: the direct paths are only faster.
THEOREM ReadsAgreeEverywhere == BusSpec => []ReadsAgree
<1>1. QED
  BY BusInvHolds, ReadsAgreeNow, PTL

---------------------------------------------------------------------------
(* Where a store leaves something.                                          *)

RamShape(m) == m = [r \in Rams |-> [i \in 0 .. SizeOfRam(r) - 1 |-> m[r][i]]]

LEMMA HeldIs ==
  ASSUME NEW i
  PROVE  /\ Held(i, Dispcnt) = i.dispcnt /\ Held(i, Keycnt) = i.keycnt
         /\ Held(i, Ie) = i.ie /\ Held(i, If) = i.flags /\ Held(i, Waitcnt) = i.waitcnt
         /\ Held(i, Ime) = <<IF i.ime THEN 1 ELSE 0, 0>>
         /\ Held(i, SourceLow) = i.source[1] /\ Held(i, SourceLow + 2) = i.source[2]
BY DEF Held, IoRead16, Dispcnt, Vcount, Keyinput, Keycnt, Ie, If, Waitcnt, Ime, SourceLow

LEMMA RegistersAre ==
  /\ \A o \in Registers : o \in Nat /\ o % 2 = 0 /\ o <= 26
  /\ Dispcnt = 0 /\ Keycnt = 6 /\ Ie = 8 /\ If = 10 /\ Waitcnt = 12 /\ Ime = 16
  /\ SourceLow = 24
BY DEF Registers, Dispcnt, Keycnt, Ie, If, Waitcnt, Ime, SourceLow

\* The state of the registers with those that may change aside.
LEMMA FieldsAre ==
  ASSUME NEW i, IoShape(i)
  PROVE  /\ i = [dispcnt |-> i.dispcnt, source |-> i.source, fifo |-> i.fifo,
                 waitcnt |-> i.waitcnt, ie |-> i.ie, flags |-> i.flags, ime |-> i.ime,
                 keys |-> i.keys, keycnt |-> i.keycnt]
         /\ i.source = [n \in 1 .. 2 |-> i.source[n]]
         /\ i.flags = [n \in 1 .. 2 |-> i.flags[n]]
BY DEF IoShape, IoShapes

\* The registers but o are held in other fields.
LEMMA OthersHeld ==
  ASSUME NEW i, NEW j, NEW o \in Registers,
         \/ o = Dispcnt /\ j.dispcnt = i.dispcnt
         \/ o = Keycnt /\ j.keycnt = i.keycnt
         \/ o = Ie /\ j.ie = i.ie
         \/ o = If /\ j.flags = i.flags
         \/ o = Waitcnt /\ j.waitcnt = i.waitcnt
         \/ o = Ime /\ j.ime = i.ime
         \/ o = SourceLow /\ j.source[1] = i.source[1]
         \/ o = SourceLow + 2 /\ j.source[2] = i.source[2]
  PROVE  Held(j, o) = Held(i, o)
<1>1. CASE o = Dispcnt /\ j.dispcnt = i.dispcnt
  BY <1>1, HeldIs
<1>2. CASE o = Keycnt /\ j.keycnt = i.keycnt
  BY <1>2, HeldIs
<1>3. CASE o = Ie /\ j.ie = i.ie
  BY <1>3, HeldIs
<1>4. CASE o = If /\ j.flags = i.flags
  BY <1>4, HeldIs
<1>5. CASE o = Waitcnt /\ j.waitcnt = i.waitcnt
  BY <1>5, HeldIs
<1>6. CASE o = Ime /\ j.ime = i.ime
  <2>1. /\ Held(j, o) = <<IF j.ime THEN 1 ELSE 0, 0>>
        /\ Held(i, o) = <<IF i.ime THEN 1 ELSE 0, 0>>
    BY <1>6, HeldIs
  <2>2. QED
    BY <1>6, <2>1
<1>7. CASE o = SourceLow /\ j.source[1] = i.source[1]
  BY <1>7, HeldIs
<1>8. CASE o = SourceLow + 2 /\ j.source[2] = i.source[2]
  BY <1>8, HeldIs
<1>9. QED
  BY <1>1, <1>2, <1>3, <1>4, <1>5, <1>6, <1>7, <1>8

\* KEYCNT aside, a write changes one field.
LEMMA OneField ==
  ASSUME NEW i, IoShape(i), NEW r, r # Keycnt, NEW half, NEW j, j = IoWritten16(i, r, half)
  PROVE  /\ j.keycnt = i.keycnt
         /\ r # Dispcnt => j.dispcnt = i.dispcnt
         /\ r # Ie => j.ie = i.ie
         /\ r # If => j.flags = i.flags
         /\ r # Waitcnt => j.waitcnt = i.waitcnt
         /\ r # Ime => j.ime = i.ime
         /\ r # SourceLow => j.source[1] = i.source[1]
         /\ r # SourceLow + 2 => j.source[2] = i.source[2]
<1>0. /\ i = [dispcnt |-> i.dispcnt, source |-> i.source, fifo |-> i.fifo,
              waitcnt |-> i.waitcnt, ie |-> i.ie, flags |-> i.flags, ime |-> i.ime,
              keys |-> i.keys, keycnt |-> i.keycnt]
      /\ i.source = [n \in 1 .. 2 |-> i.source[n]]
      /\ i.flags = [n \in 1 .. 2 |-> i.flags[n]]
  BY FieldsAre
<1>1. CASE r = Dispcnt
  <2>1. j = [i EXCEPT !.dispcnt = half]
    BY <1>1 DEF IoWritten16
  <2>2. QED
    BY <1>0, <1>1, <2>1
<1>2. CASE r = Ie
  <2>1. PICK e : e = Supported(half)
    OBVIOUS
  <2>2. j = [i EXCEPT !.ie = e]
    BY <1>2, <2>1, RegistersAre DEF IoWritten16
  <2>3. QED
    BY <1>0, <1>2, <2>2
<1>3. CASE r = If
  <2>1. PICK f : f = <<Minus(i.flags[1], half[1]), Minus(i.flags[2], half[2] % 2)>>
    OBVIOUS
  <2>2. j = [i EXCEPT !.flags = f]
    BY <1>3, <2>1, RegistersAre DEF IoWritten16, Acknowledged
  <2>3. QED
    BY <1>0, <1>3, <2>2
<1>4. CASE r = Waitcnt
  <2>1. PICK v : v = <<half[1], half[2] % 2>>
    OBVIOUS
  <2>2. j = [i EXCEPT !.waitcnt = v]
    BY <1>4, <2>1, RegistersAre DEF IoWritten16
  <2>3. QED
    BY <1>0, <1>4, <2>2
<1>5. CASE r = Ime
  <2>1. PICK b : b = (half[1] % 2 = 1)
    OBVIOUS
  <2>2. j = [i EXCEPT !.ime = b]
    BY <1>5, <2>1, RegistersAre DEF IoWritten16
  <2>3. QED
    BY <1>0, <1>5, <2>2
<1>6. CASE r = SourceLow
  <2>1. PICK v : v = [i.source EXCEPT ![1] = half]
    OBVIOUS
  <2>2. j = [i EXCEPT !.source = v]
    BY <1>6, <2>1, RegistersAre DEF IoWritten16
  <2>3. v[2] = i.source[2]
    BY <1>0, <2>1
  <2>4. QED
    BY <1>0, <1>6, <2>2, <2>3
<1>8. CASE r = SourceLow + 2
  <2>1. PICK v : v = [i.source EXCEPT ![2] = half]
    OBVIOUS
  <2>2. j = [i EXCEPT !.source = v]
    BY <1>8, <2>1, RegistersAre DEF IoWritten16
  <2>3. v[1] = i.source[1]
    BY <1>0, <2>1
  <2>4. QED
    BY <1>0, <1>8, <2>2, <2>3
<1>7. CASE r \notin Registers
  <2>1. j = i
    BY <1>7 DEF IoWritten16, Registers
  <2>2. QED
    BY <2>1
<1>9. QED
  BY <1>1, <1>2, <1>3, <1>4, <1>5, <1>6, <1>7, <1>8 DEF Registers

\* A write of KEYCNT changes it and may request the keypad's interrupt.
LEMMA KeycntField ==
  ASSUME NEW i, IoShape(i), NEW half, NEW j, j = IoWritten16(i, Keycnt, half)
  PROVE  /\ j.keycnt = half /\ j.dispcnt = i.dispcnt /\ j.ie = i.ie /\ j.waitcnt = i.waitcnt
         /\ j.ime = i.ime /\ j.source = i.source
         /\ j.flags = i.flags \/ (j.flags[1] = i.flags[1] /\ j.flags[2] = 1)
<1>0. /\ i = [dispcnt |-> i.dispcnt, source |-> i.source, fifo |-> i.fifo,
              waitcnt |-> i.waitcnt, ie |-> i.ie, flags |-> i.flags, ime |-> i.ime,
              keys |-> i.keys, keycnt |-> i.keycnt]
      /\ i.source = [n \in 1 .. 2 |-> i.source[n]]
      /\ i.flags = [n \in 1 .. 2 |-> i.flags[n]]
  BY FieldsAre
<1>1. PICK k : k = [i EXCEPT !.keycnt = half]
  OBVIOUS
<1>2. j = Polled(k)
  BY <1>1, RegistersAre DEF IoWritten16, KeycntWritten
<1>3. PICK f : f = [i.flags EXCEPT ![2] = 1]
  OBVIOUS
<1>4. f[1] = i.flags[1] /\ f[2] = 1
  BY <1>0, <1>3
<1>5. k.flags = i.flags
  BY <1>0, <1>1
<1>6. j = k \/ j = [k EXCEPT !.flags = f]
  BY <1>2, <1>3, <1>5 DEF Polled
<1>7. QED
  BY <1>0, <1>1, <1>4, <1>6

\* The registers but r hold the same, IF aside when KEYCNT is written.
LEMMA WriteIsLocal ==
  ASSUME NEW i, IoShape(i), NEW r, NEW half, NEW j, j = IoWritten16(i, r, half),
         NEW o \in Registers, o # r
  PROVE  \/ Held(j, o) = Held(i, o)
         \/ o = If /\ r = Keycnt /\ j.flags[1] = i.flags[1] /\ j.flags[2] = 1
<1>1. CASE r = Keycnt
  <2>1. /\ j.dispcnt = i.dispcnt /\ j.ie = i.ie /\ j.waitcnt = i.waitcnt
        /\ j.ime = i.ime /\ j.source = i.source
        /\ j.flags = i.flags \/ (j.flags[1] = i.flags[1] /\ j.flags[2] = 1)
    BY <1>1, KeycntField
  <2>2. QED
    BY <1>1, <2>1, OthersHeld DEF Registers
<1>2. CASE r # Keycnt
  <2>1. /\ j.keycnt = i.keycnt
        /\ o = Dispcnt => j.dispcnt = i.dispcnt
        /\ o = Ie => j.ie = i.ie
        /\ o = If => j.flags = i.flags
        /\ o = Waitcnt => j.waitcnt = i.waitcnt
        /\ o = Ime => j.ime = i.ime
        /\ o = SourceLow => j.source[1] = i.source[1]
        /\ o = SourceLow + 2 => j.source[2] = i.source[2]
    BY <1>2, OneField
  <2>2. QED
    BY <2>1, OthersHeld DEF Registers
<1>3. QED
  BY <1>1, <1>2

\* A byte merged into a register that reads back what it holds leaves the byte
\* beside it.
LEMMA SiblingKept ==
  ASSUME NEW m, IoShape(m.io), NEW r \in Registers \ Rebuilt, NEW odd \in BOOLEAN, NEW b \in Byte,
         NEW h, h = Merged(m, r, odd, b), NEW j, j = IoWritten16(m.io, r, h)
  PROVE  IF odd THEN Held(j, r)[1] = Held(m.io, r)[1] ELSE Held(j, r)[2] = Held(m.io, r)[2]
<1>1. PICK i : i = m.io /\ IoShape(i)
  OBVIOUS
<1>2. PICK now \in Half : now = Held(i, r) /\ h = IF odd THEN <<now[1], b>> ELSE <<b, now[2]>>
  <2>1. IoRead16(i, r) = Held(i, r)
    BY DEF Held, Rebuilt
  <2>2. IoRead16(i, r) # <<>>
    <3>1. /\ i.dispcnt # <<>> /\ i.keycnt # <<>> /\ i.ie # <<>> /\ i.waitcnt # <<>>
          /\ <<IF i.ime THEN 1 ELSE 0, 0>> # <<>>
      <4>1. \A x \in Half : x # <<>>
        <5>1. 1 \in 1 .. 2 /\ DOMAIN <<>> = {}
          OBVIOUS
        <5>2. QED
          BY <5>1 DEF Half
      <4>2. QED
        BY <1>1, <4>1 DEF IoShape, IoShapes, Masked
    <3>2. QED
      BY <2>1, <3>1, HeldIs DEF Registers, Rebuilt
  <2>3. IoRead16(i, r) \in Half
    BY <1>1, <2>2, ReadIsHalf
  <2>4. QED
    BY <1>1, <2>1, <2>2, <2>3 DEF Merged
<1>3. now[1] \in Byte /\ now[2] \in Byte /\ h[1] = (IF odd THEN now[1] ELSE b)
      /\ h[2] = (IF odd THEN b ELSE now[2])
  <2>1. now[1] \in Byte /\ now[2] \in Byte
    BY SupportedIs
  <2>2. h[1] = IF odd THEN now[1] ELSE b
    BY <1>2
  <2>3. h[2] = IF odd THEN b ELSE now[2]
    BY <1>2
  <2>4. QED
    BY <2>1, <2>2, <2>3
<1>9. /\ i = [dispcnt |-> i.dispcnt, source |-> i.source, fifo |-> i.fifo,
              waitcnt |-> i.waitcnt, ie |-> i.ie, flags |-> i.flags, ime |-> i.ime,
              keys |-> i.keys, keycnt |-> i.keycnt]
      /\ i.source = [n \in 1 .. 2 |-> i.source[n]]
      /\ i.flags = [n \in 1 .. 2 |-> i.flags[n]]
  BY <1>1, FieldsAre
<1>4. CASE r = Dispcnt
  <2>1. j = [i EXCEPT !.dispcnt = h]
    BY <1>1, <1>4 DEF IoWritten16
  <2>2. j.dispcnt = h
    BY <1>9, <2>1
  <2>4. Held(j, r) = h
    BY <1>4, <2>2, HeldIs
  <2>3. QED
    BY <1>1, <1>2, <1>3, <2>4
<1>5. CASE r = Keycnt
  <2>1. j.keycnt = h
    BY <1>1, <1>5, KeycntField
  <2>3. Held(j, r) = h
    BY <1>5, <2>1, HeldIs
  <2>2. QED
    BY <1>1, <1>2, <1>3, <2>3
<1>6. CASE r = Ie \/ r = Waitcnt
  <2>1. PICK v : v = <<h[1], h[2] % 2>>
    OBVIOUS
  <2>2. Held(j, r) = v
    <3>1. CASE r = Ie
      <4>1. j = [i EXCEPT !.ie = v]
        BY <1>1, <2>1, <3>1, RegistersAre DEF IoWritten16, Supported
      <4>2. j.ie = v
        BY <1>9, <4>1
      <4>3. QED
        BY <3>1, <4>2, HeldIs
    <3>2. CASE r = Waitcnt
      <4>1. j = [i EXCEPT !.waitcnt = v]
        BY <1>1, <2>1, <3>2, RegistersAre DEF IoWritten16
      <4>2. j.waitcnt = v
        BY <1>9, <4>1
      <4>3. QED
        BY <3>2, <4>2, HeldIs
    <3>3. QED
      BY <1>6, <3>1, <3>2
  <2>3. now[2] \in {0, 1}
    BY <1>1, <1>2, <1>6, HeldIs DEF IoShape, IoShapes, Masked
  <2>4. now[2] % 2 = now[2]
    BY <2>3
  <2>5. v[1] = h[1] /\ v[2] = h[2] % 2
    BY <2>1
  <2>6. QED
    BY <1>1, <1>2, <1>3, <2>2, <2>4, <2>5
<1>7. CASE r = Ime
  <2>1. PICK e \in BOOLEAN : e = (h[1] % 2 = 1)
    OBVIOUS
  <2>2. j = [i EXCEPT !.ime = e]
    BY <1>1, <1>7, <2>1, RegistersAre DEF IoWritten16
  <2>3. j.ime = e
    BY <1>9, <2>2
  <2>4. Held(j, r) = <<IF e THEN 1 ELSE 0, 0>> /\ now = <<IF i.ime THEN 1 ELSE 0, 0>>
    BY <1>2, <1>7, <2>3, HeldIs
  <2>5. i.ime \in BOOLEAN
    BY <1>1 DEF IoShape, IoShapes
  <2>6. CASE odd
    <3>1. h[1] = IF i.ime THEN 1 ELSE 0
      BY <1>3, <2>4, <2>6
    <3>2. e = i.ime
      BY <2>1, <2>5, <3>1
    <3>3. QED
      BY <1>1, <1>2, <2>4, <2>6, <3>2
  <2>7. CASE ~odd
    BY <1>1, <1>2, <2>4, <2>7
  <2>8. QED
    BY <2>6, <2>7
<1>8. QED
  BY <1>4, <1>5, <1>6, <1>7 DEF Registers, Rebuilt

LEMMA LowHalf ==
  ASSUME NEW w \in [1 .. 4 -> Byte]
  PROVE  SubSeq(w, 1, 2) \in Half
<1> DEFINE low == SubSeq(w, 1, 2)
<1>1. w \in Seq(Byte) /\ Len(w) = 4
  <2>1. 4 \in Nat
    OBVIOUS
  <2>2. w \in Seq(Byte)
    BY <2>1, SeqDef
  <2>3. QED
    BY <2>2, LenProperties
<1>2. low \in Seq(Byte) /\ Len(low) = 2 /\ \A n \in 1 .. 2 : low[n] = w[1 + n - 1]
  BY <1>1, SubSeqProperties
<1>3. low = <<w[1], w[2]>>
  <2> HIDE DEF low
  <2>1. low[1] = w[1] /\ low[2] = w[2]
    BY <1>2
  <2>2. QED
    BY <1>2, <2>1
<1>4. QED
  BY <1>3, Pairs DEF Half

LEMMA WordIsLocal ==
  ASSUME NEW i, IoShape(i), NEW r \in Nat, r % 4 = 0, NEW w \in [1 .. 4 -> Byte],
         NEW j, j = IoWritten32(i, r, w), NEW o \in Registers, o # r, o # r + 2
  PROVE  \/ Held(j, o) = Held(i, o)
         \/ o = If /\ r + 2 = Keycnt /\ j.flags[1] = i.flags[1] /\ j.flags[2] = 1
<1>0. PICK low, high : low = SubSeq(w, 1, 2) /\ high = SubSeq(w, 3, 4)
  OBVIOUS
<1>1. PICK first : first = IF r \in Writable THEN IoWritten16(i, r, low) ELSE i
  OBVIOUS
<1>2. r # Keycnt /\ low \in Half
  BY <1>0, LowHalf DEF Keycnt
<1>3. IoShape(first) /\ Held(first, o) = Held(i, o)
  <2>1. CASE r \in Writable
    <3>1. first = IoWritten16(i, r, low)
      BY <1>1, <2>1
    <3>2. IoShape(first)
      BY <1>2, <3>1, WriteKeeps
    <3>3. QED
      BY <1>2, <3>1, <3>2, WriteIsLocal
  <2>2. CASE r \notin Writable
    BY <1>1, <2>2
  <2>3. QED
    BY <2>1, <2>2
<1>4. CASE r \in {Ime, Waitcnt}
  <2>1. j = IoWritten16(i, r, low)
    BY <1>0, <1>4 DEF IoWritten32
  <2>2. QED
    BY <1>2, <2>1, WriteIsLocal
<1>5. CASE r \notin {Ime, Waitcnt} /\ r = Fifo
  <2>1. PICK n : n = (i.fifo + 1) % 2
    OBVIOUS
  <2>2. j = [i EXCEPT !.fifo = n]
    BY <1>5, <2>1 DEF IoWritten32
  <2>3. /\ j.dispcnt = i.dispcnt /\ j.ie = i.ie /\ j.waitcnt = i.waitcnt /\ j.ime = i.ime
        /\ j.flags = i.flags /\ j.keycnt = i.keycnt /\ j.source = i.source
    BY <2>2, FieldsAre
  <2>4. QED
    BY <2>3, OthersHeld DEF Registers
<1>6. CASE r \notin {Ime, Waitcnt, Fifo} /\ r + 2 \in Writable
  <2>1. j = IoWritten16(first, r + 2, high)
    BY <1>0, <1>1, <1>6 DEF IoWritten32
  <2>2. \/ Held(j, o) = Held(first, o)
        \/ o = If /\ r + 2 = Keycnt /\ j.flags[1] = first.flags[1] /\ j.flags[2] = 1
    BY <1>3, <2>1, WriteIsLocal
  <2>3. o = If => first.flags = i.flags
    BY <1>3, HeldIs
  <2>4. QED
    BY <1>3, <2>2, <2>3
<1>7. CASE r \notin {Ime, Waitcnt, Fifo} /\ r + 2 \notin Writable
  <2>1. j = first
    BY <1>0, <1>1, <1>7 DEF IoWritten32
  <2>2. QED
    BY <1>3, <2>1
<1>8. QED
  BY <1>4, <1>5, <1>6, <1>7

\* The bytes of register o outside the touched places are the same in i and j,
\* but for the keypad's request that KEYCNT has raised.
Same(i, j, o, touched) ==
  \A k \in {0, 1} : <<"io", o + k>> \notin touched =>
    \/ Held(j, o)[k + 1] = Held(i, o)[k + 1]
    \/ k = 1 /\ KeypadRaised(j, o, touched)

\* What differs between the buses m and w lies at the touched places.
Confined(m, w, touched) ==
  /\ RamShape(w.ram)
  /\ \A r \in Rams : \A i \in 0 .. SizeOfRam(r) - 1 :
       <<r, i>> \notin touched => w.ram[r][i] = m.ram[r][i]
  /\ \A o \in Registers : Same(m.io, w.io, o, touched)

LEMMA SameTwice ==
  ASSUME NEW i, NEW x, NEW j, NEW o \in Registers, NEW touched,
         Same(i, x, o, touched), Same(x, j, o, touched)
  PROVE  Same(i, j, o, touched)
<1>1. SUFFICES ASSUME NEW k \in {0, 1}, <<"io", o + k>> \notin touched,
                      ~(k = 1 /\ KeypadRaised(j, o, touched))
               PROVE  Held(j, o)[k + 1] = Held(i, o)[k + 1]
  BY DEF Same
<1>2. Held(j, o)[k + 1] = Held(x, o)[k + 1]
  BY <1>1 DEF Same
<1>3. ~(k = 1 /\ KeypadRaised(x, o, touched))
  <2>1. SUFFICES ASSUME k = 1, KeypadRaised(x, o, touched) PROVE KeypadRaised(j, o, touched)
    BY <1>1
  <2>2. o = If /\ x.flags[2] = 1
    BY <2>1 DEF KeypadRaised, KeypadRequested
  <2>3. j.flags[2] = x.flags[2]
    BY <1>2, <2>1, <2>2, HeldIs
  <2>4. QED
    BY <2>1, <2>2, <2>3 DEF KeypadRaised, KeypadRequested
<1>4. Held(x, o)[k + 1] = Held(i, o)[k + 1]
  BY <1>1, <1>3 DEF Same
<1>5. QED
  BY <1>2, <1>4

\* Where a register holds the same, or is IF raised by KEYCNT.
LEMMA SameIf ==
  ASSUME NEW i, NEW j, NEW o \in Registers, NEW touched,
         \/ Held(j, o) = Held(i, o)
         \/ /\ o = If /\ j.flags[1] = i.flags[1] /\ j.flags[2] = 1
            /\ {<<"io", Keycnt>>, <<"io", Keycnt + 1>>} \cap touched # {}
  PROVE  Same(i, j, o, touched)
<1>1. CASE Held(j, o) = Held(i, o)
  BY <1>1 DEF Same
<1>2. CASE /\ o = If /\ j.flags[1] = i.flags[1] /\ j.flags[2] = 1
           /\ {<<"io", Keycnt>>, <<"io", Keycnt + 1>>} \cap touched # {}
  <2>1. KeypadRaised(j, o, touched)
    BY <1>2 DEF KeypadRaised, KeypadRequested
  <2>2. Held(j, o)[0 + 1] = Held(i, o)[0 + 1]
    BY <1>2, HeldIs
  <2>3. QED
    BY <2>1, <2>2 DEF Same
<1>3. QED
  BY <1>1, <1>2

LEMMA SameItself == ASSUME NEW i, NEW o, NEW touched PROVE Same(i, i, o, touched)
BY DEF Same

LEMMA ConfinedTwice ==
  ASSUME NEW m, NEW x, NEW w, NEW touched, Confined(m, x, touched), Confined(x, w, touched)
  PROVE  Confined(m, w, touched)
BY SameTwice DEF Confined

LEMMA ConfinedToIo ==
  ASSUME NEW m, NEW w, NEW touched, RamShape(m.ram), w.ram = m.ram,
         \A o \in Registers : Same(m.io, w.io, o, touched)
  PROVE  Confined(m, w, touched)
BY DEF Confined

LEMMA ConfinedItself ==
  ASSUME NEW m, RamShape(m.ram), NEW touched PROVE Confined(m, m, touched)
BY SameItself DEF Confined

\* One region of RAM changes, where f says.
LEMMA ConfinedToRam ==
  ASSUME NEW m, IsBus(m), RamShape(m.ram), NEW r \in Rams, NEW touched, NEW f, NEW w,
         w = [m EXCEPT !.ram[r] = [i \in 0 .. SizeOfRam(r) - 1 |-> f[i]]],
         \A i \in 0 .. SizeOfRam(r) - 1 : <<r, i>> \notin touched => f[i] = m.ram[r][i]
  PROVE  Confined(m, w, touched)
<1>1. PICK g : g = [i \in 0 .. SizeOfRam(r) - 1 |-> f[i]]
  OBVIOUS
<1>2. PICK h : h = [m.ram EXCEPT ![r] = g]
  OBVIOUS
<1>3. w = [ram |-> h, io |-> m.io]
  BY <1>1, <1>2 DEF IsBus
<1>4. w.ram = h /\ w.io = m.io
  BY <1>3
<1>5. ASSUME NEW s \in Rams PROVE h[s] = IF s = r THEN g ELSE m.ram[s]
  BY <1>2 DEF RamShape
<1>6. ASSUME NEW s \in Rams PROVE h[s] = [i \in 0 .. SizeOfRam(s) - 1 |-> h[s][i]]
  <2>1. CASE s = r
    <3>1. h[s] = g /\ g = [i \in 0 .. SizeOfRam(s) - 1 |-> g[i]]
      BY <1>1, <1>5, <2>1
    <3>2. QED
      BY <3>1
  <2>2. CASE s # r
    <3>1. h[s] = m.ram[s] /\ m.ram[s] = [i \in 0 .. SizeOfRam(s) - 1 |-> m.ram[s][i]]
      BY <1>5, <2>2 DEF RamShape
    <3>2. QED
      BY <3>1
  <2>3. QED
    BY <2>1, <2>2
<1>7. RamShape(h)
  <2>1. h = [s \in Rams |-> h[s]]
    BY <1>2 DEF RamShape
  <2>2. QED
    BY <1>6, <2>1 DEF RamShape
<1>8. ASSUME NEW s \in Rams, NEW i \in 0 .. SizeOfRam(s) - 1, <<s, i>> \notin touched
      PROVE  h[s][i] = m.ram[s][i]
  <2>1. CASE s = r
    <3>1. h[s][i] = f[i]
      BY <1>1, <1>5, <2>1
    <3>2. QED
      BY <1>8, <2>1, <3>1
  <2>2. CASE s # r
    BY <1>5, <2>2
  <2>3. QED
    BY <2>1, <2>2
<1>9. QED
  BY <1>4, <1>7, <1>8, SameItself DEF Confined

\* The touched places include all that a byte store at x may change.
Covers(touched, x) ==
  /\ Region(x) \in {"ewram", "iwram"} => <<Region(x), Offset(x)>> \in touched
  /\ Region(x) \in {"palette", "vram"} => \A i \in DoubledAt(Offset(x)) : <<Region(x), i>> \in touched
  /\ Region(x) = "io" =>
       /\ <<"io", Offset(x)>> \in touched
       /\ Offset(x) - (Offset(x) % 2) \in Rebuilt =>
            \A k \in {0, 1} : <<"io", Offset(x) - (Offset(x) % 2) + k>> \in touched

\* The lanes of an address of IO.
LEMMA SameLane ==
  ASSUME NEW a \in Nat, Region(a) = "io"
  PROVE  Offset(a) \in Nat /\ Offset(a) % 2 = a % 2
<1>1. Span \in Nat \ {0} /\ Span % 4 = 0 /\ a \in Int /\ 2 \in {2, 4}
  BY BusSizes
<1>2. (a % Span) % 2 = a % 2
  BY <1>1, SameAlignment
<1>3. Offset(a) = a % Span /\ a % Span \in 0 .. Span - 1
  BY <1>1, Division DEF Offset, Rams
<1>4. QED
  BY <1>1, <1>2, <1>3

LEMMA ByteIsConfined ==
  ASSUME NEW m, IsBus(m), RamShape(m.ram), NEW x \in Nat, NEW b \in Byte, NEW touched,
         Covers(touched, x)
  PROVE  Confined(m, Written8(m, x, b), touched)
<1> DEFINE w == Written8(m, x, b)
<1>1. CASE Region(x) = "io"
  <2>1. PICK o \in Nat : o = Offset(x)
    <3>1. Span \in Nat \ {0} /\ x \in Int
      BY BusSizes
    <3>2. x % Span \in 0 .. Span - 1
      BY <3>1, Division
    <3>3. QED
      BY <1>1, <3>1, <3>2 DEF Offset, Rams
  <2>2. PICK half \in Nat : half = o - (o % 2) /\ half % 2 = 0 /\ (o = half \/ o = half + 1)
    <3>1. o - (o % 2) \in Nat /\ (o - (o % 2)) % 2 = 0
          /\ (o = o - (o % 2) \/ o = o - (o % 2) + 1)
      OBVIOUS
    <3>2. QED
      BY <3>1
  <2>3. PICK h : h = Merged(m, half, x % 2 = 1, b)
    OBVIOUS
  <2>4. PICK j : j = IoWritten16(m.io, half, h)
    OBVIOUS
  <2>5. w = [m EXCEPT !.io = j]
    BY <1>1, <2>1, <2>2, <2>3, <2>4 DEF Written8
  <2>6. w.ram = m.ram /\ w.io = j
    BY <2>5 DEF IsBus
  <2>7. ASSUME NEW r \in Registers PROVE Same(m.io, j, r, touched)
    <3>1. <<"io", o>> \in touched
      BY <1>1, <2>1 DEF Covers
    <3>2. CASE half # r
      <4>1. \/ Held(j, r) = Held(m.io, r)
            \/ r = If /\ half = Keycnt /\ j.flags[1] = m.io.flags[1] /\ j.flags[2] = 1
        BY <2>4, <3>2, WriteIsLocal DEF IsBus
      <4>2. half = Keycnt => {<<"io", Keycnt>>, <<"io", Keycnt + 1>>} \cap touched # {}
        BY <2>2, <3>1
      <4>3. QED
        BY <4>1, <4>2, SameIf
    <3>3. CASE half = r /\ r \in Rebuilt
      <4>1. o - (o % 2) = r
        BY <2>2, <3>3
      <4>2. \A k \in {0, 1} : <<"io", r + k>> \in touched
        BY <1>1, <2>1, <3>3, <4>1 DEF Covers
      <4>3. QED
        BY <4>2 DEF Same
    <3>4. CASE half = r /\ r \notin Rebuilt
      <4>1. o % 2 = x % 2
        BY <1>1, <2>1, SameLane
      <4>2. PICK odd \in BOOLEAN : odd = (x % 2 = 1)
        OBVIOUS
      <4>3. o = IF odd THEN r + 1 ELSE r
        <5>1. r \in Nat /\ r % 2 = 0 /\ (o = r \/ o = r + 1)
          BY <2>2, <3>4, RegistersAre
        <5>2. o % 2 = IF o = r THEN 0 ELSE 1
          BY <5>1
        <5>3. CASE o = r
          <6>1. x % 2 # 1
            BY <4>1, <5>2, <5>3
          <6>2. QED
            BY <4>2, <5>3, <6>1
        <5>4. CASE o # r
          BY <4>1, <4>2, <5>1, <5>2, <5>4
        <5>5. QED
          BY <5>3, <5>4
      <4>4. IF odd THEN Held(j, r)[1] = Held(m.io, r)[1] ELSE Held(j, r)[2] = Held(m.io, r)[2]
        BY <2>3, <2>4, <3>4, <4>2, SiblingKept DEF IsBus
      <4>5. ASSUME NEW k \in {0, 1}, <<"io", r + k>> \notin touched
            PROVE  Held(j, r)[k + 1] = Held(m.io, r)[k + 1]
        <5>1. o # r + k
          BY <3>1, <4>5
        <5>2. k = IF odd THEN 0 ELSE 1
          BY <4>3, <5>1, RegistersAre
        <5>3. QED
          BY <4>4, <5>2
      <4>6. QED
        BY <4>5 DEF Same
    <3>5. QED
      BY <3>2, <3>3, <3>4
  <2> HIDE DEF w
  <2>8. QED
    BY <2>6, <2>7, ConfinedToIo DEF w
<1>2. CASE Region(x) \in {"ewram", "iwram"}
  <2>0. PICK o : o = Offset(x)
    OBVIOUS
  <2>1. PICK r \in Rams : r = Region(x) /\ o = Offset(x)
    BY <1>2, <2>0 DEF Rams
  <2>2. PICK f : f = [i \in 0 .. SizeOfRam(r) - 1 |-> IF i = o THEN b ELSE m.ram[r][i]]
    OBVIOUS
  <2>3. w = [m EXCEPT !.ram[r] = [i \in 0 .. SizeOfRam(r) - 1 |-> f[i]]]
    <3>1. w = [m EXCEPT !.ram[r][o] = b]
      BY <1>2, <2>1 DEF Written8
    <3>2. m.ram[r] = [i \in 0 .. SizeOfRam(r) - 1 |-> m.ram[r][i]]
      BY DEF RamShape
    <3>3. [m.ram[r] EXCEPT ![o] = b] = [i \in 0 .. SizeOfRam(r) - 1 |-> f[i]]
      BY <2>2, <3>2
    <3>4. QED
      BY <3>1, <3>3
  <2>4. \A i \in 0 .. SizeOfRam(r) - 1 : <<r, i>> \notin touched => f[i] = m.ram[r][i]
    BY <1>2, <2>1, <2>2 DEF Covers
  <2> HIDE DEF w
  <2>5. QED
    BY <2>3, <2>4, ConfinedToRam DEF w
<1>3. CASE Region(x) = "palette" \/ (Region(x) = "vram" /\ Offset(x) < ObjBase)
  <2>0. PICK o : o = Offset(x)
    OBVIOUS
  <2>1. PICK r \in Rams : r = Region(x) /\ o = Offset(x)
    BY <1>3, <2>0 DEF Rams
  <2>2. PICK f : f = [i \in 0 .. SizeOfRam(r) - 1 |-> IF i \in DoubledAt(o) THEN b ELSE m.ram[r][i]]
    OBVIOUS
  <2>3. w = [m EXCEPT !.ram[r] = [i \in 0 .. SizeOfRam(r) - 1 |-> f[i]]]
    <3>1. w = [m EXCEPT !.ram[r] = [i \in DOMAIN @ |-> IF i \in DoubledAt(o) THEN b ELSE @[i]]]
      BY <1>3, <2>1 DEF Written8
    <3>2. DOMAIN m.ram[r] = 0 .. SizeOfRam(r) - 1
      BY DEF RamShape
    <3>3. [i \in DOMAIN m.ram[r] |-> IF i \in DoubledAt(o) THEN b ELSE m.ram[r][i]]
            = [i \in 0 .. SizeOfRam(r) - 1 |-> f[i]]
      BY <2>2, <3>2
    <3>4. QED
      BY <3>1, <3>3
  <2>4. \A i \in 0 .. SizeOfRam(r) - 1 : <<r, i>> \notin touched => f[i] = m.ram[r][i]
    BY <1>3, <2>1, <2>2 DEF Covers
  <2> HIDE DEF w
  <2>5. QED
    BY <2>3, <2>4, ConfinedToRam DEF w
<1>4. CASE /\ Region(x) \notin {"io", "ewram", "iwram", "palette"}
           /\ ~(Region(x) = "vram" /\ Offset(x) < ObjBase)
  <2>1. w = m
    BY <1>4 DEF Written8
  <2>2. QED
    BY <2>1, ConfinedItself
<1>5. QED
  BY <1>1, <1>2, <1>3, <1>4

---------------------------------------------------------------------------
(* The places of a store.                                                   *)

\* The address h of the halfword of x, and its offset o.
Halfword(x, h, o) ==
  /\ h = x - (x % 2) /\ x \in {h, h + 1}
  /\ Region(h) = Region(x) /\ Offset(h) = o
  /\ Region(h + 1) = Region(x) /\ Offset(h + 1) = o + 1
  /\ o % 2 = 0 /\ Offset(x) - (Offset(x) % 2) = o

LEMMA OffsetIsEven ==
  ASSUME NEW h \in Nat, h % 2 = 0, Region(h) \in Rams
  PROVE  Offset(h) \in Int /\ Offset(h) % 2 = 0
<1>1. 2 \in {2, 4} /\ 0 \in 0 .. 2 - 1
  OBVIOUS
<1>2. PICK o \in Nat : o = h % Span /\ o % 2 = 0
  BY <1>1, NextInBank
<1>3. CASE Region(h) = "vram"
  <2>1. Offset(h) = VramOffset(o)
    BY <1>2, <1>3 DEF Offset
  <2>2. VramBank \in Nat \ {0} /\ VramBank % 4 = 0
    BY BusSizes
  <2>3. InBlock(VramBank, 2, o, 0)
    BY <1>1, <1>2, <2>2, Aligned
  <2>4. PICK i \in Nat : i = o % VramBank /\ i % 2 = 0
    BY <2>3 DEF InBlock
  <2>5. PICK v \in Nat, d \in Nat : v = VramSize /\ d = VramFold /\ d % 4 = 0
    BY BusSizes
  <2>6. VramOffset(o) = IF i >= v THEN i - d ELSE i
    BY <2>4, <2>5 DEF VramOffset
  <2>7. (i - d) % 2 = 0
    BY <2>4, <2>5
  <2>8. QED
    BY <2>1, <2>4, <2>5, <2>6, <2>7
<1>4. CASE Region(h) \in Rams \ {"vram"}
  <2>1. Offset(h) = o % RamSize
    BY <1>2, <1>4 DEF Offset
  <2>2. RamSize \in Nat \ {0} /\ RamSize % 4 = 0
    BY BusSizes
  <2>3. InBlock(RamSize, 2, o, 0)
    BY <1>1, <1>2, <2>2, Aligned
  <2>4. QED
    BY <2>1, <2>3 DEF InBlock
<1>5. QED
  BY <1>3, <1>4

LEMMA HalfwordOf ==
  ASSUME NEW x \in Nat, Region(x) \in Rams
  PROVE  \E h \in Nat, o \in Int : Halfword(x, h, o)
<1>1. PICK h \in Nat, k \in 0 .. 2 - 1 : h = x - (x % 2) /\ k = x % 2 /\ h % 2 = 0 /\ x = h + k
  <2>1. /\ x - (x % 2) \in Nat /\ x % 2 \in 0 .. 2 - 1 /\ (x - (x % 2)) % 2 = 0
        /\ x = (x - (x % 2)) + (x % 2)
    OBVIOUS
  <2>2. QED
    BY <2>1
<1>2. 2 \in {2, 4} /\ 1 \in 0 .. 2 - 1
  OBVIOUS
<1>3. Bank(h + k) = Bank(h)
  BY <1>1, <1>2, NextInBank
<1>4. Region(h) = Region(x)
  BY <1>1, <1>3, OneRegion DEF Direction
<1>5. Region(h) \in Direction
  BY <1>4 DEF Direction
<1>6. Region(h + 1) = Region(h) /\ Offset(h + 1) = Offset(h) + 1
  BY <1>1, <1>2, <1>5, NextOffset
<1>7. Offset(h + k) = Offset(h) + k
  BY <1>1, <1>2, <1>5, NextOffset
<1>8. PICK o \in Int : o = Offset(h) /\ o % 2 = 0
  BY <1>1, <1>4, OffsetIsEven
<1>9. Offset(x) - (Offset(x) % 2) = o
  <2>1. Offset(x) = o + k
    BY <1>1, <1>7, <1>8
  <2>2. k = 0 \/ k = 1
    BY <1>1
  <2>3. QED
    BY <1>8, <2>1, <2>2
<1>10. x \in {h, h + 1}
  BY <1>1
<1>11. Halfword(x, h, o)
  BY <1>1, <1>4, <1>6, <1>8, <1>9, <1>10 DEF Halfword
<1>12. QED
  BY <1>11

\* A store outside IO covers each of its bytes.
LEMMA BytesAreCovered ==
  ASSUME NEW a \in Nat, Region(a) # "io", NEW n \in {1, 2, 4}, NEW k \in 0 .. n - 1
  PROVE  /\ Covers(Places(Footprint(a, n)), a + k)
         /\ Region(a + k) \in Rams => <<Region(a + k), Offset(a + k)>> \in Places(Footprint(a, n))
<1>1. PICK x \in Nat : x = a + k /\ x \in a .. a + n - 1
  BY SMTT(30)
<1>2. PICK F : F = Footprint(a, n)
  OBVIOUS
<1>3. Lanes(x) \subseteq F
  BY <1>1, <1>2 DEF Footprint
<1>4. ASSUME NEW y \in F PROVE <<Region(y), Offset(y)>> \in Places(F)
  BY DEF Places
<1>5. CASE Region(x) \in {"palette", "vram", "oam"}
  <2>1. Region(x) \in Rams
    BY <1>5 DEF Rams
  <2>2. PICK h \in Nat, o \in Int : Halfword(x, h, o)
    BY <2>1, HalfwordOf
  <2>3. h \in F /\ h + 1 \in F /\ x \in F
    BY <1>3, <1>5, <2>2 DEF Halfword, Lanes
  <2>4. <<Region(h), Offset(h)>> \in Places(F) /\ <<Region(h + 1), Offset(h + 1)>> \in Places(F)
    BY <1>4, <2>3
  <2>5. <<Region(x), o>> \in Places(F) /\ <<Region(x), o + 1>> \in Places(F)
    BY <2>2, <2>4 DEF Halfword
  <2>6. DoubledAt(Offset(x)) = {o, o + 1}
    BY <2>2 DEF DoubledAt, Halfword
  <2>7. Covers(Places(F), x)
    BY <1>5, <2>5, <2>6 DEF Covers
  <2>8. QED
    BY <1>1, <1>2, <1>4, <2>3, <2>7
<1>6. CASE Region(x) \notin {"palette", "vram", "oam"}
  <2>1. <<Region(x), Offset(x)>> \in Places(F)
    <3>1. x \in {x - (x % 2), x - (x % 2) + 1}
      OBVIOUS
    <3>2. x \in Lanes(x)
      BY <3>1 DEF Lanes
    <3>3. QED
      BY <1>3, <1>4, <3>2
  <2>2. Region(x) = "io" => Offset(x) - (Offset(x) % 2) \notin Rebuilt
    <3>1. SUFFICES ASSUME Region(x) = "io" PROVE Offset(x) - (Offset(x) % 2) \notin Rebuilt
      OBVIOUS
    <3>2. k \in 0 .. 3
      OBVIOUS
    <3>3. x % Span \in 0 .. 2
      BY <1>1, <3>1, <3>2, CrossesAtStart
    <3>4. Offset(x) \in 0 .. 2
      BY <3>1, <3>3 DEF Offset, Rams
    <3>5. QED
      BY <3>4, RegistersAre DEF Rebuilt
  <2>3. Covers(Places(F), x)
    BY <1>6, <2>1, <2>2 DEF Covers
  <2>4. QED
    BY <1>1, <1>2, <2>1, <2>3
<1>7. QED
  BY <1>5, <1>6

\* The aligned block of n bytes around an address of IO: where it lies.
LEMMA IoBlock ==
  ASSUME NEW a \in Nat, Region(a) = "io", NEW n \in {2, 4}
  PROVE  \E b \in Nat, r \in Nat :
           /\ b = a - (a % n) /\ r = Offset(a) - (a % n) /\ r % n = 0
           /\ Offset(a) = r + (a % n) /\ a % n \in 0 .. n - 1
           /\ \A k \in 0 .. n - 1 : r + k <= IoEnd => Region(b + k) = "io" /\ Offset(b + k) = r + k
           /\ Region(b) = "io" /\ Offset(b) = r
<1>1. PICK b \in Nat, j \in 0 .. n - 1 : b = a - (a % n) /\ j = a % n /\ b % n = 0 /\ a = b + j
  <2>1. /\ a - (a % n) \in Nat /\ a % n \in 0 .. n - 1 /\ (a - (a % n)) % n = 0
        /\ a = (a - (a % n)) + (a % n)
    OBVIOUS
  <2>2. QED
    BY <2>1
<1>2. PICK r \in Nat : r = b % Span /\ r % n = 0
  <2>1. b % Span \in Nat /\ (b % Span) % n = 0
    BY <1>1, NextInBank
  <2>2. QED
    BY <2>1
<1>3. ASSUME NEW k \in 0 .. n - 1
      PROVE  b + k \in Nat /\ Bank(b + k) = Bank(b) /\ (b + k) % Span = r + k
  BY <1>1, <1>2, <1>3, NextInBank, SMTT(30), ZenonT(60)
<1>4. Offset(a) = r + j
  <2>1. Offset(a) = a % Span
    BY DEF Offset, Rams
  <2>2. (b + j) % Span = r + j
    BY <1>3
  <2>3. QED
    BY <1>1, <2>1, <2>2
<1>5. Bank(b) = 4 /\ r + j <= IoEnd
  <2>1. a \div Span = 4 /\ a % Span <= IoEnd
    BY IoRegion
  <2>2. Bank(b + j) = Bank(b) /\ (b + j) % Span = r + j
    BY <1>3
  <2>3. QED
    BY <1>1, <2>1, <2>2 DEF Bank
<1>6. ASSUME NEW k \in 0 .. n - 1, r + k <= IoEnd
      PROVE  Region(b + k) = "io" /\ Offset(b + k) = r + k
  <2>1. b + k \in Nat /\ (b + k) \div Span = 4 /\ (b + k) % Span = r + k
    BY <1>3, <1>5 DEF Bank
  <2>2. Region(b + k) = "io"
    BY <1>6, <2>1, IoRegion
  <2>3. QED
    BY <2>1, <2>2 DEF Offset, Rams
<1>7. r + 0 <= IoEnd /\ 0 \in 0 .. n - 1 /\ b + 0 = b /\ r + 0 = r
  BY <1>1, <1>2, <1>5, BusSizes
<1>8. Region(b) = "io" /\ Offset(b) = r
  BY <1>6, <1>7
<1>9. Offset(a) - (a % n) = r
  BY <1>1, <1>2, <1>4
<1>10. QED
  BY <1>1, <1>2, <1>4, <1>6, <1>8, <1>9

\* A byte store to IO covers its byte, and the halfword of a rebuilt register.
LEMMA IoByteIsCovered ==
  ASSUME NEW a \in Nat, Region(a) = "io"
  PROVE  Covers(Places(Footprint(a, 1)), a)
<1>1. PICK F : F = Footprint(a, 1)
  OBVIOUS
<1>2. ASSUME NEW y \in F PROVE <<Region(y), Offset(y)>> \in Places(F)
  BY DEF Places
<1>3. 2 \in {2, 4} /\ 0 \in 0 .. 2 - 1 /\ 1 \in 0 .. 2 - 1
  OBVIOUS
<1>4. PICK b \in Nat, r \in Nat :
        /\ b = a - (a % 2) /\ r = Offset(a) - (a % 2)
        /\ \A k \in 0 .. 2 - 1 : r + k <= IoEnd => Region(b + k) = "io" /\ Offset(b + k) = r + k
  <2>1. PICK n \in {2, 4} : n = 2
    BY <1>3
  <2>2. PICK b \in Nat, r \in Nat :
          /\ b = a - (a % n) /\ r = Offset(a) - (a % n) /\ r % n = 0
          /\ Offset(a) = r + (a % n) /\ a % n \in 0 .. n - 1
          /\ \A k \in 0 .. n - 1 : r + k <= IoEnd => Region(b + k) = "io" /\ Offset(b + k) = r + k
          /\ Region(b) = "io" /\ Offset(b) = r
    BY IoBlock
  <2>3. QED
    BY <2>1, <2>2
<1>5. Lanes(a) \subseteq F
  <2>1. a .. a + 1 - 1 = {a}
    OBVIOUS
  <2>2. F = UNION {Lanes(x) : x \in a .. a + 1 - 1}
    BY <1>1 DEF Footprint
  <2>3. QED
    BY <2>1, <2>2
<1>6. <<"io", Offset(a)>> \in Places(F)
  <2>1. a \in {a - (a % 2), a - (a % 2) + 1}
    OBVIOUS
  <2>2. a \in F
    BY <1>5, <2>1 DEF Lanes
  <2>3. QED
    BY <1>2, <2>2
<1>7. Offset(a) - (Offset(a) % 2) = r
  BY <1>4, SameLane
<1>8. ASSUME r \in Rebuilt, NEW k \in {0, 1} PROVE <<"io", r + k>> \in Places(F)
  <2>1. b + k \in F
    <3>1. {b, b + 1} \subseteq F
      BY <1>4, <1>5, <1>8 DEF Lanes
    <3>2. b + 0 = b
      OBVIOUS
    <3>3. QED
      BY <3>1, <3>2
  <2>2. r + k <= IoEnd
    BY <1>8, RegistersAre, BusSizes DEF Rebuilt
  <2>3. Region(b + k) = "io" /\ Offset(b + k) = r + k
    BY <1>3, <1>4, <2>2
  <2>4. QED
    BY <1>2, <2>1, <2>3
<1>9. QED
  BY <1>1, <1>6, <1>7, <1>8 DEF Covers

\* A wide store to IO covers the registers of its block.
LEMMA IoBlockIsCovered ==
  ASSUME NEW a \in Nat, Region(a) = "io", NEW n \in {2, 4}
  PROVE  \E r \in Nat :
           /\ r = Offset(a) - (a % n) /\ r % n = 0
           /\ \A k \in 0 .. n - 1 : r + k <= IoEnd => <<"io", r + k>> \in Places(Footprint(a, n))
<1>1. PICK F : F = Footprint(a, n)
  OBVIOUS
<1>2. PICK b \in Nat, r \in Nat :
        /\ b = a - (a % n) /\ r = Offset(a) - (a % n) /\ r % n = 0
        /\ Offset(a) = r + (a % n) /\ a % n \in 0 .. n - 1
        /\ \A k \in 0 .. n - 1 : r + k <= IoEnd => Region(b + k) = "io" /\ Offset(b + k) = r + k
        /\ Region(b) = "io" /\ Offset(b) = r
  BY IoBlock
<1>3. F = {b + k : k \in 0 .. n - 1}
  <2>1. F = {a - (a % n) + k : k \in 0 .. n - 1}
    <3>1. n > 1
      OBVIOUS
    <3>2. Footprint(a, n) = {a - (a % n) + k : k \in 0 .. n - 1}
      BY <3>1, SMTT(30) DEF Footprint
    <3>3. QED
      BY <1>1, <3>2
  <2>2. QED
    BY <1>2, <2>1
<1>4. ASSUME NEW k \in 0 .. n - 1, r + k <= IoEnd PROVE <<"io", r + k>> \in Places(F)
  BY <1>2, <1>3, <1>4 DEF Places
<1>5. QED
  BY <1>1, <1>2, <1>4

\* A wide store to IO leaves the registers beside its block alone.
LEMMA IoHalfIsConfined ==
  ASSUME NEW m, IsBus(m), RamShape(m.ram), NEW a \in Nat, Region(a) = "io", NEW half, NEW w,
         w = [m EXCEPT !.io = IoWritten16(@, Offset(a) - (a % 2), half)]
  PROVE  Confined(m, w, Places(Footprint(a, 2)))
<1>1. PICK T : T = Places(Footprint(a, 2))
  OBVIOUS
<1>2. 2 \in {2, 4} /\ 0 \in 0 .. 2 - 1 /\ 1 \in 0 .. 2 - 1
  OBVIOUS
<1>3. PICK r \in Nat :
        /\ r = Offset(a) - (a % 2)
        /\ \A k \in 0 .. 2 - 1 : r + k <= IoEnd => <<"io", r + k>> \in T
  BY <1>1, <1>2, IoBlockIsCovered
<1>4. PICK j : j = IoWritten16(m.io, r, half)
  OBVIOUS
<1>5. w.ram = m.ram /\ w.io = j
  BY <1>3, <1>4 DEF IsBus
<1>6. ASSUME NEW o \in Registers, o = r, NEW k \in {0, 1} PROVE <<"io", o + k>> \in T
  <2>1. o + k <= IoEnd /\ k \in 0 .. 2 - 1
    BY RegistersAre, BusSizes
  <2>2. QED
    BY <1>3, <1>6, <2>1
<1>7. ASSUME NEW o \in Registers PROVE Same(m.io, j, o, T)
  <2>1. CASE o = r
    BY <1>6, <2>1 DEF Same
  <2>2. CASE o # r
    <3>1. \/ Held(j, o) = Held(m.io, o)
          \/ o = If /\ r = Keycnt /\ j.flags[1] = m.io.flags[1] /\ j.flags[2] = 1
      BY <1>4, <2>2, WriteIsLocal DEF IsBus
    <3>2. r = Keycnt => <<"io", Keycnt>> \in T
      <4>1. Keycnt \in Registers /\ 0 \in {0, 1} /\ Keycnt + 0 = Keycnt
        BY RegistersAre DEF Registers
      <4>2. QED
        BY <1>6, <4>1
    <3>3. QED
      BY <3>1, <3>2, SameIf
  <2>3. QED
    BY <2>1, <2>2
<1>8. QED
  BY <1>1, <1>5, <1>7, ConfinedToIo

LEMMA IoWordIsConfined ==
  ASSUME NEW m, IsBus(m), RamShape(m.ram), NEW a \in Nat, Region(a) = "io",
         NEW word \in [1 .. 4 -> Byte], NEW w,
         w = [m EXCEPT !.io = IoWritten32(@, Offset(a) - (a % 4), word)]
  PROVE  Confined(m, w, Places(Footprint(a, 4)))
<1>1. PICK T : T = Places(Footprint(a, 4))
  OBVIOUS
<1>2. 4 \in {2, 4}
  OBVIOUS
<1>3. PICK r \in Nat :
        /\ r = Offset(a) - (a % 4) /\ r % 4 = 0
        /\ \A k \in 0 .. 4 - 1 : r + k <= IoEnd => <<"io", r + k>> \in T
  BY <1>1, <1>2, IoBlockIsCovered
<1>4. PICK j : j = IoWritten32(m.io, r, word)
  OBVIOUS
<1>5. w.ram = m.ram /\ w.io = j
  BY <1>3, <1>4 DEF IsBus
<1>6. ASSUME NEW o \in Registers, o = r \/ o = r + 2, NEW k \in {0, 1}
      PROVE  <<"io", o + k>> \in T
  <2>1. PICK d \in {0, 2} : o = r + d
    BY <1>6
  <2>2. o + k <= IoEnd
    BY RegistersAre, BusSizes
  <2>4. o + k = r + (d + k) /\ d + k \in 0 .. 4 - 1
    BY <2>1
  <2>3. QED
    BY <1>3, <2>2, <2>4
<1>7. ASSUME NEW o \in Registers PROVE Same(m.io, j, o, T)
  <2>1. CASE o = r \/ o = r + 2
    BY <1>6, <2>1 DEF Same
  <2>2. CASE o # r /\ o # r + 2
    <3>1. \/ Held(j, o) = Held(m.io, o)
          \/ o = If /\ r + 2 = Keycnt /\ j.flags[1] = m.io.flags[1] /\ j.flags[2] = 1
      <4>1. IoShape(m.io) /\ r % 4 = 0
        BY <1>3 DEF IsBus
      <4>2. QED
        BY <1>4, <2>2, <4>1, WordIsLocal
    <3>2. r + 2 = Keycnt => <<"io", Keycnt>> \in T
      <4>1. Keycnt \in Registers /\ 0 \in {0, 1} /\ Keycnt + 0 = Keycnt
        BY RegistersAre DEF Registers
      <4>2. QED
        BY <1>6, <4>1
    <3>3. QED
      BY <3>1, <3>2, SameIf
  <2>3. QED
    BY <2>1, <2>2
<1>8. QED
  BY <1>1, <1>5, <1>7, ConfinedToIo

---------------------------------------------------------------------------
(* A store is confined to its places.                                       *)

LEMMA DirectIsConfined ==
  ASSUME NEW m, IsBus(m), RamShape(m.ram), NEW n \in {2, 4}, NEW a \in Nat, a % n = 0,
         Region(a) \in {"palette", "vram", "oam"}, NEW value, NEW w,
         w = [m EXCEPT !.ram[Region(a)] = [i \in DOMAIN @ |->
                IF i \in Offset(a) .. Offset(a) + n - 1 THEN value[i - Offset(a) + 1] ELSE @[i]]]
  PROVE  Confined(m, w, Places(Footprint(a, n)))
<1>1. Region(a) \in Rams /\ Region(a) # "io" /\ n \in {1, 2, 4} /\ Region(a) \in Direction
  BY DEF Rams, Direction
<1>2. PICK r \in Rams : r = Region(a)
  BY <1>1
<1>3. PICK o : o = Offset(a)
  OBVIOUS
<1>4. o \in Int
  <2>1. 2 \in {2, 4} /\ a % 2 = 0
    BY SMTT(30)
  <2>2. QED
    BY <1>1, <1>3, <2>1, OffsetIsEven
<1>5. PICK f : f = [i \in 0 .. SizeOfRam(r) - 1 |->
                      IF i \in o .. o + n - 1 THEN value[i - o + 1] ELSE m.ram[r][i]]
  OBVIOUS
<1>6. w = [m EXCEPT !.ram[r] = [i \in 0 .. SizeOfRam(r) - 1 |-> f[i]]]
  <2>1. w = [m EXCEPT !.ram[r] = [i \in DOMAIN @ |->
               IF i \in o .. o + n - 1 THEN value[i - o + 1] ELSE @[i]]]
    BY <1>2, <1>3
  <2>2. DOMAIN m.ram[r] = 0 .. SizeOfRam(r) - 1
    BY DEF RamShape
  <2>3. [i \in DOMAIN m.ram[r] |-> IF i \in o .. o + n - 1 THEN value[i - o + 1] ELSE m.ram[r][i]]
          = [i \in 0 .. SizeOfRam(r) - 1 |-> f[i]]
    BY <1>5, <2>2
  <2>4. QED
    BY <2>1, <2>3
<1>7. PICK T : T = Places(Footprint(a, n))
  OBVIOUS
<1>8. ASSUME NEW i \in 0 .. SizeOfRam(r) - 1, <<r, i>> \notin T PROVE f[i] = m.ram[r][i]
  <2>1. SUFFICES ASSUME i \in o .. o + n - 1 PROVE FALSE
    BY <1>5
  <2>2. PICK k \in 0 .. n - 1 : i = o + k
    <3>1. i - o \in 0 .. n - 1 /\ i = o + (i - o)
      BY <1>4, <2>1
    <3>2. QED
      BY <3>1
  <2>3. Region(a + k) = Region(a) /\ Offset(a + k) = Offset(a) + k
    BY <1>1, NextOffset, SMTT(30), ZenonT(60)
  <2>4. <<Region(a + k), Offset(a + k)>> \in T
    <3>1. Region(a + k) \in Rams
      BY <1>1, <2>3
    <3>2. QED
      BY <1>1, <1>7, <3>1, BytesAreCovered
  <2>5. QED
    BY <1>2, <1>3, <1>8, <2>2, <2>3, <2>4
<1>9. Confined(m, w, T)
  BY <1>6, <1>8, ConfinedToRam
<1>10. QED
  BY <1>7, <1>9

\* The bus in the middle of a store of bytes.
Within(m, x, touched) ==
  x = [m |-> x.m, refused |-> x.refused] /\ IsBus(x.m) /\ Confined(m, x.m, touched)

LEMMA ByteStoreIsConfined ==
  ASSUME NEW m, NEW x, NEW touched, Within(m, x, touched), NEW a \in Nat, NEW value,
         NEW n \in 1 .. 4, value[n] \in Byte, Covers(touched, a + (n - 1))
  PROVE  Within(m, ByteStore(x, a, value, n), touched)
<1> DEFINE y == ByteStore(x, a, value, n)
<1>1. CASE x.refused \/ Refuses8(a + n - 1)
  <2>1. y = [m |-> x.m, refused |-> TRUE]
    BY <1>1 DEF ByteStore, Within
  <2>2. y.m = x.m /\ y.refused = TRUE
    BY <2>1
  <2> HIDE DEF y
  <2>3. QED
    BY <2>1, <2>2 DEF Within, y
<1>2. CASE ~(x.refused \/ Refuses8(a + n - 1))
  <2>1. PICK b \in Byte, c \in Nat : b = value[n] /\ c = a + n - 1 /\ c = a + (n - 1)
    <3>1. a + n - 1 \in Nat /\ a + n - 1 = a + (n - 1)
      OBVIOUS
    <3>2. QED
      BY <3>1
  <2>2. PICK w : w = Written8(x.m, c, b)
    OBVIOUS
  <2>3. y = [m |-> w, refused |-> x.refused]
    BY <1>2, <2>1, <2>2 DEF ByteStore, Within
  <2>4. y.m = w /\ y.refused = x.refused
    BY <2>3
  <2>5. IsBus(w)
    BY <2>2, ByteKeeps DEF Within
  <2>6. RamShape(x.m.ram)
    BY DEF Within, Confined
  <2>7. Confined(x.m, w, touched)
    BY <2>1, <2>2, <2>6, ByteIsConfined DEF Within
  <2>8. Confined(m, w, touched)
    BY <2>7, ConfinedTwice DEF Within
  <2> HIDE DEF y
  <2>9. QED
    BY <2>3, <2>4, <2>5, <2>8 DEF Within, y
<1>3. QED
  BY <1>1, <1>2

LEMMA BytewiseIsConfined ==
  ASSUME NEW m, IsBus(m), RamShape(m.ram), NEW a \in Nat, NEW value, Len(value) \in 0 .. 4,
         \A n \in 1 .. Len(value) : value[n] \in Byte, NEW touched,
         \A k \in 0 .. Len(value) - 1 : Covers(touched, a + k)
  PROVE  Confined(m, WrittenBytewise(m, a, value), touched)
<1> DEFINE N == Len(value)
<1>1. PICK f : ByteStores(f, m, a, value, N) /\ WrittenBytewise(m, a, value) = f[N].m
  <2> DEFINE f == CHOOSE f : ByteStores(f, m, a, value, N)
  <2>1. ByteStores(f, m, a, value, N)
    <3>1. N \in Nat
      OBVIOUS
    <3>2. \E g : ByteStores(g, m, a, value, N)
      BY <3>1, ByteStoresExists
    <3>3. QED
      BY <3>2
  <2>2. WrittenBytewise(m, a, value) = f[N].m
    BY DEF WrittenBytewise, ByteStores, ByteStore
  <2>3. QED
    BY <2>1, <2>2
<1> DEFINE S == {k \in 0 .. N : ~Within(m, f[k], touched)}
<1>2. S = {}
  <2>1. SUFFICES ASSUME S # {} PROVE FALSE
    OBVIOUS
  <2>2. S \in SUBSET Nat
    OBVIOUS
  <2>3. PICK k \in S : \A y \in S : k <= y
    <3> HIDE DEF S
    <3>1. QED
      BY <2>1, <2>2, LeastElement
  <2>4. k \in 0 .. N /\ ~Within(m, f[k], touched)
    BY <2>3
  <2>5. k # 0
    <3>1. f[0] = [m |-> m, refused |-> FALSE]
      BY <1>1 DEF ByteStores
    <3>2. f[0].m = m /\ f[0].refused = FALSE
      BY <3>1
    <3>3. Confined(m, m, touched)
      BY ConfinedItself
    <3>4. Within(m, f[0], touched)
      BY <3>1, <3>2, <3>3 DEF Within
    <3>5. QED
      BY <2>4, <3>4
  <2>6. k - 1 \in 0 .. N /\ Within(m, f[k - 1], touched)
    BY <2>3, <2>4, <2>5
  <2>7. f[k] = ByteStore(f[k - 1], a, value, k)
    BY <1>1, <2>4, <2>5 DEF ByteStores
  <2>8. k \in 1 .. 4 /\ value[k] \in Byte /\ k - 1 \in 0 .. N - 1
    BY <2>4, <2>5
  <2>9. Covers(touched, a + (k - 1))
    BY <2>8
  <2>10. QED
    BY <2>4, <2>6, <2>7, <2>8, <2>9, ByteStoreIsConfined
<1>3. Within(m, f[N], touched)
  BY <1>2
<1>4. QED
  BY <1>1, <1>3 DEF Within

LEMMA WrittenIsConfined ==
  ASSUME NEW m, IsBus(m), RamShape(m.ram), NEW a \in Nat, NEW value \in Values
  PROVE  Confined(m, Written(m, a, value), Places(Footprint(a, Len(value))))
<1>1. PICK n \in {1, 2, 4} : n = Len(value)
  BY ValueIs
<1>2. PICK T : T = Places(Footprint(a, n))
  OBVIOUS
<1>3. \A i \in 1 .. n : value[i] \in Byte
  BY <1>1, ValueIs
<1>4. PICK w : w = Written(m, a, value)
  OBVIOUS
<1>5. Region(a) # "io" => \A k \in 0 .. n - 1 : Covers(T, a + k)
  BY <1>2, BytesAreCovered
<1>6. CASE n = 1
  <2>1. value[1] \in Byte
    BY <1>3, <1>6
  <2>2. Covers(T, a)
    <3>1. CASE Region(a) = "io"
      BY <1>2, <1>6, <3>1, IoByteIsCovered
    <3>2. CASE Region(a) # "io"
      <4>1. 0 \in 0 .. n - 1 /\ a + 0 = a
        BY <1>6
      <4>2. QED
        BY <1>5, <3>2, <4>1
    <3>3. QED
      BY <3>1, <3>2
  <2>3. w = Written8(m, a, value[1])
    BY <1>1, <1>4, <1>6 DEF Written
  <2>4. QED
    BY <1>1, <1>2, <1>4, <2>1, <2>2, <2>3, ByteIsConfined
<1>7. CASE n \in {2, 4}
  <2>1. WideOutcome(m, a, value, n, w)
    BY <1>1, <1>4, <1>7, WideCases, SMTT(30), ZenonT(60) DEF Written
  <2>2. CASE w = m
    BY <1>1, <1>4, <2>2, ConfinedItself
  <2>3. CASE /\ Region(a) = "io" /\ n = 2
             /\ w = [m EXCEPT !.io = IoWritten16(@, Offset(a) - (a % 2), Turned(a, value, 2))]
    BY <1>1, <1>4, <2>3, IoHalfIsConfined
  <2>4. CASE /\ Region(a) = "io" /\ n # 2
             /\ w = [m EXCEPT !.io = IoWritten32(@, Offset(a) - (a % n), Turned(a, value, n))]
    <3>1. n = 4
      BY <1>7, <2>4
    <3>2. PICK word \in [1 .. 4 -> Byte] : word = Turned(a, value, 4)
      BY <1>3, <3>1, TurnedIs
    <3>3. w = [m EXCEPT !.io = IoWritten32(@, Offset(a) - (a % 4), word)]
      BY <2>4, <3>1, <3>2
    <3>4. QED
      BY <1>1, <1>4, <2>4, <3>1, <3>3, IoWordIsConfined
  <2>5. CASE /\ a % n = 0 /\ Region(a) \in {"palette", "vram", "oam"}
             /\ w = [m EXCEPT !.ram[Region(a)] = [i \in DOMAIN @ |->
                      IF i \in Offset(a) .. Offset(a) + n - 1 THEN value[i - Offset(a) + 1] ELSE @[i]]]
    <3>1. Confined(m, w, Places(Footprint(a, n)))
      BY <1>7, <2>5, DirectIsConfined
    <3>2. QED
      BY <1>1, <1>4, <3>1
  <2>6. CASE Region(a) # "io" /\ w = WrittenBytewise(m, a, value)
    <3>1. Len(value) \in 0 .. 4 /\ (\A i \in 1 .. Len(value) : value[i] \in Byte)
      BY <1>1, <1>3
    <3>2. \A k \in 0 .. Len(value) - 1 : Covers(T, a + k)
      BY <1>1, <1>5, <2>6
    <3>3. QED
      BY <1>1, <1>2, <1>4, <2>6, <3>1, <3>2, BytewiseIsConfined
  <2>7. QED
    BY <2>1, <2>2, <2>3, <2>4, <2>5, <2>6 DEF WideOutcome
<1>8. QED
  BY <1>6, <1>7

---------------------------------------------------------------------------
(* Every store of a run.                                                    *)

LEMMA FilledRamHasShape == RamShape(FilledRam)
BY DEF RamShape, FilledRam

LEMMA ShapeStays == ASSUME RamShape(ram), UNCHANGED ram PROVE RamShape(ram')
OBVIOUS

\* The arrays of RAM keep their sizes in every step.
LEMMA ShapeStep ==
  BusInv /\ RamShape(ram) /\ [BusNext]_<<vars, busVars>> => RamShape(ram')
<1>1. SUFFICES ASSUME BusInv, RamShape(ram), [BusNext]_<<vars, busVars>> PROVE RamShape(ram')
  OBVIOUS
<1>2. CASE UNCHANGED <<vars, busVars>>
  BY <1>1, <1>2, ShapeStays DEF busVars
<1>3. ASSUME NEW a \in Addresses, NEW value \in Values, Store(a, value) PROVE RamShape(ram')
  <2>1. PICK m : m = [ram |-> ram, io |-> io]
    OBVIOUS
  <2>2. m.ram = ram /\ m.io = io
    BY <2>1
  <2>3. IsBus(m) /\ RamShape(m.ram) /\ a \in Nat
    BY <1>1, <2>1, <2>2, AddressAssumption DEF IsBus, BusInv
  <2>4. ram' = Written(m, a, value).ram
    BY <1>3, <2>1 DEF Store
  <2>5. Confined(m, Written(m, a, value), Places(Footprint(a, Len(value))))
    BY <2>3, WrittenIsConfined
  <2>6. QED
    BY <2>4, <2>5 DEF Confined
<1>4. ASSUME NEW keys \in Byte, Press(keys) PROVE RamShape(ram')
  BY <1>1, <1>4, ShapeStays DEF Press
<1>5. CASE DeviceRequest
  BY <1>1, <1>5, ShapeStays DEF DeviceRequest
<1>6. ASSUME NEW r \in Rams, RamReset({r}) PROVE RamShape(ram')
  <2>1. ram' = [s \in Rams |-> [i \in DOMAIN ram[s] |->
                  IF s \notin {r} \/ (s = "iwram" /\ i >= RamSize - 4) THEN ram[s][i] ELSE 0]]
    BY <1>6 DEF RamReset
  <2>2. \A s \in Rams : DOMAIN ram[s] = 0 .. SizeOfRam(s) - 1
    BY <1>1 DEF RamShape
  <2>3. QED
    BY <2>1, <2>2 DEF RamShape
<1>7. CASE OfSave
  <2>1. UNCHANGED ram \/ ram' = FilledRam
    BY <1>7 DEF OfSave, StoreSave, BusLoadState, BackupStep, busVars
  <2>2. QED
    BY <1>1, <2>1, ShapeStays, FilledRamHasShape
<1>8. CASE BusReset
  BY <1>8, FilledRamHasShape DEF BusReset
<1>9. QED
  BY <1>1, <1>2, <1>3, <1>4, <1>5, <1>6, <1>7, <1>8 DEF BusNext, OfRamAndIo

LEMMA StoreIsConfined ==
  ASSUME BusInv, RamShape(ram), NEW a \in Addresses, NEW value \in Values, Store(a, value)
  PROVE  StoredLocally
<1>1. PICK m : m = [ram |-> ram, io |-> io]
  OBVIOUS
<1>2. m.ram = ram /\ m.io = io
  BY <1>1
<1>3. IsBus(m) /\ RamShape(m.ram) /\ a \in Nat
  BY <1>1, <1>2, AddressAssumption DEF IsBus, BusInv
<1>4. ram' = Written(m, a, value).ram /\ io' = Written(m, a, value).io
  BY <1>1 DEF Store
<1>5. PICK touched : touched = Places(Footprint(a, Len(value)))
  OBVIOUS
<1>6. Confined(m, Written(m, a, value), touched)
  BY <1>3, <1>5, WrittenIsConfined
<1>7. last'.at = a /\ last'.size = Len(value)
  BY DEF Store
<1>8. touched = Places(Footprint(last'.at, last'.size))
  BY <1>5, <1>7
<1>9. ASSUME NEW r \in Rams, NEW i \in DOMAIN ram[r], <<r, i>> \notin touched
      PROVE  ram'[r][i] = ram[r][i]
  <2>1. i \in 0 .. SizeOfRam(r) - 1
    BY DEF RamShape
  <2>2. QED
    BY <1>2, <1>4, <1>6, <1>9, <2>1 DEF Confined
<1>10. ASSUME NEW o \in Registers, NEW k \in {0, 1}, <<"io", o + k>> \notin touched
       PROVE  \/ Held(io', o)[k + 1] = Held(io, o)[k + 1]
              \/ k = 1 /\ KeypadRaised(io', o, touched)
  <2>1. Same(io, io', o, touched)
    BY <1>2, <1>4, <1>6 DEF Confined
  <2>2. QED
    BY <1>10, <2>1 DEF Same
<1>11. QED
  BY <1>8, <1>9, <1>10 DEF StoredLocally

LEMMA NoStoreIsLocal == ASSUME last' = NoStore PROVE StoredLocally
BY DEF NoStore, StoredLocally

LEMMA StepsAreLocal ==
  BusInv /\ RamShape(ram) /\ [BusNext]_<<vars, busVars>> => [StoredLocally]_busVars
<1>1. SUFFICES ASSUME BusInv, RamShape(ram), [BusNext]_<<vars, busVars>>
               PROVE  StoredLocally \/ UNCHANGED busVars
  OBVIOUS
<1>2. CASE UNCHANGED <<vars, busVars>>
  BY <1>2
<1>3. ASSUME NEW a \in Addresses, NEW value \in Values, Store(a, value) PROVE StoredLocally
  BY <1>1, <1>3, StoreIsConfined
<1>4. ASSUME NEW keys \in Byte, Press(keys) PROVE StoredLocally
  BY <1>4, NoStoreIsLocal DEF Press
<1>5. CASE DeviceRequest
  BY <1>5, NoStoreIsLocal DEF DeviceRequest
<1>6. ASSUME NEW r \in Rams, RamReset({r}) PROVE StoredLocally
  BY <1>6, NoStoreIsLocal DEF RamReset
<1>7. CASE OfSave
  <2>1. UNCHANGED busVars \/ last' = NoStore
    BY <1>7 DEF OfSave, StoreSave, BusLoadState, BackupStep
  <2>2. QED
    BY <2>1, NoStoreIsLocal
<1>8. CASE BusReset
  BY <1>8, NoStoreIsLocal DEF BusReset
<1>9. QED
  BY <1>1, <1>2, <1>3, <1>4, <1>5, <1>6, <1>7, <1>8 DEF BusNext, OfRamAndIo

\* A store of any width at any address, through any mirror, changes the bytes it
\* addresses and nothing else: the byte beside one stored in IO stays too, but
\* in IF and in the registers that cannot be read.
THEOREM StoresAreLocal == BusSpec => StoreIsLocal
<1>1. BusInit => RamShape(ram)
  BY FilledRamHasShape DEF BusInit
<1>2. BusInv /\ RamShape(ram) /\ [BusNext]_<<vars, busVars>> => RamShape(ram)'
  BY ShapeStep
<1>3. QED
  BY <1>1, <1>2, StepsAreLocal, BusInvHolds, PTL DEF BusSpec, StoreIsLocal
=============================================================================
