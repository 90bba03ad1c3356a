---------------------------- MODULE BackupMemory ----------------------------
(***************************************************************************)
(* The cartridge's backup memory as MemoryBus (src/core/memory_bus.cpp)    *)
(* keeps it: SRAM, Flash of one or two banks with its command protocol,    *)
(* and EEPROM blocks; configured, imported, cleared and reset by the host, *)
(* written by the game through the 8-bit save aperture, saved and restored *)
(* with a save state.                                                      *)
(*                                                                         *)
(* Programming is a bitwise AND and erasing sets every bit, so each bit of *)
(* a byte lives by itself: a cell keeps bit 0 of its byte.                 *)
(***************************************************************************)
EXTENDS Naturals, Sequences

CONSTANTS
  Bytes,                 \* the byte values the game writes
  BankSize, SectorSize,  \* kFlashBankSize, kFlashSectorSize
  Unlock1, Unlock2,      \* kFlashUnlockAddress1, kFlashUnlockAddress2
  SramSize, EepromSize, Eeprom8kSize, BlockSize,
  Images,                \* the save files the host may import
  Snapshots              \* the save states that may be loaded

Types == {"none", "sram", "flash64", "flash128", "eeprom512", "eeprom8k"}
FlashTypes == {"flash64", "flash128"}
CommandStates == {"idle", "unlock1", "unlock2", "program_data", "erase_unlock1",
                  "erase_unlock2", "erase_command", "bank_select"}

ASSUME SizeAssumption ==
  /\ {BankSize, SectorSize, SramSize, EepromSize, Eeprom8kSize, BlockSize} \subseteq Nat \ {0}
  /\ BankSize % SectorSize = 0
  /\ EepromSize % BlockSize = 0 /\ Eeprom8kSize % BlockSize = 0
ASSUME UnlockAssumption ==
  /\ {Unlock1, Unlock2} \subseteq 1 .. BankSize - 1
  /\ Unlock1 # Unlock2
ASSUME BytesAssumption == Bytes \subseteq 0 .. 255
\* A cell of a save file is a bit; the codec has checked a state's enums.
ASSUME ImagesAssumption == \A d \in Images : d \in [DOMAIN d -> {0, 1}]
ASSUME SnapshotsAssumption ==
  \A s \in Snapshots :
    /\ s.type \in Types
    /\ s.data \in [DOMAIN s.data -> {0, 1}]
    /\ s.cmd \in CommandStates
    /\ s.id \in BOOLEAN

VARIABLES
  type,   \* game_pak_save_type_
  data,   \* game_pak_save_
  cmd,    \* flash_command_state_
  id,     \* flash_id_mode_
  bank    \* flash_bank_

vars == <<type, data, cmd, id, bank>>

\* save_size_for_type
SizeOf(t) ==
  IF t = "sram" THEN SramSize
  ELSE IF t = "flash64" THEN BankSize
  ELSE IF t = "flash128" THEN 2 * BankSize
  ELSE IF t = "eeprom512" THEN EepromSize
  ELSE IF t = "eeprom8k" THEN Eeprom8kSize
  ELSE 0

Cells(n) == 0 .. n - 1
Filled(n, bit) == [i \in Cells(n) |-> bit]
Aperture == 0 .. BankSize - 1
Bit(v) == v % 2
And(a, b) == IF a = 1 /\ b = 1 THEN 1 ELSE 0

TypeOK ==
  /\ type \in Types
  /\ data \in [Cells(SizeOf(type)) -> {0, 1}]
  /\ cmd \in CommandStates
  /\ id \in BOOLEAN
  /\ bank \in {0, 1}

Init ==
  /\ type = "none" /\ data = Filled(0, 1)
  /\ cmd = "idle" /\ id = FALSE /\ bank = 0

ResetProtocol == cmd' = "idle" /\ id' = FALSE

---------------------------------------------------------------------------
(* The host: configuring, importing, clearing, resetting.                   *)

\* configure_game_pak_save, and clear_game_pak_save for "none".
Configure(t) ==
  /\ type' = t /\ data' = Filled(SizeOf(t), 1)
  /\ bank' = 0
  /\ ResetProtocol

\* import_game_pak_save: a file of the wrong size changes nothing.
Import(t, d) ==
  /\ t # "none" /\ DOMAIN d = Cells(SizeOf(t))
  /\ type' = t /\ data' = d
  /\ bank' = 0
  /\ ResetProtocol

\* soft_reset: save data and bank survive.
SoftReset == ResetProtocol /\ UNCHANGED <<type, data, bank>>

\* hard_reset also takes the backing out.
HardReset == Configure("none")

---------------------------------------------------------------------------
(* The game: the save aperture.                                             *)

IsFlash == type \in FlashTypes

\* flash_effective_offset
EffectiveOffset(t, b, o) == (IF t = "flash128" THEN b * BankSize ELSE 0) + (o % BankSize)

SectorStart(t, b, o) == (EffectiveOffset(t, b, o) \div SectorSize) * SectorSize

\* What a write leaves of the Flash state s = [data, cmd, id, bank].
Flash == [data |-> data, cmd |-> cmd, id |-> id, bank |-> bank]
Advance(s, next) == [s EXCEPT !.cmd = next]
Aborted(s) == [s EXCEPT !.cmd = "idle", !.id = FALSE]

Idle(s, o, v) ==
  IF v = 240 THEN Aborted(s)
  ELSE IF o = Unlock1 /\ v = 170 THEN Advance(s, "unlock1")
  ELSE s

Expect(s, o, v, offset, byte, next) ==
  IF o = offset /\ v = byte THEN Advance(s, next) ELSE Aborted(s)

Request(s, o, v) ==
  IF o # Unlock1 THEN Aborted(s)
  ELSE IF v = 144 THEN [s EXCEPT !.cmd = "idle", !.id = TRUE]
  ELSE IF v = 160 THEN Advance(s, "program_data")
  ELSE IF v = 128 THEN Advance(s, "erase_unlock1")
  ELSE IF v = 176 THEN Advance(s, "bank_select")
  ELSE Aborted(s)

Program(s, o, v) ==
  [s EXCEPT !.data[EffectiveOffset(type, s.bank, o)] = And(@, Bit(v)), !.cmd = "idle"]

Erased(s, first, count) ==
  [s EXCEPT !.cmd = "idle",
            !.data = [i \in DOMAIN s.data |->
                        IF i \in first .. first + count - 1 THEN 1 ELSE s.data[i]]]

Erase(s, o, v) ==
  IF o = Unlock1 /\ v = 16 THEN Erased(s, 0, SizeOf(type))
  ELSE IF v = 48 THEN Erased(s, SectorStart(type, s.bank, o), SectorSize)
  ELSE Aborted(s)

\* BUG: a broken bank selection collapses the chip to bank 0.
SelectBankCollapses(s, o, v) ==
  IF o = 0
  THEN [s EXCEPT !.bank = IF type = "flash128" THEN Bit(v) ELSE 0, !.cmd = "idle"]
  ELSE [Aborted(s) EXCEPT !.bank = 0]

SelectBank(s, o, v) ==
  IF o = 0
  THEN [s EXCEPT !.bank = IF type = "flash128" THEN Bit(v) ELSE 0, !.cmd = "idle"]
  ELSE Aborted(s)

\* write_flash_byte
WriteFlash(s, o, v) ==
  IF s.cmd = "idle" THEN Idle(s, o, v)
  ELSE IF s.cmd = "unlock1" THEN Expect(s, o, v, Unlock2, 85, "unlock2")
  ELSE IF s.cmd = "unlock2" THEN Request(s, o, v)
  ELSE IF s.cmd = "program_data" THEN Program(s, o, v)
  ELSE IF s.cmd = "erase_unlock1" THEN Expect(s, o, v, Unlock1, 170, "erase_unlock2")
  ELSE IF s.cmd = "erase_unlock2" THEN Expect(s, o, v, Unlock2, 85, "erase_command")
  ELSE IF s.cmd = "erase_command" THEN Erase(s, o, v)
  ELSE SelectBank(s, o, v)

StoreFlash(o, v) ==
  /\ IsFlash
  /\ LET next == WriteFlash(Flash, o, v)
     IN data' = next.data /\ cmd' = next.cmd /\ id' = next.id /\ bank' = next.bank
  /\ UNCHANGED type

\* write_game_pak_save_byte on SRAM, mirrored over the aperture.
StoreSram(o, v) ==
  /\ type = "sram"
  /\ data' = [data EXCEPT ![o % SramSize] = Bit(v)]
  /\ UNCHANGED <<type, cmd, id, bank>>

\* eeprom_write_block
StoreBlock(b, block) ==
  /\ type \in {"eeprom512", "eeprom8k"} /\ b < SizeOf(type) \div BlockSize
  /\ data' = [i \in DOMAIN data |->
                IF i \div BlockSize = b THEN block[i % BlockSize] ELSE data[i]]
  /\ UNCHANGED <<type, cmd, id, bank>>

---------------------------------------------------------------------------
(* Save states.                                                             *)

\* save_state
Saved == [type |-> type, data |-> data, cmd |-> cmd, id |-> id, bank |-> bank]

\* load_state's checks; parse_memory_state has made the same ones on the enums.
Accepts(s) ==
  /\ DOMAIN s.data = Cells(SizeOf(s.type))
  /\ s.bank \in {0, 1}
  /\ s.bank # 0 => s.type = "flash128"

LoadState(s) ==
  /\ Accepts(s)
  /\ type' = s.type /\ data' = s.data
  /\ cmd' = s.cmd /\ id' = s.id /\ bank' = s.bank

---------------------------------------------------------------------------
Next ==
  \/ \E t \in Types : Configure(t)
  \/ HardReset \/ SoftReset
  \/ \E t \in Types, d \in Images \cup {data} : Import(t, d)
  \/ \E o \in Aperture, v \in Bytes : StoreFlash(o, v) \/ StoreSram(o, v)
  \/ \E b \in Cells(Eeprom8kSize \div BlockSize), block \in [Cells(BlockSize) -> {0, 1}] :
       StoreBlock(b, block)
  \/ \E s \in Snapshots : LoadState(s)

Spec == Init /\ [][Next]_vars

---------------------------------------------------------------------------
(* Properties.                                                              *)

\* Every index the aperture can form lies in the save: game_pak_save_.at and
\* the sector fill never leave the vector, whatever was configured, imported
\* or restored while a bank was selected (flash_effective_offset).
InBounds ==
  /\ IsFlash => \A o \in Aperture :
       /\ EffectiveOffset(type, bank, o) \in DOMAIN data
       /\ LET first == SectorStart(type, bank, o)
          IN first .. first + SectorSize - 1 \subseteq DOMAIN data
  /\ type = "sram" => \A o \in Aperture : o % SramSize \in DOMAIN data

\* A save state taken at any moment, in the middle of a command and in any
\* bank, is accepted when it is loaded (load_state refuses a selected bank
\* for anything but flash128k).
SavedIsAcceptable == Accepts(Saved)

\* The writes that lead from the start of a command to each state of it.
Typed == [c \in CommandStates |->
  LET unlock == <<[at |-> Unlock1, val |-> 170], [at |-> Unlock2, val |-> 85]>>
      erase == unlock \o <<[at |-> Unlock1, val |-> 128]>>
  IN IF c = "unlock1" THEN <<unlock[1]>>
     ELSE IF c = "unlock2" THEN unlock
     ELSE IF c = "program_data" THEN unlock \o <<[at |-> Unlock1, val |-> 160]>>
     ELSE IF c = "bank_select" THEN unlock \o <<[at |-> Unlock1, val |-> 176]>>
     ELSE IF c = "erase_unlock1" THEN erase
     ELSE IF c = "erase_unlock2" THEN erase \o <<unlock[1]>>
     ELSE IF c = "erase_command" THEN erase \o unlock
     ELSE <<>>]

Chip == INSTANCE FlashChip

AsChip(s) == [cells |-> s.data, typed |-> Typed[s.cmd], idMode |-> s.id, bank |-> s.bank]

\* The state machine implements the command table: every write of the game,
\* in whatever state the last command was left, does what the table says and
\* nothing else (write_flash_byte; reset_flash_protocol: "Bank selection
\* survives: exiting ID mode or aborting a sequence must not collapse a
\* flash128k back to bank 0").
ImplementsTable ==
  IsFlash => \A w \in [at : Aperture, val : Bytes] :
    AsChip(WriteFlash(Flash, w.at, w.val)) = Chip!Written(AsChip(Flash), w)
=============================================================================
