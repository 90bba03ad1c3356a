------------------------------ MODULE MemoryBus ------------------------------
(***************************************************************************)
(* MemoryBus (src/core/memory_bus.cpp): the regions with their mirrors,    *)
(* loads and stores of one, two and four bytes at any address, the rules   *)
(* of video memory and of the cartridge, and the IO facade behind it.      *)
(*                                                                         *)
(* An address is a bank of Span bytes and an offset. A value is a sequence *)
(* of bytes, lowest first; an optional value is an empty one if there is   *)
(* none. The debug ports and the open-bus latch are left out.              *)
(***************************************************************************)
EXTENDS BackupMemory, IoRegisters

CONSTANTS
  Span,         \* addresses of a bank
  RamSize,      \* bytes of EWRAM, IWRAM, palette and OAM
  VramBank,     \* VRAM repeats every VramBank bytes,
  VramSize,     \* of which VramSize exist
  VramFold,     \* and the others repeat the last VramFold
  ObjBase,      \* kBackground VRAM ends here
  IoEnd,        \* the last halfword of IO
  RomSize,
  MaxStores,    \* bound on the stores of a run, to IO or one to RAM
  Addresses     \* the addresses used

ASSUME SpanAssumption ==
  /\ \A n \in {Span, RamSize, VramBank, VramSize, VramFold, ObjBase} : n \in Nat /\ n % 4 = 0 /\ n > 0
  /\ VramSize + VramFold = VramBank /\ RomSize \in Nat

\* The registers lie in IO.
ASSUME AddressAssumption ==
  Addresses \subseteq Nat /\ IoEnd \in Nat /\ IoEnd >= SourceLow + 3

VARIABLES
  ram,      \* the bytes of each RAM region
  io,       \* the IO registers
  acked,    \* the keypad's request has been acknowledged since it was made
  last,     \* the last store
  stores    \* counts stores, one to RAM as all of them

busVars == <<ram, io, acked, last, stores>>

Rams == {"ewram", "iwram", "palette", "vram", "oam"}
SizeOfRam(r) == IF r = "vram" THEN VramSize ELSE RamSize

---------------------------------------------------------------------------
(* classify.                                                                *)

Bank(a) == a \div Span

Region(a) ==
  LET b == Bank(a)
  IN IF b \in 0 .. 1 THEN "bios"
     ELSE IF b = 4 /\ a % Span > IoEnd THEN "unknown"
     ELSE IF b \in 2 .. 7 THEN <<"ewram", "iwram", "io", "palette", "vram", "oam">>[b - 1]
     ELSE IF b \in 8 .. 13 THEN "rom"
     ELSE IF b \in 14 .. 15 THEN "save"
     ELSE "unknown"

VramOffset(o) ==
  LET i == o % VramBank
  IN IF i >= VramSize THEN i - VramFold ELSE i

\* The window of ROM is two banks, that of the save one.
Offset(a) ==
  LET r == Region(a)
      o == a % Span
  IN IF r = "vram" THEN VramOffset(o)
     ELSE IF r \in Rams THEN o % RamSize
     ELSE IF r = "rom" THEN a % (2 * Span)
     ELSE IF r = "save" THEN o % BankSize
     ELSE IF r = "bios" THEN a ELSE o

RamAt(m, a) == m[Region(a)][Offset(a)]
Word(a) == a - (a % 4)

---------------------------------------------------------------------------
(* Loads.                                                                   *)

BiosByte(o) == IF o >= Span THEN <<>> ELSE <<o>>
RomByte(o) == 100 + o

\* game_pak_open_bus_aligned_word: the address of each halfword.
OpenBus(a) ==
  LET h == (Word(a) \div 2) % 65536
  IN <<h % 256, h \div 256, (h + 1) % 256, ((h + 1) \div 256) % 256>>

\* read_game_pak_save_byte
SaveByte(o) ==
  IF type \notin FlashTypes \cup {"sram"} THEN <<>>
  ELSE IF type = "sram" THEN <<data[o % SramSize]>>
  ELSE IF ~id THEN <<data[EffectiveOffset(type, bank, o)]>>
  ELSE IF o % BankSize \in {0, 1} THEN <<200 + o>> ELSE <<255>>

Repeated(bytes, n) == IF bytes = <<>> THEN <<>> ELSE [i \in 1 .. n |-> bytes[1]]

\* read8
Read8(a) ==
  LET r == Region(a)
      o == Offset(a)
      half == IoRead16(io, o - (o % 2))
  IN IF r \in Rams THEN <<ram[r][o]>>
     ELSE IF r = "bios" THEN BiosByte(o)
     ELSE IF r = "rom" /\ RomSize = 0 THEN <<>>
     ELSE IF r = "rom" THEN <<IF o < RomSize THEN RomByte(o) ELSE OpenBus(a)[(a % 4) + 1]>>
     ELSE IF r = "save" THEN SaveByte(o)
     ELSE IF r = "io" /\ half # <<>> THEN <<half[(a % 2) + 1]>> ELSE <<>>

\* The bytes at n addresses, if all can be read.
Bytewise(a, n) ==
  LET bytes == [i \in 1 .. n |-> Read8(a + i - 1)]
  IN IF \E i \in 1 .. n : bytes[i] = <<>> THEN <<>> ELSE [i \in 1 .. n |-> bytes[i][1]]

\* The direct path of a wide load, which indexes the array from the offset.
Directly(a, n) ==
  LET r == Region(a)
  IN [i \in 1 .. n |->
        IF r = "rom" THEN RomByte(Offset(a) + i - 1) ELSE ram[r][Offset(a) + i - 1]]

\* BUG: the last bytes of a ROM of odd size are taken to be whole.
DirectRounded(a, n) ==
  Region(a) \in Rams \/ (Region(a) = "rom" /\ Offset(a) < RomSize)

Direct(a, n) ==
  Region(a) \in Rams \/ (Region(a) = "rom" /\ Offset(a) + n - 1 < RomSize)

\* read16
Read16(a) ==
  LET r == Region(a)
  IN IF r = "save" THEN Repeated(SaveByte(Offset(a)), 2)
     ELSE IF a % 2 # 0 THEN <<>>
     ELSE IF r = "io" THEN IoRead16(io, Offset(a))
     ELSE IF Direct(a, 2) THEN Directly(a, 2)
     ELSE Bytewise(a, 2)

Rotated(word, n) ==
  IF word = <<>> THEN <<>> ELSE [i \in 1 .. 4 |-> word[((i - 1 + n) % 4) + 1]]

\* read32: the aligned word, rotated.
Read32(a) ==
  LET r == Region(a)
      w == Word(a)
  IN IF r = "save" THEN Repeated(SaveByte(Offset(a)), 4)
     ELSE IF r = "rom" /\ RomSize > 0 /\ Offset(a) >= RomSize THEN Rotated(OpenBus(a), a % 4)
     ELSE IF r = "io" /\ a % 4 = 0 THEN IoRead32(io, Offset(a))
     ELSE Rotated(IF Direct(w, 4) THEN Directly(w, 4) ELSE Bytewise(w, 4), a % 4)

---------------------------------------------------------------------------
(* Stores, on the bus state m = [ram, io].                                  *)

\* write8 is refused by the BIOS alone; a cartridge takes and ignores it.
Refuses8(a) == Region(a) = "bios" \/ (Region(a) = "rom" /\ RomSize = 0)

\* BUG: the byte beside the one stored in IO is taken to be clear.
MergedBlank(m, r, odd, b) == IF odd THEN <<0, b>> ELSE <<b, 0>>

\* A byte stored in IO is merged into its halfword.
Merged(m, r, odd, b) ==
  LET now == IoRead16(m.io, r)
      half == IF now = <<>> THEN Zero ELSE now
  IN IF odd THEN <<half[1], b>> ELSE <<b, half[2]>>

DoubledAt(o) == {o - (o % 2), o - (o % 2) + 1}

Written8(m, a, b) ==
  LET r == Region(a)
      o == Offset(a)
      half == o - (o % 2)
  IN IF r = "io" THEN [m EXCEPT !.io = IoWritten16(@, half, Merged(m, half, a % 2 = 1, b))]
     ELSE IF r \in {"ewram", "iwram"} THEN [m EXCEPT !.ram[r][o] = b]
     ELSE IF r = "palette" \/ (r = "vram" /\ o < ObjBase)
     THEN [m EXCEPT !.ram[r] = [i \in DOMAIN @ |-> IF i \in DoubledAt(o) THEN b ELSE @[i]]]
     ELSE m

\* A wide store byte by byte, up to the first that is refused.
WrittenBytewise(m, a, value) ==
  LET after[n \in 0 .. Len(value)] ==
        IF n = 0 THEN [m |-> m, refused |-> FALSE]
        ELSE IF after[n - 1].refused \/ Refuses8(a + n - 1)
        THEN [after[n - 1] EXCEPT !.refused = TRUE]
        ELSE [after[n - 1] EXCEPT !.m = Written8(@, a + n - 1, value[n])]
  IN after[Len(value)].m

\* write16 and write32: IO rotates, an unaligned store is one of bytes, video
\* memory takes the whole value.
WrittenWide(m, a, value) ==
  LET r == Region(a)
      n == Len(value)
      aligned == Offset(a) - (a % n)
      turned == [i \in 1 .. n |-> value[((i - 1 + (a % n)) % n) + 1]]
  IN IF r \in {"rom", "bios", "unknown"} /\ a % n = 0 THEN m
     ELSE IF r = "rom" THEN m
     ELSE IF r = "io" /\ n = 2 THEN [m EXCEPT !.io = IoWritten16(@, aligned, turned)]
     ELSE IF r = "io" THEN [m EXCEPT !.io = IoWritten32(@, aligned, turned)]
     ELSE IF a % n = 0 /\ r \in {"palette", "vram", "oam"}
     THEN [m EXCEPT !.ram[r] = [i \in DOMAIN @ |->
             IF i \in Offset(a) .. Offset(a) + n - 1 THEN value[i - Offset(a) + 1] ELSE @[i]]]
     ELSE WrittenBytewise(m, a, value)

Written(m, a, value) ==
  IF Len(value) = 1 THEN Written8(m, a, value[1]) ELSE WrittenWide(m, a, value)

---------------------------------------------------------------------------
(* Steps.                                                                   *)

NoStore == [at |-> 0, size |-> 0]
FilledRam == [r \in Rams |-> [i \in 0 .. SizeOfRam(r) - 1 |-> 0]]

BusInit ==
  /\ Init
  /\ ram = FilledRam /\ io = NewIo
  /\ acked = FALSE /\ last = NoStore /\ stores = 0

\* A request made anew has not been acknowledged.
NoteRequest(now) ==
  acked' = IF io.flags[2] = 1 /\ now.flags[2] = 0 THEN TRUE
           ELSE IF now.flags[2] = 1 THEN FALSE ELSE acked

Store(a, value) ==
  /\ Region(a) # "save"
  /\ stores' = stores + (IF Region(a) = "io" THEN 1 ELSE MaxStores) /\ stores' <= MaxStores
  /\ LET next == Written([ram |-> ram, io |-> io], a, value)
     IN ram' = next.ram /\ io' = next.io /\ NoteRequest(next.io)
  /\ last' = [at |-> a, size |-> Len(value)]
  /\ UNCHANGED vars

\* The save aperture takes the low byte of any store.
StoreSave(a, b) ==
  /\ Region(a) = "save"
  /\ StoreFlash(Offset(a), b) \/ StoreSram(Offset(a), b)
  /\ UNCHANGED busVars

Press(keys) ==
  /\ keys # io.keys
  /\ io' = KeysPressed(io, keys) /\ NoteRequest(io')
  /\ last' = NoStore
  /\ UNCHANGED <<ram, stores, vars>>

DeviceRequest ==
  /\ io' = Requested(io, 1) /\ last' = NoStore
  /\ UNCHANGED <<ram, acked, stores, vars>>

\* register_ram_reset: the BIOS's part of IWRAM is kept.
RamReset(regions) ==
  /\ ram' = [r \in Rams |-> [i \in DOMAIN ram[r] |->
               IF r \notin regions \/ (r = "iwram" /\ i >= RamSize - 4) THEN ram[r][i] ELSE 0]]
  /\ last' = NoStore
  /\ UNCHANGED <<io, acked, stores, vars>>

\* soft_reset clears RAM and the Flash protocol, hard_reset the save as well;
\* the ROM it takes out is inserted again before anything reads it.
BusReset ==
  /\ SoftReset \/ HardReset
  /\ ram' = FilledRam /\ last' = NoStore
  /\ UNCHANGED <<io, acked, stores>>

\* load_state, of states taken with RAM cleared.
BusLoadState(s) ==
  /\ LoadState(s)
  /\ ram' = FilledRam /\ last' = NoStore
  /\ UNCHANGED <<io, acked, stores>>

\* The host's operations on the save alone, and EEPROM's serial port.
BackupStep ==
  /\ \/ \E t \in Types : Configure(t)
     \/ \E t \in Types, d \in Images \cup {data} : Import(t, d)
     \/ \E b \in Cells(Eeprom8kSize \div BlockSize), block \in [Cells(BlockSize) -> {0, 1}] :
          StoreBlock(b, block)
  /\ UNCHANGED busVars

Values == {<<1>>, <<2>>, <<1, 2>>, <<3, 1>>, <<1, 2, 3, 1>>}

OfRamAndIo ==
  \/ \E a \in Addresses, value \in Values : Store(a, value)
  \/ \E keys \in Byte : Press(keys)
  \/ DeviceRequest
  \/ \E r \in Rams : RamReset({r})

OfSave ==
  \/ \E a \in Addresses, b \in Bytes : StoreSave(a, b)
  \/ \E s \in Snapshots : BusLoadState(s)
  \/ BackupStep

BusNext == OfRamAndIo \/ OfSave \/ BusReset

BusSpec == BusInit /\ [][BusNext]_<<vars, busVars>>

---------------------------------------------------------------------------
(* Properties.                                                              *)

\* A wide load returns the bytes that byte loads return at the same addresses,
\* in every mirror, at the fold of VRAM and at the end of the ROM: the direct
\* paths of read16 and read32 are the byte path, only faster. (A word at an
\* unaligned address past the end of the ROM is open bus as a whole.)
ReadsAgree ==
  \A a \in Addresses : Region(a) # "save" =>
    /\ a % 2 = 0 => Read16(a) = Bytewise(a, 2)
    /\ (a % 4 = 0 \/ Region(a) # "rom" \/ Offset(a) < RomSize) =>
         Read32(a) = Rotated(Bytewise(Word(a), 4), a % 4)

\* What the machine holds of register o, also of one that cannot be read.
Held(i, o) ==
  IF o = SourceLow THEN i.source[1] ELSE IF o = SourceLow + 2 THEN i.source[2]
  ELSE IoRead16(i, o)

Registers == {Dispcnt, Keycnt, Ie, If, Waitcnt, Ime, SourceLow, SourceLow + 2}

\* The registers whose halfword a byte store does not find by reading it: IF
\* is acknowledged by what it reads, a DMA source reads nothing.
Rebuilt == {If, SourceLow, SourceLow + 2}

\* Where a byte stored at x may leave something: there, and beside it in video
\* memory, which is written in halfwords, and in those registers.
Lanes(x) ==
  IF \/ Region(x) \in {"palette", "vram", "oam"}
     \/ Region(x) = "io" /\ Offset(x) - (x % 2) \in Rebuilt
  THEN {x - (x % 2), x - (x % 2) + 1} ELSE {x}

\* Where a store of n bytes at a may leave something: in its bytes, of IO in
\* the aligned ones.
Footprint(a, n) ==
  IF Region(a) = "io" /\ n > 1 THEN {a - (a % n) + i : i \in 0 .. n - 1}
  ELSE UNION {Lanes(x) : x \in a .. a + n - 1}

Places(addresses) == {<<Region(a), Offset(a)>> : a \in addresses}

\* KEYCNT, written in touched, has requested the keypad's interrupt.
KeypadRaised(i, o, touched) ==
  /\ o = If /\ KeypadRequested(i)
  /\ {<<"io", Keycnt>>, <<"io", Keycnt + 1>>} \cap touched # {}

StoredLocally ==
  last'.size # 0 =>
    LET touched == Places(Footprint(last'.at, last'.size))
    IN /\ \A r \in Rams : \A i \in DOMAIN ram[r] :
            <<r, i>> \notin touched => ram'[r][i] = ram[r][i]
       /\ \A o \in Registers, k \in {0, 1} :
            <<"io", o + k>> \notin touched =>
              \/ Held(io', o)[k + 1] = Held(io, o)[k + 1]
              \/ k = 1 /\ KeypadRaised(io', o, touched)

\* A store changes the bytes it addresses and nothing else, whatever its size,
\* its alignment, the mirror it goes through and the registers beside it; only
\* KEYCNT may raise the keypad's request besides. The byte beside one stored
\* in IF or in a register that cannot be read is not kept (Rebuilt).
StoreIsLocal == [][StoredLocally]_busVars

\* "Byte stores to IO must preserve the sibling byte of the addressed halfword
\* register": of a register that can be read, a byte store changes the byte it
\* addresses alone. IF breaks it: write8 reads its pending requests back with
\* the byte beside the stored one, and so acknowledges them.
ByteStoresKeepSibling ==
  [][last'.size = 1 =>
       \A o \in Registers, k \in {0, 1} :
         \/ IoRead16(io, o) = <<>>
         \/ IoRead16(io', o)[k + 1] = IoRead16(io, o)[k + 1]
         \/ Region(last'.at) = "io" /\ Offset(last'.at) = o + k
         \/ k = 1 /\ KeypadRaised(io', o, {<<"io", Offset(last'.at)>>})]_busVars

\* A key combination that is held and selected has requested its interrupt,
\* whether it was pressed or selected first, unless the program has
\* acknowledged the request since.
KeypadSeen == ConditionMet(io) => KeypadRequested(io) \/ acked
=============================================================================
