---------------------------- MODULE DataTransfer ----------------------------
(***************************************************************************)
(* Loads and stores of Arm7tdmi (src/core/arm7tdmi.cpp): LDR and STR of    *)
(* words, halfwords and bytes, LDM and STM, SWP, and the Thumb forms, each *)
(* written out a second time in the code.                                  *)
(*                                                                         *)
(* A byte has Radix values (the code: 256) and a word four bytes. Memory   *)
(* is RAM, then ROM, which takes stores and ignores them, then a region    *)
(* that can be neither read nor written, as MemoryBus answers for the      *)
(* BIOS; the cartridge's save and IO, for which a store keeps its address, *)
(* are left to MemoryBus. R15 is left to CallReturn, and the S bit to      *)
(* RegisterBanks. R0 and R1 stand for the low registers.                   *)
(***************************************************************************)
EXTENDS Integers, SequencesExt

CONSTANTS
  Radix, RamBytes, RomBytes,
  BaseValues,    \* what the base register starts with
  DataValues,    \* what the others start with
  Offsets,
  OddHalfwords   \* BOOLEAN: Thumb loads halfwords from odd addresses too

ASSUME DataTransferAssumption ==
  /\ Radix \in Nat \ {0, 1} /\ Radix % 2 = 0
  /\ RamBytes % 4 = 0 /\ RomBytes % 4 = 0 /\ RomBytes > 0 /\ RamBytes + RomBytes <= Radix ^ 4

VARIABLES
  core,    \* [r: registers_, ram: the bytes of RAM]
  pipe,    \* the word read ahead of R15: a sequence of one word, empty if it cannot be read
  status   \* what the last instruction returned

transferVars == <<core, pipe, status>>

LowRegs == 0 .. 1
Sp == 2
Lr == 3
CpuRegs == LowRegs \cup {Sp, Lr}

Word32(x) == x % Radix ^ 4
Align(a, n) == a - (a % n)
Digit(w, i) == (w \div Radix ^ i) % Radix
LowPart(w, n) == w % Radix ^ n

\* rotate_right by n bytes.
RotatedBytes(w, n) == (w \div Radix ^ n) + LowPart(w, n) * Radix ^ (4 - n)

\* sign_extend8 and sign_extend16
SignExtended(x, n) == IF x >= (Radix ^ n) \div 2 THEN x + Radix ^ 4 - Radix ^ n ELSE x

NewRam == [a \in 0 .. RamBytes - 1 |-> (a + (a \div 4)) % Radix]

\* reset
TransferInit ==
  /\ core = [r |-> [i \in CpuRegs |-> 0], ram |-> NewRam]
  /\ pipe = << >>
  /\ status = "reset"

\* What earlier instructions have left: a base in some register, data in the
\* others, and code that can be read ahead or not.
Prepare ==
  /\ status # "ready"
  /\ \E base \in CpuRegs, b \in BaseValues, d \in DataValues :
       core' = [r |-> [i \in CpuRegs |-> IF i = base THEN b ELSE ((d + i) % Radix) * (Radix ^ 3 + Radix) + d],
             ram |-> NewRam]
  /\ pipe' \in {<< >>, <<Radix ^ 3 + 2 * Radix>>}
  /\ status' = "ready"

---------------------------------------------------------------------------
(* MemoryBus, as the instructions see it.                                   *)

Readable(a) == a < RamBytes + RomBytes
ByteAt(s, a) == IF a < RamBytes THEN s.ram[a] ELSE (a + 1) % Radix
BytesFrom(s, a, n) == IF n = 1 THEN ByteAt(s, a)
                      ELSE IF n = 2 THEN ByteAt(s, a) + Radix * ByteAt(s, a + 1)
                      ELSE ByteAt(s, a) + Radix * ByteAt(s, a + 1) + Radix ^ 2 * ByteAt(s, a + 2)
                             + Radix ^ 3 * ByteAt(s, a + 3)

\* read8, read16 and read32: an odd halfword is refused, a word rotated.
BusRead(s, a, n) ==
  IF ~Readable(a) \/ (n = 2 /\ a % 2 = 1) THEN << >>
  ELSE IF n = 4 THEN <<RotatedBytes(BytesFrom(s, Align(a, 4), 4), a % 4)>>
  ELSE <<BytesFrom(s, a, n)>>

\* write8, write16 and write32 of a register's low bytes: n of them from a on.
\* A store that begins in ROM is ignored as a whole.
Accepts(a) == a < RamBytes + RomBytes
BusWritten(s, a, value, n) ==
  [s EXCEPT !.ram = [b \in DOMAIN @ |-> IF b \in a .. a + n - 1 THEN Digit(value, b - a) ELSE @[b]]]

---------------------------------------------------------------------------
(* A load or store of one value: kind is what is transferred.               *)

LoadKinds == {"word", "byte", "half", "sbyte", "shalf"}
StoreKinds == {"word", "byte", "half"}
Bytes(kind) == IF kind = "word" THEN 4 ELSE IF kind \in {"half", "shalf"} THEN 2 ELSE 1

OrElse(value, other) == IF value # << >> THEN value ELSE other
Mapped(f(_), value) == IF value = << >> THEN << >> ELSE <<f(value[1])>>

\* read8_, read16_ and read32_or_arm_pipeline_open_bus
ArmRead(s, a, n) ==
  LET shift(w) == IF n = 4 THEN RotatedBytes(w, a % 4)
                  ELSE IF n = 2 THEN LowPart(w \div Radix ^ (Align(a, 2) % 4), 2)
                  ELSE Digit(w, a % 4)
  IN OrElse(BusRead(s, a, n), Mapped(shift, pipe))

\* read8_, read16_ and read32_or_thumb_pipeline_open_bus
ThumbRead(s, a, n) ==
  LET shift(w) == IF n = 4 THEN RotatedBytes(LowPart(w, 2) * (1 + Radix ^ 2), a % 4)
                  ELSE IF n = 2 THEN w \div Radix ^ 2
                  ELSE Digit(w, a % 4)
  IN OrElse(BusRead(s, a, n), Mapped(shift, pipe))

\* The loads of execute_arm: an odd signed halfword is its byte, an odd
\* halfword comes rotated.
ArmLoaded(s, a, kind) ==
  LET sign1(x) == SignExtended(x, 1)
      sign2(x) == SignExtended(x, 2)
      turned(x) == IF a % 2 = 1 THEN RotatedBytes(x, 1) ELSE x
  IN IF kind \in {"word", "byte"} THEN ArmRead(s, a, Bytes(kind))
     ELSE IF kind = "sbyte" \/ (kind = "shalf" /\ a % 2 = 1) THEN Mapped(sign1, ArmRead(s, a, 1))
     ELSE IF kind = "shalf" THEN Mapped(sign2, ArmRead(s, Align(a, 2), 2))
     ELSE Mapped(turned, ArmRead(s, Align(a, 2), 2))

\* The loads of execute_thumb_memory_transfer.
ThumbLoaded(s, a, kind) ==
  LET sign(x) == SignExtended(x, Bytes(kind))
      value == ThumbRead(s, a, Bytes(kind))
  IN IF kind \in {"sbyte", "shalf"} THEN Mapped(sign, value) ELSE value

Refused(s) == [s |-> s, status |-> "unsupported"]
Executed(s) == [s |-> s, status |-> "executed"]
WithRegister(s, i, value) == [s EXCEPT !.r[i] = value]

Stored(s, a, kind, rd) ==
  LET to == Align(a, Bytes(kind))
  IN IF Accepts(to) THEN Executed(BusWritten(s, to, s.r[rd], Bytes(kind))) ELSE Refused(s)

\* LDR, STR and their halfword forms in execute_arm. A post-indexed transfer
\* writes its base back without the bit for it.
ArmSingle(s, i) ==
  LET base == s.r[i.rn]
      moved == Word32(IF i.up THEN base + i.offset ELSE base - i.offset)
      a == IF i.pre THEN moved ELSE base
      back == ~i.pre \/ i.back
      value == ArmLoaded(s, a, i.kind)
      out == IF ~i.load THEN Stored(s, a, i.kind, i.rd)
             ELSE IF value = << >> THEN Refused(s) ELSE Executed(WithRegister(s, i.rd, value[1]))
  IN IF (~i.pre /\ i.back) \/ (back /\ i.load /\ i.rn = i.rd) THEN Refused(s)
     ELSE IF back /\ out.status = "executed" THEN [out EXCEPT !.s = WithRegister(@, i.rn, moved)]
     ELSE out

\* execute_thumb_memory_transfer
ThumbSingle(s, i) ==
  LET a == Word32(s.r[i.rn] + i.offset)
      value == ThumbLoaded(s, a, i.kind)
  IN IF ~i.load THEN Stored(s, a, i.kind, i.rd)
     ELSE IF value = << >> THEN Refused(s) ELSE Executed(WithRegister(s, i.rd, value[1]))

\* execute_swap
Swapped(s, byte, rn, rd, rm) ==
  LET n == IF byte THEN 1 ELSE 4
      old == BusRead(s, s.r[rn], n)
  IN IF old = << >> \/ ~Accepts(s.r[rn]) THEN Refused(s)
     ELSE Executed(WithRegister(BusWritten(s, s.r[rn], s.r[rm], n), rd, old[1]))

---------------------------------------------------------------------------
(* Blocks.                                                                  *)

\* The registers of a list, lowest first.
InOrder(list) == SetToSortSeq(list, LAMBDA x, y : x < y)

\* Each word read before any register is written; open is the open bus.
LoadedBlock(s, list, first, open) ==
  LET order == InOrder(list)
      values == [k \in DOMAIN order |-> OrElse(BusRead(s, Word32(first + 4 * (k - 1)), 4), open)]
  IN IF \E k \in DOMAIN order : values[k] = << >> THEN Refused(s)
     ELSE Executed([s EXCEPT !.r = [i \in CpuRegs |->
            IF i \in list THEN values[CHOOSE k \in DOMAIN order : order[k] = i][1] ELSE @[i]]])

\* Word by word, up to one that is refused.
StoredBlock(s, list, first) ==
  LET order == InOrder(list)
      put(out, k) ==
        LET a == Word32(first + 4 * (k - 1))
        IN IF out.status = "unsupported" \/ ~Accepts(a) THEN Refused(out.s)
           ELSE Executed(BusWritten(out.s, a, s.r[order[k]], 4))
  IN FoldLeft(put, Executed(s), [k \in DOMAIN order |-> k])

\* BUG: a descending block starts where an ascending one would end.
BlockAddressHigh(base, count, pre, up) ==
  IF up THEN [first |-> IF pre THEN base + 4 ELSE base, back |-> base + 4 * count]
  ELSE [first |-> IF pre THEN base - 4 * count ELSE base - 4 * count - 4, back |-> base - 4 * count]

\* block_transfer_address
BlockAddress(base, count, pre, up) ==
  IF up THEN [first |-> IF pre THEN base + 4 ELSE base, back |-> base + 4 * count]
  ELSE [first |-> IF pre THEN base - 4 * count ELSE base - 4 * count + 4, back |-> base - 4 * count]

WrittenBack(out, back, rn, value) ==
  IF back /\ out.status = "executed" THEN [out EXCEPT !.s = WithRegister(@, rn, Word32(value))] ELSE out

\* LDM and STM in execute_arm.
ArmBlock(s, i) ==
  LET at4 == BlockAddress(s.r[i.rn], Cardinality(i.list), i.pre, i.up)
      out == IF i.load THEN LoadedBlock(s, i.list, at4.first, << >>) ELSE StoredBlock(s, i.list, at4.first)
  IN IF i.load /\ i.back /\ i.rn \in i.list THEN Refused(s) ELSE WrittenBack(out, i.back, i.rn, at4.back)

\* execute_thumb_block_transfer; the bus latch is empty outside DMA, and the
\* halfword read ahead fills both halves.
ThumbBlock(s, load, rb, list) ==
  LET doubled(w) == LowPart(w, 2) * (1 + Radix ^ 2)
      turned(w) == RotatedBytes(doubled(w), s.r[rb] % 4)
      out == IF load THEN LoadedBlock(s, list, s.r[rb], Mapped(turned, pipe)) ELSE StoredBlock(s, list, s.r[rb])
  IN WrittenBack(out, TRUE, rb, s.r[rb] + 4 * Cardinality(list))

\* execute_thumb_stack_transfer
ThumbPush(s, list) ==
  LET to == s.r[Sp] - 4 * Cardinality(list)
  IN IF list = {} THEN Refused(s) ELSE WrittenBack(StoredBlock(s, list, to), TRUE, Sp, to)
ThumbPop(s, list) ==
  IF list = {} THEN Refused(s)
  ELSE WrittenBack(LoadedBlock(s, list, s.r[Sp], << >>), TRUE, Sp, s.r[Sp] + 4 * Cardinality(list))

---------------------------------------------------------------------------
Does(out) == status = "ready" /\ core' = out.s /\ status' = out.status /\ UNCHANGED pipe

RegisterLists(regs) == SUBSET regs \ {{}}

\* LDR, STR, LDRB and STRB.
ArmTransfer ==
  \E load, pre, up, back \in BOOLEAN, kind \in {"word", "byte"}, rn, rd \in CpuRegs, offset \in Offsets :
    Does(ArmSingle(core, [load |-> load, pre |-> pre, up |-> up, back |-> back, kind |-> kind,
                          rn |-> rn, rd |-> rd, offset |-> offset]))

\* LDRH, STRH, LDRSB and LDRSH: only loads are signed.
ArmHalfwordTransfer ==
  \E load, pre, up, back \in BOOLEAN, kind \in {"half", "sbyte", "shalf"},
     rn, rd \in CpuRegs, offset \in Offsets :
    /\ load \/ kind = "half"
    /\ Does(ArmSingle(core, [load |-> load, pre |-> pre, up |-> up, back |-> back, kind |-> kind,
                             rn |-> rn, rd |-> rd, offset |-> offset]))

\* The Thumb forms, with R13 as a base too.
ThumbTransfer ==
  \E load \in BOOLEAN, kind \in LoadKinds, rn \in LowRegs \cup {Sp}, rd \in LowRegs, offset \in Offsets :
    /\ load \/ kind \in StoreKinds
    /\ rn = Sp => kind = "word"
    /\ Does(ThumbSingle(core, [load |-> load, kind |-> kind, rn |-> rn, rd |-> rd, offset |-> offset]))

\* SWP and SWPB.
SwapTransfer == \E byte \in BOOLEAN, rn, rd, rm \in CpuRegs : Does(Swapped(core, byte, rn, rd, rm))

\* LDM and STM of a list that is not empty.
ArmBlockTransfer ==
  \E load, pre, up, back \in BOOLEAN, rn \in CpuRegs, list \in RegisterLists(CpuRegs) :
    Does(ArmBlock(core, [load |-> load, pre |-> pre, up |-> up, back |-> back, rn |-> rn, list |-> list]))

\* LDMIA and STMIA.
ThumbBlockTransfer ==
  \E load \in BOOLEAN, rb \in LowRegs, list \in RegisterLists(LowRegs) : Does(ThumbBlock(core, load, rb, list))

\* PUSH, with or without R14, and POP; R15 in the list is CallReturn's.
ThumbStackTransfer ==
  \/ \E list \in SUBSET (LowRegs \cup {Lr}) : Does(ThumbPush(core, list))
  \/ \E list \in SUBSET LowRegs : Does(ThumbPop(core, list))

TransferNext ==
  \/ Prepare
  \/ ArmTransfer
  \/ ArmHalfwordTransfer
  \/ ThumbTransfer
  \/ SwapTransfer
  \/ ArmBlockTransfer
  \/ ThumbBlockTransfer
  \/ ThumbStackTransfer

---------------------------------------------------------------------------
(* Properties.                                                              *)

Block(load, pre, up, rn, list) ==
  [load |-> load, pre |-> pre, up |-> up, back |-> TRUE, rn |-> rn, list |-> list]

\* An aligned base with room for any list on either side.
Stackable(base) == base % 4 = 0 /\ base - 16 >= 0 /\ base + 20 <= RamBytes

\* What a block store puts down, the load in the opposite direction picks up:
\* every register of the list gets its value back and the base its address,
\* for each of the four ways to stack; and PUSH and POP, LDMIA and STMIA are
\* the ARM forms they abbreviate (block_transfer_address,
\* execute_thumb_stack_transfer, execute_thumb_block_transfer). A transfer
\* that is refused midway has changed no register, so that the base still says
\* where it began (the returns of ExecuteStatus::unsupported).
BlocksRoundTrip == status = "ready" =>
  /\ \A pre, up \in BOOLEAN, rn \in CpuRegs, list \in RegisterLists(CpuRegs) :
       LET stored == ArmBlock(core, Block(FALSE, pre, up, rn, list))
           cleared == [stored.s EXCEPT !.r = [i \in CpuRegs |-> IF i \in list THEN 0 ELSE @[i]]]
           loaded == ArmBlock(cleared, Block(TRUE, ~pre, ~up, rn, list))
       IN /\ rn \notin list /\ Stackable(core.r[rn])
               => loaded.status = "executed" /\ loaded.s.r = core.r
          /\ \A load \in BOOLEAN :
               LET refused == ArmBlock(core, Block(load, pre, up, rn, list))
               IN refused.status = "unsupported" => refused.s.r = core.r
  /\ \A list \in RegisterLists(LowRegs \cup {Lr}) : ThumbPush(core, list) = ArmBlock(core, Block(FALSE, TRUE, FALSE, Sp, list))
  /\ \A list \in RegisterLists(LowRegs) :
       /\ ThumbPop(core, list) = ArmBlock(core, Block(TRUE, FALSE, TRUE, Sp, list))
       /\ \A rb \in LowRegs : ThumbBlock(core, FALSE, rb, list) = ArmBlock(core, Block(FALSE, FALSE, TRUE, rb, list))

\* A Thumb load or store does what the ARM one of the same address does, odd
\* addresses included ("unaligned LDRH rotates aligned halfword right by 8",
\* "unaligned LDRSH sign-extends addressed byte", tests/arm7tdmi_test.cpp),
\* wherever there is memory (execute_thumb_memory_transfer).
ThumbTransfersAreArm == status = "ready" =>
  \A load \in BOOLEAN, kind \in LoadKinds, rn \in CpuRegs, rd \in LowRegs, offset \in Offsets :
    LET i == [load |-> load, pre |-> TRUE, up |-> TRUE, back |-> FALSE, kind |-> kind,
              rn |-> rn, rd |-> rd, offset |-> offset]
        a == Word32(core.r[rn] + offset)
    IN /\ load \/ kind \in StoreKinds
       /\ Readable(a) /\ (OddHalfwords \/ ~load \/ Bytes(kind) # 2 \/ a % 2 = 0)
       => ThumbSingle(core, i) = ArmSingle(core, i)
=============================================================================
