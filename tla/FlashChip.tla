----------------------------- MODULE FlashChip -----------------------------
(***************************************************************************)
(* What the Flash save chip promises the game: the commands as a table of  *)
(* bus writes, and their effects. A write either extends the command being *)
(* typed, completes it, or abandons it; nothing but a completed command    *)
(* touches the cells, the bank or the identification mode.                 *)
(*                                                                         *)
(* BackupMemory checks the state machine of the memory bus against this    *)
(* table.                                                                  *)
(***************************************************************************)
EXTENDS Naturals, Sequences

CONSTANTS
  Bytes,             \* the byte values the game writes
  BankSize, SectorSize,
  Unlock1, Unlock2   \* the two unlock offsets

(* A chip is a record:                                                      *)
(*   cells   one bit lane of each byte, over one bank or two                *)
(*   typed   the writes of the command being typed                          *)
(*   idMode  whether reads return the identification                        *)
(*   bank    the selected bank                                              *)

Offsets == 0 .. BankSize - 1

\* One step of a command: the offsets and the bytes it accepts.
On(offsets, bytes) == [at : offsets, val : bytes]
Unlock == <<On({Unlock1}, {170}), On({Unlock2}, {85})>>
Request(byte) == Unlock \o <<On({Unlock1}, {byte})>>

Commands == [
  identify |-> Request(144),
  program |-> Append(Request(160), On(Offsets, Bytes)),
  selectBank |-> Append(Request(176), On({0}, Bytes)),
  eraseChip |-> Request(128) \o Request(16),
  eraseSector |-> Request(128) \o Append(Unlock, On(Offsets, {48})),
  leave |-> Request(240),
  leaveShort |-> <<On(Offsets, {240})>>]

Spells(writes, steps) ==
  Len(writes) <= Len(steps) /\ \A i \in 1 .. Len(writes) : writes[i] \in steps[i]

Completes(writes, c) ==
  Len(writes) = Len(Commands[c]) /\ Spells(writes, Commands[c])

Begins(writes) ==
  \E c \in DOMAIN Commands : Len(writes) < Len(Commands[c]) /\ Spells(writes, Commands[c])

\* The cell an offset of the aperture addresses, and the banks there are.
Cell(chip, o) == chip.bank * BankSize + o
TwoBanks(chip) == BankSize \in DOMAIN chip.cells

\* Programming can only clear a bit; erasing sets a sector or all of them.
Effect(chip, c, w) ==
  LET target == Cell(chip, w.at)
      erased == IF c = "eraseChip" THEN DOMAIN chip.cells
                ELSE IF c = "eraseSector"
                THEN {i \in DOMAIN chip.cells : i \div SectorSize = target \div SectorSize}
                ELSE {}
  IN [cells |-> [i \in DOMAIN chip.cells |->
                   IF i \in erased THEN 1
                   ELSE IF c = "program" /\ i = target /\ w.val % 2 = 0 THEN 0
                   ELSE chip.cells[i]],
      typed |-> <<>>,
      idMode |-> c = "identify" \/ (chip.idMode /\ c \notin {"leave", "leaveShort"}),
      bank |-> IF c # "selectBank" THEN chip.bank
               ELSE IF TwoBanks(chip) THEN w.val % 2 ELSE 0]

\* What the write w does to the chip. A stray write between commands does not
\* end the identification mode, a write that breaks a command does.
Written(chip, w) ==
  LET now == Append(chip.typed, w)
      done == {c \in DOMAIN Commands : Completes(now, c)}
  IN IF done # {} THEN Effect(chip, CHOOSE c \in done : TRUE, w)
     ELSE IF Begins(now) THEN [chip EXCEPT !.typed = now]
     ELSE [chip EXCEPT !.typed = <<>>, !.idMode = chip.idMode /\ chip.typed = <<>>]
=============================================================================
