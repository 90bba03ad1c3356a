----------------------------- MODULE IoRegisters -----------------------------
(***************************************************************************)
(* The IO facade (src/core/io_registers.cpp) with the registers it owns or *)
(* forwards to: the interrupt controller, the keypad and WAITCNT, and of   *)
(* the other devices a register of each kind: one read back as stored      *)
(* (DISPCNT), one read only (VCOUNT), a pair that cannot be read (the      *)
(* source of a DMA channel) and a word port (a sound FIFO).                *)
(*                                                                         *)
(* A byte has the two bits that matter of each register; a halfword is a   *)
(* pair of bytes, low one first. IE and IF: two sources in the low byte,   *)
(* the keypad's bit and an unsupported one in the high byte. KEYCNT: two   *)
(* keys, and the enable and the AND bit.                                   *)
(***************************************************************************)
EXTENDS Integers, Sequences

Byte == 0 .. 3
Half == [1 .. 2 -> Byte]
Zero == <<0, 0>>
Flag(b, n) == (b \div n) % 2
Both(b, c) == IF b = 3 THEN c ELSE IF c = 3 THEN b ELSE IF b = c THEN b ELSE 0
Minus(b, c) == b - Both(b, c)

\* The registers by address, word-aligned pairs.
Dispcnt == 0
Vcount == 2
Keyinput == 4
Keycnt == 6
Ie == 8
If == 10
Waitcnt == 12
Ime == 16
Fifo == 20
SourceLow == 24

NewIo ==
  [dispcnt |-> Zero, source |-> <<Zero, Zero>>, fifo |-> 0, waitcnt |-> Zero,
   ie |-> Zero, flags |-> Zero, ime |-> FALSE, keys |-> 0, keycnt |-> Zero]

---------------------------------------------------------------------------
(* Keypad and interrupt controller.                                         *)

\* irq_condition_met: no selection never matches.
ConditionMet(io) ==
  LET selected == io.keycnt[1]
      pressed == Both(io.keys, selected)
  IN /\ Flag(io.keycnt[2], 1) = 1
     /\ selected # 0
     /\ IF Flag(io.keycnt[2], 2) = 1 THEN pressed = selected ELSE pressed # 0

KeypadRequested(io) == io.flags[2] = 1

\* poll_interrupt: requests the keypad's interrupt.
Polled(io) == IF ConditionMet(io) THEN [io EXCEPT !.flags[2] = 1] ELSE io

\* BUG: a key that is already held when it is selected is not noticed.
KeycntWrittenUnpolled(io, half) == [io EXCEPT !.keycnt = half]

KeycntWritten(io, half) == Polled([io EXCEPT !.keycnt = half])

\* CoreSession::set_input_mask
KeysPressed(io, keys) == Polled([io EXCEPT !.keys = keys])

\* The bits the controller supports.
Supported(half) == <<half[1], half[2] % 2>>

Acknowledged(io, half) ==
  [io EXCEPT !.flags = <<Minus(@[1], half[1]), Minus(@[2], half[2] % 2)>>]

\* request, by a device whose source is bit n of the low byte.
Requested(io, n) ==
  IF Flag(io.flags[1], n) = 1 THEN io ELSE [io EXCEPT !.flags[1] = @ + n]

---------------------------------------------------------------------------
(* Access. An optional value is a sequence, empty if there is none.         *)

\* read16
IoRead16(io, r) ==
  IF r = Dispcnt THEN io.dispcnt
  ELSE IF r = Vcount THEN <<1, 0>>
  ELSE IF r = Keyinput THEN <<3 - io.keys, 0>>
  ELSE IF r = Keycnt THEN io.keycnt
  ELSE IF r = Ie THEN io.ie
  ELSE IF r = If THEN io.flags
  ELSE IF r = Waitcnt THEN io.waitcnt
  ELSE IF r = Ime THEN <<IF io.ime THEN 1 ELSE 0, 0>>
  ELSE IF r \in {Waitcnt + 2, Ime + 2} THEN Zero
  ELSE <<>>

\* read32: the half above IME is not looked at.
IoRead32(io, r) ==
  LET low == IoRead16(io, r)
      high == IF r = Ime THEN Zero ELSE IoRead16(io, r + 2)
  IN IF low = <<>> \/ high = <<>> THEN <<>> ELSE low \o high

\* can_write16_address
Writable == {Dispcnt, Keycnt, Ie, If, Waitcnt, Ime, SourceLow, SourceLow + 2}

\* write16
IoWritten16(io, r, half) ==
  IF r = Dispcnt THEN [io EXCEPT !.dispcnt = half]
  ELSE IF r = Keycnt THEN KeycntWritten(io, half)
  ELSE IF r = Ie THEN [io EXCEPT !.ie = Supported(half)]
  ELSE IF r = If THEN Acknowledged(io, half)
  ELSE IF r = Waitcnt THEN [io EXCEPT !.waitcnt = <<half[1], half[2] % 2>>]
  ELSE IF r = Ime THEN [io EXCEPT !.ime = half[1] % 2 = 1]
  ELSE IF r = SourceLow THEN [io EXCEPT !.source[1] = half]
  ELSE IF r = SourceLow + 2 THEN [io EXCEPT !.source[2] = half]
  ELSE io

\* write32: IME and WAITCNT take the low half, the FIFO the word, and of any
\* other pair the halves that can be written are written one by one.
IoWritten32(io, r, word) ==
  LET low == SubSeq(word, 1, 2)
      high == SubSeq(word, 3, 4)
      first == IF r \in Writable THEN IoWritten16(io, r, low) ELSE io
  IN IF r \in {Ime, Waitcnt} THEN IoWritten16(io, r, low)
     ELSE IF r = Fifo THEN [io EXCEPT !.fifo = (@ + 1) % 2]
     ELSE IF r + 2 \in Writable THEN IoWritten16(first, r + 2, high) ELSE first
=============================================================================
