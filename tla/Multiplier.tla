----------------------------- MODULE Multiplier -----------------------------
(***************************************************************************)
(* The long multiplications of Arm7tdmi (src/core/arm7tdmi.cpp): the       *)
(* product execute_multiply_long writes, the Booth-recoded carry-save      *)
(* multiplier arm7tdmi_multiply_long_output it runs for the carry flag,    *)
(* and the iterations the step is charged for.                             *)
(*                                                                         *)
(* The code's multiplier works on 32-bit words, four Booth digits of two   *)
(* bits in each of at most four cycles. Here a cycle takes Digits of them  *)
(* and a word is as wide as four cycles; the code's is Digits = 4.         *)
(***************************************************************************)
EXTENDS Integers, Bitwise

CONSTANTS
  Digits,       \* Booth digits recoded in a cycle
  Operands,     \* the words multiplied
  Accumulators  \* the double words added

ASSUME DigitsAssumption == Digits \in Nat \ {0}

VARIABLE product  \* the multiplication under way

WordBits == 8 * Digits
LongBits == 2 * WordBits
CycleBits == 2 * Digits

Ones(n) == 2 ^ n - 1
Low(x, n) == x % 2 ^ n
BitAt(x, i) == (x \div 2 ^ i) % 2
Complement(x) == Ones(LongBits) - x

\* sign_extend64
SignExtend(x, from, to) ==
  Low(IF BitAt(x, from - 1) = 1 THEN x | (2 ^ to - 2 ^ from) ELSE x, to)

\* arithmetic_shift_right
ArithmeticShiftRight(x, n, width) ==
  LET extended == SignExtend(x, width, LongBits)
      filled == IF BitAt(extended, LongBits - 1) = 1 THEN 2 ^ LongBits - 2 ^ (LongBits - n) ELSE 0
  IN Low((extended \div 2 ^ n) + filled, width)

\* rotate_right_128
RotateRightPair(p, n) ==
  [lo |-> (p.lo \div 2 ^ n) | (Low(p.hi, n) * 2 ^ (LongBits - n)),
   hi |-> (p.hi \div 2 ^ n) | (Low(p.lo, n) * 2 ^ (LongBits - n))]

\* add32
AddWords(left, right, carry) ==
  LET sum == Low(left, WordBits) + Low(right, WordBits) + carry
  IN [output |-> Low(sum, WordBits), carry |-> sum \div 2 ^ WordBits]

\* booth_recode
BoothRecode(x, chunk) ==
  LET recoded ==
        CASE chunk \in {0, 7} -> 0
          [] chunk \in {1, 2} -> x
          [] chunk = 3 -> 2 * x
          [] chunk = 4 -> Complement(2 * x)
          [] chunk \in {5, 6} -> Complement(x)
  IN [output |-> Low(recoded, WordBits + 2), carry |-> IF chunk \in 4..6 THEN 1 ELSE 0]

\* BUG: the majority of three forgets a pair.
CarrySaveAddShort(a, b, c) ==
  [output |-> (a ^^ b) ^^ c, carry |-> (a & b) | (b & c)]

\* carry_save_add
CarrySaveAdd(a, b, c) ==
  [output |-> (a ^^ b) ^^ c, carry |-> ((a & b) | (b & c)) | (c & a)]

\* One turn of the loop in multiply_csa_cycle: Booth digit i of the cycle.
RecodeDigit(m, multiplicand, chunk, i) ==
  LET a == Low(m.csa.output, WordBits + 1)
      c == Low(m.csa.carry, WordBits + 1)
      addend == BoothRecode(multiplicand, chunk)
      added == CarrySaveAdd(a, Low(addend.output, WordBits + 1), c)
      carried == 2 * added.carry + addend.carry
      fix == BitAt(m.accShift, 0) + (1 - BitAt(c, WordBits)) + (1 - BitAt(addend.output, WordBits + 1))
  IN [final |-> [output |-> m.final.output | (Low(added.output, 2) * 2 ^ (2 * i)),
                 carry |-> m.final.carry | (Low(carried, 2) * 2 ^ (2 * i))],
      csa |-> [output |-> (added.output \div 4) | (fix * 2 ^ (WordBits - 1)),
               carry |-> (carried \div 4) | ((1 - BitAt(m.accShift, 1)) * 2 ^ WordBits)],
      accShift |-> m.accShift \div 4]

\* multiply_csa_cycle
CsaCycle(csa, multiplicand, multiplier, accShift) ==
  LET start == [final |-> [output |-> 0, carry |-> 0], csa |-> csa, accShift |-> accShift]
      after[i \in 0..Digits] ==
        IF i = 0 THEN start
        ELSE LET m == after[i - 1]
             IN RecodeDigit(m, multiplicand, Low(multiplier \div 2 ^ (2 * (i - 1)), 3), i - 1)
      end == after[Digits]
  IN [csa |-> [output |-> end.final.output | (end.csa.output * 2 ^ CycleBits),
               carry |-> end.final.carry | (end.csa.carry * 2 ^ CycleBits)],
      accShift |-> end.accShift]

---------------------------------------------------------------------------
Idle == [stage |-> "idle"]

MultiplierInit == product = Idle

\* arm7tdmi_multiply_long_output up to its loop.
MultiplyLong(signed, rm, rs, accumulator) ==
  LET extended(x) == IF signed THEN SignExtend(x, WordBits, WordBits + 2) ELSE x
      carry == IF BitAt(rs, 0) = 1 THEN Complement(extended(rm)) ELSE 0
      first(x) == RotateRightPair([lo |-> Low(x, 1), hi |-> 0], 1)
  IN /\ product.stage = "idle"
     /\ product' = [stage |-> "loop", signed |-> signed, rm |-> rm, rs |-> rs,
                    accumulator |-> accumulator,
                    multiplier |-> extended(rs), multiplicand |-> extended(rm),
                    accShift |-> accumulator \div 2 ^ (WordBits + 2),
                    csa |-> [output |-> accumulator \div 2, carry |-> carry \div 2],
                    sum |-> first(accumulator), carry |-> first(carry), iterations |-> 0]

\* multiply_should_terminate
ShouldTerminate(multiplier, signed) ==
  multiplier = 0 \/ (signed /\ multiplier = Ones(WordBits + 1))

\* The loop: a cycle shifts CycleBits of the product out of the adder.
MultiplyCycle ==
  /\ product.stage = "loop"
  /\ LET cycle == CsaCycle(product.csa, product.multiplicand, product.multiplier, product.accShift)
         shifted(p, out) ==
           RotateRightPair([p EXCEPT !.lo = @ | Low(out, CycleBits)], CycleBits)
         multiplier == ArithmeticShiftRight(product.multiplier, CycleBits, WordBits + 1)
     IN product' = [product EXCEPT
          !.stage = IF ShouldTerminate(multiplier, product.signed) THEN "add" ELSE "loop",
          !.multiplier = multiplier, !.accShift = cycle.accShift,
          !.csa = [output |-> cycle.csa.output \div 2 ^ CycleBits,
                   carry |-> cycle.csa.carry \div 2 ^ CycleBits],
          !.sum = shifted(product.sum, cycle.csa.output),
          !.carry = shifted(product.carry, cycle.csa.carry),
          !.iterations = @ + 1]

\* The end of arm7tdmi_multiply_long_output: the parts are rotated into place
\* and added; the carry flag is the top bit of the partial carry.
HardwareOutput(p) ==
  LET turn == IF p.iterations = 4 THEN WordBits - 1 ELSE WordBits - 1 - CycleBits * p.iterations
      placed(pair, rest) == RotateRightPair([pair EXCEPT !.lo = @ | rest], turn)
      sum == placed(p.sum, p.csa.output)
      carry == placed(p.carry, p.csa.carry)
      top(x) == x \div 2 ^ WordBits
      in == BitAt(p.rs, 0)
      kept == 2 + CycleBits * p.iterations
      lo == IF p.iterations = 4 THEN AddWords(sum.hi, carry.hi, in)
            ELSE AddWords(top(sum.hi), top(carry.hi), in)
      hi == IF p.iterations = 4 THEN AddWords(top(sum.hi), top(carry.hi), lo.carry)
            ELSE AddWords(sum.lo | Low(p.accShift * 2 ^ kept, LongBits),
                          SignExtend(carry.lo, kept, LongBits), lo.carry)
  IN [output |-> hi.output * 2 ^ WordBits + lo.output, carry |-> BitAt(carry.hi, LongBits - 1)]

\* execute_multiply_long: what RdHi and RdLo get together.
AsSigned(x) == IF BitAt(x, WordBits - 1) = 1 THEN x - 2 ^ WordBits ELSE x
LongResult(p) ==
  LET left == IF p.signed THEN AsSigned(p.rm) ELSE p.rm
      right == IF p.signed THEN AsSigned(p.rs) ELSE p.rs
  IN (left * right + p.accumulator) % 2 ^ LongBits

\* signed_multiply_iterations and unsigned_multiply_iterations of the
\* multiplier: the iterations runtime_multiply_elapsed_cycles charges.
ChargedIterations(x, signed) ==
  LET small(n) == LET rest == x \div 2 ^ (n * CycleBits)
                  IN rest = 0 \/ (signed /\ rest = Ones(WordBits - n * CycleBits))
  IN CHOOSE n \in 1..4 : (n = 4 \/ small(n)) /\ \A k \in 1..(n - 1) : ~small(k)

\* The flags: N and Z of the 64-bit result (set_nz64), the multiplier's carry.
FinishMultiply ==
  /\ product.stage = "add"
  /\ product' = [stage |-> "done", of |-> product, result |-> LongResult(product),
                 negative |-> BitAt(LongResult(product), LongBits - 1) = 1,
                 zero |-> LongResult(product) = 0,
                 hardware |-> HardwareOutput(product),
                 charged |-> ChargedIterations(product.rs, product.signed)]

NextInstruction == product.stage = "done" /\ product' = Idle

MultiplierNext ==
  \/ \E signed \in BOOLEAN, rm \in Operands, rs \in Operands, a \in Accumulators :
       MultiplyLong(signed, rm, rs, a)
  \/ MultiplyCycle
  \/ FinishMultiply
  \/ NextInstruction

---------------------------------------------------------------------------
\* The emulated multiplier, whose product the code throws away, computes the
\* product the registers get, so that its carry is that of the same
\* multiplication; and it takes as many cycles as the step is charged for
\* (arm7tdmi_multiply_long_output, runtime_multiply_elapsed_cycles).
MultiplierAgrees ==
  product.stage = "done" =>
    /\ product.hardware.output = product.result
    /\ product.of.iterations = product.charged
=============================================================================
