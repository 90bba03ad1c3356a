-------------------------------- MODULE Alu --------------------------------
(***************************************************************************)
(* The arithmetic of Arm7tdmi (src/core/arm7tdmi.cpp): the barrel shifter, *)
(* execute_data_processing, execute_multiply, their Thumb counterparts,    *)
(* which compute everything a second time, and the condition codes.        *)
(*                                                                         *)
(* A word has Wide bits (the code: 32) and a shift by register takes its   *)
(* amount from the low AmountBits of it (the code: 8). R15 as an operand   *)
(* or a destination is left to CallReturn.                                 *)
(***************************************************************************)
EXTENDS Integers, Bitwise

CONSTANTS
  Wide, AmountBits,
  Immediates, Rotations, Amounts,  \* the fields of the instructions that happen
  Conditions

ASSUME AluAssumption == Wide \in Nat \ {0} /\ AmountBits \in 1..Wide

VARIABLE alu  \* [r: two of registers_, f: negative_, zero_, carry_, overflow_]

Words == 0..(2 ^ Wide - 1)
Wrap(x) == x % 2 ^ Wide
Inverted(x) == 2 ^ Wide - 1 - x
TestBit(x, i) == (x \div 2 ^ i) % 2 = 1
Negative(x) == TestBit(x, Wide - 1)
One01(b) == IF b THEN 1 ELSE 0
AllOnes(b) == IF b THEN 2 ^ Wide - 1 ELSE 0

AluInit ==
  alu = [r |-> [i \in 0..1 |-> 0], f |-> [n |-> FALSE, z |-> FALSE, c |-> FALSE, v |-> FALSE]]

\* condition_passed
ConditionPassed(f, cond) ==
  CASE cond = "eq" -> f.z
    [] cond = "ne" -> ~f.z
    [] cond = "cs" -> f.c
    [] cond = "cc" -> ~f.c
    [] cond = "mi" -> f.n
    [] cond = "pl" -> ~f.n
    [] cond = "vs" -> f.v
    [] cond = "vc" -> ~f.v
    [] cond = "hi" -> f.c /\ ~f.z
    [] cond = "ls" -> ~f.c \/ f.z
    [] cond = "ge" -> f.n = f.v
    [] cond = "lt" -> f.n # f.v
    [] cond = "gt" -> ~f.z /\ f.n = f.v
    [] cond = "le" -> f.z \/ f.n # f.v
    [] cond = "al" -> TRUE

---------------------------------------------------------------------------
(* The barrel shifter.                                                      *)

LslBy(x, n) == Wrap(x * 2 ^ n)
LsrBy(x, n) == x \div 2 ^ n
AsrBy(x, n) == LsrBy(x, n) + (IF Negative(x) THEN 2 ^ Wide - 2 ^ (Wide - n) ELSE 0)

\* rotate_right
RotateRight(x, n) == LET k == n % Wide IN LsrBy(x, k) + Wrap(x * 2 ^ (Wide - k)) * One01(k # 0)

Unshifted(x) == [value |-> x, valid |-> FALSE, carry |-> FALSE]
Shifted(x, carry) == [value |-> x, valid |-> TRUE, carry |-> carry]

\* apply_immediate_shift: an amount of 0 encodes a right shift by the width,
\* or a rotation by one through the carry.
ApplyImmediateShift(x, type, n, c) ==
  CASE type = "lsl" -> IF n = 0 THEN Unshifted(x) ELSE Shifted(LslBy(x, n), TestBit(x, Wide - n))
    [] type = "lsr" -> IF n = 0 THEN Shifted(0, Negative(x)) ELSE Shifted(LsrBy(x, n), TestBit(x, n - 1))
    [] type = "asr" -> IF n = 0 THEN Shifted(AllOnes(Negative(x)), Negative(x))
                       ELSE Shifted(AsrBy(x, n), TestBit(x, n - 1))
    [] type = "ror" -> IF n = 0 THEN Shifted(One01(c) * 2 ^ (Wide - 1) + LsrBy(x, 1), TestBit(x, 0))
                       ELSE Shifted(RotateRight(x, n), Negative(RotateRight(x, n)))

\* BUG: a shift by the width is taken as one past it.
ApplyRegisterShiftAtWidth(x, type, n) ==
  IF n = 0 THEN Unshifted(x)
  ELSE CASE type = "lsl" -> IF n < Wide THEN Shifted(LslBy(x, n), TestBit(x, Wide - n)) ELSE Shifted(0, FALSE)
         [] type = "lsr" -> IF n < Wide THEN Shifted(LsrBy(x, n), TestBit(x, n - 1)) ELSE Shifted(0, FALSE)
         [] type = "asr" -> IF n < Wide THEN Shifted(AsrBy(x, n), TestBit(x, n - 1))
                            ELSE Shifted(AllOnes(Negative(x)), Negative(x))
         [] type = "ror" -> Shifted(RotateRight(x, n), Negative(RotateRight(x, n)))

\* apply_register_shift
ApplyRegisterShift(x, type, n) ==
  LET beyond(edge) == Shifted(0, n = Wide /\ edge)
  IN IF n = 0 THEN Unshifted(x)
     ELSE CASE type = "lsl" -> IF n < Wide THEN Shifted(LslBy(x, n), TestBit(x, Wide - n))
                               ELSE beyond(TestBit(x, 0))
            [] type = "lsr" -> IF n < Wide THEN Shifted(LsrBy(x, n), TestBit(x, n - 1))
                               ELSE beyond(Negative(x))
            [] type = "asr" -> IF n < Wide THEN Shifted(AsrBy(x, n), TestBit(x, n - 1))
                               ELSE Shifted(AllOnes(Negative(x)), Negative(x))
            [] type = "ror" -> Shifted(RotateRight(x, n), Negative(RotateRight(x, n)))

\* decode_data_processing_immediate: a byte rotated right by an even amount.
ImmediateOperand(imm, rotate) ==
  LET x == RotateRight(imm, 2 * rotate) IN [value |-> x, valid |-> rotate # 0, carry |-> Negative(x)]

\* The low byte of the register a shift takes its amount from.
ShiftAmount(x) == x % 2 ^ AmountBits

---------------------------------------------------------------------------
(* The flags.                                                               *)

\* set_nz
SetNz(f, result) == [f EXCEPT !.n = Negative(result), !.z = (result = 0)]

AddOverflow(l, r, result) == Negative(l) = Negative(r) /\ Negative(l) # Negative(result)
SubOverflow(l, r, result) == Negative(l) # Negative(r) /\ Negative(l) # Negative(result)

\* set_add_flags
SetAddFlags(f, l, r, result) ==
  [SetNz(f, result) EXCEPT !.c = result < l, !.v = AddOverflow(l, r, result)]

\* BUG: the carry of an addition with carry is found as that of one without.
SetAdcFlagsAsAdd(f, l, r, carry, result) == SetAddFlags(f, l, r, result)

\* set_adc_flags
SetAdcFlags(f, l, r, carry, result) ==
  [SetNz(f, result) EXCEPT !.c = l + r + One01(carry) >= 2 ^ Wide, !.v = AddOverflow(l, r, result)]

\* set_sub_flags
SetSubFlags(f, l, r, result) ==
  [SetNz(f, result) EXCEPT !.c = l >= r, !.v = SubOverflow(l, r, result)]

\* set_sbc_flags
SetSbcFlags(f, l, r, carry, result) ==
  [SetNz(f, result) EXCEPT !.c = l >= r + One01(~carry), !.v = SubOverflow(l, r, result)]

\* set_logical_flags
SetLogicalFlags(f, result, s) ==
  [SetNz(f, result) EXCEPT !.c = IF s.valid THEN s.carry ELSE @]

---------------------------------------------------------------------------
(* execute_data_processing.                                                 *)

LogicalOps == {"and", "eor", "tst", "teq", "orr", "mov", "bic", "mvn"}
CompareOps == {"tst", "teq", "cmp", "cmn"}
ArmOps == LogicalOps \cup CompareOps \cup {"sub", "rsb", "add", "adc", "sbc", "rsc"}

Computed(op, l, r, c) ==
  CASE op \in {"and", "tst"} -> l & r
    [] op \in {"eor", "teq"} -> l ^^ r
    [] op = "orr" -> l | r
    [] op = "bic" -> l & Inverted(r)
    [] op = "mov" -> r
    [] op = "mvn" -> Inverted(r)
    [] op \in {"add", "cmn"} -> Wrap(l + r)
    [] op \in {"sub", "cmp"} -> Wrap(l - r)
    [] op = "rsb" -> Wrap(r - l)
    [] op = "adc" -> Wrap(l + r + One01(c))
    [] op = "sbc" -> Wrap(l - r - One01(~c))
    [] op = "rsc" -> Wrap(r - l - One01(~c))

\* What the instruction leaves in its destination (old: what was there) and
\* in the flags; s is the shifter's operand.
DataProcessing(f, op, setFlags, l, s, old) ==
  LET r == s.value
      result == Computed(op, l, r, f.c)
      flags == CASE op \in LogicalOps -> SetLogicalFlags(f, result, s)
                 [] op \in {"add", "cmn"} -> SetAddFlags(f, l, r, result)
                 [] op \in {"sub", "cmp"} -> SetSubFlags(f, l, r, result)
                 [] op = "rsb" -> SetSubFlags(f, r, l, result)
                 [] op = "adc" -> SetAdcFlags(f, l, r, f.c, result)
                 [] op = "sbc" -> SetSbcFlags(f, l, r, f.c, result)
                 [] op = "rsc" -> SetSbcFlags(f, r, l, f.c, result)
  IN [result |-> IF op \in CompareOps THEN old ELSE result,
      flags |-> IF setFlags \/ op \in CompareOps THEN flags ELSE f]

\* execute_multiply: the low word; the carry flag is left alone.
Multiplied(f, setFlags, rm, rs, added) ==
  LET result == Wrap(rm * rs + added)
  IN [result |-> result, flags |-> IF setFlags THEN SetNz(f, result) ELSE f]

---------------------------------------------------------------------------
(* Thumb.                                                                   *)

\* execute_thumb_shift
ThumbShift(f, type, x, n) ==
  LET by == IF n = 0 /\ type # "lsl" THEN Wide ELSE n
      result == CASE type = "lsl" -> LslBy(x, n)
                  [] type = "lsr" -> IF by = Wide THEN 0 ELSE LsrBy(x, by)
                  [] type = "asr" -> IF by = Wide THEN AllOnes(Negative(x)) ELSE AsrBy(x, by)
      carry == IF type # "lsl" THEN TestBit(x, by - 1) ELSE IF n = 0 THEN f.c ELSE TestBit(x, Wide - n)
  IN [result |-> result, flags |-> [SetNz(f, result) EXCEPT !.c = carry]]

ThumbShiftOps == {"lsl", "lsr", "asr", "ror"}
ThumbArithmeticOps == {"adc", "sbc", "neg", "cmp", "cmn"}
ThumbAluOps == ThumbShiftOps \cup ThumbArithmeticOps
                 \cup {"and", "eor", "tst", "orr", "mul", "bic", "mvn"}

\* The shift cases of execute_thumb_alu: the result and the carry out.
ThumbShiftedBy(type, x, n) ==
  CASE type = "lsl" -> IF n < Wide THEN <<LslBy(x, n), TestBit(x, Wide - n)>>
                       ELSE <<0, n = Wide /\ TestBit(x, 0)>>
    [] type = "lsr" -> IF n < Wide THEN <<LsrBy(x, n), TestBit(x, n - 1)>>
                       ELSE <<0, n = Wide /\ Negative(x)>>
    [] type = "asr" -> IF n < Wide THEN <<AsrBy(x, n), TestBit(x, n - 1)>>
                       ELSE <<AllOnes(Negative(x)), Negative(x)>>
    [] type = "ror" -> LET x1 == IF n % Wide = 0 THEN x ELSE RotateRight(x, n % Wide)
                       IN <<x1, Negative(x1)>>

\* BUG: NEG sets its flags as the comparison of the operand with zero.
ThumbNegSwapped(f, l, r) ==
  [result |-> Wrap(0 - r), flags |-> SetSubFlags(f, r, 0, Wrap(0 - r))]

\* The neg case.
ThumbNeg(f, l, r) ==
  [result |-> Wrap(0 - r), flags |-> SetSubFlags(f, 0, r, Wrap(0 - r))]

\* execute_thumb_alu
ThumbAlu(f, op, l, r) ==
  LET n == ShiftAmount(r)
      logical(x) == [result |-> x, flags |-> SetNz(f, x)]
  IN CASE op \in ThumbShiftOps ->
            IF n = 0 THEN logical(l)
            ELSE LET out == ThumbShiftedBy(op, l, n)
                 IN [result |-> out[1], flags |-> [SetNz(f, out[1]) EXCEPT !.c = out[2]]]
       [] op = "and" -> logical(l & r)
       [] op = "eor" -> logical(l ^^ r)
       [] op = "orr" -> logical(l | r)
       [] op = "mul" -> logical(Wrap(l * r))
       [] op = "bic" -> logical(l & Inverted(r))
       [] op = "mvn" -> logical(Inverted(r))
       [] op = "tst" -> [result |-> l, flags |-> SetNz(f, l & r)]
       [] op = "neg" -> ThumbNeg(f, l, r)
       [] op = "cmp" -> [result |-> l, flags |-> SetSubFlags(f, l, r, Wrap(l - r))]
       [] op = "cmn" -> [result |-> l, flags |-> SetAddFlags(f, l, r, Wrap(l + r))]
       [] op = "adc" -> LET x == Wrap(l + r + One01(f.c))
                        IN [result |-> x, flags |-> SetAdcFlags(f, l, r, f.c, x)]
       [] op = "sbc" -> LET x == Wrap(l - r - One01(~f.c))
                        IN [result |-> x, flags |-> SetSbcFlags(f, l, r, f.c, x)]

\* execute_thumb_data_processing: rd is what the destination holds.
ThumbDataOps == {"mov", "cmp", "add", "sub"}
ThumbData(f, op, rd, rs, operand) ==
  CASE op = "mov" -> [result |-> operand, flags |-> SetNz(f, operand)]
    [] op = "cmp" -> [result |-> rd, flags |-> SetSubFlags(f, rd, operand, Wrap(rd - operand))]
    [] op = "add" -> [result |-> Wrap(rs + operand),
                      flags |-> SetAddFlags(f, rs, operand, Wrap(rs + operand))]
    [] op = "sub" -> [result |-> Wrap(rs - operand),
                      flags |-> SetSubFlags(f, rs, operand, Wrap(rs - operand))]

---------------------------------------------------------------------------
(* The instructions, on two registers.                                      *)

Keep(rd, out) == alu' = [r |-> [alu.r EXCEPT ![rd] = out.result], f |-> out.flags]

\* The operand of a data-processing instruction: an immediate, a register
\* shifted by an immediate, or a register shifted by a register.
OperandOf(rm, rs) ==
  {ImmediateOperand(i, k) : i \in Immediates, k \in Rotations}
    \cup {ApplyImmediateShift(alu.r[rm], t, n, alu.f.c) : t \in ThumbShiftOps, n \in Amounts}
    \cup {ApplyRegisterShift(alu.r[rm], t, ShiftAmount(alu.r[rs])) : t \in ThumbShiftOps}

\* An instruction whose condition fails leaves everything alone.
ArmDataProcessing(cond, op, setFlags, rd, s) ==
  /\ ConditionPassed(alu.f, cond)
  /\ Keep(rd, DataProcessing(alu.f, op, setFlags, alu.r[rd], s, alu.r[rd]))

ArmMultiply(cond, setFlags, rd, rm, rs, accumulate) ==
  /\ ConditionPassed(alu.f, cond)
  /\ Keep(rd, Multiplied(alu.f, setFlags, alu.r[rm], alu.r[rs], IF accumulate THEN alu.r[rd] ELSE 0))

ThumbShiftImmediate(type, rd, rs, n) == Keep(rd, ThumbShift(alu.f, type, alu.r[rs], n))

ThumbRegisterAlu(op, rd, rs) == Keep(rd, ThumbAlu(alu.f, op, alu.r[rd], alu.r[rs]))

ThumbDataProcessing(op, rd, rs, operand) ==
  Keep(rd, ThumbData(alu.f, op, alu.r[rd], alu.r[rs], operand))

AluNext ==
  \E rd, rs \in 0..1 :
    \/ \E cond \in Conditions, op \in ArmOps, setFlags \in BOOLEAN, s \in OperandOf(rs, rd) :
         ArmDataProcessing(cond, op, setFlags, rd, s)
    \/ \E cond \in Conditions, setFlags, accumulate \in BOOLEAN :
         ArmMultiply(cond, setFlags, rd, rs, 1 - rs, accumulate)
    \/ \E type \in ThumbShiftOps \ {"ror"}, n \in Amounts : ThumbShiftImmediate(type, rd, rs, n)
    \/ \E op \in ThumbAluOps : ThumbRegisterAlu(op, rd, rs)
    \/ \E op \in ThumbDataOps, operand \in Immediates \cup {alu.r[1 - rd]} :
         ThumbDataProcessing(op, rd, rs, operand)

---------------------------------------------------------------------------
(* Properties.                                                              *)

SignedOf(x) == IF Negative(x) THEN x - 2 ^ Wide ELSE x

\* The sum or difference an instruction stands for, of unsigned or signed
\* operands.
Meant(op, l, r, c) ==
  CASE op \in {"add", "cmn"} -> l + r
    [] op \in {"sub", "cmp"} -> l - r
    [] op = "rsb" -> r - l
    [] op = "adc" -> l + r + One01(c)
    [] op = "sbc" -> l - r - One01(~c)
    [] op = "rsc" -> r - l - One01(~c)

\* Arithmetic loses nothing: with its carry (its borrow, when carry is clear)
\* a result is the exact sum or difference, so that a chain of ADDS and ADCS,
\* or of SUBS and SBCS, computes on numbers of any length; V says exactly
\* whether the signed result fits; and after a comparison every condition is
\* the relation it is named for, unsigned and signed (set_add_flags to
\* set_sbc_flags, condition_passed).
ArithmeticIsExact ==
  LET l == alu.r[0]
      r == alu.r[1]
      operand == Unshifted(r)
      compared == DataProcessing(alu.f, "cmp", TRUE, l, operand, l).flags
      after(cond) == ConditionPassed(compared, cond)
  IN /\ \A op \in ArmOps \ LogicalOps :
          LET f == DataProcessing(alu.f, op, TRUE, l, operand, l).flags
              word == Computed(op, l, r, alu.f.c)
              carried == IF op \in {"add", "adc", "cmn"} THEN One01(f.c) ELSE One01(f.c) - 1
          IN /\ word + 2 ^ Wide * carried = Meant(op, l, r, alu.f.c)
             /\ f.v <=> SignedOf(word) # Meant(op, SignedOf(l), SignedOf(r), alu.f.c)
     /\ after("eq") <=> l = r
     /\ after("cs") <=> l >= r
     /\ after("hi") <=> l > r
     /\ after("ge") <=> SignedOf(l) >= SignedOf(r)
     /\ after("gt") <=> SignedOf(l) > SignedOf(r)
     /\ \A p \in {<<"eq", "ne">>, <<"cs", "cc">>, <<"mi", "pl">>, <<"vs", "vc">>,
                  <<"hi", "ls">>, <<"ge", "lt">>, <<"gt", "le">>} : after(p[1]) <=> ~after(p[2])

\* One bit further: the value and the bit that leaves it.
OneBit(x, type) ==
  LET top(b) == One01(b) * 2 ^ (Wide - 1)
  IN CASE type = "lsl" -> [value |-> Wrap(2 * x), out |-> Negative(x)]
       [] type = "lsr" -> [value |-> x \div 2, out |-> TestBit(x, 0)]
       [] type = "asr" -> [value |-> (x \div 2) + top(Negative(x)), out |-> TestBit(x, 0)]
       [] type = "ror" -> [value |-> (x \div 2) + top(TestBit(x, 0)), out |-> TestBit(x, 0)]

\* A shift by n + 1 is a shift by n and one bit more, with the bit that
\* leaves as carry, and a shift by 0 keeps the value and the carry, for every
\* amount that a register can name, the width and beyond it included; an
\* immediate amount is the same, but 0 means the width, or a rotation through
\* the carry (apply_register_shift, apply_immediate_shift).
ShiftsAreRepeated ==
  LET x == alu.r[0]
      c == alu.f.c
      outcome(s) == [value |-> s.value, out |-> IF s.valid THEN s.carry ELSE c]
      by(type, n) == outcome(ApplyRegisterShift(x, type, n))
      immediate(type, n) == outcome(ApplyImmediateShift(x, type, n, c))
  IN \A type \in ThumbShiftOps :
       /\ by(type, 0) = [value |-> x, out |-> c]
       /\ \A n \in 1 .. 2 ^ AmountBits - 1 : by(type, n) = OneBit(by(type, n - 1).value, type)
       /\ \A n \in 1 .. Wide - 1 : immediate(type, n) = by(type, n)
       /\ immediate(type, 0) =
            IF type = "ror" THEN [value |-> (x + One01(c) * 2 ^ Wide) \div 2, out |-> TestBit(x, 0)]
            ELSE by(type, IF type = "lsl" THEN 0 ELSE Wide)

\* Data processing computes what its arithmetic and its shifts mean, carry and
\* overflow included, at every edge of a word and of an amount
\* (execute_data_processing, apply_register_shift, apply_immediate_shift).
DataProcessingIsExact == ArithmeticIsExact /\ ShiftsAreRepeated

\* Every Thumb instruction leaves the result and the flags of the ARM
\* instruction it abbreviates, though the code computes them separately
\* (execute_thumb_shift, execute_thumb_alu, execute_thumb_data_processing).
ThumbIsArm ==
  LET l == alu.r[0]
      r == alu.r[1]
      f == alu.f
      arm(op, x, s) == DataProcessing(f, op, TRUE, x, s, l)
  IN /\ \A type \in ThumbShiftOps \ {"ror"}, n \in 0..(Wide - 1) :
          ThumbShift(f, type, l, n) = arm("mov", l, ApplyImmediateShift(l, type, n, f.c))
     /\ \A type \in ThumbShiftOps :
          ThumbAlu(f, type, l, r) = arm("mov", l, ApplyRegisterShift(l, type, ShiftAmount(r)))
     /\ \A op \in ThumbAluOps \cap ArmOps : ThumbAlu(f, op, l, r) = arm(op, l, Unshifted(r))
     /\ ThumbAlu(f, "neg", l, r) = arm("rsb", r, ImmediateOperand(0, 0))
     /\ ThumbAlu(f, "mul", l, r) = Multiplied(f, TRUE, l, r, 0)
     /\ \A op \in ThumbDataOps : ThumbData(f, op, l, l, r) = arm(op, l, Unshifted(r))
=============================================================================
