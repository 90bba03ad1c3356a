----------------------------- MODULE CallReturn -----------------------------
(***************************************************************************)
(* Calls, exceptions and returns of Arm7tdmi (src/core/arm7tdmi.cpp) in    *)
(* ARM and Thumb state: what each call leaves in the link register of its  *)
(* mode and what each return makes of it.                                  *)
(*                                                                         *)
(* The program keeps the calling convention: it saves the link register    *)
(* before it calls again, leaves a function with the stack it entered it   *)
(* with, and takes an exception only into a mode that no handler is using. *)
(* An address is a byte address; the interrupt is taken between two        *)
(* instructions, when CoreScheduler has moved R15 to the next one.         *)
(***************************************************************************)
EXTENDS Integers, SequencesExt

CONSTANTS
  Code,         \* the addresses of the program
  Targets,      \* the addresses it branches to
  MaxDepth,     \* calls and exceptions nested at most so deep
  ReturnForms   \* "halfword": MOVS PC, LR to a link that is no multiple of 4

ASSUME CodeAssumption == Code \subseteq Nat /\ Targets \subseteq Nat

VARIABLES
  at,      \* [pc, thumb, mode, off]: registers_[15] and the CPSR's T, mode and I bits
  link,    \* R14 of each mode
  saved,   \* the SPSR of each exception mode
  stacks,  \* what each mode has pushed
  frames,  \* the calls and exceptions under way: the program's own view
  half     \* the second instruction of a call whose first has run

callVars == <<at, link, saved, stacks, frames, half>>

CallModes == {"sys", "svc", "irq"}

\* exception_vector
Vector == [swi |-> [address |-> 8, mode |-> "svc"], irq |-> [address |-> 24, mode |-> "irq"]]

Size == IF at.thumb THEN 2 ELSE 4
Aligned(address, thumb) == address % (IF thumb THEN 2 ELSE 4) = 0
NoHalf == [kind |-> "none"]

CallInit ==
  /\ \E start \in Targets, thumb \in BOOLEAN :
       Aligned(start, thumb) /\ at = [pc |-> start, thumb |-> thumb, mode |-> "sys", off |-> FALSE]
  /\ link = [m \in CallModes |-> 0]
  /\ saved = [m \in CallModes \ {"sys"} |-> [thumb |-> FALSE, mode |-> "sys", off |-> FALSE]]
  /\ stacks = [m \in CallModes |-> << >>]
  /\ frames = << >>
  /\ half = NoHalf

---------------------------------------------------------------------------
(* The program's view: where each call is due to return, and where its     *)
(* return address is.                                                       *)

Frame(kind, due) == [kind |-> kind, due |-> due, where |-> "link", half |-> half]
Due(pc) == [pc |-> pc, thumb |-> at.thumb, mode |-> at.mode]

Free == frames # << >> => Last(frames).where = "stack"
Within(kinds, where) == frames # << >> /\ Last(frames).kind \in kinds /\ Last(frames).where = where
CanNest == Len(frames) < MaxDepth

Entered(frame) == frames' = Append(frames, frame)
Left == frames' = Front(frames) /\ half' = Last(frames).half

Goto(pc, thumb) == at' = [at EXCEPT !.pc = pc, !.thumb = thumb]
SetLink(value) == link' = [link EXCEPT ![at.mode] = value]

---------------------------------------------------------------------------
\* Any instruction that does not branch: the scheduler moves R15 past it.
Proceed ==
  /\ half = NoHalf /\ at.pc + Size \in Code
  /\ Goto(at.pc + Size, at.thumb)
  /\ UNCHANGED <<link, saved, stacks, frames, half>>

\* PUSH {LR} and STM with R14 in the list.
PushLink ==
  /\ half = NoHalf /\ Within({"call", "swi"}, "link")
  /\ at.pc + Size \in Code
  /\ stacks' = [stacks EXCEPT ![at.mode] = Append(@, link[at.mode])]
  /\ frames' = [frames EXCEPT ![Len(frames)].where = "stack"]
  /\ Goto(at.pc + Size, at.thumb)
  /\ UNCHANGED <<link, saved, half>>

\* BL in ARM state.
ArmBranchLink(t) ==
  /\ half = NoHalf /\ ~at.thumb /\ Free /\ CanNest /\ Aligned(t, FALSE)
  /\ at.pc + 4 \in Code
  /\ SetLink(at.pc + 4)
  /\ Goto(t, FALSE)
  /\ Entered(Frame("call", Due(at.pc + 4)))
  /\ UNCHANGED <<saved, stacks, half>>

\* MOV LR, PC before a BX: R15 reads two instructions ahead
\* (arm_visible_register_value).
MovLinkPc(t, thumb) ==
  /\ half = NoHalf /\ ~at.thumb /\ Free /\ CanNest /\ Aligned(t, thumb)
  /\ at.pc + 8 \in Code
  /\ SetLink(at.pc + 8)
  /\ half' = [kind |-> "exchange", target |-> IF thumb THEN t + 1 ELSE t]
  /\ Goto(at.pc + 4, FALSE)
  /\ UNCHANGED <<saved, stacks, frames>>

\* BX Rm: bit 0 chooses the state.
Exchanged(value) == Goto(value - (value % 2), value % 2 = 1)

CallExchange ==
  /\ half.kind = "exchange"
  /\ Exchanged(half.target)
  /\ half' = NoHalf
  /\ frames' = Append(frames, [Frame("call", Due(at.pc + 4)) EXCEPT !.half = NoHalf])
  /\ UNCHANGED <<link, saved, stacks>>

\* BX to a register that is no return address.
BranchExchange(t, thumb) ==
  /\ half = NoHalf /\ Aligned(t, thumb)
  /\ Exchanged(IF thumb THEN t + 1 ELSE t)
  /\ UNCHANGED <<link, saved, stacks, frames, half>>

\* execute_thumb_long_branch_link, first half: R14 gets the upper part of
\* the offset to R15, which reads 4 ahead; the second half adds the rest.
ThumbLinkPrefix(t, rest) ==
  /\ half = NoHalf /\ at.thumb /\ Free /\ CanNest /\ Aligned(t, TRUE)
  /\ at.pc + 4 \in Code
  /\ LET offset == t - rest - (at.pc + 4) IN SetLink((at.pc + 4) + offset)
  /\ half' = [kind |-> "suffix", rest |-> rest]
  /\ Goto(at.pc + 2, TRUE)
  /\ UNCHANGED <<saved, stacks, frames>>

\* BUG: the return address does not say that the caller is in Thumb state.
ThumbLinkSuffixArm ==
  /\ half.kind = "suffix"
  /\ SetLink(at.pc + 2)
  /\ LET target == link[at.mode] + half.rest IN Goto(target - (target % 2), TRUE)
  /\ half' = NoHalf
  /\ frames' = Append(frames, [Frame("call", Due(at.pc + 2)) EXCEPT !.half = NoHalf])
  /\ UNCHANGED <<saved, stacks>>

ThumbLinkSuffix ==
  /\ half.kind = "suffix"
  /\ SetLink(at.pc + 2 + 1)
  /\ LET target == link[at.mode] + half.rest IN Goto(target - (target % 2), TRUE)
  /\ half' = NoHalf
  /\ frames' = Append(frames, [Frame("call", Due(at.pc + 2)) EXCEPT !.half = NoHalf])
  /\ UNCHANGED <<saved, stacks>>

\* BX LR, in either state.
ReturnExchange ==
  /\ half = NoHalf /\ Within({"call"}, "link")
  /\ Exchanged(link[at.mode])
  /\ Left
  /\ UNCHANGED <<link, saved, stacks>>

\* MOV PC, LR, which keeps the state: in ARM state the data-processing write
\* to R15, in Thumb state execute_thumb_high_register, which clears bit 0.
ReturnMove ==
  /\ half = NoHalf /\ Within({"call"}, "link") /\ Last(frames).due.thumb = at.thumb
  /\ Goto(IF at.thumb THEN link[at.mode] - (link[at.mode] % 2) ELSE link[at.mode], at.thumb)
  /\ Left
  /\ UNCHANGED <<link, saved, stacks>>

\* POP {PC} in Thumb state and LDM with R15 in the list in ARM state: bit 0
\* of the word chooses the state.
ReturnPop ==
  /\ half = NoHalf /\ Within({"call"}, "stack")
  /\ Exchanged(Last(stacks[at.mode]))
  /\ stacks' = [stacks EXCEPT ![at.mode] = Front(@)]
  /\ Left
  /\ UNCHANGED <<link, saved>>

---------------------------------------------------------------------------
(* Exceptions.                                                              *)

\* The program, and the handlers, leave a mode alone that a handler is using.
Unused(m) == at.mode # m /\ \A i \in DOMAIN frames : frames[i].due.mode # m

\* enter_exception: the link is 4 past R15, 2 in Thumb state.
EnterVector(kind, due) ==
  LET m == Vector[kind].mode
  IN /\ link' = [link EXCEPT ![m] = at.pc + Size]
     /\ saved' = [saved EXCEPT ![m] = [thumb |-> at.thumb, mode |-> at.mode, off |-> at.off]]
     /\ at' = [pc |-> Vector[kind].address, thumb |-> FALSE, mode |-> m, off |-> TRUE]
     /\ Entered(Frame(kind, due))
     /\ half' = NoHalf
     /\ UNCHANGED stacks

\* SWI: R15 is the instruction's own address.
SoftwareInterrupt ==
  /\ half = NoHalf /\ CanNest /\ Unused("svc") /\ at.pc + Size \in Code
  /\ EnterVector("swi", Due(at.pc + Size))

\* service_pending_irq: R15 is the next instruction, which may be the second
\* half of a call.
Interrupt ==
  /\ ~at.off /\ CanNest /\ Unused("irq")
  /\ EnterVector("irq", Due(at.pc))

\* MSR CPSR_c: a handler lets interrupts in again.
EnableInterrupts ==
  /\ half = NoHalf /\ at.mode = "svc" /\ at.off /\ at.pc + Size \in Code
  /\ at' = [at EXCEPT !.pc = @ + Size, !.off = FALSE]
  /\ UNCHANGED <<link, saved, stacks, frames, half>>

\* set_cpsr of the SPSR, and R15.
Restored(pc) ==
  LET psr == saved[at.mode]
  IN at' = [pc |-> pc, thumb |-> psr.thumb, mode |-> psr.mode, off |-> psr.off]

Word(x) == x - (x % 4)
Returnable(value) == value % 4 = 0 \/ "halfword" \in ReturnForms

\* MOVS PC, LR and SUBS PC, LR, #4: execute_data_processing restores the CPSR
\* and clears the low two bits of the address. A Thumb interrupt links 2 ahead
\* and is left to the scheduler's own return.
ReturnMovs ==
  /\ half = NoHalf /\ ~at.thumb /\ Within({"swi", "irq"}, "link")
  /\ Last(frames).kind = "irq" => ~saved["irq"].thumb
  /\ LET value == link[at.mode] - (IF Last(frames).kind = "irq" THEN 4 ELSE 0)
     IN Returnable(value) /\ Restored(Word(value))
  /\ Left
  /\ UNCHANGED <<link, saved, stacks>>

\* LDM with R15 and the S bit, on the link a handler has pushed.
ReturnLoad ==
  /\ half = NoHalf /\ ~at.thumb /\ Within({"swi"}, "stack")
  /\ LET value == Last(stacks[at.mode]) IN Returnable(value) /\ Restored(Word(value))
  /\ stacks' = [stacks EXCEPT ![at.mode] = Front(@)]
  /\ Left
  /\ UNCHANGED <<link, saved>>

\* return_from_exception, as CoreScheduler::dispatch_hle_irq_return calls it:
\* the adjustment is the one of the state that was interrupted.
ReturnFromInterrupt ==
  /\ half = NoHalf /\ Within({"irq"}, "link")
  /\ Restored(link["irq"] - (IF saved["irq"].thumb THEN 2 ELSE 4))
  /\ Left
  /\ UNCHANGED <<link, saved, stacks>>

CallNext ==
  \/ Proceed
  \/ PushLink
  \/ \E t \in Targets :
       \/ ArmBranchLink(t)
       \/ \E thumb \in BOOLEAN : MovLinkPc(t, thumb) \/ BranchExchange(t, thumb)
       \/ ThumbLinkPrefix(t, 2)
  \/ CallExchange
  \/ ThumbLinkSuffix
  \/ ReturnExchange
  \/ ReturnMove
  \/ ReturnPop
  \/ SoftwareInterrupt
  \/ Interrupt
  \/ EnableInterrupts
  \/ ReturnMovs
  \/ ReturnLoad
  \/ ReturnFromInterrupt

CallSpec == CallInit /\ [][CallNext]_callVars

---------------------------------------------------------------------------
\* Every call and every exception returns to the instruction after it, in the
\* state and the mode it was made in, by whichever of the returns the code
\* offers, however calls in both states, exceptions and the halves of a Thumb
\* BL are nested (execute_arm, execute_thumb_long_branch_link,
\* enter_exception; the comment in enter_exception: "R14_svc = SWI address + 2
\* so MOVS PC, LR returns past the 16-bit SWI").
CallsReturn ==
  [][Len(frames') < Len(frames) =>
       [pc |-> at'.pc, thumb |-> at'.thumb, mode |-> at'.mode] = Last(frames).due]_callVars
=============================================================================
