--------------------------- MODULE RegisterBanks ---------------------------
(***************************************************************************)
(* The banked registers of Arm7tdmi (src/core/arm7tdmi.cpp): the live      *)
(* registers_ of the current mode, the slots that hold the others, saved   *)
(* and loaded by switch_mode, and the instructions and exceptions that     *)
(* change mode or reach into another bank.                                 *)
(*                                                                         *)
(* R0-R7 and R15 are not banked and are left out, as are the flags. Which  *)
(* instruction computes a value does not matter here: it writes it.        *)
(***************************************************************************)
CONSTANTS
  Modes, SharedRegs, BankedRegs, LinkReg, Values, BadMode,
  Forms  \* the S-bit block loads that happen in this instance

Regs == SharedRegs \cup BankedRegs

ASSUME ModesAssumption ==
  /\ {"usr", "sys", "svc"} \subseteq Modes
  /\ Modes \subseteq {"usr", "sys", "svc", "irq", "fiq", "abt", "und"}
  /\ BadMode \notin Modes
ASSUME RegsAssumption == SharedRegs \cap BankedRegs = {} /\ LinkReg \in BankedRegs

VARIABLES
  cpu,   \* [mode: mode_, live: registers_, high: shared_ and fiq_r8_r12_,
         \*  slot: user_sp_, user_lr_, fiq_sp_, ...]
  spsr   \* fiq_spsr_, supervisor_spsr_, ...: their mode bits

vars == <<cpu, spsr>>

BankOf(m) == IF m \in {"usr", "sys"} THEN "usr" ELSE m
HighBank(m) == IF m = "fiq" THEN "fiq" ELSE "shared"
Banks == {BankOf(m) : m \in Modes}
HighBanks == {HighBank(m) : m \in Modes}

\* mode_has_spsr
HasSpsr(m) == m \notin {"usr", "sys"}
SpsrModes == {m \in Modes : HasSpsr(m)}

TypeOK ==
  /\ cpu \in [mode : Modes, live : [Regs -> Values], high : [HighBanks -> [SharedRegs -> Values]],
              slot : [Banks -> [BankedRegs -> Values]]]
  /\ spsr \in [SpsrModes -> Modes \cup {BadMode}]

\* reset, then the system mode that CoreSession starts a game in.
Init ==
  \E v \in Values :
    /\ cpu = [mode |-> "sys", live |-> [r \in Regs |-> v],
              high |-> [b \in HighBanks |-> [r \in SharedRegs |-> v]],
              slot |-> [b \in Banks |-> [r \in BankedRegs |-> v]]]
    /\ spsr = [m \in SpsrModes |-> BadMode]

---------------------------------------------------------------------------
\* save_banked_registers
SaveBanked(c) ==
  [c EXCEPT !.high = [c.high EXCEPT ![HighBank(c.mode)] = [r \in SharedRegs |-> c.live[r]]],
            !.slot = [c.slot EXCEPT ![BankOf(c.mode)] = [r \in BankedRegs |-> c.live[r]]]]

\* BUG: R8-R12 are loaded from the shared copies in every mode.
LoadBankedShared(c) ==
  [c EXCEPT !.live = [r \in Regs |-> IF r \in SharedRegs THEN c.high["shared"][r]
                                     ELSE c.slot[BankOf(c.mode)][r]]]

\* load_banked_registers
LoadBanked(c) ==
  [c EXCEPT !.live = [r \in Regs |-> IF r \in SharedRegs THEN c.high[HighBank(c.mode)][r]
                                     ELSE c.slot[BankOf(c.mode)][r]]]

\* switch_mode
Switched(c, m) ==
  IF c.mode = m THEN c ELSE LoadBanked([SaveBanked(c) EXCEPT !.mode = m])

\* set_register: an instruction writes registers of its mode.
One(r, v) == [q \in {r} |-> v]
Assigned(c, written) ==
  [c EXCEPT !.live = [r \in Regs |-> IF r \in DOMAIN written THEN written[r] ELSE @[r]]]

SetRegister(r, v) ==
  /\ cpu' = Assigned(cpu, One(r, v))
  /\ UNCHANGED spsr

\* BUG: the control byte is written from user mode too.
MsrCpsrAlways(m) ==
  /\ m \in Modes
  /\ cpu' = Switched(cpu, m)
  /\ UNCHANGED spsr

\* execute_psr_transfer to CPSR with the control byte: user mode cannot, and
\* mode bits that name no mode are refused.
MsrCpsr(m) ==
  /\ m \in Modes /\ cpu.mode # "usr"
  /\ cpu' = Switched(cpu, m)
  /\ UNCHANGED spsr

\* The same to SPSR; any bits are taken.
MsrSpsr(m) ==
  /\ HasSpsr(cpu.mode)
  /\ spsr' = [spsr EXCEPT ![cpu.mode] = m]
  /\ UNCHANGED cpu

\* enter_exception: SWI, IRQ and the others, into the mode of the vector; the
\* reset exception, which links nothing, is raised by nothing in the core.
Linked(c, m, link) == Assigned(Switched(c, m), One(LinkReg, link))

EnterException(m, link) ==
  /\ HasSpsr(m)
  /\ cpu' = Linked(cpu, m, link)
  /\ spsr' = [spsr EXCEPT ![m] = cpu.mode]

\* return_from_exception, and a data-processing write to R15 with S set:
\* a saved PSR that names no mode changes nothing.
ReturnFromException ==
  /\ HasSpsr(cpu.mode) /\ spsr[cpu.mode] \in Modes
  /\ cpu' = Switched(cpu, spsr[cpu.mode])
  /\ UNCHANGED spsr

---------------------------------------------------------------------------
(* The S-bit block transfers of execute_arm.                                *)

\* BUG: STM^ stores the R13 and R14 of the mode that executes it.
UserBankValueLive(r) == cpu.live[r]

\* user_bank_value: what STM^ stores for register r.
UserBankValue(r) == IF r \in BankedRegs THEN cpu.slot["usr"][r] ELSE cpu.live[r]

\* write_user_bank_value for each register of the list.
WriteUserBank(c, loaded) ==
  LET user == [r \in BankedRegs |-> IF r \in DOMAIN loaded THEN loaded[r]
                                    ELSE c.slot["usr"][r]]
  IN [c EXCEPT !.live = [r \in Regs |-> IF r \in SharedRegs /\ r \in DOMAIN loaded
                                        THEN loaded[r] ELSE c.live[r]],
               !.slot = [c.slot EXCEPT !["usr"] = user]]

\* LDM^ of the registers in loaded, with the base written back or not
\* (based is empty), returning to mode m when R15 is in the list (otherwise
\* m is the mode). The write-back comes last, into the live registers.
UserLoaded(c, loaded, based, m) ==
  Assigned(WriteUserBank(Switched(c, m), loaded), based)

\* A load with its base in the list and write-back, or a return to a PSR that
\* names no mode, is refused.
LoadUserBank(loaded, based, m) ==
  /\ HasSpsr(cpu.mode)
  /\ m \in {cpu.mode, spsr[cpu.mode]} /\ m \in Modes
  /\ DOMAIN loaded \cap DOMAIN based = {}
  /\ cpu' = UserLoaded(cpu, loaded, based, m)
  /\ UNCHANGED spsr

\* The forms of LDM^ are told apart so that an instance can leave some out:
\* a return that writes its base back, a return with R13 or R14 in the list,
\* and R8-R12 in the list when fiq executes it or is returned to.
InForms(loaded, based, m) ==
  /\ m = cpu.mode \/ DOMAIN based = {} \/ "returnBase" \in Forms
  /\ m = cpu.mode \/ DOMAIN loaded \cap BankedRegs = {} \/ "returnBanked" \in Forms
  /\ DOMAIN loaded \cap SharedRegs = {} \/ "fiq" \notin {cpu.mode, m} \/ "fiq" \in Forms

Lists == UNION {[S -> Values] : S \in SUBSET Regs}
Bases == UNION {[S -> Values] : S \in {{}} \cup {{r} : r \in Regs}}

Next ==
  \/ \E r \in Regs, v \in Values : SetRegister(r, v)
  \/ \E m \in Modes : MsrCpsr(m)
  \/ \E m \in Modes \cup {BadMode} : MsrSpsr(m)
  \/ \E m \in SpsrModes, link \in Values : EnterException(m, link)
  \/ ReturnFromException
  \/ \E loaded \in Lists, based \in Bases, m \in Modes :
       InForms(loaded, based, m) /\ LoadUserBank(loaded, based, m)

Spec == Init /\ [][Next]_vars

---------------------------------------------------------------------------
(* Properties.                                                              *)

File == INSTANCE RegisterFile

\* The physical registers: the live ones of the mode, the slots of the others.
AsFile(c) ==
  [mode |-> c.mode,
   regs |-> [p \in File!PhysicalRegs |->
     IF p = File!Physical(c.mode, p[2]) THEN c.live[p[2]]
     ELSE IF p[2] \in SharedRegs THEN c.high[p[1]][p[2]] ELSE c.slot[p[1]][p[2]]]]

\* The live registers and the slots together are a banked register file: no
\* mode change, exception or return, in any nesting, moves or loses a value
\* of another bank (switch_mode, enter_exception).
BanksHold ==
  /\ \A m \in Modes : AsFile(Switched(cpu, m)) = File!ChangeMode(AsFile(cpu), m)
  /\ \A r \in Regs, v \in Values :
       AsFile(Assigned(cpu, One(r, v))) = File!Write(AsFile(cpu), One(r, v))
  /\ \A m \in SpsrModes, v \in Values :
       AsFile(Linked(cpu, m, v)) = File!Enter(AsFile(cpu), m, v)

\* An S-bit load reaches exactly the user's registers and its own base (the
\* comment in execute_arm: "CPSR <- SPSR first so the mode switch's bank
\* save/load cannot clobber the user-bank values written below").
UserLoadsArrive ==
  HasSpsr(cpu.mode) =>
    \A m \in {cpu.mode, spsr[cpu.mode]} \cap Modes, loaded \in Lists, based \in Bases :
      InForms(loaded, based, m) /\ DOMAIN loaded \cap DOMAIN based = {}
        => AsFile(UserLoaded(cpu, loaded, based, m))
             = File!LoadUser(AsFile(cpu), loaded, based, m)

\* What STM^ stores is what user mode would see (execute_arm: "the S bit
\* stores the USER-bank value for R8-R14"); R8-R12 of fiq are not rerouted.
UserBankIsCurrent ==
  HasSpsr(cpu.mode) =>
    \A r \in Regs : cpu.mode # "fiq" \/ r \in BankedRegs
      => UserBankValue(r) = AsFile(cpu).regs[File!Physical("usr", r)]

\* User mode is left through an exception only, which remembers it: nothing
\* a user-mode program executes gives it another mode (the comment in
\* execute_psr_transfer: "MSR CPSR from user mode cannot write the control
\* byte").
UserIsRemembered ==
  [][cpu.mode = "usr" /\ cpu'.mode # "usr" => HasSpsr(cpu'.mode) /\ spsr'[cpu'.mode] = "usr"]_vars
=============================================================================
