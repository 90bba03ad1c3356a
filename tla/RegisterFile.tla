---------------------------- MODULE RegisterFile ----------------------------
(***************************************************************************)
(* What a program may assume of the CPU's banked registers: every mode     *)
(* names physical registers, a mode change moves no value, and a write     *)
(* reaches exactly the physical register that its mode (or the user bank,  *)
(* for the S-bit block transfers) names.                                   *)
(*                                                                         *)
(* A file is a record [mode, regs]: the current mode and the physical      *)
(* registers. RegisterBanks checks the live registers and saved slots of   *)
(* Arm7tdmi against these operations.                                      *)
(***************************************************************************)
CONSTANTS
  Modes,       \* the processor modes, "usr" and "sys" sharing one bank
  SharedRegs,  \* R8-R12, which only "fiq" has copies of
  BankedRegs,  \* R13 and R14, of which every bank has its own
  LinkReg      \* R14

Regs == SharedRegs \cup BankedRegs
BankOf(m) == IF m \in {"usr", "sys"} THEN "usr" ELSE m
HighBank(m) == IF m = "fiq" THEN "fiq" ELSE "shared"
\* The physical register that mode m calls r.
Physical(m, r) == <<IF r \in SharedRegs THEN HighBank(m) ELSE BankOf(m), r>>
PhysicalRegs == {Physical(m, r) : m \in Modes, r \in Regs}

\* The registers that mode m calls by the names of `written` get its values.
Update(regs, m, written) ==
  [p \in PhysicalRegs |->
     IF \E r \in DOMAIN written : p = Physical(m, r) THEN written[p[2]] ELSE regs[p]]

\* An instruction writes registers of the current mode.
Write(f, written) == [f EXCEPT !.regs = Update(f.regs, f.mode, written)]

ChangeMode(f, m) == [f EXCEPT !.mode = m]

\* An exception links into the new mode's R14.
Enter(f, m, link) ==
  [mode |-> m, regs |-> [f.regs EXCEPT ![Physical(m, LinkReg)] = link]]

\* An S-bit load writes registers of the user bank and may update its base
\* register, one of the mode that executes it; mode m comes next.
LoadUser(f, loaded, based, m) ==
  [mode |-> m, regs |-> Update(Update(f.regs, f.mode, based), "usr", loaded)]
=============================================================================
