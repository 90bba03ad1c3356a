------------------------------- MODULE MCCpu -------------------------------
(* The parts of the CPU side by side: its banks, its arithmetic, its long   *)
(* multiplier, its calls and its loads and stores. A property is about one  *)
(* of them, so each moves while the others rest where they start.           *)
(* One shared and one banked register; supervisor, interrupt, abort and     *)
(* undefined modes are alike to the banks, and one of them stands for all.  *)
EXTENDS RegisterBanks, Alu, Multiplier, CallReturn, DataTransfer

cpuVars == <<cpu, spsr, alu, product, callVars, transferVars>>

BanksRest == Init /\ cpu.live[LinkReg] = 0
CallsRest == CallInit /\ at.pc = 32 /\ ~at.thumb

MCInit ==
  /\ Init /\ AluInit /\ MultiplierInit /\ CallInit /\ TransferInit
  /\ BanksRest \/ CallsRest

MCNext ==
  \/ /\ AluInit /\ MultiplierInit /\ CallsRest /\ TransferInit
     /\ Next /\ UNCHANGED <<alu, product, callVars, transferVars>>
  \/ /\ BanksRest /\ MultiplierInit /\ CallsRest /\ TransferInit
     /\ AluNext /\ UNCHANGED <<vars, product, callVars, transferVars>>
  \/ /\ BanksRest /\ AluInit /\ CallsRest /\ TransferInit
     /\ MultiplierNext /\ UNCHANGED <<vars, alu, callVars, transferVars>>
  \/ /\ BanksRest /\ AluInit /\ MultiplierInit /\ TransferInit
     /\ CallNext /\ UNCHANGED <<vars, alu, product, transferVars>>
  \/ /\ BanksRest /\ AluInit /\ MultiplierInit /\ CallsRest
     /\ TransferNext /\ UNCHANGED <<vars, alu, product, callVars>>

MCSpec == MCInit /\ [][MCNext]_cpuVars

\* Every Thumb instruction for arithmetic, loads and stores does what the ARM
\* instruction it abbreviates does: its result, its flags and what it refuses.
ThumbAbbreviatesArm == ThumbIsArm /\ ThumbTransfersAreArm

\* A link register and a saved PSR matter while a return will read them.
ModeOf(i) == IF i = Len(frames) THEN at.mode ELSE frames[i + 1].due.mode
LinkLive(m) ==
  \/ half # NoHalf /\ at.mode = m
  \/ \E i \in DOMAIN frames :
       \/ frames[i].half # NoHalf /\ frames[i].due.mode = m
       \/ frames[i].where = "link" /\ ModeOf(i) = m
Seen ==
  <<cpu, spsr, alu, product, transferVars, at, stacks, frames, half,
    [m \in {m \in CallModes : LinkLive(m)} |-> link[m]],
    [m \in {m \in DOMAIN saved : ~Unused(m)} |-> saved[m]]>>
=============================================================================
