------------------------------ MODULE SaveSlot ------------------------------
(***************************************************************************)
(* What persistence::write_file_atomic promises its callers: one logical   *)
(* file (a cartridge save or a save state) that a write either replaces as *)
(* a whole or leaves alone, that reports success only after the            *)
(* replacement, and that survives a process crash at any moment.           *)
(*                                                                         *)
(* AtomicWrite refines this specification.                                 *)
(***************************************************************************)

CONSTANTS
  Data,   \* the byte vectors a caller writes
  Absent  \* the file does not exist

VARIABLES
  slot,     \* what a reader of the logical file gets
  phase,    \* "idle", "writing" or "committed"
  pending,  \* the bytes of the write in progress
  result    \* what the last finished write returned

slotVars == <<slot, phase, pending, result>>

SlotInit ==
  /\ slot \in Data \cup {Absent}
  /\ phase = "idle"
  /\ pending \in Data
  /\ result \in BOOLEAN

Begin(b) ==
  /\ phase = "idle"
  /\ phase' = "writing"
  /\ pending' = b
  /\ UNCHANGED <<slot, result>>

Commit ==
  /\ phase = "writing"
  /\ phase' = "committed"
  /\ slot' = pending
  /\ UNCHANGED <<pending, result>>

ReturnTrue ==
  /\ phase = "committed"
  /\ phase' = "idle"
  /\ result' = TRUE
  /\ UNCHANGED <<slot, pending>>

ReturnFalse ==
  /\ phase = "writing"
  /\ phase' = "idle"
  /\ result' = FALSE
  /\ UNCHANGED <<slot, pending>>

SlotCrash ==
  /\ phase # "idle"
  /\ phase' = "idle"
  /\ UNCHANGED <<slot, pending, result>>

SlotNext ==
  \/ \E b \in Data : Begin(b)
  \/ Commit
  \/ ReturnTrue
  \/ ReturnFalse
  \/ SlotCrash

SlotSpec == SlotInit /\ [][SlotNext]_slotVars
=============================================================================
