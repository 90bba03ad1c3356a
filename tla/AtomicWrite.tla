---------------------------- MODULE AtomicWrite ----------------------------
(***************************************************************************)
(* persistence::write_file_atomic (apps/desktop/desktop_persistence.hpp)   *)
(* one file-system call per step, so that a process crash can happen       *)
(* between any two of them, together with the orphan recovery that         *)
(* DesktopApp::load_rom_from_path performs before it reads a cartridge     *)
(* save. Every file-system call may fail; the failure of a call whose      *)
(* error code the code ignores is just a step that changes nothing.        *)
(*                                                                         *)
(* The three sibling names of one logical file:                            *)
(*   target  <name>        temp  <name>.tmp        backup  <name>.old      *)
(***************************************************************************)
EXTENDS SaveFile

CONSTANTS
  Data,    \* the byte vectors a caller writes
  Torn,    \* a temporary file whose bytes are not all written
  ProbeMayFail  \* std::filesystem::exists(p, ec) may fail, and then says FALSE

ASSUME SentinelAssumption == Absent \notin Data /\ Torn \notin Data /\ Absent # Torn
ASSUME ProbeAssumption == ProbeMayFail \in BOOLEAN

VARIABLES
  target, temp, backup,
  pc,       \* the next file-system call of the write, "idle" between writes
  bytes,    \* the argument of the write in progress
  written,  \* what the last finished write returned
  found     \* history: the file and its .old when the write was called

vars == <<target, temp, backup, pc, bytes, written, found>>

Steps == {"idle", "open", "write", "unwind", "probe", "replace", "reclaim",
          "clear", "aside", "install", "restore"}

TypeOK ==
  /\ target \in Data \cup {Absent}
  /\ temp \in Data \cup {Absent, Torn}
  /\ backup \in Data \cup {Absent}
  /\ pc \in Steps
  /\ bytes \in Data
  /\ written \in BOOLEAN
  /\ found \in (Data \cup {Absent}) \X (Data \cup {Absent})

Init ==
  /\ target \in Data \cup {Absent}
  /\ temp = Absent
  /\ backup = Absent
  /\ pc = "idle"
  /\ bytes \in Data
  /\ written = TRUE
  /\ found = <<target, backup>>

Call(b) ==
  /\ pc = "idle"
  /\ pc' = "open"
  /\ bytes' = b
  /\ found' = <<target, backup>>
  /\ UNCHANGED <<target, temp, backup, written>>

Return(ok) == pc' = "idle" /\ written' = ok

\* The ofstream opened with trunc: the temporary exists but is incomplete.
OpenTemp ==
  /\ pc = "open"
  /\ \/ temp' = Torn /\ pc' = "write" /\ UNCHANGED written
     \/ UNCHANGED temp /\ Return(FALSE)
  /\ UNCHANGED <<target, backup, bytes, found>>

\* Write and flush; the failure path removes the temporary (step "unwind").
WriteTemp ==
  /\ pc = "write"
  /\ \/ temp' = bytes /\ pc' = "probe"
     \/ temp' = Torn /\ pc' = "unwind"
  /\ UNCHANGED <<target, backup, bytes, written, found>>

\* Every failure return removes the temporary first, ignoring the outcome.
Unwind ==
  /\ pc = "unwind"
  /\ temp' \in {temp, Absent}
  /\ Return(FALSE)
  /\ UNCHANGED <<target, backup, bytes, found>>

\* exists(f): the answers the code can get for the file f.
Exists(f) == {f # Absent} \cup (IF ProbeMayFail THEN {FALSE} ELSE {})

\* BUG: an orphan of an earlier crash is not put back first.
OrphanIgnored ==
  /\ pc = "probe"
  /\ pc' = "replace"
  /\ UNCHANGED <<target, temp, backup, bytes, written, found>>

\* A crash of an earlier fallback left the file only as the backup: put it
\* back before anything else is touched.
RecoverOrphan ==
  /\ pc = "probe"
  /\ \E there \in Exists(target), saved \in Exists(backup) :
       IF ~there /\ saved
       THEN \/ target' = backup /\ backup' = Absent /\ pc' = "replace"
            \/ UNCHANGED <<target, backup>> /\ pc' = "unwind"
       ELSE UNCHANGED <<target, backup>> /\ pc' = "replace"
  /\ UNCHANGED <<temp, bytes, written, found>>

Replace ==
  /\ pc = "replace"
  /\ \/ target' = temp /\ temp' = Absent /\ pc' = "reclaim"
     \/ UNCHANGED <<target, temp>> /\ pc' = "clear"
  /\ UNCHANGED <<backup, bytes, written, found>>

\* The live file is in place; a leftover backup is stale.
Reclaim ==
  /\ pc = "reclaim"
  /\ backup' \in {backup, Absent}
  /\ Return(TRUE)
  /\ UNCHANGED <<target, temp, bytes, found>>

ClearBackup ==
  /\ pc = "clear"
  /\ backup' \in {backup, Absent}
  /\ pc' = "aside"
  /\ UNCHANGED <<target, temp, bytes, written, found>>

\* rename(target, backup) replaces a leftover backup and fails without target.
MoveAside ==
  /\ pc = "aside"
  /\ \/ target # Absent /\ backup' = target /\ target' = Absent /\ pc' = "install"
     \/ UNCHANGED <<target, backup>> /\ pc' = "unwind"
  /\ UNCHANGED <<temp, bytes, written, found>>

\* BUG: the second rename's error code is ignored.
InstallUnchecked ==
  /\ pc = "install"
  /\ pc' = "reclaim"
  /\ \/ target' = temp /\ temp' = Absent
     \/ UNCHANGED <<target, temp>>
  /\ UNCHANGED <<backup, bytes, written, found>>

Install ==
  /\ pc = "install"
  /\ \/ target' = temp /\ temp' = Absent /\ pc' = "reclaim"
     \/ UNCHANGED <<target, temp>> /\ pc' = "restore"
  /\ UNCHANGED <<backup, bytes, written, found>>

Restore ==
  /\ pc = "restore"
  /\ \/ target' = backup /\ backup' = Absent
     \/ UNCHANGED <<target, backup>>
  /\ pc' = "unwind"
  /\ UNCHANGED <<temp, bytes, written, found>>

\* The process ends between two file-system calls; the files stay.
Crash ==
  /\ pc # "idle"
  /\ pc' = "idle"
  /\ UNCHANGED <<target, temp, backup, bytes, written, found>>

\* DesktopApp::load_rom_from_path before it reads the cartridge save.
RecoverAtLoad ==
  /\ pc = "idle"
  /\ FALSE \in Exists(target) /\ backup # Absent
  /\ target' = backup /\ backup' = Absent
  /\ UNCHANGED <<temp, pc, bytes, written, found>>

Next ==
  \/ \E b \in Data : Call(b)
  \/ OpenTemp \/ WriteTemp \/ Unwind
  \/ RecoverOrphan \/ Replace \/ Reclaim
  \/ ClearBackup \/ MoveAside \/ Install \/ Restore
  \/ Crash \/ RecoverAtLoad

Spec == Init /\ [][Next]_vars

(***************************************************************************)
(* Properties.                                                             *)
(***************************************************************************)

\* What a launch finds: the target, or else the orphan it would recover.
Recoverable == IF target # Absent THEN target ELSE backup

\* No step of a write, no failed step and no crash may lose the file: what a
\* launch would load is always the bytes it had before the write or the bytes
\* of the write in progress, never torn, older or missing. (The comment of
\* write_file_atomic: "the original is never destroyed before its replacement
\* is committed".)
NeverLost == [][Recoverable' \in {Recoverable, bytes}]_vars

\* The inductive core of both: at each step of the fallback, where the only
\* good copy is.
GoodCopy ==
  /\ pc \in {"probe", "replace", "clear", "aside", "install"} => temp = bytes
  /\ pc \in {"replace", "clear", "aside"} /\ target = Absent => backup = Absent
  /\ pc = "reclaim" => target = bytes
  /\ pc \in {"install", "restore"} => target = Absent /\ backup # Absent

\* Where a write may stop, the pair of files is one that SaveFile allows for
\* the outcome it reports; a crash leaves one of either outcome.
OutcomesAreKnown ==
  /\ pc = "unwind" => <<target, backup>> \in AfterFailure(found[1], found[2])
  /\ pc = "reclaim" => \A left \in {backup, Absent} :
                         <<target, left>> \in AfterWrite(bytes, found[1], found[2])
  /\ pc # "idle" => <<target, backup>> \in AfterFailure(found[1], found[2])
                                         \cup AfterWrite(bytes, found[1], found[2])

\* The write implements the atomic slot.
Slot == INSTANCE SaveSlot WITH
  slot <- Recoverable,
  phase <- IF pc = "idle" THEN "idle"
           ELSE IF pc = "reclaim" THEN "committed" ELSE "writing",
  pending <- bytes,
  result <- written

\* The whole write, crashes included, is an atomic replacement of one value.
AtomicReplacement == Slot!SlotSpec

=============================================================================
