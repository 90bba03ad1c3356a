--------------------------- MODULE DesktopSession ---------------------------
(***************************************************************************)
(* The save lifecycle of the desktop host (apps/desktop/desktop_app.cpp):  *)
(* loading and switching ROMs, the cartridge save in machine memory and    *)
(* its dirty snapshot, the periodic and the forced flush, reset, save      *)
(* states with their background writer, engine aborts, exits and crashes.  *)
(*                                                                         *)
(* A file is written by persistence::write_file_atomic, here with the      *)
(* outcomes of SaveFile: module AtomicWrite shows that it has no others,   *)
(* failed or crashed. A step is one call made by the event loop.           *)
(***************************************************************************)
EXTENDS Naturals, SaveFile

CONSTANTS
  Roms,        \* ROM files
  SaveRoms,    \* the ROMs with a cartridge-backed save
  Versions,    \* the contents a game's save memory can have; 0 is a fresh one
  FlushFrames, \* kSnapshotFlushFrames
  NoRom, Bad, Empty,
  Events,      \* the user actions and failures that happen in this instance
  ReadMayFail,    \* an existing .sav can be unreadable when a ROM is loaded
  RecoverMayFail  \* putting a crash orphan back can fail when a ROM is loaded

Contents == [owner : Roms, v : Versions]
Fresh(r) == [owner |-> r, v |-> 0]

ASSUME RomsAssumption ==
  /\ SaveRoms \subseteq Roms
  /\ NoRom \notin Roms
ASSUME ContentsAssumption ==
  /\ 0 \in Versions
  /\ {Absent, Bad, Empty} \cap Contents = {}
  /\ Absent # Bad /\ Absent # Empty /\ Bad # Empty
ASSUME BoundsAssumption == FlushFrames \in Nat \ {0}
ASSUME FaultsAssumption == ReadMayFail \in BOOLEAN /\ RecoverMayFail \in BOOLEAN

VARIABLES
  mode,      \* "off", "run" or "closing" (the destructor waits for the writer)
  rom,       \* options_.rom_path, save_prefix_: the ROM the host runs
  machine,   \* the ROM in the emulated machine
  mem,       \* the machine's cartridge save memory
  snapshot,  \* cartridge_save_snapshot_
  frames,    \* frames_since_save_flush_ (see Bumped)
  enabled,   \* cartridge_save_enabled_ with a non-empty cartridge_save_path_
  sav, old, rejected,   \* <rom>.sav, <rom>.sav.old and the <rom>.sav.rejected* copies
  states, stash, \* <rom>.state1 and <rom>.state1.old
  writer,    \* the AsyncSaveWriter job, or Empty
  seen,      \* history: .sav contents this process has loaded or written
  requested, \* history: what the last F5 of a ROM captured that has not failed
  confirmed, \* history: what the last F5 of a ROM captured that has succeeded
  blanks,    \* history: the ROMs whose fresh save memory some state has held
  adopted,   \* history: F8 or F9 took the machine's save memory for the clean one
  lost       \* history: a reset has lost the machine since the ROM was opened

machineVars == <<machine, mem>>
hostVars == <<rom, snapshot, frames, enabled, adopted, lost>>
fileVars == <<sav, old, rejected>>
stateVars == <<states, stash, writer, requested, confirmed, blanks>>
vars == <<mode, machineVars, hostVars, fileVars, stateVars, seen>>

MachineState == [rom : Roms \cup {NoRom}, mem : Contents \cup {Empty}]
Job == [path : Roms, state : MachineState, done : BOOLEAN]

ASSUME StateAssumption == Absent \notin MachineState /\ Empty \notin Job

TypeOK ==
  /\ mode \in {"off", "run", "closing"}
  /\ rom \in Roms \cup {NoRom}
  /\ machine \in Roms \cup {NoRom}
  /\ mem \in Contents \cup {Empty}
  /\ snapshot \in Contents \cup {Empty}
  /\ frames \in 0 .. FlushFrames + 1
  /\ enabled \in BOOLEAN
  /\ sav \in [Roms -> Contents \cup {Absent, Bad}]
  /\ old \in [Roms -> Contents \cup {Absent, Bad}]
  /\ rejected \in [Roms -> SUBSET {Bad}]
  /\ states \in [Roms -> MachineState \cup {Absent}]
  /\ writer \in Job \cup {Empty}
  /\ seen \in [Roms -> SUBSET Contents]
  /\ stash \in [Roms -> MachineState \cup {Absent}]
  /\ requested \in [Roms -> MachineState \cup {Absent}]
  /\ confirmed \in [Roms -> MachineState \cup {Absent}]
  /\ blanks \subseteq Roms
  /\ adopted \in BOOLEAN /\ lost \in BOOLEAN

\* What a launch may find on disk: for each ROM a save of its own or one it
\* rejects, and a state, that may have been copied from another ROM (a corrupt
\* state is refused like an absent one).
Init ==
  /\ mode = "off"
  /\ rom = NoRom /\ machine = NoRom /\ mem = Empty
  /\ snapshot = Empty /\ frames = 0 /\ enabled = FALSE
  /\ sav \in {f \in [Roms -> {Fresh(r) : r \in Roms} \cup {Absent, Bad}] :
                \A r \in Roms : f[r] \in {Fresh(r), Absent, Bad}}
  /\ old = [r \in Roms |-> Absent]
  /\ rejected = [r \in Roms |-> {}]
  /\ states \in [Roms -> {Absent} \cup {[rom |-> r, mem |-> Fresh(r)] : r \in SaveRoms}]
  /\ writer = Empty
  /\ seen = [r \in Roms |-> {}]
  /\ stash = [r \in Roms |-> Absent]
  /\ requested = states /\ confirmed = states
  /\ adopted = FALSE /\ lost = FALSE
  /\ blanks = {r \in Roms : \E q \in Roms : states[q] = [rom |-> r, mem |-> Fresh(r)]}

\* ++frames_since_save_flush_. All values from FlushFrames on are alike to the
\* code; alternating between two of them keeps every frame a visible step.
Bumped == IF frames > FlushFrames THEN FlushFrames ELSE frames + 1

---------------------------------------------------------------------------
(* flush_cartridge_save(force), of the save memory `current`; ok is what it *)
(* returns.                                                                 *)

\* What a write that succeeds leaves; in instances without the event
\* "leftover" the file that it replaced is always removed.
Replacement(bytes, file, aside) ==
  IF "leftover" \in Events THEN AfterWrite(bytes, file, aside) ELSE {<<bytes, Absent>>}

\* write_file_atomic on the .sav.
WriteSave(current, ok) ==
  /\ \E files \in IF ok THEN Replacement(current, sav[rom], old[rom])
                          ELSE AfterFailure(sav[rom], old[rom]) :
       /\ sav' = [sav EXCEPT ![rom] = files[1]]
       /\ old' = [old EXCEPT ![rom] = files[2]]
  /\ seen' = IF ok THEN [seen EXCEPT ![rom] = @ \cup {current}] ELSE seen

\* BUG: the write comes due in one frame only, which a failed write can miss.
FlushDueOnce(current, force) ==
  force \/ (current # snapshot /\ frames + 1 = FlushFrames)

FlushDue(current, force) ==
  force \/ (current # snapshot /\ frames + 1 >= FlushFrames)

Flush(current, force, ok) ==
  \/ /\ ~enabled /\ ok
     /\ UNCHANGED <<snapshot, frames, sav, old, seen, adopted>>
  \/ /\ enabled /\ ~FlushDue(current, force) /\ ok
     /\ frames' = Bumped
     /\ UNCHANGED <<snapshot, sav, old, seen, adopted>>
  \/ /\ enabled /\ FlushDue(current, force)
     /\ IF current = Empty
        THEN ~ok /\ UNCHANGED <<snapshot, sav, old, seen, adopted>>
        ELSE /\ WriteSave(current, ok)
             /\ snapshot' = IF ok THEN current ELSE snapshot
             /\ adopted' = (~ok /\ adopted)
     /\ frames' = 0

---------------------------------------------------------------------------
(* load_rom_from_path, once the engine has accepted the ROM r, from files   *)
(* whose contents are s (.sav), o (.old) and known (history).               *)

\* What the orphan recovery leaves: <<.sav, .old>>.
Recovered(s, o) ==
  IF s = Absent /\ o # Absent
  THEN {<<o, Absent>>} \cup (IF RecoverMayFail THEN {<<s, o>>} ELSE {})
  ELSE {<<s, o>>}

\* read_binary_file: "no data" also for a file that cannot be read.
ReadBack(s) == {s} \cup (IF ReadMayFail THEN {Absent} ELSE {})

\* BUG: a rejected save is not copied aside before the host starts fresh.
ImportSaveNoBackup(r, bytes) ==
  /\ mem' = IF bytes \in Contents THEN bytes ELSE Fresh(r)
  /\ enabled' = TRUE
  /\ UNCHANGED rejected

\* Import the save, or preserve a rejected one, or go fail-closed.
ImportSave(r, bytes) ==
  \/ /\ bytes = Absent
     /\ mem' = Fresh(r) /\ enabled' = TRUE
     /\ UNCHANGED rejected
  \/ /\ bytes = Bad
     /\ mem' = Fresh(r)
     /\ \/ rejected' = [rejected EXCEPT ![r] = @ \cup {Bad}] /\ enabled' = TRUE
        \/ UNCHANGED rejected /\ enabled' = FALSE
  \/ /\ bytes \in Contents
     /\ mem' = bytes /\ enabled' = TRUE
     /\ UNCHANGED rejected

OpenSave(r, s, o, known) ==
  IF r \in SaveRoms
  THEN \E files \in Recovered(s[r], o[r]) : \E bytes \in ReadBack(files[1]) :
         /\ sav' = [s EXCEPT ![r] = files[1]]
         /\ old' = [o EXCEPT ![r] = files[2]]
         /\ seen' = [known EXCEPT ![r] = IF bytes \in Contents THEN @ \cup {bytes} ELSE @]
         /\ ImportSave(r, bytes)
         /\ snapshot' = mem' /\ frames' = 0
         /\ adopted' = FALSE /\ lost' = FALSE
  ELSE /\ mem' = Empty /\ snapshot' = Empty /\ frames' = 0 /\ enabled' = FALSE
       /\ sav' = s /\ old' = o /\ seen' = known
       /\ adopted' = FALSE /\ lost' = FALSE
       /\ UNCHANGED rejected

\* A process starts with a ROM; one it cannot load ends the process at once.
Launch(r) ==
  /\ mode = "off"
  /\ mode' = "run"
  /\ rom' = r /\ machine' = r
  /\ OpenSave(r, sav, old, [q \in Roms |-> {}])
  /\ UNCHANGED stateVars

\* BUG: the outcome of the flush is not looked at.
SwitchRomUnflushed(r) ==
  /\ mode = "run" /\ "switch" \in Events
  /\ rom' = r /\ machine' = r
  /\ OpenSave(r, sav, old, seen)
  /\ UNCHANGED <<mode, stateVars>>

\* switch_rom: a forced flush first; a write that fails refuses the switch.
\* The flush and the load touch the .sav files of different ROMs unless the
\* running ROM is opened again, so the load starts from the flushed files.
SwitchRom(r) ==
  /\ mode = "run" /\ "switch" \in Events
  /\ enabled => mem # Empty
  /\ rom' = r /\ machine' = r
  /\ \/ ~enabled /\ OpenSave(r, sav, old, seen)
     \/ /\ enabled
        /\ \E files \in Replacement(mem, sav[rom], old[rom]) :
             OpenSave(r, [sav EXCEPT ![rom] = files[1]], [old EXCEPT ![rom] = files[2]],
                      [seen EXCEPT ![rom] = @ \cup {mem}])
  /\ UNCHANGED <<mode, stateVars>>

\* The switch is refused because the flush failed, or the ROM cannot be read.
SwitchRefused ==
  /\ mode = "run" /\ "refuse" \in Events
  /\ \E ok \in BOOLEAN : Flush(mem, TRUE, ok)
  /\ UNCHANGED <<mode, rom, enabled, lost, machineVars, rejected, stateVars>>

\* The engine rejects the new ROM after it has dropped the running session:
\* the encoded session is decoded again, or saving is disabled and the host
\* stops without a final flush.
SwitchRejected ==
  /\ mode = "run" /\ "reject" \in Events
  /\ Flush(mem, TRUE, TRUE)
  /\ \/ UNCHANGED <<mode, enabled, machineVars>>
     \/ /\ "lost" \in Events
        /\ mode' = "closing" /\ enabled' = FALSE
        /\ machine' = NoRom /\ mem' = Empty
  /\ UNCHANGED <<rom, lost, rejected, stateVars>>

---------------------------------------------------------------------------
(* The event loop.                                                          *)

\* What a frame of the game leaves in the save memory: what was there, or
\* something the game writes (never a blank memory again).
Played(r) ==
  {mem} \cup (IF r \in SaveRoms THEN {[owner |-> r, v |-> n] : n \in Versions \ {0}} ELSE {})

\* One iteration of run(): collect, step_frame, flush_cartridge_save(false).
Frame(current, ok) ==
  /\ mode = "run" /\ machine # NoRom
  /\ current \in Played(machine)
  /\ mem' = current
  /\ Flush(current, FALSE, ok)
  /\ writer' = IF writer # Empty /\ writer.done THEN Empty ELSE writer
  /\ UNCHANGED <<mode, rom, machine, enabled, lost, rejected, states, stash, requested,
                 confirmed, blanks>>

\* The loop ends: an engine error, a failed fetch, or the user quits. All
\* three flush first; the destructor then drains the writer (Exit).
Stop ==
  /\ mode = "run"
  /\ mode' = "closing"
  /\ \E ok \in BOOLEAN : Flush(mem, TRUE, ok)
  /\ UNCHANGED <<rom, enabled, lost, machineVars, rejected, stateVars>>

\* What the end of a process leaves of its memory.
Gone ==
  /\ mode' = "off"
  /\ rom' = NoRom /\ machine' = NoRom /\ mem' = Empty
  /\ snapshot' = Empty /\ frames' = 0 /\ enabled' = FALSE
  /\ adopted' = FALSE /\ lost' = FALSE
  /\ writer' = Empty
  /\ seen' = [r \in Roms |-> {}]

Exit ==
  /\ mode = "closing"
  /\ writer # Empty => writer.done
  /\ Gone
  /\ UNCHANGED <<fileVars, states, stash, requested, confirmed, blanks>>

\* The process dies, in the middle of a .sav write, of the background job's
\* write, of both or of none. (A write that has already replaced its file is
\* a finished one, followed by the crash.)
Crash ==
  /\ mode # "off" /\ "crash" \in Events
  /\ Gone
  /\ \/ UNCHANGED <<sav, old>>
     \/ /\ mode = "run" /\ enabled /\ mem # Empty
        /\ \E files \in AfterFailure(sav[rom], old[rom]) :
             /\ sav' = [sav EXCEPT ![rom] = files[1]]
             /\ old' = [old EXCEPT ![rom] = files[2]]
  /\ \/ UNCHANGED <<states, stash>>
     \/ /\ writer # Empty /\ ~writer.done
        /\ \E files \in AfterFailure(states[writer.path], stash[writer.path]) :
             /\ states' = [states EXCEPT ![writer.path] = files[1]]
             /\ stash' = [stash EXCEPT ![writer.path] = files[2]]
  /\ requested' = confirmed
  /\ UNCHANGED <<rejected, confirmed, blanks>>

\* What load_rom leaves in the save memory of ROM r.
Blank(r) == IF r \in SaveRoms THEN Fresh(r) ELSE Empty

\* BUG: writes stay enabled although the captured save was not imported.
ResetUnguarded ==
  /\ mode = "run" /\ "reset" \in Events
  /\ machine' = rom
  /\ mem' \in {Blank(rom), IF mem = Empty THEN Blank(rom) ELSE mem}
  /\ snapshot' = mem /\ frames' = 0 /\ adopted' = TRUE
  /\ UNCHANGED <<mode, rom, enabled, lost, fileVars, stateVars, seen>>

\* The ROM is loaded again and the save memory captured before is imported
\* into it, or refused, which leaves the memory blank and disables writes;
\* what was captured becomes the snapshot in either case.
ResetDone ==
  /\ machine' = rom
  /\ \/ mem = Empty /\ mem' = Blank(rom) /\ UNCHANGED enabled
     \/ mem # Empty /\ UNCHANGED <<mem, enabled>>
     \/ mem # Empty /\ mem' = Blank(rom) /\ enabled' = FALSE
  /\ snapshot' = mem /\ frames' = 0 /\ adopted' = TRUE
  /\ UNCHANGED lost

\* The ROM no longer loads, and the encoded session cannot be decoded again:
\* the machine stays without a cartridge. (One that is decoded, or a ROM that
\* cannot be read, leaves everything as it was.)
ResetLost ==
  /\ machine' = NoRom /\ mem' = Empty
  /\ lost' = TRUE
  /\ UNCHANGED <<snapshot, frames, enabled, adopted>>

\* reset_runtime.
Reset ==
  /\ mode = "run"
  /\ ("reset" \in Events /\ ResetDone) \/ ("resetLost" \in Events /\ ResetLost)
  /\ UNCHANGED <<mode, rom, fileVars, stateVars, seen>>

---------------------------------------------------------------------------
(* Save states (F5, F8) and the background writer.                          *)

\* write_save_state: a finished job is collected first, a running one refuses.
SaveState ==
  /\ mode = "run" /\ "state" \in Events
  /\ writer # Empty => writer.done
  /\ LET captured == [rom |-> machine, mem |-> mem]
     IN /\ writer' = [path |-> rom, state |-> captured, done |-> FALSE]
        /\ requested' = [requested EXCEPT ![rom] = captured]
        /\ blanks' = blanks \cup {r \in Roms : captured.mem = Fresh(r)}
  /\ UNCHANGED <<mode, hostVars, machineVars, fileVars, states, stash, confirmed, seen>>

\* The job of the worker thread: encode, and write_file_atomic on the state's
\* file. After a failure, the state asked for is the one stored before.
WorkerWrite(ok) ==
  /\ writer # Empty /\ ~writer.done
  /\ writer' = [writer EXCEPT !.done = TRUE]
  /\ LET p == writer.path
     IN /\ \E files \in IF ok THEN Replacement(writer.state, states[p], stash[p])
                              ELSE AfterFailure(states[p], stash[p]) :
             /\ states' = [states EXCEPT ![p] = files[1]]
             /\ stash' = [stash EXCEPT ![p] = files[2]]
        /\ IF ok THEN confirmed' = [confirmed EXCEPT ![p] = writer.state] /\ UNCHANGED requested
                 ELSE requested' = [requested EXCEPT ![p] = confirmed[p]] /\ UNCHANGED confirmed
  /\ UNCHANGED <<mode, hostVars, machineVars, fileVars, seen, blanks>>

\* A state whose ROM is the machine's is committed; its save memory becomes
\* the clean one. A file that is missing, or of another ROM, changes nothing.
\* (load_save_state_for_session decodes into a scratch machine first.)
Commit(state) ==
  IF state \in MachineState /\ state.rom = machine
  THEN mem' = state.mem /\ snapshot' = state.mem /\ frames' = 0 /\ adopted' = TRUE
  ELSE UNCHANGED <<mem, snapshot, frames, adopted>>

\* BUG: the job in progress is polled, not drained.
LoadStateUndrained ==
  /\ mode = "run" /\ "state" \in Events
  /\ writer' = IF writer # Empty /\ writer.done THEN Empty ELSE writer
  /\ Commit(states[rom])
  /\ UNCHANGED <<mode, rom, machine, enabled, lost, fileVars, states, stash, seen, requested,
                 confirmed, blanks>>

\* BUG: the ROM identity of the decoded state is not compared.
LoadStateAnyRom ==
  /\ mode = "run" /\ "state" \in Events
  /\ writer # Empty => writer.done
  /\ writer' = Empty
  /\ states[rom] \in MachineState
  /\ machine' = states[rom].rom
  /\ mem' = states[rom].mem /\ snapshot' = mem'
  /\ frames' = 0 /\ adopted' = TRUE
  /\ UNCHANGED <<mode, rom, enabled, lost, fileVars, states, stash, seen, requested, confirmed,
                 blanks>>

\* read_save_state: drain the writer, then read the file of the open ROM. Its
\* .old is not looked at.
LoadState ==
  /\ mode = "run" /\ "state" \in Events
  /\ writer # Empty => writer.done
  /\ writer' = Empty
  /\ Commit(states[rom])
  /\ UNCHANGED <<mode, rom, machine, enabled, lost, fileVars, states, stash, seen, requested,
                 confirmed, blanks>>

Next ==
  \/ \E r \in Roms : Launch(r) \/ SwitchRom(r)
  \/ SwitchRefused \/ SwitchRejected
  \/ \E current \in Contents \cup {Empty}, ok \in BOOLEAN : Frame(current, ok)
  \/ Stop \/ Exit \/ Crash \/ Reset
  \/ SaveState \/ LoadState
  \/ \E ok \in BOOLEAN : WorkerWrite(ok)

Spec == Init /\ [][Next]_vars

\* The event loop keeps running frames, and the file system does not refuse
\* every write that comes due while the save stays as it is.
Fairness ==
  /\ WF_vars(\E current \in Contents \cup {Empty}, ok \in BOOLEAN : Frame(current, ok))
  /\ SF_vars(enabled /\ FlushDue(mem, FALSE) /\ Frame(mem, TRUE))

FairSpec == Spec /\ Fairness

---------------------------------------------------------------------------
(* Properties.                                                              *)

\* Saves never cross ROMs: whatever is switched, rolled back, reset or loaded
\* from a state, the machine's save memory belongs to the ROM the host runs,
\* and every .sav (or its orphan) holds a save of its own ROM, never an empty
\* machine's (flush_cartridge_save, load_save_state_for_session, switch_rom).
Ownership ==
  /\ machine # NoRom => machine = rom
  /\ mem # Empty => machine # NoRom /\ mem.owner = machine
  /\ \A r \in Roms : /\ sav[r] # Empty /\ (sav[r] \in Contents => sav[r].owner = r)
                     /\ old[r] \in Contents => old[r].owner = r

\* What a launch would find of ROM r's save.
Stored(r) == IF sav[r] # Absent THEN sav[r] ELSE old[r]

\* A save the player had is only ever replaced by a process that has loaded
\* or written it before, or that has preserved a copy of it.
NoBlindOverwrite ==
  [][\A r \in Roms : Stored(r)' # Stored(r) /\ Stored(r) # Absent
       => Stored(r) \in seen[r] \cup rejected[r]]_vars

\* A switch never discards progress: when the host moves on to another ROM
\* with save writes enabled, the outgoing save is what is on disk.
SwitchKeepsProgress ==
  [][\A r \in Roms : mode = "run" /\ mode' = "run" /\ rom = r /\ rom' # r /\ enabled
       => Stored(r)' = mem]_vars

\* F8 never loads anything but what the last F5 of this ROM captured that did
\* not fail, although the write runs in the background, may fail or be cut off,
\* and ROMs are switched meanwhile (read_save_state drains the writer). Where
\* F8 finds no file, that state is still on disk, beside it.
LoadSeesLatestSave ==
  [][LoadState => requested[rom] = IF states[rom] # Absent THEN states[rom] ELSE stash[rom]]_vars

\* F8 finds it under its name (docs/DESKTOP.md on F5: "The snapshot format and
\* atomic file replacement are the same as for synchronous/headless saves").
LoadFindsLatestSave == [][LoadState => states[rom] = requested[rom]]_vars

\* A save with progress is never replaced by a blank one that neither the game
\* wrote nor a save state held, whatever fails while ROMs are switched and
\* reset, crashes included, unless a reset has lost the machine before
\* (reset_runtime, load_rom_from_path, flush_cartridge_save).
BlankOnlyAfterLoss ==
  [][\A r \in Roms \ blanks :
       ~lost /\ Stored(r) \in Contents /\ Stored(r).v # 0 => Stored(r)' # Fresh(r)]_vars

\* The comment in reset_runtime makes no such exception: "Never let a blanked
\* in-memory save overwrite the good on-disk one."
BlankNeverSaved ==
  [][\A r \in Roms \ blanks :
       Stored(r) \in Contents /\ Stored(r).v # 0 => Stored(r)' # Fresh(r)]_vars

\* F8 or F9 took the save memory for one that is already written.
Adopted == adopted /\ mem = snapshot

\* Progress reaches the disk while the game is played: a save that stays in
\* memory with writes enabled is written, or the game changes it again, or
\* the host leaves the game, unless F8 or F9 takes this very save for one that
\* is already written (flush_cartridge_save, and its retries after failures).
PlayIsFlushed ==
  \A c \in {d \in Contents : d.owner \in SaveRoms /\ d.v # 0} :
    (mode = "run" /\ enabled /\ mem = c /\ ~Adopted)
      ~> (mode # "run" \/ ~enabled \/ mem # c \/ Adopted
          \/ Stored(c.owner) = c)

\* Whatever the user does, as docs/DESKTOP.md has it: "flushed on exit and
\* every ~5 s of dirty frames".
ProgressIsFlushed ==
  \A c \in {d \in Contents : d.owner \in SaveRoms /\ d.v # 0} :
    (mode = "run" /\ enabled /\ mem = c)
      ~> (mode # "run" \/ ~enabled \/ mem # c \/ Stored(c.owner) = c)
=============================================================================
