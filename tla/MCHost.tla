------------------------------- MODULE MCHost -------------------------------
(* Three duties of a host side by side: the file-system calls of one save   *)
(* with three different byte vectors (on disk, of a write that crashed, of  *)
(* the one that follows it); the desktop session that flushes a game's      *)
(* progress with such writes; and the frames it asks the runtime for, two   *)
(* visible lines of three, with steps that may run past a whole frame. Each *)
(* specification sees the others' work as single steps, so each moves while *)
(* the others rest.                                                         *)
EXTENDS AtomicWrite, FrameStepping

CONSTANTS Roms, SaveRoms, Versions, FlushFrames, NoRom, Bad, Empty, Events,
          ReadMayFail, RecoverMayFail
VARIABLES mode, rom, machine, mem, snapshot, frames, enabled, sav, old, rejected,
          states, stash, writer, noticed, requested, confirmed, blanks, adopted, lost

appVars == <<mode, rom, machine, mem, snapshot, frames, enabled, sav, old, rejected,
             states, stash, writer, noticed, requested, confirmed, blanks, adopted, lost>>

App == INSTANCE DesktopSession WITH seen <- noticed

FilesRest == Init /\ target = Absent /\ bytes = CHOOSE b \in Data : TRUE
AppRests == App!Init /\ \A r \in Roms : sav[r] = Absent /\ states[r] = Absent
RuntimeRests == FrameInit

HostInit ==
  /\ FrameInit
  /\ (FilesRest /\ App!Init) \/ (Init /\ AppRests)

HostNext ==
  \/ AppRests /\ RuntimeRests /\ Next /\ UNCHANGED <<appVars, frameVars>>
  \/ FilesRest /\ RuntimeRests /\ App!Next /\ UNCHANGED <<vars, frameVars>>
  \/ FilesRest /\ AppRests /\ FrameNext /\ UNCHANGED <<vars, appVars>>

HostSpec ==
  HostInit /\ [][HostNext]_<<vars, appVars, frameVars>> /\ App!Fairness /\ FrameFairness

\* Progress in a game's save memory reaches the disk while the game is played
\* (DesktopApp::flush_cartridge_save).
PlayIsFlushed == App!PlayIsFlushed

\* The same without its exception.
ProgressIsFlushed == App!ProgressIsFlushed
=============================================================================
