------------------------ MODULE DesktopSessionProofs ------------------------
(***************************************************************************)
(* For every set of ROMs, of save contents and of user actions and         *)
(* failures: saves do not cross ROMs, a switch keeps the outgoing save, F8 *)
(* loads nothing but what F5 saved; and where files can be read, a save    *)
(* that the host has not loaded, written or preserved is never replaced,   *)
(* nor, before a reset has lost the machine, one with progress by a blank. *)
(***************************************************************************)
EXTENDS DesktopSession, TLAPS

Faultless == ReadMayFail = FALSE /\ RecoverMayFail = FALSE

FileContents == Contents \cup {Absent, Bad}

\* Which ROM is open, and where a save may be written.
Opened ==
  /\ mode = "run" => rom \in Roms
  /\ enabled => rom \in SaveRoms

\* A machine state keeps the save of its own ROM.
Owned(s) == s.mem # Empty => s.mem.owner = s.rom

\* What the disk holds of a file and its .old.
Kept(file, aside) == IF file # Absent THEN file ELSE aside

StatesTyped ==
  /\ states \in [Roms -> MachineState \cup {Absent}] /\ stash \in [Roms -> MachineState \cup {Absent}]
  /\ writer \in Job \cup {Empty} /\ blanks \subseteq Roms
  /\ requested \in [Roms -> MachineState \cup {Absent}]
  /\ confirmed \in [Roms -> MachineState \cup {Absent}]

StatesOwned ==
  /\ \A r \in Roms : /\ states[r] \in MachineState => Owned(states[r])
                     /\ stash[r] \in MachineState => Owned(stash[r])
  /\ writer # Empty => Owned(writer.state)

\* What is requested of a ROM is what the job in progress is about to store,
\* or what has been stored; and that is on disk.
Latest ==
  \A r \in Roms :
    /\ requested[r] = IF writer # Empty /\ ~writer.done /\ writer.path = r
                      THEN writer.state ELSE confirmed[r]
    /\ confirmed[r] = Kept(states[r], stash[r])

StateInv == StatesTyped /\ StatesOwned /\ Latest

IInv == TypeOK /\ Opened /\ Ownership /\ StatesOwned /\ Latest

\* What a launch would find of ROM r's save in the files s (.sav) and o (.old).
StoredOf(s, o, r) == Kept(s[r], o[r])

\* The save that a flush may replace is known to this process.
Known == enabled => Stored(rom) \in seen[rom] \cup rejected[rom] \cup {Absent}

Progress == {c \in Contents : c.v # 0}

\* A blank memory that may be written faces no progress on disk, unless it
\* came from a save state or after a loss.
BlankIsSafe ==
  ~lost /\ enabled /\ mem = Fresh(rom) /\ rom \notin blanks => Stored(rom) \notin Progress

\* The states that hold a blank memory are those that blanks names.
Blanked(s) == \A q \in Roms : s.mem = Fresh(q) => q \in blanks

StatesBlanked ==
  /\ \A r \in Roms : /\ states[r] \in MachineState => Blanked(states[r])
                     /\ stash[r] \in MachineState => Blanked(stash[r])
  /\ writer # Empty => Blanked(writer.state)

\* A machine keeps a save for a game that has one, and the host keeps its
\* machine until a reset loses it.
Filled(s) == s.rom \in SaveRoms => s.mem # Empty

MemoryKept ==
  /\ mode = "run" /\ ~lost => machine = rom
  /\ machine \in SaveRoms => mem # Empty
  /\ \A r \in Roms : /\ states[r] \in MachineState => Filled(states[r])
                     /\ stash[r] \in MachineState => Filled(stash[r])
  /\ writer # Empty => Filled(writer.state)

BlankInv == BlankIsSafe /\ StatesBlanked /\ MemoryKept

---------------------------------------------------------------------------
(* What the helpers of the actions do.                                      *)

LEMMA Sentinels ==
  /\ Absent \notin Contents /\ Bad \notin Contents /\ Empty \notin Contents
  /\ Absent # Bad /\ Absent # Empty /\ Bad # Empty
BY ContentsAssumption

LEMMA FreshType ==
  ASSUME NEW r \in Roms
  PROVE  Fresh(r) \in Contents /\ Fresh(r).owner = r /\ Fresh(r).v = 0
BY ContentsAssumption DEF Fresh, Contents

LEMMA BlankType ==
  ASSUME NEW r \in Roms
  PROVE  /\ Blank(r) \in Contents \cup {Empty}
         /\ Blank(r) # Empty => Blank(r).owner = r
         /\ r \in SaveRoms => Blank(r) # Empty
BY FreshType, Sentinels DEF Blank

LEMMA BumpedType ==
  ASSUME frames \in 0 .. FlushFrames + 1 PROVE Bumped \in 0 .. FlushFrames + 1
BY BoundsAssumption DEF Bumped

\* What a write leaves of a file: it is the new one, or what was on disk still
\* is, under one of its two names.
LEMMA WriteEffect ==
  ASSUME NEW bytes, NEW file, NEW aside, NEW files \in Replacement(bytes, file, aside)
  PROVE  files[1] = bytes /\ files[2] \in {Absent, file, aside}
BY DEF Replacement, AfterWrite, Readied

LEMMA FailureEffect ==
  ASSUME NEW file, NEW aside, NEW files \in AfterFailure(file, aside)
  PROVE  /\ files[1] \in {Absent, file, aside} /\ files[2] \in {Absent, file, aside}
         /\ Kept(files[1], files[2]) = Kept(file, aside)
BY DEF AfterFailure, Readied, Kept

\* A .sav as write_file_atomic leaves it: replaced by c, or as it was, perhaps
\* under its other name.
Replaced(c) ==
  /\ enabled /\ c \in Contents
  /\ \E aside \in {Absent, sav[rom], old[rom]} :
       sav' = [sav EXCEPT ![rom] = c] /\ old' = [old EXCEPT ![rom] = aside]
  /\ seen' = [seen EXCEPT ![rom] = @ \cup {c}]

Failed ==
  /\ enabled
  /\ \E file, aside \in {Absent, sav[rom], old[rom]} :
       /\ Kept(file, aside) = Kept(sav[rom], old[rom])
       /\ sav' = [sav EXCEPT ![rom] = file] /\ old' = [old EXCEPT ![rom] = aside]
  /\ UNCHANGED seen

FilesKept == UNCHANGED <<sav, old, seen>>

LEMMA WriteSaveEffect ==
  ASSUME NEW c \in Contents, NEW ok, enabled, WriteSave(c, ok)
  PROVE  Replaced(c) \/ Failed
<1>1. CASE ok
  <2>1. PICK files \in Replacement(c, sav[rom], old[rom]) :
          /\ sav' = [sav EXCEPT ![rom] = files[1]]
          /\ old' = [old EXCEPT ![rom] = files[2]]
    BY <1>1 DEF WriteSave
  <2>2. files[1] = c /\ files[2] \in {Absent, sav[rom], old[rom]}
    BY WriteEffect
  <2>3. seen' = [seen EXCEPT ![rom] = @ \cup {c}]
    BY <1>1 DEF WriteSave
  <2>4. QED
    BY <2>1, <2>2, <2>3 DEF Replaced
<1>2. CASE ~ok
  <2>1. PICK files \in AfterFailure(sav[rom], old[rom]) :
          /\ sav' = [sav EXCEPT ![rom] = files[1]]
          /\ old' = [old EXCEPT ![rom] = files[2]]
    BY <1>2 DEF WriteSave
  <2>2. /\ files[1] \in {Absent, sav[rom], old[rom]} /\ files[2] \in {Absent, sav[rom], old[rom]}
        /\ Kept(files[1], files[2]) = Kept(sav[rom], old[rom])
    BY FailureEffect
  <2>3. UNCHANGED seen
    BY <1>2 DEF WriteSave
  <2>4. QED
    BY <2>1, <2>2, <2>3 DEF Failed
<1>3. QED
  BY <1>1, <1>2

LEMMA FlushEffect ==
  ASSUME NEW c \in Contents \cup {Empty}, NEW force, NEW ok, Flush(c, force, ok),
         frames \in 0 .. FlushFrames + 1, adopted \in BOOLEAN, ok \in BOOLEAN
  PROVE  /\ Replaced(c) \/ Failed \/ FilesKept
         /\ snapshot' \in {snapshot, c}
         /\ frames' \in 0 .. FlushFrames + 1
         /\ adopted' \in BOOLEAN
<1>1. 0 \in 0 .. FlushFrames + 1 /\ Bumped \in 0 .. FlushFrames + 1
  BY BumpedType, BoundsAssumption
<1>2. frames' \in {frames, Bumped, 0}
  BY DEF Flush
<1>3. snapshot' \in {snapshot, c}
  BY DEF Flush
<1>4. Replaced(c) \/ Failed \/ FilesKept
  <2>1. (enabled /\ c # Empty /\ WriteSave(c, ok)) \/ FilesKept
    BY DEF Flush, FilesKept
  <2>2. QED
    BY <2>1, WriteSaveEffect
<1>5. adopted' \in BOOLEAN
  BY DEF Flush
<1>6. QED
  BY <1>1, <1>2, <1>3, <1>4, <1>5

\* The files of a host: well typed, each with a save of its own ROM.
FilesOwned(s, o) ==
  /\ s \in [Roms -> FileContents] /\ o \in [Roms -> FileContents]
  /\ \A r \in Roms : /\ s[r] \in Contents => s[r].owner = r
                     /\ o[r] \in Contents => o[r].owner = r

LEMMA OwnershipParts ==
  ASSUME TypeOK
  PROVE  Ownership <=> /\ machine # NoRom => machine = rom
                       /\ mem # Empty => machine # NoRom /\ mem.owner = machine
                       /\ FilesOwned(sav, old)
BY Sentinels DEF TypeOK, Ownership, FilesOwned, FileContents

\* Every outcome of a flush leaves each file with a save of its own ROM.
LEMMA FlushOwned ==
  ASSUME FilesOwned(sav, old), seen \in [Roms -> SUBSET Contents], enabled => rom \in Roms,
         NEW c, c \in Contents => c.owner = rom, Replaced(c) \/ Failed \/ FilesKept
  PROVE  FilesOwned(sav', old') /\ seen' \in [Roms -> SUBSET Contents]
<1>1. CASE Replaced(c)
  <2>1. PICK aside \in {Absent, sav[rom], old[rom]} :
          sav' = [sav EXCEPT ![rom] = c] /\ old' = [old EXCEPT ![rom] = aside]
    BY <1>1 DEF Replaced
  <2>2. aside \in FileContents /\ (aside \in Contents => aside.owner = rom)
    BY <1>1, Sentinels DEF Replaced, FilesOwned, FileContents
  <2>3. QED
    BY <1>1, <2>1, <2>2, Sentinels DEF Replaced, FilesOwned, FileContents
<1>2. CASE Failed
  <2>1. PICK file \in {Absent, sav[rom], old[rom]}, aside \in {Absent, sav[rom], old[rom]} :
          sav' = [sav EXCEPT ![rom] = file] /\ old' = [old EXCEPT ![rom] = aside]
    BY <1>2 DEF Failed
  <2>2. /\ file \in FileContents /\ (file \in Contents => file.owner = rom)
        /\ aside \in FileContents /\ (aside \in Contents => aside.owner = rom)
    BY <1>2, Sentinels DEF Failed, FilesOwned, FileContents
  <2>3. QED
    BY <1>2, <2>1, <2>2 DEF Failed, FilesOwned
<1>3. CASE FilesKept
  BY <1>3 DEF FilesKept
<1>4. QED
  BY <1>1, <1>2, <1>3

\* A flush changes what a launch would find only where it replaces the file.
LEMMA FlushStored ==
  ASSUME FilesOwned(sav, old), enabled => rom \in Roms, NEW c,
         Replaced(c) \/ Failed \/ FilesKept, NEW r \in Roms
  PROVE  \/ StoredOf(sav', old', r) = StoredOf(sav, old, r)
         \/ Replaced(c) /\ r = rom /\ StoredOf(sav', old', r) = c
<1>1. CASE Replaced(c)
  BY <1>1, Sentinels DEF Replaced, FilesOwned, StoredOf, Kept
<1>2. CASE Failed
  <2>1. PICK file, aside :
          /\ Kept(file, aside) = Kept(sav[rom], old[rom])
          /\ sav' = [sav EXCEPT ![rom] = file] /\ old' = [old EXCEPT ![rom] = aside]
    BY <1>2 DEF Failed
  <2>2. CASE r = rom
    BY <2>1, <2>2 DEF FilesOwned, StoredOf
  <2>3. CASE r # rom
    BY <2>1, <2>3 DEF FilesOwned, StoredOf
  <2>4. QED
    BY <2>2, <2>3
<1>3. CASE FilesKept
  BY <1>3 DEF FilesKept
<1>4. QED
  BY <1>1, <1>2, <1>3

\* Whatever a load moves, the save to be found stays the same.
LEMMA OpenStored ==
  ASSUME NEW r \in Roms, NEW s, NEW o, FilesOwned(s, o), NEW known,
         OpenSave(r, s, o, known), NEW q \in Roms
  PROVE  StoredOf(sav', old', q) = StoredOf(s, o, q)
<1>1. CASE r \notin SaveRoms
  BY <1>1 DEF OpenSave
<1>2. CASE r \in SaveRoms
  <2>1. PICK files \in Recovered(s[r], o[r]) :
          sav' = [s EXCEPT ![r] = files[1]] /\ old' = [o EXCEPT ![r] = files[2]]
    BY <1>2 DEF OpenSave
  <2>2. files = <<s[r], o[r]>> \/ (s[r] = Absent /\ files = <<o[r], Absent>>)
    BY <2>1 DEF Recovered
  <2>3. CASE q = r
    <3>1. sav'[q] = files[1] /\ old'[q] = files[2]
      BY <2>1, <2>3 DEF FilesOwned
    <3>2. QED
      BY <2>2, <2>3, <3>1 DEF StoredOf, Kept
  <2>4. CASE q # r
    BY <2>1, <2>4 DEF FilesOwned, StoredOf
  <2>5. QED
    BY <2>3, <2>4
<1>3. QED
  BY <1>1, <1>2

\* What load_rom_from_path leaves, whatever the files held: the memory of
\* the opened ROM with a save of its own; the same save to be found for every
\* ROM; and, if no file operation fails, writes enabled only over a save that
\* was read or preserved, and a blank memory only where no progress is.
LEMMA OpenEffect ==
  ASSUME NEW r \in Roms, NEW s, NEW o, FilesOwned(s, o), NEW known \in [Roms -> SUBSET Contents],
         rejected \in [Roms -> SUBSET {Bad}], OpenSave(r, s, o, known)
  PROVE  /\ FilesOwned(sav', old') /\ seen' \in [Roms -> SUBSET Contents]
         /\ rejected' \in [Roms -> SUBSET {Bad}] /\ enabled' \in BOOLEAN
         /\ mem' \in Contents \cup {Empty} /\ snapshot' = mem' /\ frames' = 0
         /\ adopted' = FALSE /\ lost' = FALSE
         /\ mem' # Empty => mem'.owner = r
         /\ r \in SaveRoms => mem' # Empty
         /\ enabled' => r \in SaveRoms
         /\ \A q \in Roms : StoredOf(sav', old', q) = StoredOf(s, o, q)
         /\ Faultless /\ enabled' =>
              /\ StoredOf(sav', old', r) \in seen'[r] \cup rejected'[r] \cup {Absent}
              /\ mem' = Fresh(r) => StoredOf(sav', old', r) \notin Progress
<1> USE Sentinels
<1>1. CASE r \notin SaveRoms
  BY <1>1 DEF OpenSave
<1>2. CASE r \in SaveRoms
  <2>0. PICK files \in Recovered(s[r], o[r]) : \E bytes \in ReadBack(files[1]) :
          /\ sav' = [s EXCEPT ![r] = files[1]]
          /\ old' = [o EXCEPT ![r] = files[2]]
          /\ seen' = [known EXCEPT ![r] = IF bytes \in Contents THEN @ \cup {bytes} ELSE @]
          /\ ImportSave(r, bytes)
          /\ snapshot' = mem' /\ frames' = 0 /\ adopted' = FALSE /\ lost' = FALSE
    BY <1>2 DEF OpenSave
  <2>1. PICK bytes \in ReadBack(files[1]) :
          /\ sav' = [s EXCEPT ![r] = files[1]]
          /\ old' = [o EXCEPT ![r] = files[2]]
          /\ seen' = [known EXCEPT ![r] = IF bytes \in Contents THEN @ \cup {bytes} ELSE @]
          /\ ImportSave(r, bytes)
          /\ snapshot' = mem' /\ frames' = 0 /\ adopted' = FALSE /\ lost' = FALSE
    BY <2>0
  <2>2. files = <<s[r], o[r]>> \/ (s[r] = Absent /\ files = <<o[r], Absent>>)
    BY <2>1 DEF Recovered
  <2>3. bytes = files[1] \/ bytes = Absent
    BY <2>1 DEF ReadBack
  <2>4. Faultless => bytes = files[1] /\ (files[1] = Absent => files[2] = Absent)
    BY <2>1 DEF ReadBack, Recovered, Faultless
  <2>5. /\ s[r] \in FileContents /\ o[r] \in FileContents
        /\ s[r] \in Contents => s[r].owner = r
        /\ o[r] \in Contents => o[r].owner = r
    BY DEF FilesOwned
  <2>6. /\ files[1] \in FileContents /\ files[2] \in FileContents
        /\ files[1] \in Contents => files[1].owner = r
        /\ files[2] \in Contents => files[2].owner = r
    BY <2>2, <2>5 DEF FileContents
  <2>7. FilesOwned(sav', old')
    BY <2>1, <2>6 DEF FilesOwned
  <2>8. bytes \in FileContents /\ (bytes \in Contents => bytes.owner = r)
    BY <2>3, <2>6 DEF FileContents
  <2>9. seen' \in [Roms -> SUBSET Contents]
    BY <2>1
  <2>10. /\ mem' \in Contents \cup {Empty} /\ mem' # Empty /\ mem'.owner = r
         /\ enabled' \in BOOLEAN /\ rejected' \in [Roms -> SUBSET {Bad}]
    BY <2>1, <2>8, FreshType, ZenonT(60) DEF ImportSave
  <2>11. ASSUME NEW q \in Roms
         PROVE  StoredOf(sav', old', q) = StoredOf(s, o, q)
    BY OpenStored
  <2>12. ASSUME Faultless, enabled'
         PROVE  /\ StoredOf(sav', old', r) \in seen'[r] \cup rejected'[r] \cup {Absent}
                /\ mem' = Fresh(r) => StoredOf(sav', old', r) \notin Progress
    <3>1. StoredOf(sav', old', r) = bytes
      BY <2>1, <2>4, <2>12 DEF FilesOwned, StoredOf, Kept
    <3>2. CASE bytes = Absent
      BY <3>1, <3>2 DEF Progress
    <3>3. CASE bytes = Bad
      BY <2>1, <2>12, <3>1, <3>3 DEF ImportSave, Progress
    <3>4. CASE bytes \in Contents
      <4>1. bytes \in seen'[r] /\ mem' = bytes
        BY <2>1, <3>4 DEF ImportSave
      <4>2. bytes = Fresh(r) => bytes.v = 0
        BY FreshType
      <4>3. QED
        BY <3>1, <4>1, <4>2 DEF Progress
    <3>5. QED
      BY <2>8, <3>2, <3>3, <3>4 DEF FileContents
  <2>13. QED
    BY <1>2, <2>1, <2>7, <2>9, <2>10, <2>11, <2>12
<1>3. QED
  BY <1>1, <1>2

---------------------------------------------------------------------------
(* The steps.                                                               *)

LEMMA InitHolds == Init => IInv
<1> SUFFICES ASSUME Init PROVE IInv
  OBVIOUS
<1>1. \A r \in Roms : sav[r] \in {Fresh(r), Absent, Bad}
  BY DEF Init
<1>2. \A r \in Roms : sav[r] \in FileContents /\ (sav[r] \in Contents => sav[r].owner = r)
  BY <1>1, FreshType, Sentinels DEF FileContents
<1>3. sav \in [Roms -> FileContents]
  BY <1>2 DEF Init
<1>4. FilesOwned(sav, old)
  BY <1>2, <1>3, Sentinels DEF Init, FilesOwned, FileContents
<1>5. \A r \in Roms : states[r] # Absent => states[r] \in MachineState /\ Owned(states[r])
  <2>1. ASSUME NEW r \in SaveRoms
        PROVE  [rom |-> r, mem |-> Fresh(r)] \in MachineState /\ Owned([rom |-> r, mem |-> Fresh(r)])
    <3>1. r \in Roms
      BY RomsAssumption
    <3>2. QED
      BY <3>1, FreshType DEF MachineState, Owned
  <2>2. \A r \in Roms : \/ states[r] = Absent
                       \/ \E q \in SaveRoms : states[r] = [rom |-> q, mem |-> Fresh(q)]
    BY DEF Init
  <2>3. ASSUME NEW r \in Roms, states[r] # Absent
        PROVE  states[r] \in MachineState /\ Owned(states[r])
    <3>1. PICK q \in SaveRoms : states[r] = [rom |-> q, mem |-> Fresh(q)]
      BY <2>2, <2>3
    <3>2. QED
      BY <2>1, <3>1
  <2>4. QED
    BY <2>3
<1>6. states \in [Roms -> MachineState \cup {Absent}]
  <2>1. PICK S : states \in [Roms -> S]
    BY DEF Init
  <2>2. QED
    BY <1>5, <2>1
<1>7. TypeOK
  <2>1. sav \in [Roms -> Contents \cup {Absent, Bad}] /\ old \in [Roms -> Contents \cup {Absent, Bad}]
    BY <1>4 DEF FilesOwned, FileContents
  <2>2. frames \in 0 .. FlushFrames + 1
    BY BoundsAssumption DEF Init
  <2>3. blanks \subseteq Roms /\ seen \in [Roms -> SUBSET Contents] /\ rejected \in [Roms -> SUBSET {Bad}]
    BY DEF Init
  <2>4. QED
    BY <1>6, <2>1, <2>2, <2>3 DEF Init, TypeOK
<1>8. Ownership
  BY <1>4, <1>7, OwnershipParts DEF Init
<1>9. StatesOwned
  BY <1>5, StateAssumption DEF Init, StatesOwned
<1>10. Opened /\ Latest
  BY DEF Init, Opened, Latest, Kept
<1>11. QED
  BY <1>7, <1>8, <1>9, <1>10 DEF IInv

\* A step keeps the invariant if it keeps its parts about the states, the
\* host, the machine and the save files.
LEMMA HostHolds ==
  ASSUME IInv, StateInv', Opened',
         mode' \in {"off", "run", "closing"}, rom' \in Roms \cup {NoRom},
         machine' \in {rom', NoRom}, enabled' \in BOOLEAN,
         mem' \in Contents \cup {Empty}, mem' # Empty => machine' # NoRom /\ mem'.owner = machine',
         snapshot' \in Contents \cup {Empty}, frames' \in 0 .. FlushFrames + 1,
         adopted' \in BOOLEAN, lost' \in BOOLEAN,
         FilesOwned(sav', old'), rejected' \in [Roms -> SUBSET {Bad}],
         seen' \in [Roms -> SUBSET Contents]
  PROVE  IInv'
<1>1. TypeOK'
  BY DEF IInv, TypeOK, FilesOwned, FileContents, StateInv, StatesTyped
<1>2. Ownership'
  BY Sentinels DEF Ownership, FilesOwned, FileContents
<1>3. QED
  BY <1>1, <1>2 DEF IInv, StateInv

\* A step that leaves the stored states alone, and may collect a finished job.
LEMMA CollectHolds ==
  ASSUME IInv, UNCHANGED <<states, stash, requested, confirmed, blanks>>,
         writer' = writer \/ (writer' = Empty /\ (writer # Empty => writer.done))
  PROVE  StateInv'
<1>1. StatesTyped' /\ StatesOwned'
  BY DEF IInv, TypeOK, StatesTyped, StatesOwned, Owned
<1>2. Latest'
  BY DEF IInv, Latest
<1>3. QED
  BY <1>1, <1>2 DEF StateInv

\* A failed or interrupted write of a state's file leaves what was on disk.
LEMMA StateWriteFails ==
  ASSUME IInv, NEW p \in Roms, NEW files \in AfterFailure(states[p], stash[p]),
         states' = [states EXCEPT ![p] = files[1]], stash' = [stash EXCEPT ![p] = files[2]]
  PROVE  /\ states' \in [Roms -> MachineState \cup {Absent}]
         /\ stash' \in [Roms -> MachineState \cup {Absent}]
         /\ \A r \in Roms : /\ states'[r] \in {Absent, states[r], stash[r]}
                            /\ stash'[r] \in {Absent, states[r], stash[r]}
                            /\ Kept(states'[r], stash'[r]) = Kept(states[r], stash[r])
<1>1. /\ files[1] \in {Absent, states[p], stash[p]} /\ files[2] \in {Absent, states[p], stash[p]}
      /\ Kept(files[1], files[2]) = Kept(states[p], stash[p])
  BY FailureEffect
<1>2. /\ states \in [Roms -> MachineState \cup {Absent}]
      /\ stash \in [Roms -> MachineState \cup {Absent}]
  BY DEF IInv, TypeOK
<1>3. ASSUME NEW r \in Roms
      PROVE  /\ states'[r] \in {Absent, states[r], stash[r]}
             /\ stash'[r] \in {Absent, states[r], stash[r]}
             /\ Kept(states'[r], stash'[r]) = Kept(states[r], stash[r])
  <2>1. CASE r = p
    <3>1. states'[r] = files[1] /\ stash'[r] = files[2]
      BY <1>2, <2>1
    <3>2. QED
      BY <1>1, <2>1, <3>1
  <2>2. CASE r # p
    <3>1. states'[r] = states[r] /\ stash'[r] = stash[r]
      BY <1>2, <2>2
    <3>2. QED
      BY <3>1
  <2>3. QED
    BY <2>1, <2>2
<1>4. QED
  BY <1>1, <1>2, <1>3

\* Nor does it give a state to another ROM.
LEMMA StatesStayOwned ==
  ASSUME IInv, writer' # Empty => Owned(writer'.state),
         \A r \in Roms : /\ states'[r] \in {Absent, states[r], stash[r]}
                         /\ stash'[r] \in {Absent, states[r], stash[r]}
  PROVE  StatesOwned'
<1>1. ASSUME NEW r \in Roms
      PROVE  /\ states'[r] \in MachineState => Owned(states'[r])
             /\ stash'[r] \in MachineState => Owned(stash'[r])
  <2>1. /\ states[r] \in MachineState => Owned(states[r])
        /\ stash[r] \in MachineState => Owned(stash[r])
    BY DEF IInv, StatesOwned
  <2>2. QED
    BY <2>1, StateAssumption
<1>2. QED
  BY <1>1 DEF StatesOwned, Owned

\* What the invariant says of the state a step starts in.
LEMMA Facts ==
  ASSUME IInv
  PROVE  /\ FilesOwned(sav, old) /\ (machine # NoRom => machine = rom)
         /\ mem # Empty => machine # NoRom /\ mem.owner = machine
         /\ mem \in Contents => mem.owner = rom
         /\ enabled => rom \in Roms
         /\ mode = "run" => rom \in Roms
<1>1. /\ FilesOwned(sav, old) /\ (machine # NoRom => machine = rom)
      /\ mem # Empty => machine # NoRom /\ mem.owner = machine
  BY OwnershipParts DEF IInv
<1>2. mem \in Contents => mem # Empty
  BY Sentinels
<1>3. QED
  BY <1>1, <1>2, RomsAssumption DEF IInv, Opened

\* A flush of the save memory of the open ROM keeps the files and the
\* snapshot in shape.
LEMMA FlushHolds ==
  ASSUME IInv, NEW c \in Contents \cup {Empty}, c \in Contents => c.owner = rom, NEW force,
         NEW ok \in BOOLEAN, Flush(c, force, ok)
  PROVE  /\ FilesOwned(sav', old') /\ seen' \in [Roms -> SUBSET Contents]
         /\ snapshot' \in Contents \cup {Empty} /\ frames' \in 0 .. FlushFrames + 1
         /\ adopted' \in BOOLEAN
<1>1. frames \in 0 .. FlushFrames + 1 /\ snapshot \in Contents \cup {Empty}
        /\ seen \in [Roms -> SUBSET Contents] /\ adopted \in BOOLEAN
  BY DEF IInv, TypeOK
<1>2. /\ Replaced(c) \/ Failed \/ FilesKept
      /\ snapshot' \in {snapshot, c} /\ frames' \in 0 .. FlushFrames + 1 /\ adopted' \in BOOLEAN
  BY <1>1, FlushEffect
<1>3. QED
  BY <1>1, <1>2, Facts, FlushOwned

\* What switch_rom does to the files: the save memory is written if writes
\* are enabled, and then the new ROM is opened.
LEMMA SwitchEffect ==
  ASSUME IInv, NEW r \in Roms, SwitchRom(r)
  PROVE  \E s, o, known :
           /\ \/ ~enabled /\ s = sav /\ o = old /\ known = seen
              \/ /\ enabled /\ mem \in Contents
                 /\ \A q \in Roms : StoredOf(s, o, q) = IF q = rom THEN mem ELSE StoredOf(sav, old, q)
           /\ FilesOwned(s, o) /\ known \in [Roms -> SUBSET Contents]
           /\ OpenSave(r, s, o, known)
<1>1. rom \in Roms /\ (enabled => mem # Empty)
  BY DEF SwitchRom, IInv, Opened
<1>2. CASE ~enabled
  <2>1. OpenSave(r, sav, old, seen)
    BY <1>2 DEF SwitchRom
  <2>2. QED
    BY <1>2, <2>1, Facts DEF IInv, TypeOK
<1>3. CASE enabled
  <2>1. PICK files \in Replacement(mem, sav[rom], old[rom]) :
          OpenSave(r, [sav EXCEPT ![rom] = files[1]], [old EXCEPT ![rom] = files[2]],
                   [seen EXCEPT ![rom] = @ \cup {mem}])
    BY <1>3 DEF SwitchRom
  <2> DEFINE s == [sav EXCEPT ![rom] = files[1]]
             o == [old EXCEPT ![rom] = files[2]]
             known == [seen EXCEPT ![rom] = @ \cup {mem}]
  <2>2. mem \in Contents /\ mem.owner = rom
    BY <1>1, <1>3, Facts DEF IInv, TypeOK
  <2>3. files[1] = mem /\ files[2] \in {Absent, sav[rom], old[rom]}
    BY <2>1, WriteEffect
  <2>4. files[2] \in FileContents /\ (files[2] \in Contents => files[2].owner = rom)
    BY <1>1, <2>3, Facts, Sentinels DEF FilesOwned, FileContents
  <2>5. FilesOwned(s, o)
    BY <1>1, <2>2, <2>3, <2>4, Facts DEF FilesOwned, FileContents
  <2>6. known \in [Roms -> SUBSET Contents]
    BY <2>2 DEF IInv, TypeOK
  <2>7. ASSUME NEW q \in Roms
        PROVE  StoredOf(s, o, q) = IF q = rom THEN mem ELSE StoredOf(sav, old, q)
    <3>1. CASE q = rom
      <4>1. s[q] = mem
        BY <2>3, <3>1, Facts DEF FilesOwned
      <4>2. QED
        BY <2>2, <3>1, <4>1, Sentinels DEF StoredOf, Kept
    <3>2. CASE q # rom
      <4>1. s[q] = sav[q] /\ o[q] = old[q]
        BY <3>2, Facts DEF FilesOwned
      <4>2. QED
        BY <3>2, <4>1 DEF StoredOf
    <3>3. QED
      BY <3>1, <3>2
  <2>8. OpenSave(r, s, o, known)
    BY <2>1
  <2> HIDE DEF s, o, known
  <2>9. QED
    BY <1>3, <2>2, <2>5, <2>6, <2>7, <2>8
<1>4. QED
  BY <1>2, <1>3

LEMMA LaunchStored ==
  ASSUME IInv, NEW r \in Roms, Launch(r), NEW q \in Roms
  PROVE  StoredOf(sav', old', q) = StoredOf(sav, old, q)
<1>1. [p \in Roms |-> {}] \in [Roms -> SUBSET Contents]
  OBVIOUS
<1>2. FilesOwned(sav, old)
  BY Facts
<1>3. rejected \in [Roms -> SUBSET {Bad}]
  BY DEF IInv, TypeOK
<1>4. OpenSave(r, sav, old, [p \in Roms |-> {}])
  BY DEF Launch
<1>5. QED
  BY <1>1, <1>2, <1>3, <1>4, OpenStored

LEMMA SwitchStored ==
  ASSUME IInv, NEW r \in Roms, SwitchRom(r), NEW q \in Roms
  PROVE  StoredOf(sav', old', q) = IF enabled /\ q = rom THEN mem ELSE StoredOf(sav, old, q)
<1>1. PICK s, o, known :
        /\ \/ ~enabled /\ s = sav /\ o = old /\ known = seen
           \/ /\ enabled /\ mem \in Contents
              /\ \A p \in Roms : StoredOf(s, o, p) = IF p = rom THEN mem ELSE StoredOf(sav, old, p)
        /\ FilesOwned(s, o) /\ known \in [Roms -> SUBSET Contents]
        /\ OpenSave(r, s, o, known)
  BY SwitchEffect
<1>2. FilesOwned(s, o) /\ known \in [Roms -> SUBSET Contents] /\ OpenSave(r, s, o, known)
  BY <1>1
<1>3. rejected \in [Roms -> SUBSET {Bad}]
  BY DEF IInv, TypeOK
<1>4. StoredOf(sav', old', q) = StoredOf(s, o, q)
  BY <1>2, <1>3, OpenStored
<1>5. StoredOf(s, o, q) = IF enabled /\ q = rom THEN mem ELSE StoredOf(sav, old, q)
  BY <1>1
<1>6. QED
  BY <1>4, <1>5

\* A crash of a .sav write leaves each file with a save of its own ROM, and
\* for every ROM what a launch would find.
LEMMA CrashKeepsFiles ==
  ASSUME IInv, Crash
  PROVE  /\ FilesOwned(sav', old')
         /\ \A r \in Roms : StoredOf(sav', old', r) = StoredOf(sav, old, r)
<1>1. CASE UNCHANGED <<sav, old>>
  BY <1>1, Facts DEF StoredOf
<1>2. CASE /\ enabled
           /\ \E files \in AfterFailure(sav[rom], old[rom]) :
                /\ sav' = [sav EXCEPT ![rom] = files[1]]
                /\ old' = [old EXCEPT ![rom] = files[2]]
  <2>1. PICK files \in AfterFailure(sav[rom], old[rom]) :
          sav' = [sav EXCEPT ![rom] = files[1]] /\ old' = [old EXCEPT ![rom] = files[2]]
    BY <1>2
  <2>2. /\ files[1] \in {Absent, sav[rom], old[rom]} /\ files[2] \in {Absent, sav[rom], old[rom]}
        /\ Kept(files[1], files[2]) = Kept(sav[rom], old[rom])
    BY FailureEffect
  <2>3. rom \in Roms
    BY <1>2, Facts
  <2>4. /\ files[1] \in FileContents /\ (files[1] \in Contents => files[1].owner = rom)
        /\ files[2] \in FileContents /\ (files[2] \in Contents => files[2].owner = rom)
    BY <2>2, <2>3, Facts, Sentinels DEF FilesOwned, FileContents
  <2>5. FilesOwned(sav', old')
    BY <2>1, <2>4, Facts DEF FilesOwned
  <2>6. ASSUME NEW r \in Roms PROVE StoredOf(sav', old', r) = StoredOf(sav, old, r)
    <3>1. CASE r = rom
      BY <2>1, <2>2, <3>1, Facts DEF FilesOwned, StoredOf
    <3>2. CASE r # rom
      BY <2>1, <3>2, Facts DEF FilesOwned, StoredOf
    <3>3. QED
      BY <3>1, <3>2
  <2>7. QED
    BY <2>5, <2>6
<1>3. QED
  BY <1>1, <1>2 DEF Crash

\* The states that a write of the job leaves, when it fails or is cut off.
LEMMA CrashKeepsStates ==
  ASSUME IInv, Crash
  PROVE  StateInv'
<1>1. /\ writer' = Empty /\ requested' = confirmed /\ UNCHANGED <<confirmed, blanks>>
      /\ confirmed \in [Roms -> MachineState \cup {Absent}] /\ blanks \subseteq Roms
  BY DEF Crash, Gone, IInv, TypeOK
<1>2. CASE UNCHANGED <<states, stash>>
  BY <1>1, <1>2 DEF IInv, TypeOK, StateInv, StatesTyped, StatesOwned, Owned, Latest
<1>3. CASE /\ writer # Empty
           /\ \E files \in AfterFailure(states[writer.path], stash[writer.path]) :
                /\ states' = [states EXCEPT ![writer.path] = files[1]]
                /\ stash' = [stash EXCEPT ![writer.path] = files[2]]
  <2>1. writer.path \in Roms
    BY <1>3 DEF IInv, TypeOK, Job
  <2>2. PICK files \in AfterFailure(states[writer.path], stash[writer.path]) :
          /\ states' = [states EXCEPT ![writer.path] = files[1]]
          /\ stash' = [stash EXCEPT ![writer.path] = files[2]]
    BY <1>3
  <2>3. /\ states' \in [Roms -> MachineState \cup {Absent}]
        /\ stash' \in [Roms -> MachineState \cup {Absent}]
        /\ \A r \in Roms : /\ states'[r] \in {Absent, states[r], stash[r]}
                           /\ stash'[r] \in {Absent, states[r], stash[r]}
                           /\ Kept(states'[r], stash'[r]) = Kept(states[r], stash[r])
    BY <2>1, <2>2, StateWriteFails
  <2>4. StatesTyped'
    BY <1>1, <2>3 DEF StatesTyped
  <2>5. StatesOwned'
    <3>1. \A r \in Roms : /\ states'[r] \in {Absent, states[r], stash[r]}
                         /\ stash'[r] \in {Absent, states[r], stash[r]}
      BY <2>3
    <3>2. writer' # Empty => Owned(writer'.state)
      BY <1>1
    <3>3. QED
      BY <3>1, <3>2, StatesStayOwned
  <2>6. Latest'
    BY <1>1, <2>3 DEF IInv, Latest
  <2>7. QED
    BY <2>4, <2>5, <2>6 DEF StateInv
<1>4. QED
  BY <1>2, <1>3 DEF Crash

LEMMA WorkerKeepsStates ==
  ASSUME IInv, NEW ok \in BOOLEAN, WorkerWrite(ok)
  PROVE  StateInv'
<1> DEFINE p == writer.path
<1>1. /\ writer # Empty /\ ~writer.done /\ writer' = [writer EXCEPT !.done = TRUE]
      /\ UNCHANGED blanks
  BY DEF WorkerWrite
<1>2. writer \in Job /\ p \in Roms /\ writer.state \in MachineState
  BY <1>1 DEF IInv, TypeOK, Job
<1>3. writer' \in Job /\ writer'.done /\ writer'.state = writer.state
  BY <1>1, <1>2 DEF Job
<1>4. /\ states \in [Roms -> MachineState \cup {Absent}] /\ stash \in [Roms -> MachineState \cup {Absent}]
      /\ requested \in [Roms -> MachineState \cup {Absent}]
      /\ confirmed \in [Roms -> MachineState \cup {Absent}] /\ blanks \subseteq Roms
  BY DEF IInv, TypeOK
<1>5. /\ requested[p] = writer.state
      /\ \A r \in Roms : /\ r # p => requested[r] = confirmed[r]
                         /\ confirmed[r] = Kept(states[r], stash[r])
  BY <1>1, <1>2 DEF IInv, Latest
<1>6. Owned(writer.state)
  BY <1>1 DEF IInv, StatesOwned
<1>7. CASE ok
  <2>1. PICK files \in Replacement(writer.state, states[p], stash[p]) :
          /\ states' = [states EXCEPT ![p] = files[1]]
          /\ stash' = [stash EXCEPT ![p] = files[2]]
    BY <1>7 DEF WorkerWrite
  <2>2. files[1] = writer.state /\ files[2] \in {Absent, states[p], stash[p]}
    BY <2>1, WriteEffect
  <2>3. confirmed' = [confirmed EXCEPT ![p] = writer.state] /\ requested' = requested
    BY <1>7 DEF WorkerWrite
  <2>4. files[2] \in MachineState \cup {Absent} /\ (files[2] \in MachineState => Owned(files[2]))
    BY <1>2, <1>4, <2>2, StateAssumption DEF IInv, StatesOwned
  <2>5. StatesTyped'
    BY <1>1, <1>2, <1>3, <1>4, <2>1, <2>2, <2>3, <2>4 DEF StatesTyped
  <2>6. \A r \in Roms : /\ r = p => states'[r] = writer.state /\ stash'[r] = files[2]
                        /\ r # p => states'[r] = states[r] /\ stash'[r] = stash[r]
    BY <1>4, <2>1, <2>2
  <2>7. StatesOwned'
    BY <1>3, <1>6, <2>4, <2>6 DEF IInv, StatesOwned, Owned
  <2>8. Latest'
    <3>1. Kept(writer.state, files[2]) = writer.state
      BY <1>2, StateAssumption DEF Kept
    <3>2. QED
      BY <1>2, <1>3, <1>4, <1>5, <2>3, <2>6, <3>1 DEF Latest
  <2>9. QED
    BY <2>5, <2>7, <2>8 DEF StateInv
<1>8. CASE ~ok
  <2>1. PICK files \in AfterFailure(states[p], stash[p]) :
          /\ states' = [states EXCEPT ![p] = files[1]]
          /\ stash' = [stash EXCEPT ![p] = files[2]]
    BY <1>8 DEF WorkerWrite
  <2>2. /\ states' \in [Roms -> MachineState \cup {Absent}]
        /\ stash' \in [Roms -> MachineState \cup {Absent}]
        /\ \A r \in Roms : /\ states'[r] \in {Absent, states[r], stash[r]}
                           /\ stash'[r] \in {Absent, states[r], stash[r]}
                           /\ Kept(states'[r], stash'[r]) = Kept(states[r], stash[r])
    BY <1>2, <2>1, StateWriteFails
  <2>3. requested' = [requested EXCEPT ![p] = confirmed[p]] /\ confirmed' = confirmed
    BY <1>8 DEF WorkerWrite
  <2>4. StatesTyped'
    BY <1>1, <1>2, <1>3, <1>4, <2>2, <2>3 DEF StatesTyped
  <2>5. StatesOwned'
    <3>1. \A r \in Roms : /\ states'[r] \in {Absent, states[r], stash[r]}
                         /\ stash'[r] \in {Absent, states[r], stash[r]}
      BY <2>2
    <3>2. writer' # Empty => Owned(writer'.state)
      BY <1>3, <1>6
    <3>3. QED
      BY <3>1, <3>2, StatesStayOwned
  <2>6. Latest'
    BY <1>2, <1>3, <1>4, <1>5, <2>2, <2>3 DEF Latest
  <2>7. QED
    BY <2>4, <2>5, <2>6 DEF StateInv
<1>9. QED
  BY <1>7, <1>8

\* The end of a process keeps the invariant where the disk does.
LEMMA GoneHolds ==
  ASSUME IInv, Gone, StateInv', FilesOwned(sav', old'), UNCHANGED rejected
  PROVE  IInv'
<1>1. /\ mode' = "off" /\ rom' = NoRom /\ machine' = NoRom /\ mem' = Empty /\ snapshot' = Empty
      /\ frames' = 0 /\ enabled' = FALSE /\ adopted' = FALSE /\ lost' = FALSE
      /\ seen' \in [Roms -> SUBSET Contents]
  BY DEF Gone
<1>2. Opened' /\ rejected' \in [Roms -> SUBSET {Bad}] /\ 0 \in 0 .. FlushFrames + 1
  BY <1>1, BoundsAssumption DEF IInv, TypeOK, Opened
<1>3. QED
  BY <1>1, <1>2, HostHolds

LEMMA StepHolds == IInv /\ [Next]_vars => IInv'
<1> SUFFICES ASSUME IInv, [Next]_vars PROVE IInv'
  OBVIOUS
<1> USE Facts
<1>1. ASSUME NEW r \in Roms, Launch(r) PROVE IInv'
  <2>1. [q \in Roms |-> {}] \in [Roms -> SUBSET Contents]
    OBVIOUS
  <2>2. /\ FilesOwned(sav', old') /\ seen' \in [Roms -> SUBSET Contents]
        /\ rejected' \in [Roms -> SUBSET {Bad}] /\ enabled' \in BOOLEAN
        /\ mem' \in Contents \cup {Empty} /\ snapshot' = mem' /\ frames' = 0
        /\ adopted' = FALSE /\ lost' = FALSE
        /\ mem' # Empty => mem'.owner = r
        /\ enabled' => r \in SaveRoms
    BY <1>1, <2>1, OpenEffect DEF Launch, IInv, TypeOK
  <2>3. StateInv' /\ r # NoRom
    BY <1>1, CollectHolds, RomsAssumption DEF Launch, stateVars
  <2>4. /\ mode' = "run" /\ rom' = r /\ machine' = r
        /\ 0 \in 0 .. FlushFrames + 1 /\ Opened'
    BY <1>1, <2>2, BoundsAssumption DEF Launch, Opened
  <2>5. QED
    BY <2>2, <2>3, <2>4, HostHolds
<1>2. ASSUME NEW r \in Roms, SwitchRom(r) PROVE IInv'
  <2>1. PICK s, o, known : /\ FilesOwned(s, o) /\ known \in [Roms -> SUBSET Contents]
                           /\ OpenSave(r, s, o, known)
    BY <1>2, SwitchEffect
  <2>3. /\ FilesOwned(sav', old') /\ seen' \in [Roms -> SUBSET Contents]
        /\ rejected' \in [Roms -> SUBSET {Bad}] /\ enabled' \in BOOLEAN
        /\ mem' \in Contents \cup {Empty} /\ snapshot' = mem' /\ frames' = 0
        /\ adopted' = FALSE /\ lost' = FALSE
        /\ mem' # Empty => mem'.owner = r
        /\ enabled' => r \in SaveRoms
    BY <2>1, OpenEffect DEF IInv, TypeOK
  <2>4. /\ rom' = r /\ machine' = r /\ mode = "run"
        /\ UNCHANGED <<mode, states, stash, writer, requested, confirmed, blanks>>
    BY <1>2 DEF SwitchRom, stateVars
  <2>5. StateInv' /\ r # NoRom
    BY <2>4, CollectHolds, RomsAssumption
  <2>6. 0 \in 0 .. FlushFrames + 1 /\ Opened'
    BY <2>3, <2>4, BoundsAssumption DEF Opened
  <2>7. QED
    BY <2>3, <2>4, <2>5, <2>6, HostHolds
<1>3. CASE SwitchRefused
  <2>1. PICK ok \in BOOLEAN : Flush(mem, TRUE, ok)
    BY <1>3 DEF SwitchRefused
  <2>2. /\ FilesOwned(sav', old') /\ seen' \in [Roms -> SUBSET Contents]
        /\ snapshot' \in Contents \cup {Empty} /\ frames' \in 0 .. FlushFrames + 1
        /\ adopted' \in BOOLEAN
    BY <2>1, FlushHolds DEF IInv, TypeOK
  <2>3. UNCHANGED <<mode, rom, enabled, lost, machine, mem, rejected, states, stash, writer, requested,
                   confirmed, blanks>>
    BY <1>3 DEF SwitchRefused, machineVars, stateVars
  <2>4. StateInv'
    BY <2>3, CollectHolds
  <2>5. QED
    BY <2>2, <2>3, <2>4, HostHolds DEF IInv, TypeOK, Opened
<1>4. CASE SwitchRejected
  <2>1. /\ FilesOwned(sav', old') /\ seen' \in [Roms -> SUBSET Contents]
        /\ snapshot' \in Contents \cup {Empty} /\ frames' \in 0 .. FlushFrames + 1
        /\ adopted' \in BOOLEAN
    BY <1>4, FlushHolds DEF SwitchRejected, IInv, TypeOK
  <2>2. /\ UNCHANGED <<rom, lost, rejected, states, stash, writer, requested, confirmed, blanks>>
        /\ \/ UNCHANGED <<mode, enabled, machine, mem>>
           \/ mode' = "closing" /\ enabled' = FALSE /\ machine' = NoRom /\ mem' = Empty
    BY <1>4 DEF SwitchRejected, machineVars, stateVars
  <2>3. StateInv'
    BY <2>2, CollectHolds
  <2>4. /\ mode' \in {"off", "run", "closing"} /\ machine' \in {rom', NoRom} /\ enabled' \in BOOLEAN
        /\ mem' \in Contents \cup {Empty} /\ (mem' # Empty => machine' # NoRom /\ mem'.owner = machine')
    BY <2>2 DEF IInv, TypeOK
  <2>5. Opened'
    BY <2>2 DEF IInv, Opened
  <2>6. QED
    BY <2>1, <2>2, <2>3, <2>4, <2>5, HostHolds DEF IInv, TypeOK
<1>5. ASSUME NEW current \in Contents \cup {Empty}, NEW ok \in BOOLEAN, Frame(current, ok) PROVE IInv'
  <2>1. current # Empty => current.owner = machine
    BY <1>5 DEF Frame, Played
  <2>2. machine = rom /\ machine # NoRom /\ (current \in Contents => current.owner = rom)
    BY <1>5, <2>1, Sentinels DEF Frame
  <2>3. /\ FilesOwned(sav', old') /\ seen' \in [Roms -> SUBSET Contents]
        /\ snapshot' \in Contents \cup {Empty} /\ frames' \in 0 .. FlushFrames + 1
        /\ adopted' \in BOOLEAN
    BY <1>5, <2>2, FlushHolds DEF Frame
  <2>4. /\ UNCHANGED <<mode, rom, machine, enabled, lost, rejected, states, stash, requested,
                      confirmed, blanks>>
        /\ mem' = current
        /\ writer' = IF writer # Empty /\ writer.done THEN Empty ELSE writer
    BY <1>5 DEF Frame
  <2>5. StateInv'
    BY <2>4, CollectHolds
  <2>6. QED
    BY <2>1, <2>2, <2>3, <2>4, <2>5, HostHolds DEF IInv, TypeOK, Opened
<1>6. CASE Stop
  <2>1. PICK ok \in BOOLEAN : Flush(mem, TRUE, ok)
    BY <1>6 DEF Stop
  <2>2. /\ FilesOwned(sav', old') /\ seen' \in [Roms -> SUBSET Contents]
        /\ snapshot' \in Contents \cup {Empty} /\ frames' \in 0 .. FlushFrames + 1
        /\ adopted' \in BOOLEAN
    BY <2>1, FlushHolds DEF IInv, TypeOK
  <2>3. /\ UNCHANGED <<rom, enabled, lost, machine, mem, rejected, states, stash, writer, requested,
                      confirmed, blanks>>
        /\ mode' = "closing"
    BY <1>6 DEF Stop, machineVars, stateVars
  <2>4. StateInv'
    BY <2>3, CollectHolds
  <2>5. QED
    BY <2>2, <2>3, <2>4, HostHolds DEF IInv, TypeOK, Opened
<1>7. CASE Exit
  <2>1. seen' \in [Roms -> SUBSET Contents] /\ UNCHANGED <<sav, old, rejected>>
    BY <1>7 DEF Exit, Gone, fileVars
  <2>2. StateInv'
    BY <1>7, CollectHolds DEF Exit, Gone
  <2>3. QED
    BY <1>7, <2>1, <2>2, GoneHolds DEF Exit
<1>8. CASE Crash
  <2>1. seen' \in [Roms -> SUBSET Contents] /\ UNCHANGED rejected
    BY <1>8 DEF Crash, Gone
  <2>2. StateInv'
    BY <1>8, CrashKeepsStates
  <2>3. FilesOwned(sav', old')
    BY <1>8, CrashKeepsFiles
  <2>4. QED
    BY <1>8, <2>1, <2>2, <2>3, GoneHolds DEF Crash
<1>9. CASE Reset
  <2>1. UNCHANGED <<mode, rom, sav, old, rejected, states, stash, writer, seen, requested, confirmed, blanks>>
    BY <1>9 DEF Reset, fileVars, stateVars
  <2>2. StateInv' /\ rom \in Roms /\ rom # NoRom
    BY <1>9, <2>1, CollectHolds, RomsAssumption DEF Reset
  <2>3. /\ machine' \in {rom, NoRom}
        /\ mem' \in Contents \cup {Empty}
        /\ mem' # Empty => machine' # NoRom /\ mem'.owner = machine'
        /\ enabled' \in BOOLEAN /\ (enabled' => enabled)
        /\ snapshot' \in Contents \cup {Empty} /\ frames' \in 0 .. FlushFrames + 1
        /\ adopted' \in BOOLEAN /\ lost' \in BOOLEAN
    <3>1. /\ mem \in Contents \cup {Empty} /\ snapshot \in Contents \cup {Empty} /\ enabled \in BOOLEAN
          /\ 0 \in 0 .. FlushFrames + 1 /\ frames \in 0 .. FlushFrames + 1
          /\ adopted \in BOOLEAN /\ lost \in BOOLEAN
      BY BoundsAssumption DEF IInv, TypeOK
    <3>2. Blank(rom) \in Contents \cup {Empty} /\ (Blank(rom) # Empty => Blank(rom).owner = rom)
      BY <2>2, BlankType
    <3>3. CASE ResetDone
      <4>1. /\ machine' = rom /\ snapshot' = mem /\ frames' = 0 /\ adopted' = TRUE /\ lost' = lost
            /\ mem' = Blank(rom) \/ mem' = mem
            /\ enabled' = enabled \/ enabled' = FALSE
        BY <3>3 DEF ResetDone
      <4>2. mem # Empty => mem.owner = rom
        BY <3>1, Facts
      <4>3. enabled' \in BOOLEAN /\ (enabled' => enabled)
        <5>1. CASE enabled' = enabled
          BY <3>1, <5>1
        <5>2. CASE enabled' = FALSE
          BY <5>2
        <5>3. QED
          BY <4>1, <5>1, <5>2
      <4>4. mem' \in Contents \cup {Empty} /\ (mem' # Empty => machine' # NoRom /\ mem'.owner = machine')
        BY <2>2, <3>1, <3>2, <4>1, <4>2
      <4>5. QED
        BY <3>1, <4>1, <4>3, <4>4
    <3>4. CASE ResetLost
      BY <3>1, <3>4 DEF ResetLost
    <3>5. QED
      BY <1>9, <3>3, <3>4 DEF Reset
  <2>4. QED
    BY <2>1, <2>2, <2>3, HostHolds DEF IInv, TypeOK, Opened
<1>10. CASE LoadState
  <2>1. UNCHANGED <<mode, rom, machine, enabled, lost, sav, old, rejected, states, stash, seen, requested,
                   confirmed, blanks>>
    BY <1>10 DEF LoadState, fileVars
  <2>2. StateInv' /\ rom \in Roms /\ writer' = Empty
    BY <1>10, CollectHolds DEF LoadState
  <2>3. /\ mem' \in Contents \cup {Empty}
        /\ mem' # Empty => machine # NoRom /\ mem'.owner = machine
        /\ snapshot' \in Contents \cup {Empty} /\ frames' \in 0 .. FlushFrames + 1
        /\ adopted' \in BOOLEAN
    <3>1. CASE UNCHANGED <<mem, snapshot, frames, adopted>>
      BY <3>1 DEF IInv, TypeOK
    <3>2. CASE /\ states[rom] \in MachineState /\ states[rom].rom = machine
               /\ mem' = states[rom].mem /\ snapshot' = mem' /\ frames' = 0 /\ adopted' = TRUE
      <4>1. Owned(states[rom])
        BY <2>2, <3>2 DEF IInv, StatesOwned
      <4>2. \A c \in Contents : c.owner \in Roms
        BY DEF Contents
      <4>3. QED
        BY <3>2, <4>1, <4>2, RomsAssumption, BoundsAssumption DEF Owned, MachineState
    <3>3. QED
      BY <1>10, <3>1, <3>2 DEF LoadState, Commit
  <2>4. QED
    BY <2>1, <2>2, <2>3, HostHolds DEF IInv, TypeOK, Opened
<1>11. CASE SaveState
  <2> DEFINE captured == [rom |-> machine, mem |-> mem]
             job == [path |-> rom, state |-> captured, done |-> FALSE]
  <2>1. /\ writer' = job /\ requested' = [requested EXCEPT ![rom] = captured]
        /\ blanks' = blanks \cup {r \in Roms : captured.mem = Fresh(r)}
        /\ writer # Empty => writer.done
        /\ UNCHANGED <<mode, rom, snapshot, frames, enabled, adopted, lost, machine, mem, sav, old, rejected,
                       states, stash, confirmed, seen>>
    BY <1>11 DEF SaveState, hostVars, machineVars, fileVars
  <2>2. rom \in Roms
    BY <1>11 DEF SaveState
  <2>3. captured \in MachineState /\ Owned(captured) /\ job \in Job
    BY <2>2 DEF IInv, TypeOK, MachineState, Job, Owned
  <2>4. job.path = rom /\ job.state = captured /\ job.done = FALSE
    OBVIOUS
  <2> HIDE DEF captured, job
  <2>5. StatesTyped'
    <3>1. requested' \in [Roms -> MachineState \cup {Absent}]
      BY <2>1, <2>3 DEF IInv, TypeOK
    <3>2. writer' \in Job \cup {Empty} /\ blanks' \subseteq Roms
      BY <2>1, <2>3 DEF IInv, TypeOK
    <3>3. QED
      BY <2>1, <3>1, <3>2 DEF IInv, TypeOK, StatesTyped
  <2>6. StatesOwned'
    BY <2>1, <2>3, <2>4 DEF IInv, StatesOwned
  <2>7. Latest'
    <3>1. \A r \in Roms : requested[r] = confirmed[r] /\ confirmed[r] = Kept(states[r], stash[r])
      BY <2>1 DEF IInv, Latest
    <3>2. QED
      BY <2>1, <2>2, <2>4, <3>1, <2>3, StateAssumption DEF Latest, IInv, TypeOK
  <2>8. StateInv'
    BY <2>5, <2>6, <2>7 DEF StateInv
  <2>9. QED
    BY <2>1, <2>8, HostHolds DEF IInv, TypeOK, Opened
<1>12. ASSUME NEW ok \in BOOLEAN, WorkerWrite(ok) PROVE IInv'
  <2>1. UNCHANGED <<mode, rom, snapshot, frames, enabled, adopted, lost, machine, mem, sav, old, rejected, seen>>
    BY <1>12 DEF WorkerWrite, hostVars, machineVars, fileVars
  <2>2. StateInv'
    BY <1>12, WorkerKeepsStates
  <2>3. QED
    BY <2>1, <2>2, HostHolds DEF IInv, TypeOK, Opened
<1>13. CASE UNCHANGED vars
  BY <1>13 DEF vars, machineVars, hostVars, fileVars, stateVars, IInv, TypeOK, Opened, Ownership,
               StatesOwned, Owned, Latest
<1>14. QED
  BY <1>1, <1>2, <1>3, <1>4, <1>5, <1>6, <1>7, <1>8, <1>9, <1>10, <1>11, <1>12, <1>13 DEF Next

LEMMA InvariantHolds == Spec => []IInv
BY InitHolds, StepHolds, PTL DEF Spec

---------------------------------------------------------------------------
(* Saves, switches and states.                                              *)

\* Every reachable state of the host is well typed.
THEOREM TypeCorrect == Spec => []TypeOK
<1>1. IInv => TypeOK
  BY DEF IInv
<1>2. QED
  BY <1>1, InvariantHolds, PTL

\* Saves never cross ROMs, whatever is switched, rolled back, reset, loaded
\* from a state, crashed or recovered (flush_cartridge_save,
\* load_save_state_for_session, switch_rom).
THEOREM SavesStayWithTheirRom == Spec => []Ownership
<1>1. IInv => Ownership
  BY DEF IInv
<1>2. QED
  BY <1>1, InvariantHolds, PTL

\* F8 never loads anything but what the last F5 of the ROM captured that did
\* not fail, and has it on disk, wherever the background job was when F8 was
\* pressed and however its writes failed or were cut off (read_save_state
\* drains the writer; write_file_atomic).
THEOREM LoadsSeeTheLatestSave == Spec => LoadSeesLatestSave
<1>1. IInv /\ [Next]_vars
        => [LoadState => requested[rom] = IF states[rom] # Absent THEN states[rom] ELSE stash[rom]]_vars
  <2> SUFFICES ASSUME IInv, LoadState
               PROVE  requested[rom] = IF states[rom] # Absent THEN states[rom] ELSE stash[rom]
    OBVIOUS
  <2>1. rom \in Roms /\ (writer # Empty => writer.done)
    BY DEF LoadState, IInv, Opened
  <2>2. QED
    BY <2>1 DEF IInv, Latest, Kept
<1>2. QED
  BY <1>1, InvariantHolds, PTL DEF Spec, LoadSeesLatestSave

\* A switch never discards progress: with writes enabled, the outgoing save
\* is what a launch would find once the host has moved on (switch_rom).
THEOREM SwitchesKeepProgress == Spec => SwitchKeepsProgress
<1>1. ASSUME IInv, Next, NEW r \in Roms, mode = "run", mode' = "run", rom = r, rom' # r, enabled
      PROVE  Stored(r)' = mem
  <2>1. PICK q \in Roms : SwitchRom(q)
    BY <1>1 DEF Next, Launch, SwitchRefused, SwitchRejected, Frame, Stop, Exit, Crash, Gone, Reset, SaveState,
                WorkerWrite, LoadState, hostVars
  <2>2. StoredOf(sav', old', r) = mem
    BY <1>1, <2>1, SwitchStored
  <2>3. QED
    BY <2>2 DEF Stored, StoredOf, Kept
<1>2. IInv /\ [Next]_vars
        => [\A r \in Roms : mode = "run" /\ mode' = "run" /\ rom = r /\ rom' # r /\ enabled
                           => Stored(r)' = mem]_vars
  BY <1>1
<1>3. QED
  BY <1>2, InvariantHolds, PTL DEF Spec, SwitchKeepsProgress

---------------------------------------------------------------------------
(* What becomes of the saves on disk.                                       *)

\* Steps that flush the memory, or something the game has just put there.
FlushStep ==
  /\ UNCHANGED <<rom, rejected>> /\ (enabled' => enabled)
  /\ \E c : (c = mem \/ c \in Progress) /\ (Replaced(c) \/ Failed \/ FilesKept)

\* Steps that end the process.
CloseStep ==
  /\ ~enabled' /\ UNCHANGED rejected
  /\ \A r \in Roms : StoredOf(sav', old', r) = StoredOf(sav, old, r)

\* The three ways in which a step can touch the save files.
LEMMA FileSteps ==
  ASSUME IInv, Next
  PROVE  \/ \E r \in Roms : Launch(r) \/ SwitchRom(r)
         \/ FlushStep
         \/ CloseStep
<1>1. frames \in 0 .. FlushFrames + 1 /\ mem \in Contents \cup {Empty} /\ adopted \in BOOLEAN
  BY DEF IInv, TypeOK
<1>2. ASSUME NEW ok \in BOOLEAN, Flush(mem, TRUE, ok), UNCHANGED <<rom, rejected>>, enabled' => enabled
      PROVE  FlushStep
  BY <1>1, <1>2, FlushEffect DEF FlushStep
<1>3. CASE SwitchRefused \/ Stop
  <2>1. UNCHANGED <<rom, rejected, enabled>> /\ \E ok \in BOOLEAN : Flush(mem, TRUE, ok)
    BY <1>3 DEF SwitchRefused, Stop
  <2>2. QED
    BY <1>2, <2>1
<1>4. CASE SwitchRejected
  <2>1. UNCHANGED <<rom, rejected>> /\ Flush(mem, TRUE, TRUE)
    BY <1>4 DEF SwitchRejected
  <2>2. enabled' = enabled \/ enabled' = FALSE
    BY <1>4 DEF SwitchRejected
  <2>3. enabled' => enabled
    BY <2>2 DEF IInv, TypeOK
  <2>4. QED
    BY <1>2, <2>1, <2>3
<1>5. ASSUME NEW c \in Contents \cup {Empty}, NEW ok \in BOOLEAN, Frame(c, ok) PROVE FlushStep
  <2>1. c = mem \/ \E n \in Versions \ {0} : c = [owner |-> machine, v |-> n]
    BY <1>5 DEF Frame, Played
  <2>2. c = mem \/ c \in Progress
    BY <1>5, <2>1 DEF Frame, IInv, TypeOK, Progress, Contents
  <2>3. Replaced(c) \/ Failed \/ FilesKept
    BY <1>1, <1>5, FlushEffect DEF Frame
  <2>4. QED
    BY <1>5, <2>2, <2>3 DEF Frame, FlushStep
<1>6. CASE Reset \/ SaveState \/ LoadState \/ \E ok \in BOOLEAN : WorkerWrite(ok)
  <2>1. UNCHANGED <<rom, sav, old, rejected, seen>>
    BY <1>6 DEF Reset, SaveState, LoadState, WorkerWrite, fileVars, hostVars
  <2>2. enabled' = enabled \/ enabled' = FALSE
    BY <1>6 DEF Reset, ResetDone, ResetLost, SaveState, LoadState, WorkerWrite, hostVars
  <2>3. QED
    BY <2>1, <2>2 DEF FlushStep, FilesKept, IInv, TypeOK
<1>7. CASE Exit
  BY <1>7 DEF Exit, Gone, CloseStep, fileVars, StoredOf
<1>8. CASE Crash
  BY <1>8, CrashKeepsFiles DEF Crash, Gone, CloseStep
<1>9. QED
  BY <1>3, <1>4, <1>5, <1>6, <1>7, <1>8 DEF Next

LEMMA StoredIs == ASSUME NEW r PROVE Stored(r) = StoredOf(sav, old, r) /\ Stored(r)' = StoredOf(sav', old', r)
BY DEF Stored, StoredOf, Kept

LEMMA KnownStep ==
  ASSUME Faultless, IInv, Known, [Next]_vars
  PROVE  Known'
<1>1. CASE UNCHANGED vars
  BY <1>1 DEF vars, hostVars, fileVars, Known, Stored
<1>2. ASSUME NEW r \in Roms, Launch(r) PROVE Known'
  <2>1. [q \in Roms |-> {}] \in [Roms -> SUBSET Contents]
    OBVIOUS
  <2>2. enabled' => StoredOf(sav', old', r) \in seen'[r] \cup rejected'[r] \cup {Absent}
    BY <1>2, <2>1, Facts, OpenEffect DEF Launch, IInv, TypeOK
  <2>3. QED
    BY <1>2, <2>2 DEF Launch, Known, Stored, StoredOf, Kept
<1>3. ASSUME NEW r \in Roms, SwitchRom(r) PROVE Known'
  <2>1. PICK s, o, known : /\ FilesOwned(s, o) /\ known \in [Roms -> SUBSET Contents]
                           /\ OpenSave(r, s, o, known)
    BY <1>3, SwitchEffect
  <2>2. enabled' => StoredOf(sav', old', r) \in seen'[r] \cup rejected'[r] \cup {Absent}
    BY <2>1, OpenEffect DEF IInv, TypeOK
  <2>3. QED
    BY <1>3, <2>2 DEF SwitchRom, Known, Stored, StoredOf, Kept
<1>4. CASE FlushStep
  <2> SUFFICES ASSUME enabled'
               PROVE  StoredOf(sav', old', rom) \in seen'[rom] \cup rejected'[rom] \cup {Absent}
    BY <1>4 DEF Known, FlushStep, Stored, StoredOf, Kept
  <2>1. PICK c : Replaced(c) \/ Failed \/ FilesKept
    BY <1>4 DEF FlushStep
  <2>2. rom \in Roms /\ enabled /\ rejected' = rejected
    BY <1>4, Facts DEF FlushStep
  <2>3. \/ StoredOf(sav', old', rom) = StoredOf(sav, old, rom)
        \/ Replaced(c) /\ StoredOf(sav', old', rom) = c
    BY <2>1, <2>2, Facts, FlushStored
  <2>4. CASE Replaced(c) /\ StoredOf(sav', old', rom) = c
    BY <2>2, <2>4, StoredIs DEF Replaced, IInv, TypeOK
  <2>5. CASE StoredOf(sav', old', rom) = StoredOf(sav, old, rom)
    <3>1. seen[rom] \subseteq seen'[rom]
      BY <2>1, <2>2 DEF Replaced, Failed, FilesKept, IInv, TypeOK
    <3>2. StoredOf(sav, old, rom) \in seen[rom] \cup rejected[rom] \cup {Absent}
      BY <2>2, StoredIs DEF Known
    <3>3. QED
      BY <2>2, <2>5, <3>1, <3>2, StoredIs
  <2>6. QED
    BY <2>3, <2>4, <2>5
<1>5. CASE CloseStep
  BY <1>5 DEF CloseStep, Known
<1>6. QED
  BY <1>1, <1>2, <1>3, <1>4, <1>5, FileSteps

\* A save is only ever replaced by a process that has loaded or written it,
\* or has preserved a copy (load_rom_from_path, flush_cartridge_save), as
\* long as an existing save can be read and an orphan be put back: a save
\* that cannot be read is taken for none.
THEOREM NoSaveIsOverwrittenBlindly == Faultless => (Spec => NoBlindOverwrite)
<1> SUFFICES ASSUME Faultless PROVE Spec => NoBlindOverwrite
  OBVIOUS
<1>1. Init => Known
  BY DEF Init, Known
<1>2. IInv /\ Known /\ [Next]_vars => Known'
  BY KnownStep
<1>3. ASSUME IInv, Known, Next, NEW r \in Roms, Stored(r)' # Stored(r), Stored(r) # Absent
      PROVE  Stored(r) \in seen[r] \cup rejected[r]
  <2>1. SUFFICES ASSUME TRUE PROVE enabled /\ r = rom
    BY <1>3 DEF Known, Stored
  <2>2. ASSUME NEW q \in Roms, Launch(q) PROVE FALSE
    <3>1. StoredOf(sav', old', r) = StoredOf(sav, old, r)
      BY <1>3, <2>2, LaunchStored
    <3>2. QED
      BY <1>3, <3>1, StoredIs
  <2>3. ASSUME NEW q \in Roms, SwitchRom(q) PROVE enabled /\ r = rom
    BY <1>3, <2>3, SwitchStored, StoredIs
  <2>4. CASE FlushStep
    BY <1>3, <2>4, Facts, FlushStored, StoredIs DEF FlushStep, Replaced
  <2>5. CASE CloseStep
    BY <1>3, <2>5, StoredIs DEF CloseStep
  <2>6. QED
    BY <1>3, <2>2, <2>3, <2>4, <2>5, FileSteps
<1>4. IInv /\ Known /\ [Next]_vars
        => [\A r \in Roms : Stored(r)' # Stored(r) /\ Stored(r) # Absent
                           => Stored(r) \in seen[r] \cup rejected[r]]_vars
  BY <1>3
<1>5. QED
  BY <1>1, <1>2, <1>4, InvariantHolds, PTL DEF Spec, NoBlindOverwrite

---------------------------------------------------------------------------
(* Blank memories.                                                          *)

\* The states and the job that a step leaves were there before, or hold the
\* captured machine.
LEMMA StatesComeFrom ==
  ASSUME IInv, [Next]_vars
  PROVE  /\ \A r \in Roms : \A s \in {states'[r], stash'[r]} :
              \/ s \in {Absent, states[r], stash[r]}
              \/ writer # Empty /\ s = writer.state
         /\ writer' # Empty => \/ writer # Empty /\ writer'.state = writer.state
                               \/ SaveState /\ writer'.state = [rom |-> machine, mem |-> mem]
<1>1. CASE UNCHANGED <<states, stash, writer>>
  BY <1>1
<1>2. CASE SaveState
  BY <1>2 DEF SaveState
<1>3. ASSUME NEW ok \in BOOLEAN, WorkerWrite(ok)
      PROVE  /\ \A r \in Roms : \A s \in {states'[r], stash'[r]} :
                  s \in {Absent, states[r], stash[r]} \/ s = writer.state
             /\ writer # Empty /\ writer'.state = writer.state
  <2>1. writer # Empty /\ writer' = [writer EXCEPT !.done = TRUE]
    BY <1>3 DEF WorkerWrite
  <2>2. writer \in Job /\ writer.path \in Roms
    BY <2>1 DEF IInv, TypeOK, Job
  <2>3. writer'.state = writer.state
    BY <2>1, <2>2 DEF Job
  <2>4. PICK files \in Replacement(writer.state, states[writer.path], stash[writer.path])
                         \cup AfterFailure(states[writer.path], stash[writer.path]) :
          /\ states' = [states EXCEPT ![writer.path] = files[1]]
          /\ stash' = [stash EXCEPT ![writer.path] = files[2]]
    BY <1>3 DEF WorkerWrite
  <2>5. /\ files[1] \in {Absent, states[writer.path], stash[writer.path], writer.state}
        /\ files[2] \in {Absent, states[writer.path], stash[writer.path]}
    BY <2>4, WriteEffect, FailureEffect
  <2>6. ASSUME NEW r \in Roms, NEW s \in {states'[r], stash'[r]}
        PROVE  s \in {Absent, states[r], stash[r]} \/ s = writer.state
    <3>1. CASE r = writer.path
      BY <2>2, <2>4, <2>5, <2>6, <3>1 DEF IInv, TypeOK
    <3>2. CASE r # writer.path
      BY <2>2, <2>4, <2>6, <3>2 DEF IInv, TypeOK
    <3>3. QED
      BY <3>1, <3>2
  <2>7. QED
    BY <2>1, <2>3, <2>6
<1>4. CASE UNCHANGED <<states, stash>> /\ writer' = Empty
  BY <1>4
<1>5. ASSUME NEW c, NEW ok, Frame(c, ok)
      PROVE  UNCHANGED <<states, stash>> /\ (writer' = writer \/ writer' = Empty)
  BY <1>5 DEF Frame
<1>6. CASE Crash
  <2>1. CASE UNCHANGED <<states, stash>>
    BY <1>4, <1>6, <2>1 DEF Crash, Gone
  <2>2. CASE /\ writer # Empty
             /\ \E files \in AfterFailure(states[writer.path], stash[writer.path]) :
                  /\ states' = [states EXCEPT ![writer.path] = files[1]]
                  /\ stash' = [stash EXCEPT ![writer.path] = files[2]]
    <3>1. writer.path \in Roms
      BY <2>2 DEF IInv, TypeOK, Job
    <3>2. \A r \in Roms : /\ states'[r] \in {Absent, states[r], stash[r]}
                          /\ stash'[r] \in {Absent, states[r], stash[r]}
      BY <2>2, <3>1, StateWriteFails
    <3>3. QED
      BY <1>6, <3>2 DEF Crash, Gone
  <2>3. QED
    BY <1>6, <2>1, <2>2 DEF Crash
<1>7. QED
  BY <1>1, <1>2, <1>3, <1>4, <1>5, <1>6
     DEF Next, vars, stateVars, Launch, SwitchRom, SwitchRefused, SwitchRejected, Stop, Exit, Gone, Reset,
         LoadState

LEMMA StatesBlankedStep ==
  ASSUME IInv, StatesBlanked, [Next]_vars
  PROVE  StatesBlanked' /\ blanks \subseteq blanks'
<1>1. blanks \subseteq blanks'
  BY DEF Next, vars, stateVars, Launch, SwitchRom, SwitchRefused, SwitchRejected, Frame, Stop, Exit, Crash,
         Reset, SaveState, LoadState, WorkerWrite
<1>2. ASSUME NEW x, Blanked(x), NEW y, y = x PROVE \A q \in Roms : y.mem = Fresh(q) => q \in blanks'
  BY <1>1, <1>2 DEF Blanked
<1>3. ASSUME NEW r \in Roms, NEW s \in {states'[r], stash'[r]}, s \in MachineState
      PROVE  \A q \in Roms : s.mem = Fresh(q) => q \in blanks'
  <2>1. s = states[r] \/ s = stash[r] \/ (writer # Empty /\ s = writer.state)
    BY <1>3, StatesComeFrom, StateAssumption
  <2>2. Blanked(s)
    BY <1>3, <2>1 DEF StatesBlanked
  <2>3. QED
    BY <1>2, <2>2
<1>4. ASSUME writer' # Empty
      PROVE  \A q \in Roms : writer'.state.mem = Fresh(q) => q \in blanks'
  <2>1. CASE SaveState /\ writer'.state = [rom |-> machine, mem |-> mem]
    BY <2>1 DEF SaveState
  <2>2. CASE writer # Empty /\ writer'.state = writer.state
    BY <1>2, <2>2 DEF StatesBlanked
  <2>3. QED
    BY <1>4, <2>1, <2>2, StatesComeFrom
<1>5. QED
  BY <1>1, <1>3, <1>4 DEF StatesBlanked, Blanked

LEMMA MemoryKeptStep ==
  ASSUME IInv, MemoryKept, [Next]_vars
  PROVE  MemoryKept'
<1>1. /\ mode = "run" /\ ~lost => machine = rom
      /\ machine \in SaveRoms => mem # Empty
      /\ \A r \in Roms : states[r] \in MachineState => Filled(states[r])
      /\ writer # Empty => Filled(writer.state)
  BY DEF MemoryKept
<1>2. \A r \in Roms : /\ states'[r] \in MachineState => Filled(states'[r])
                      /\ stash'[r] \in MachineState => Filled(stash'[r])
  <2>1. ASSUME NEW r \in Roms, NEW s \in {states'[r], stash'[r]}, s \in MachineState
        PROVE  Filled(s)
    <3>1. s = states[r] \/ s = stash[r] \/ (writer # Empty /\ s = writer.state)
      BY <2>1, StatesComeFrom, StateAssumption
    <3>2. QED
      BY <2>1, <3>1 DEF MemoryKept
  <2>2. QED
    BY <2>1
<1>3. writer' # Empty => Filled(writer'.state)
  <2>1. Filled([rom |-> machine, mem |-> mem])
    BY <1>1 DEF Filled
  <2>2. QED
    BY <1>1, <2>1, StatesComeFrom
<1>4. /\ mode' = "run" /\ ~lost' => machine' = rom'
      /\ machine' \in SaveRoms => mem' # Empty
  <2>0. NoRom \notin SaveRoms
    BY RomsAssumption
  <2>1. CASE UNCHANGED <<mode, rom, lost, machine, mem>>
    BY <1>1, <2>1
  <2>2. ASSUME NEW r \in Roms, Launch(r) PROVE machine' = rom' /\ (machine' \in SaveRoms => mem' # Empty)
    <3>1. [p \in Roms |-> {}] \in [Roms -> SUBSET Contents]
      OBVIOUS
    <3>2. r \in SaveRoms => mem' # Empty
      BY <2>2, <3>1, Facts, OpenEffect DEF Launch, IInv, TypeOK
    <3>3. QED
      BY <2>2, <3>2 DEF Launch
  <2>3. ASSUME NEW r \in Roms, SwitchRom(r) PROVE machine' = rom' /\ (machine' \in SaveRoms => mem' # Empty)
    <3>1. PICK s, o, known : /\ FilesOwned(s, o) /\ known \in [Roms -> SUBSET Contents]
                             /\ OpenSave(r, s, o, known)
      BY <2>3, SwitchEffect
    <3>2. r \in SaveRoms => mem' # Empty
      BY <3>1, OpenEffect DEF IInv, TypeOK
    <3>3. QED
      BY <2>3, <3>2 DEF SwitchRom
  <2>4. CASE mode' # "run" /\ machine' = NoRom
    BY <2>0, <2>4
  <2>5. CASE SwitchRejected
    BY <1>1, <2>0, <2>5 DEF SwitchRejected, machineVars
  <2>6. ASSUME NEW c \in Contents \cup {Empty}, NEW ok \in BOOLEAN, Frame(c, ok)
        PROVE  /\ mode' = "run" /\ ~lost' => machine' = rom'
               /\ machine' \in SaveRoms => mem' # Empty
    <3>1. c \in Played(machine) /\ mem' = c /\ UNCHANGED <<mode, rom, lost, machine>>
      BY <2>6 DEF Frame
    <3>2. machine \in SaveRoms => c # Empty
      <4>1. ASSUME machine \in SaveRoms, NEW n \in Versions \ {0} PROVE [owner |-> machine, v |-> n] \in Contents
        BY <4>1, RomsAssumption DEF Contents
      <4>2. QED
        BY <1>1, <3>1, <4>1, Sentinels DEF Played
    <3>3. QED
      BY <1>1, <3>1, <3>2
  <2>7. CASE Stop
    BY <1>1, <2>7 DEF Stop, machineVars
  <2>8. CASE Reset
    <3>1. rom \in Roms /\ UNCHANGED <<mode, rom>>
      BY <2>8, Facts DEF Reset
    <3>2. CASE ResetDone
      BY <3>1, <3>2, BlankType DEF ResetDone
    <3>3. CASE ResetLost
      BY <2>0, <3>3 DEF ResetLost
    <3>4. QED
      BY <2>8, <3>2, <3>3 DEF Reset
  <2>9. CASE LoadState
    <3>1. mode = "run" /\ rom \in Roms /\ UNCHANGED <<mode, rom, lost, machine>>
      BY <2>9, Facts DEF LoadState
    <3>2. \/ mem' = mem
          \/ states[rom] \in MachineState /\ states[rom].rom = machine /\ mem' = states[rom].mem
      BY <2>9 DEF LoadState, Commit
    <3>3. QED
      BY <1>1, <3>1, <3>2 DEF Filled
  <2>10. CASE SaveState \/ \E ok \in BOOLEAN : WorkerWrite(ok)
    BY <2>1, <2>10 DEF SaveState, WorkerWrite, hostVars, machineVars
  <2>11. CASE SwitchRefused \/ UNCHANGED vars
    BY <2>1, <2>11 DEF SwitchRefused, machineVars, hostVars, vars
  <2>12. CASE Exit \/ Crash
    BY <2>4, <2>12 DEF Exit, Crash, Gone
  <2>13. QED
    BY <2>2, <2>3, <2>5, <2>6, <2>7, <2>8, <2>9, <2>10, <2>11, <2>12 DEF Next
<1>5. QED
  BY <1>2, <1>3, <1>4 DEF MemoryKept, Filled

\* A flush of c leaves no progress on disk where c is blank.
LEMMA FlushBlank ==
  ASSUME IInv, StoredOf(sav, old, rom) \notin Progress, enabled, NEW c \in Contents \cup {Empty},
         NEW force, NEW ok \in BOOLEAN, Flush(c, force, ok), c = Fresh(rom)
  PROVE  StoredOf(sav', old', rom) \notin Progress
<1>1. frames \in 0 .. FlushFrames + 1 /\ rom \in Roms /\ adopted \in BOOLEAN
  BY Facts DEF IInv, TypeOK
<1>2. Replaced(c) \/ Failed \/ FilesKept
  BY <1>1, FlushEffect
<1>3. StoredOf(sav', old', rom) \in {StoredOf(sav, old, rom), c}
  BY <1>1, <1>2, Facts, FlushStored
<1>4. c \notin Progress
  BY <1>1, FreshType DEF Progress
<1>5. QED
  BY <1>3, <1>4

LEMMA BlankIsSafeStep ==
  ASSUME Faultless, IInv, BlankInv, [Next]_vars
  PROVE  BlankIsSafe'
<1>1. blanks \subseteq blanks'
  BY StatesBlankedStep DEF BlankInv
<1> SUFFICES ASSUME ~lost', enabled', mem' = Fresh(rom'), rom' \notin blanks
             PROVE  StoredOf(sav', old', rom') \notin Progress
  BY <1>1 DEF BlankIsSafe, Stored, StoredOf, Kept
<1>2. /\ ~lost /\ enabled /\ mem = Fresh(rom) /\ rom \notin blanks => StoredOf(sav, old, rom) \notin Progress
      /\ mem \in Contents \cup {Empty}
  BY DEF BlankInv, BlankIsSafe, Stored, StoredOf, Kept, IInv, TypeOK
<1>3. ASSUME UNCHANGED <<rom, enabled, lost, mem, sav, old>> PROVE StoredOf(sav', old', rom') \notin Progress
  BY <1>2, <1>3
<1>4. ASSUME NEW r \in Roms, Launch(r) PROVE StoredOf(sav', old', rom') \notin Progress
  <2>1. [p \in Roms |-> {}] \in [Roms -> SUBSET Contents]
    OBVIOUS
  <2>2. rom' = r
    BY <1>4 DEF Launch
  <2>3. mem' = Fresh(r) => StoredOf(sav', old', r) \notin Progress
    BY <1>4, <2>1, Facts, OpenEffect DEF Launch, IInv, TypeOK
  <2>4. QED
    BY <2>2, <2>3
<1>5. ASSUME NEW r \in Roms, SwitchRom(r) PROVE StoredOf(sav', old', rom') \notin Progress
  <2>1. PICK s, o, known : /\ FilesOwned(s, o) /\ known \in [Roms -> SUBSET Contents]
                           /\ OpenSave(r, s, o, known)
    BY <1>5, SwitchEffect
  <2>2. rom' = r
    BY <1>5 DEF SwitchRom
  <2>3. mem' = Fresh(r) => StoredOf(sav', old', r) \notin Progress
    BY <2>1, OpenEffect DEF IInv, TypeOK
  <2>4. QED
    BY <2>2, <2>3
<1>6. ASSUME NEW ok \in BOOLEAN, Flush(mem, TRUE, ok), UNCHANGED <<rom, mem, enabled, lost>>
      PROVE  StoredOf(sav', old', rom') \notin Progress
  <2>1. rom' = rom /\ enabled /\ ~lost /\ rom \notin blanks /\ mem = Fresh(rom)
    BY <1>6
  <2>2. QED
    BY <1>2, <1>6, <2>1, FlushBlank
<1>7. CASE SwitchRefused \/ Stop
  <2>1. UNCHANGED <<rom, mem, enabled, lost>> /\ \E ok \in BOOLEAN : Flush(mem, TRUE, ok)
    BY <1>7 DEF SwitchRefused, Stop, machineVars
  <2>2. QED
    BY <1>6, <2>1
<1>8. CASE SwitchRejected
  <2>1. UNCHANGED <<rom, mem, enabled, lost>> /\ Flush(mem, TRUE, TRUE)
    BY <1>8 DEF SwitchRejected, machineVars
  <2>2. QED
    BY <1>6, <2>1
<1>9. ASSUME NEW c \in Contents \cup {Empty}, NEW ok \in BOOLEAN, Frame(c, ok)
      PROVE  StoredOf(sav', old', rom') \notin Progress
  <2>1. /\ mem' = c /\ rom' = rom /\ enabled /\ ~lost /\ Flush(c, FALSE, ok)
        /\ c \in Played(machine) /\ machine # NoRom
    BY <1>9 DEF Frame
  <2>2. c = Fresh(rom) /\ rom \notin blanks /\ rom \in Roms
    BY <2>1, Facts
  <2>3. c = mem
    <3>1. c.v = 0
      BY <2>2, FreshType
    <3>2. QED
      BY <2>1, <3>1 DEF Played
  <2>4. QED
    BY <1>2, <2>1, <2>2, <2>3, FlushBlank
<1>10. CASE Reset
  <2>1. UNCHANGED <<rom, sav, old>> /\ mode = "run"
    BY <1>10 DEF Reset, fileVars
  <2>2. ResetDone
    BY <1>10 DEF Reset, ResetLost
  <2>3. lost' = lost /\ (enabled' = enabled \/ enabled' = FALSE)
    BY <2>2 DEF ResetDone
  <2>4. ~lost /\ enabled /\ rom \in Roms /\ rom \in SaveRoms
    BY <2>1, <2>3, Facts DEF IInv, Opened
  <2>5. mem # Empty
    BY <2>1, <2>4 DEF BlankInv, MemoryKept
  <2>6. mem' = mem /\ enabled' = enabled
    BY <2>2, <2>5 DEF ResetDone
  <2>7. QED
    BY <1>3, <2>1, <2>3, <2>6
<1>11. CASE LoadState
  <2>1. UNCHANGED <<rom, enabled, lost, sav, old>> /\ mode = "run" /\ rom \in Roms
    BY <1>11, Facts DEF LoadState, fileVars
  <2>2. \/ mem' = mem
        \/ states[rom] \in MachineState /\ mem' = states[rom].mem
    BY <1>11 DEF LoadState, Commit
  <2>3. mem' = mem
    BY <2>1, <2>2 DEF BlankInv, StatesBlanked, Blanked
  <2>4. QED
    BY <1>3, <2>1, <2>3
<1>12. CASE SaveState \/ (\E ok \in BOOLEAN : WorkerWrite(ok)) \/ UNCHANGED vars
  <2>1. UNCHANGED <<rom, enabled, lost, mem, sav, old>>
    BY <1>12 DEF SaveState, WorkerWrite, vars, hostVars, machineVars, fileVars
  <2>2. QED
    BY <1>3, <2>1
<1>13. CASE Exit \/ Crash
  BY <1>13 DEF Exit, Crash, Gone
<1>14. QED
  BY <1>4, <1>5, <1>7, <1>8, <1>9, <1>10, <1>11, <1>12, <1>13 DEF Next

LEMMA BlankInit == Init => BlankInv
<1> SUFFICES ASSUME Init PROVE BlankInv
  OBVIOUS
<1>1. ASSUME NEW r \in Roms, states[r] \in MachineState
      PROVE  Blanked(states[r]) /\ Filled(states[r])
  <2>1. PICK q \in SaveRoms : states[r] = [rom |-> q, mem |-> Fresh(q)]
    BY <1>1, StateAssumption DEF Init
  <2>2. q \in Roms /\ Fresh(q) # Empty
    BY RomsAssumption, FreshType, Sentinels
  <2>3. \A p \in Roms : Fresh(q) = Fresh(p) => p = q
    BY <2>2, FreshType
  <2>4. q \in blanks
    BY <1>1, <2>1, <2>2 DEF Init
  <2>5. QED
    BY <2>1, <2>2, <2>3, <2>4 DEF Blanked, Filled
<1>2. NoRom \notin SaveRoms /\ \A r \in Roms : stash[r] \notin MachineState
  BY RomsAssumption, StateAssumption DEF Init
<1>3. QED
  BY <1>1, <1>2 DEF Init, BlankInv, BlankIsSafe, StatesBlanked, MemoryKept

LEMMA BlankStep ==
  ASSUME Faultless, IInv, BlankInv, [Next]_vars
  PROVE  BlankInv'
BY BlankIsSafeStep, StatesBlankedStep, MemoryKeptStep DEF BlankInv

\* A save with progress is never replaced by a blank one that neither the
\* game wrote nor a save state held, whatever is switched, rejected, reset or
\* crashed, as long as files can be read and put back and no reset has lost
\* the machine before: until then the host has the machine it runs, and that
\* has a memory to capture (reset_runtime, load_rom_from_path).
THEOREM NoBlankBeforeLoss == Faultless => (Spec => BlankOnlyAfterLoss)
<1> SUFFICES ASSUME Faultless PROVE Spec => BlankOnlyAfterLoss
  OBVIOUS
<1>1. IInv /\ BlankInv /\ [Next]_vars => BlankInv'
  BY BlankStep
<1>2. ASSUME IInv, BlankInv, Next, NEW r \in Roms \ blanks, ~lost,
             StoredOf(sav, old, r) \in Contents, StoredOf(sav, old, r).v # 0,
             StoredOf(sav', old', r) = Fresh(r)
      PROVE  FALSE
  <2>1. StoredOf(sav, old, r) # Fresh(r) /\ StoredOf(sav, old, r) \in Progress
    BY <1>2, FreshType DEF Progress
  <2>2. ASSUME enabled, r = rom, mem = Fresh(r) PROVE FALSE
    BY <1>2, <2>1, <2>2, StoredIs DEF BlankInv, BlankIsSafe
  <2>3. ASSUME NEW q \in Roms, Launch(q) PROVE FALSE
    <3>1. StoredOf(sav', old', r) = StoredOf(sav, old, r)
      BY <1>2, <2>3, LaunchStored
    <3>2. QED
      BY <1>2, <2>1, <3>1
  <2>4. ASSUME NEW q \in Roms, SwitchRom(q) PROVE FALSE
    BY <1>2, <2>1, <2>2, <2>4, SwitchStored
  <2>5. CASE FlushStep
    <3>1. PICK c : (c = mem \/ c \in Progress) /\ (Replaced(c) \/ Failed \/ FilesKept)
      BY <2>5 DEF FlushStep
    <3>2. \/ StoredOf(sav', old', r) = StoredOf(sav, old, r)
          \/ enabled /\ r = rom /\ StoredOf(sav', old', r) = c
      BY <1>2, <3>1, Facts, FlushStored DEF Replaced
    <3>3. Fresh(r) \notin Progress
      BY <1>2, FreshType DEF Progress
    <3>4. QED
      BY <1>2, <2>1, <2>2, <3>1, <3>2, <3>3
  <2>6. CASE CloseStep
    BY <1>2, <2>1, <2>6 DEF CloseStep
  <2>7. QED
    BY <1>2, <2>3, <2>4, <2>5, <2>6, FileSteps
<1>3. IInv /\ BlankInv /\ [Next]_vars
        => [\A r \in Roms \ blanks :
              ~lost /\ Stored(r) \in Contents /\ Stored(r).v # 0 => Stored(r)' # Fresh(r)]_vars
  BY <1>2, StoredIs
<1>4. QED
  BY <1>1, <1>3, BlankInit, InvariantHolds, PTL DEF Spec, BlankOnlyAfterLoss
=============================================================================
