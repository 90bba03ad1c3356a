SPECIFICATION SavesSpec
CONSTANTS
  Roms = {a}
  SaveRoms = {a}
  Versions = {0, 1}
  FlushFrames = 1
  NoRom = NoRom
  Absent = Absent
  Bad = Bad
  Empty = Empty
  Events = {"reset", "resetLost"}
  ReadMayFail = FALSE
  RecoverMayFail = FALSE
PROPERTIES BlankNeverSaved
