SPECIFICATION SavesSpec
CONSTANTS
  Roms = {a, b, c}
  SaveRoms = {a, b}
  Versions = {0, 1}
  FlushFrames = 2
  NoRom = NoRom
  Absent = Absent
  Bad = Bad
  Empty = Empty
  Events = {"switch", "refuse", "crash", "reset", "resetLost", "reject", "lost", "leftover", "state"}
  ReadMayFail = FALSE
  RecoverMayFail = FALSE
INVARIANT Ownership
PROPERTIES NoBlindOverwrite SwitchKeepsProgress LoadSeesLatestSave BlankOnlyAfterLoss
SYMMETRY SaveSymmetry
