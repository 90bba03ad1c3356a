SPECIFICATION HostSpec
CONSTANTS
  Data = {d1, d2, d3}
  Absent = Absent
  Torn = Torn
  ProbeMayFail = FALSE
  Roms = {a}
  SaveRoms = {a}
  Versions = {0, 1}
  FlushFrames = 2
  NoRom = NoRom
  Bad = Bad
  Empty = Empty
  Events = {"switch", "reset", "resetLost", "state", "crash", "reject", "lost"}
  ReadMayFail = FALSE
  RecoverMayFail = FALSE
  ScreenHeight = 2
  TotalLines = 3
  LineCycles = 2
  HblankCycle = 1
  MaxSteps = 2
  Longest = 7
  MaxFrames = 2
  MaxGeneration = 1
INVARIANT OutcomesAreKnown
PROPERTIES AtomicReplacement PlayIsFlushed PublishedIsWhole FrameEnds
CHECK_DEADLOCK FALSE
