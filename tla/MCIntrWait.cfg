SPECIFICATION WaitSpec
CONSTANTS
  VisibleLines = 2
  TotalLines = 3
  VisibleCycles = 1
  FlagCycles = 2
  LineCycles = 3
  Settings = {0, 4}
  DisplayIrqs = {"vblank", "vcount"}
  Periods = {5}
  Transfers = {2}
  HblankCost = {0, 4}
  VblankCost = {1}
  SoundCost = {0}
  Expansion = 2
  MaxCost = 5
  MaxWindow = 3
  Masks <- MCMasks
  Batch = 3
  MaxWait = 18
INVARIANTS LoopSeesEveryEdge ClockInStep PresentedInStep WakeIsExact
PROPERTIES WindowEnds
