SPECIFICATION DmaSoundSpec
CONSTANTS
  MaxCount = 2
  Programmed = {0, 1}
  Controls <- MCControls
  Counts = {0, 1}
  Rewrites <- MCRewrites
  FifoCapacity = 3
  RefillThreshold = 2
  BurstWords = 1
  RingCapacity = 2
  SampleCycles = 2
  StepCycles = 2
  FrameSteps = 2
  WaveHalfwords = 2
  Nibbles = 2
  DutySteps = 4
  DutyHigh <- MCDutyHigh
  LfsrWidth = 5
  NarrowTap = 2
  PsgScale = 1
  DirectScale = 2
  MaxMixed = 2
  Words <- MCWords
  CntL <- MCCntL
  CntH <- MCCntH
  Halfwords <- MCHalfwords
  Squares <- MCSquares
  Waves <- MCWaves
  Noises <- MCNoises
  DmaSetups <- MCDmaSetups
  Windows = {1, 2}
  MaxWrites = 2
INVARIANTS PendingIsExact EnabledIsArmed TicksAddUp
PROPERTIES QueuesLoseOldest
