SPECIFICATION CodecSpec
CONSTANTS
  Base = 4
  Width <- MCWidth
  FixedSize = 2
  RegisterCount = 2
  BlobLimit <- MCBlobLimit
  Modes = {0, 1, 2}
  SaveSize <- MCSaveSize
  BankedType = 2
  FlashStates = 3
  IrqMask = 7
  KeyMask = 7
  KeycntMask = 11
  WaitcntMask = 7
  TimerMask = 3
  DmaMask = 3
  MaxCount = 4
  Lines = 5
  CyclesPerLine = 7
  FrameSteps = 3
  FifoCapacity = 2
  RingCapacity = 2
  MaxDuty = 2
  MaxShift = 2
  BiosModes = 2
  ByteErrors = {1}
  Machines <- MCMachines
  NewSession <- MCBlank
INVARIANTS RoundTrip SessionIsGenuine
