SPECIFICATION MCSpec
CONSTANTS
  Modes = {"usr", "sys", "svc", "fiq"}
  SharedRegs = {"r8"}
  BankedRegs = {"lr"}
  LinkReg = "lr"
  Values = {0, 1}
  BadMode = "bad"
  Forms = {}
  Wide = 4
  AmountBits = 3
  Immediates = {1}
  Rotations = {1}
  Amounts = {1}
  Conditions = {"cc"}
  Digits = 1
  Operands = {0, 1, 2, 3, 7, 16, 63, 100, 127, 128, 129, 192, 200, 252, 255}
  Accumulators = {0, 255, 65535}
  Code = {8, 12, 24, 32, 34, 36, 40}
  Targets = {32, 34}
  MaxDepth = 3
  ReturnForms = {}
  Radix = 4
  RamBytes = 40
  RomBytes = 8
  BaseValues = {0, 17, 20, 38, 200}
  DataValues = {3}
  Offsets = {0, 5}
  OddHalfwords = FALSE
INVARIANTS BanksHold DataProcessingIsExact MultiplierAgrees BlocksRoundTrip ThumbAbbreviatesArm
PROPERTIES UserIsRemembered CallsReturn
VIEW Seen
