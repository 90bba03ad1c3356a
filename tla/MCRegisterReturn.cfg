SPECIFICATION Spec
CONSTANTS
  Modes = {"usr", "sys", "svc", "fiq"}
  SharedRegs = {"r8"}
  BankedRegs = {"lr"}
  LinkReg = "lr"
  Values = {0, 1}
  BadMode = "bad"
  Forms = {"returnBanked"}
INVARIANTS UserLoadsArrive
