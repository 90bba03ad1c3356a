SPECIFICATION MCSpec
CONSTANTS
  Bytes <- MCBytes
  BankSize = 4
  SectorSize = 2
  Unlock1 = 3
  Unlock2 = 2
  SramSize = 2
  EepromSize = 2
  Eeprom8kSize = 4
  BlockSize = 2
  Images <- MCImages
  Snapshots <- MCSnapshots
  Span = 32
  RamSize = 4
  VramBank = 16
  VramSize = 12
  VramFold = 4
  ObjBase = 8
  IoEnd = 28
  RomSize = 6
  MaxStores = 2
  Addresses <- MCAddresses
VIEW Seen
INVARIANTS ImplementsTable ReadsAgree KeypadSeen
PROPERTIES StoreIsLocal
