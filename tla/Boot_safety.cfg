CONSTANTS
  good = good
  full = full
  thumb = thumb
  empty = empty
  huge = huge
  b1 = b1
  b2 = b2
  NoFile = NoFile
  Torn = Torn
  Erased = Erased
  Images = {good, full, thumb, empty, huge}
  BleImages = {b1, b2}
  BleUsable = {b1}
  AppChunks = 3
  Sectors = 2
  SectorOf <- MCSectorOf
  ImageSize <- MCImageSize
  Vector <- MCVector
  MaxFaults = 3
  ALONZO_APP_START = 8
  ALONZO_APP_END = 16
  ALONZO_SRAM_BASE = 32
  ALONZO_SRAM_END = 48
  ErasedWord = 255
SPECIFICATION FairSpec
INVARIANTS
  TypeOK
  AppRecoverable
  FirmwareFirst
  BleRecoverable
  JumpOnlyIntact
  GreenMeansDone
PROPERTIES
  DeletedOnlyWhenInstalled
  FirmwareInstalled
  BleInstalled
