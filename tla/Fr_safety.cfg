CONSTANTS
  odd = odd
  half = half
  empty = empty
  huge = huge
  NoFile = NoFile
  Torn = Torn
  Erased = Erased
  BleImages = {odd, half, empty, huge}
  FlashPages = 4
  PagesPerSector = 2
  BleSize <- MCBleSize
  MaxFaults = 3
SPECIFICATION FairSpec
INVARIANTS
  TypeOK
  ReturnClean
  FaultFreeSucceeds
PROPERTIES
  DeletedOnlyWhenRunning
  ImplementsBleUpdate
  UpdateSucceeds
