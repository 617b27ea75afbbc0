CONSTANTS
  odd = odd
  half = half
  empty = empty
  huge = huge
  NoFile = NoFile
  Torn = Torn
  Erased = Erased
  BleImages = {odd}
  FlashPages = 4
  PagesPerSector = 2
  BleSize <- MCBleSize
  MaxFaults = 1
SPECIFICATION Spec
INVARIANTS
  BothFilesKept
