CONSTANTS
  Calls <- MCShort
  MaxFaults = 1
SPECIFICATION Spec
INVARIANTS
  RetriedClean
