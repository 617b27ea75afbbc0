CONSTANTS
  Calls <- MCShort
  MaxFaults = 0
SPECIFICATION Spec
INVARIANTS
  HaltedAtVector
