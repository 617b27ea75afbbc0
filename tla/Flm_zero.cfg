CONSTANTS
  Calls <- MCShort
  MaxFaults = 2
SPECIFICATION Spec
INVARIANTS
  ZeroMeansRan
