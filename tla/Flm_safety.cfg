CONSTANTS
  Calls <- MCCalls
  MaxFaults = 3
SPECIFICATION FairSpec
INVARIANTS
  TypeOK
  OwnResult
  StableSetup
PROPERTIES
  FirmwareRestarts
  RetrySucceeds
