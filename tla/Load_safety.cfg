CONSTANTS
  RAM_BASE = 64
  RAM_SIZE = 48
  FR_PAGE_BUF_SIZE = 8
  FLM_REQUIRED_STACK_SIZE = 8
  Files <- MCFiles
  Retries = 2
  MaxFaults = 3
SPECIFICATION FairSpec
INVARIANTS
  TypeOK
  LoadedExactly
  CallsTheRoutine
  RegionsApart
  FaultFreeLoads
  UntouchedByBadFile
PROPERTIES
  NoStrayWrite
  RetryLoads
