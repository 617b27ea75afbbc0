CONSTANTS
  WordBits = 8
  Words <- MCWords
  Requests <- MCRequests
  SWD_MAX_RETRIES = 2
  LineHigh = 51
  ResetOnes = 50
  RequestParity = 1
  ReadTrn = 1
  RefusalTrn = 0
  MaxBusy = 2
  MaxFaults = 1
SPECIFICATION FairSpec
INVARIANTS
  TypeOK
  OkIsTrue
  NoContention
  InStep
PROPERTY
  Recovers
