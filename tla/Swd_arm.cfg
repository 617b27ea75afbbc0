CONSTANTS
  WordBits = 8
  Words <- MCWords
  Requests <- MCReadDpidr
  SWD_MAX_RETRIES = 2
  LineHigh = 51
  ResetOnes = 50
  RequestParity = 0
  ReadTrn = 0
  RefusalTrn = 1
  MaxBusy = 2
  MaxFaults = 0
SPECIFICATION Spec
INVARIANT ReadyForDpidr
