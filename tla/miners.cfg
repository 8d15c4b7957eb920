CONSTANTS
  JobBlock <- MCJobBlock
  JobEpoch <- MCJobEpoch
  PROGPOW_PERIOD = 2
  TooLarge <- MCTooLarge
  NonceSpace = 8
  Streams = 2
  BatchSize = 2
  GlobalWorkSize = 2
  BlockSize = 4
SPECIFICATION Spec
INVARIANTS SharesAreFound NothingLeftRunning KernelOfPeriod
PROPERTIES JobsAreLaunched
CHECK_DEADLOCK FALSE
