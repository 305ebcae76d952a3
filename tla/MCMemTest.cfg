SPECIFICATION Spec
CONSTANTS
  CommandLines <- MCCommandLines
  Atoi <- MCAtoi
  Builds <- MCBuilds
  DefaultMemSize = 2
  DefaultIterations = 1
  MB = 8
  WordSize = 32
  Junk = Junk
  NaN = NaN
  Rands = {0, 7}
  MaxTime = 2
INVARIANTS
  TypeOK
  ErrorsAreFaults
  EveryTestReported
PROPERTY RowsOwnTime
CHECK_DEADLOCK FALSE
