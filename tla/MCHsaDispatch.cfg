SPECIFICATION Spec
CONSTANTS
  N = 8
  QueueSize = 2
  BrigModules <- TwoKernels
INVARIANTS
  ReadsAfterKernel
  RunsOnHeld
  NoPacketLost
  ComparisonSpeaksForAll
PROPERTY Terminates
CHECK_DEADLOCK FALSE
