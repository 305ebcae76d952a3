SPECIFICATION Spec
CONSTANTS
  N = 8
  QueueSize = 2
  BrigModules <- TwoKernels
INVARIANT FindsSpecifiedSymbol
CHECK_DEADLOCK FALSE
