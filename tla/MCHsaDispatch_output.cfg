SPECIFICATION Spec
CONSTANTS
  N = 8
  QueueSize = 2
  BrigModules <- OneKernel
INVARIANT OutputIsInput
CHECK_DEADLOCK FALSE
