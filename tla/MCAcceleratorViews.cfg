SPECIFICATION Spec
CONSTANTS
  num = 3
  X = 3
  Y = 3
INVARIANTS
  NoConflictingOverlap
  Synchronized
  NoItemRace
  SequentialMemory
  HostDoesNotRace
  Verified
  Results
PROPERTIES
  Terminates
CHECK_DEADLOCK FALSE
