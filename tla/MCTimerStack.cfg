SPECIFICATION Spec
CONSTANTS
  Names = {a, b}
  Timers = {t1, t2, t3}
  Root = Root
  MaxEvents = 4
  MaxTime = 2
SYMMETRY Symmetry
INVARIANTS
  StackMatchesTimers
  WellNested
  OwnEvents
  DumpedOnce
  AveragesMatchRows
  FinalReport
CHECK_DEADLOCK FALSE
