SPECIFICATION AllSpec
CONSTANTS
  Timers = {1, 2, 3}
  Root = 0
  Names <- ScopeNames
  MaxEvents = 12
  MaxTime = 2
  CommandLines <- MCCommandLines
ACTION_CONSTRAINT SetBackOnce
INVARIANTS
  ReportedTimes
  ReturnMeansComputed
CHECK_DEADLOCK FALSE
