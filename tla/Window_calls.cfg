SPECIFICATION CallsOrTime
CONSTANTS
  Day = 2
  NoTime = NoTime
  Callers = {a, b}
  Settings <- AllSettings
  Horizon = 62
  Steps = {1, 2}
INVARIANTS TypeOK CacheSkipsNothing IsMatchIsRight ClosestStartIsRight WindowsDoNotOverlap
PROPERTIES AnswersAreRight
\* Where no call is made the clock stops at Horizon.
CHECK_DEADLOCK FALSE
