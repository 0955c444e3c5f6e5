CONSTANTS
  SCHEDULER_MAX_TASKS = 4
  Handlers = 4
  Period = 2
  User = 1
  Ticks <- MCTicks
SPECIFICATION SchedFairSpec
INVARIANTS SchedTypeOK ContextsKept TimeOutIsExact
PROPERTIES EachRuns
