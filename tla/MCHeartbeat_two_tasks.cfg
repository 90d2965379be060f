SPECIFICATION FairSpec
CONSTANTS
  MaxTasks = 2
  Goroutines = {g1, g2}
  Callers = {c1}
  TaskTypes = {"agent"}
  TTLArgs = {0}
  Intervals = {0}
  ToolStatuses = {}
  DefaultTTL = 1
  MaxTTL = 1
  CleanupInterval = 1
  CleanupLimit = 1
  NotifyCap = 1
  AgeCap = 2
  DatetimeAsText = FALSE
  MaxCrashes = 0
  MaxFailures = 0
INVARIANT ExecutionShown
PROPERTY FinishedAgentTaskRemoved
