SPECIFICATION Spec
SYMMETRY Symmetric
CONSTANTS
  MaxTasks = 1
  Goroutines = {g1, g2}
  Callers = {c1}
  TaskTypes = {"user"}
  TTLArgs = {0}
  Intervals = {2}
  ToolStatuses = {}
  DefaultTTL = 1
  MaxTTL = 1
  CleanupInterval = 2
  CleanupLimit = 1
  NotifyCap = 1
  AgeCap = 2
  DatetimeAsText = FALSE
  MaxCrashes = 0
  MaxFailures = 0
PROPERTY IntervalRespected
