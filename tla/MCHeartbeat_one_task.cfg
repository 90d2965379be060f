SPECIFICATION FairSpec
CONSTANTS
  MaxTasks = 1
  Goroutines = {g1, g2}
  Callers = {c1, c2}
  TaskTypes = {"user", "agent"}
  TTLArgs = {0, 2}
  Intervals = {0, 1}
  ToolStatuses = {"pending", "failed"}
  DefaultTTL = 1
  MaxTTL = 1
  CleanupInterval = 2
  CleanupLimit = 1
  NotifyCap = 1
  AgeCap = 2
  DatetimeAsText = FALSE
  MaxCrashes = 1
  MaxFailures = 1
INVARIANTS TypeOK ExclusiveExecution RunningTasksAccurate PulseHoldsFreshTask DeletionsCurrent
PROPERTIES RowsLeaveAsPromised TaskBoardImplemented OneOffFinishes
