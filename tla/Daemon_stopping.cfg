SPECIFICATION DaemonSpec
CONSTANTS
  Managed = {"tasks.db"}
  Queried = {"other.db"}
  Handles = {1}
  DbCallers = {d1}
  NoHandle = NoHandle
INVARIANT DatabasesClosedAtEnd
CHECK_DEADLOCK FALSE
