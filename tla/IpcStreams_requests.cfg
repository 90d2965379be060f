SPECIFICATION Spec
CONSTANTS
  TaskIds = {t1}
  Handlers = {h1}
  Requests = {e1, e2}
  StreamBuffer = 1
  MaxSlots = 1
  NoClient = NoClient
CHECK_DEADLOCK FALSE
INVARIANTS SlotsAccurate
 
