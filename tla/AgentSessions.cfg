SPECIFICATION Spec
CONSTANTS
  Requests = {q1, q2}
  NamedIds = {wa, alert}
  WhatsAppIds = {wa}
  AlertIds = {alert}
  FreshIds = {tsk}
  MaxAttempts = 2
  MaxSteps = 2
  MaxCalls = 2
  MaxParallel = 1
  Cancellers = {c1}
  None = None
CHECK_DEADLOCK FALSE
INVARIANTS TypeOK RunsAreCancellable 
PROPERTY RequestsAnswered
