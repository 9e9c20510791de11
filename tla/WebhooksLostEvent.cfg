SPECIFICATION Spec
CONSTANTS
  Tasks = {h1}
  NoTask = NoTask
  Settings <- OneFailure
  MaxEvents = 2
  MaxCancels = 0
INVARIANTS AcknowledgedIsApplied
CHECK_DEADLOCK FALSE
