SPECIFICATION Spec
CONSTANTS
  Second = 2
  Exprs <- OneAndAHalfSeconds
  Horizon = 6
  MaxNow = 8
  MaxEdits = 0
  MaxQueued = 2
  MaxFaults = 0
INVARIANTS
  SlotsKeepTheInterval
CHECK_DEADLOCK FALSE
