SPECIFICATION FairSpec
CONSTANTS
  Second = 2
  Exprs <- WholeSeconds
  Horizon = 6
  MaxNow = 11
  MaxEdits = 2
  MaxQueued = 3
  MaxFaults = 1
INVARIANTS
  NextIsLeast
  SlotsKeepTheInterval
  StaleSlotsRunOut
PROPERTIES
  AdvanceEnds
CHECK_DEADLOCK FALSE
