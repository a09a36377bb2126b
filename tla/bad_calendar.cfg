SPECIFICATION FairSpec
CONSTANTS
  Second = 2
  Exprs <- ThirtiethOfFebruary
  Horizon = 6
  MaxNow = 4
  MaxEdits = 0
  MaxQueued = 1
  MaxFaults = 0
PROPERTIES
  AdvanceEnds
CHECK_DEADLOCK FALSE
