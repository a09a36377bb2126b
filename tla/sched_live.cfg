SPECIFICATION FairSpec
CONSTANTS
  Jobs = {1, 2}
  Period = 1
  MaxRuns = 3
  Clis = {c1}
  CliOps = {"pause"}
  InitialJobs <- OnceBeside
  ClaimLimit = 1
  MaxNow = 1
  MaxStarts = 1
  MaxStops = 1
  MaxCrashes = 0
  MaxFaults = 0
INVARIANTS
  RunningRowsAreOwned
  ForbidSingleUnfinished
  SlotQueuedOnce
PROPERTIES
  PendingSettles
  StopCompletes
  DueSlotsPass
CHECK_DEADLOCK FALSE
