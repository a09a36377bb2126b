SPECIFICATION FairSpec
CONSTANTS
  Jobs = {1}
  Period = 1
  MaxRuns = 1
  Clis = {c1}
  CliOps = {"run"}
  ClaimLimit = 2
  MaxNow = 1
  MaxStarts = 2
  MaxStops = 1
  MaxCrashes = 0
  MaxFaults = 0
  InitialJobs <- IntervalJobs
PROPERTIES
  PendingSettles
CHECK_DEADLOCK FALSE
