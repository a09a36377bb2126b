SPECIFICATION Spec
CONSTANTS
  Jobs = {1}
  Period = 1
  MaxRuns = 2
  Clis = {c1}
  CliOps = {"add", "delete", "run", "update", "pause"}
  InitialJobs <- DueOrNew
  ClaimLimit = 2
  MaxNow = 0
  MaxStarts = 2
  MaxStops = 0
  MaxCrashes = 1
  MaxFaults = 1
INVARIANTS
  SingleLive
  NoRunOutlivesItsJob
PROPERTIES
  TerminalIsFinal
  StartedAtMostOnce
  ImplementsRunLifecycle
CHECK_DEADLOCK FALSE
