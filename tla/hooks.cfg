SPECIFICATION FairSpec
CONSTANTS
  Runs = {r1, r2}
  Configs <- TwoHooks
  None = None
  InitialJobs <- Inheriting
  MaxEdits = 1
  MaxCrashes = 1
  MaxFaults = 1
INVARIANTS
  NoAttemptAfterSettled
  RecordsAreTrue
  LastRunHasEnded
PROPERTIES
  HookLetsGo
  OwnHookIsCalled
CHECK_DEADLOCK FALSE
