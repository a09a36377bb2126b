SPECIFICATION FairSpec
CONSTANTS
  Daemons = {d1, d2}
  Clis = {c1, c2, c3}
  Hooks = {h1}
  NoOne = NoOne
  CliOps = {"start", "stop", "on-finish"}
  MaxCrashes = 1
  MaxFaults = 1
INVARIANTS
  OneLoopOnDatabase
  ServingIsAnnounced
  StoppedMeansEnded
PROPERTIES
  ImplementsInstanceLife
  RequestIsHonoured
CHECK_DEADLOCK FALSE
