SPECIFICATION FairSpec
CONSTANTS
  Procs = {p1, p2, p3}
  Versions = 2
  Repeatable = {1}
  NoProc = NoProc
  MaxOpens = 2
  MaxFaults = 1
INVARIANTS
  NeverWedged
  ReadyMeansMigrated
PROPERTIES
  MigrateEnds
CHECK_DEADLOCK FALSE
