SPECIFICATION FairSpec
CONSTANTS
  States = {s1, s2}
  Readers = {r1, r2}
  None = None
  Idle = Idle
  MaxTries = 2
  MaxWrites = 3
  MaxCrashes = 1
  MaxFaults = 2
INVARIANTS
  LitterNeedsTwoFaults
PROPERTIES
  ImplementsRegister
  RemoveEnds
CHECK_DEADLOCK FALSE
