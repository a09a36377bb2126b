SPECIFICATION FairSpec
CONSTANTS
  Limit = 2
  Chunk = 2
  PipeSize = 2
  MaxOutput = 3
  MaxFaults = 1
INVARIANTS
  CaptureIsPrefix
  SucceededIsComplete
  NoCommandOutlivesExecute
PROPERTIES
  CancelEndsExecute
  ExecuteReturns
CHECK_DEADLOCK FALSE
