SPECIFICATION FairSpec
CONSTANTS
  None = None
  MaxAnswer = 3
  StdoutCap = 2
  PipeSize = 2
INVARIANTS
  OkIsComplete
  NoProcessLeft
PROPERTY
  AlwaysReturns
CHECK_DEADLOCK FALSE
