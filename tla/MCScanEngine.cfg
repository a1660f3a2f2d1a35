SPECIFICATION FairSpec
CONSTANTS
  None = None
  NoIntegrity = NoIntegrity
  NoVersion = NoVersion
  Unparseable = Unparseable
  x = x
  y = y
  Workers = {w1, w2}
  Names <- MCNames
  Versions <- MCVersions
  Integrities = {x, y}
  Inputs <- MCInputs
  InitialCaches <- MCInitialCaches
INVARIANTS
  FailClosed
  TamperBlocks
  SettledOnce
  CacheTransparent
PROPERTIES
  KeepsPromise
  Terminates
CHECK_DEADLOCK FALSE
