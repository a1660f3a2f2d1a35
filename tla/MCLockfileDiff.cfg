SPECIFICATION DiffSpec
CONSTANTS
  NoVersion = NoVersion
  NoIntegrity = NoIntegrity
  Unparseable = Unparseable
  None = None
  x = x
  y = y
  Coerce <- MCCoerce
  Lower <- MCLower
  Canonical <- MCLower
  WorkspaceDirs <- MCDirs
  Sri = {x, y}
  Worlds <- MCWorlds
INVARIANTS
  EveryLockedArtifactReported
  PathsAreProvenance
  HoistingIrrelevant
  SwapSymmetric
  UpgradeFromClosest
  KeysHoldTheirPackage
CHECK_DEADLOCK FALSE
