SPECIFICATION DiffSpec
CONSTANTS
  NoVersion = NoVersion
  NoIntegrity = NoIntegrity
  Unparseable = Unparseable
  None = None
  x = x
  y = y
  Coerce <- MCCoerce
  Lower <- MCLower
  Canonical <- MCLower
  WorkspaceDirs <- MCDirs
  Sri = {x, y}
  Worlds <- MCWorlds
INVARIANTS
  RollupCoversSubtree
CHECK_DEADLOCK FALSE
