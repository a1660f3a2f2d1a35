SPECIFICATION MCSpec
CONSTANTS
  None = None
  p = p
  q = q
  pTag = pTag
  pOne = pOne
  qTag = qTag
  Pms = {"npm"}
  Packages <- MCPackages
  Listed <- MCListed
  LastVersion = 2
  Specs <- MCSpecs
  NameOf <- MCNameOf
  VersionOf <- MCVersionOf
  Lines <- MCLines
  Setups <- MCSetups
  Reported <- MCReported
  LockfileFindings <- MCLockfileFindings
  Policies <- MCPolicies
  MaxRequests = 1
  MaxReceipts = 1
  Guards = {g1, g2}
INVARIANTS
  InstallsAreVetted
  ReceiptsAreBound
PROPERTIES
  TrustIsStated
  CommandsEnd
ACTION_CONSTRAINT AllowlistWhereRead
CHECK_DEADLOCK FALSE
