SPECIFICATION FairSpec
CONSTANTS
  None = None
  Requests = {r1, r2, r3}
  Ips = {i1}
  RateMax = 2
  Window = 2
  MaxQueueJobs = 1
  ScanTimeout = 1
  ResultTtl = 2
  LastArrival = 2
  Horizon = 6
INVARIANTS
  RateLimited
  KeptForRetention
PROPERTIES
  OutcomeFinal
  AcceptedScanSettles
CHECK_DEADLOCK FALSE
