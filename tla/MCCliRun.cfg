SPECIFICATION Spec
CONSTANTS
  Calls <- MCCalls
  Reports <- MCReports
  ConfigOf <- MCConfigOf
  NoConfig = NoConfig
  Registry <- MCRegistry
  Family <- MCFamily
  Unreadable = Unreadable
  Absent = Absent
INVARIANTS
  UntrustedConfigIsInert
  AlarmsReachTheExit
  CleanExitAccountedFor
  ForceSurvivesSoftening
  ScansReachTheEngine
CHECK_DEADLOCK FALSE
