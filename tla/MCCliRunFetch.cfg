SPECIFICATION Spec
CONSTANTS
  Calls <- MCCalls
  Reports <- MCReports
  ConfigOf <- MCConfigOf
  NoConfig = NoConfig
  Registry <- MCRegistry
  Family <- MCFamily
  Unreadable = Unreadable
  Absent = Absent
INVARIANTS
  EachFromItsRegistry
CHECK_DEADLOCK FALSE
