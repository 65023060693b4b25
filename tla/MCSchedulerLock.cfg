SPECIFICATION Spec
CONSTANTS
  Procs = {p1, p2, p3}
  Stoppers = {s1}
  MaxInodes = 8
  MaxCrashes = 1
  Releases = TRUE
  StaleFiles = TRUE
  Nobody = Nobody
  OldPid = OldPid
CHECK_DEADLOCK FALSE
INVARIANTS
  TypeOK
  ExclusiveUntilStolen
  SomebodyStarts
PROPERTIES
  ImplementsMutex
SYMMETRY Symmetry
