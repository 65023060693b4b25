SPECIFICATION Spec
CONSTANTS
  Procs = {p1, p2}
  Stoppers = {}
  MaxInodes = 5
  MaxCrashes = 0
  Releases = FALSE
  StaleFiles = TRUE
  Nobody = Nobody
  OldPid = OldPid
CHECK_DEADLOCK FALSE
INVARIANTS
  AtMostOneScheduler
