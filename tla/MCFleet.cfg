SPECIFICATION Spec
CONSTANTS
  db = db
  web = web
  Services = {db, web}
  Deps <- WebOnDb
  Order <- DbThenWeb
  Commands = {c1, c2}
  Kinds = {"up", "foreground", "dashboard", "down", "restart"}
  MaxFaults <- OneEach
  Nobody = Nobody
  OldPid = OldPid
INVARIANTS
  TypeOK
  ReportIsTrue
  DependenciesUp
  StoppedIsDownUnlessRaced
  UpLeavesScheduler
SYMMETRY Interchangeable
CHECK_DEADLOCK FALSE
