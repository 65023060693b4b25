SPECIFICATION FairSpec
CONSTANTS
  Services = {s1, s2, s3}
CHECK_DEADLOCK FALSE
INVARIANTS
  TypeOK
  DependenciesFirst
  CircleIsReal
  Decides
PROPERTIES
  Ends
