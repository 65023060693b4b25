SPECIFICATION FairSpec
CONSTANTS
  Cap = 3
  Lines <- OneStream
  MaxRetries = 2
CHECK_DEADLOCK FALSE
INVARIANTS
  TypeOK
  InOrder
  NothingLeftBehind
  ErrorsSurface
  ResourcesReleased
PROPERTIES
  StreamEnds
