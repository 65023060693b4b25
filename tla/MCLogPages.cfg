SPECIFICATION Spec
CONSTANTS
  Instants <- ThreeInstants
  Limit = 2
  MaxRows = 5
INVARIANTS
  TypeOK
  Descending
  NothingMissed
CHECK_DEADLOCK FALSE
