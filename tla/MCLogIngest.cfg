SPECIFICATION Spec
CONSTANTS
  Ingestors = {p1, p2}
  Messages = {m1, blank}
  Blank = blank
  Grain = 2
  TailLines = 3
  Window = 3
  BatchSize = 1
  MaxTime = 3
  MaxLines = 3
  MaxErrors = 1
  MaxStreamed = 1
  MaxRows = 5
SYMMETRY Interchangeable
CHECK_DEADLOCK FALSE
INVARIANTS
  NoneSkipped
  NoDuplicates
