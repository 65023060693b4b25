SPECIFICATION FairSpec
CONSTANTS
  Cap = 3
  Lines <- OneEach
  MaxRetries = 1
CHECK_DEADLOCK FALSE
PROPERTIES
  DisconnectEnds
