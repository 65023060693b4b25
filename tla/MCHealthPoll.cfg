SPECIFICATION FairSpec
CONSTANTS
  web = web
  batch = batch
  Services = {web, batch}
  Interval <- BeyondTheCap
  LoopInterval = 2
  JoinSlack = 2
  Second = 1
  MaxPass = 5
  NoDeadline = NoDeadline
INVARIANTS
  TypeOK
  LockCoversThread
  CheckedOnTime
PROPERTIES
  StopOutwaitsSleep
  NotOverpolled
  StopEnds
