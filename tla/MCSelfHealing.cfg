SPECIFICATION FairSpec
CONSTANTS
  FailCap = 3
  Services = {web}
  Requests = {r1}
  Scheduler = scheduler
  ProcessOf <- OneProcess
  SvcHealing <- On
  Policy <- AlwaysOrNever
  MaxRestarts <- NoLimit
  Backoff <- Off
  InitFails = {2}
  Faults <- DockerDatabaseCrash
  NeverRestarted = {}
  NoRow = NoRow
  NoService = NoService
  Unlimited = Unlimited
INVARIANTS
  TypeOK
  OneRestartPerProcess
  RestartCountExact
  EventsMatchCount
  RestartingHasOwner
PROPERTIES
  RestartingIsTransient
  HealsOrStopped
CHECK_DEADLOCK FALSE
