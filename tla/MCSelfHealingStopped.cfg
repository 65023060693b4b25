SPECIFICATION Spec
CONSTANTS
  FailCap = 3
  Services = {web}
  Requests = {r1}
  Scheduler = scheduler
  ProcessOf <- OneProcess
  SvcHealing <- On
  Policy <- AlwaysOrNever
  MaxRestarts <- NoLimit
  Backoff <- Off
  InitFails = {2}
  Faults <- NoFaults
  NeverRestarted = {}
  NoRow = NoRow
  NoService = NoService
  Unlimited = Unlimited
INVARIANTS
  StoppedIsDown
CHECK_DEADLOCK FALSE
