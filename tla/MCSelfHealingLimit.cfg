SPECIFICATION Spec
CONSTANTS
  FailCap = 3
  Services = {web, batch}
  Requests = {r1}
  Scheduler = scheduler
  ProcessOf <- TwoProcesses
  SvcHealing <- UnlessOff
  Policy <- AlwaysOrNever
  MaxRestarts <- LimitOne
  Backoff <- UnlessOff
  InitFails = {2}
  Faults <- ServiceDocker
  NeverRestarted = {batch}
  NoRow = NoRow
  NoService = NoService
  Unlimited = Unlimited
INVARIANTS
  RestartLimitRespected
  RestartCountNeverOver
CHECK_DEADLOCK FALSE
