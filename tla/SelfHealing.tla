---------------------------- MODULE SelfHealing -----------------------------
(***************************************************************************)
(* Self-healing of DockFleet's services: the health scheduler's pass       *)
(* (health/scheduler.py), Orchestrator.restart_service and stop_service    *)
(* (core/orchestrator.py) and the dashboard's restart and stop requests    *)
(* (dashboard/routes.py), interleaved over the service rows in SQLite, the *)
(* containers in Docker and the guard _active_restarts of each process.    *)
(*                                                                         *)
(* A thread is at a label pc[t], about the service svc[t].  A label in     *)
(* Sessions is one database session: Load reads the row, Commit flushes    *)
(* the change computed from the row loaded, Raise is a database error in   *)
(* between.  AfterCommit and AfterError are the control flow that follows. *)
(***************************************************************************)
EXTENDS ServiceRow, FiniteSets

CONSTANTS
  Services,         \* names of the configured services
  Requests,         \* HTTP handler threads; each one serves one request
  Scheduler,        \* the HealthSchedulerThread
  ProcessOf,        \* [Threads -> process]: a process has one orchestrator
  SvcHealing,       \* [Services -> BOOLEAN]: self_healing after the override
  Policy,           \* [Services -> restart policy]
  MaxRestarts,      \* [Services -> max_restarts, or Unlimited]
  Backoff,          \* [Services -> BOOLEAN]: backoff_seconds is set
  InitFails,        \* failure counts the rows may start with
  Faults,           \* [FaultKinds -> Nat]: how often each fault may happen
  NoRow, NoService, Unlimited

Threads == Requests \cup {Scheduler}
Processes == {ProcessOf[t] : t \in Threads}

\* A service fails (its container dies, or a check of it while it runs); a docker command
\* fails; a database session raises; a process is killed and started again.
FaultKinds == {"service", "docker", "database", "crash"}

ASSUME ThreadsAssumption ==
  /\ Scheduler \notin Requests
  /\ NoService \notin Services
  /\ NoRow \notin Row

ASSUME ConfigAssumption ==
  /\ SvcHealing \in [Services -> BOOLEAN]
  /\ Policy \in [Services -> {"always", "on-failure", "never"}]
  /\ Backoff \in [Services -> BOOLEAN]
  /\ \A s \in Services : MaxRestarts[s] \in Nat \/ MaxRestarts[s] = Unlimited
  /\ InitFails \subseteq 0 .. FailCap
  /\ Faults \in [FaultKinds -> Nat]

VARIABLES
  row,          \* [Services -> Row]: the service table
  container,    \* [Services -> {"running", "exited", "absent"}]
  active,       \* [Processes -> SUBSET Services]: _active_restarts
  pc, svc,      \* where each thread is, and about which service
  view,         \* [Threads -> the row its open session loaded, or NoRow]
  verdict,      \* [Services -> how far the pass's check of it is]
  post,         \* results recorded and not yet handled by _handle_post_health
  attempts,     \* [Services -> Nat]: _restart_attempts
  faults,       \* [FaultKinds -> Nat]: faults so far (bounded by Faults)
  events,       \* [Services -> Nat]: rows of the RestartEvent table
  runs,         \* history: docker runs made by restarts, per service
  autoRuns      \* history: scheduler restarts since a healthy check of it

vars == <<row, container, active, pc, svc, view, verdict, post, attempts,
          events, faults, runs, autoRuns>>

passVars == <<verdict, post>>
historyVars == <<runs, autoRuns>>

(***************************************************************************)
(* Labels and control flow.                                                *)
(***************************************************************************)

\* Between `with self._restart_lock: add` and `finally: discard`.
SectionSessions == {"mark_restarting", "mark_running", "count", "restart_failed", "unwedge"}
Section == SectionSessions \cup
  {"docker_stop", "docker_rm", "start_rm", "docker_run", "leave_ok", "leave_failed", "leave_raised"}

Sessions == SectionSessions \cup
  {"update_health", "restart_successful", "handler_failed",
   "mark_stopped", "manual_stop", "manual_restart"}

Labels == Section \cup Sessions \cup
  {"idle", "collect", "post", "decide", "guard", "restart_event",    \* scheduler
   "new", "stop_container", "stop_rm", "done", "dead"}               \* requests, dead poll thread

\* mutant: the restart is counted before it is done
AfterCommitCountFirst == [
  update_health |-> "collect",
  mark_restarting |-> "count", mark_running |-> "leave_ok", count |-> "docker_stop",
  restart_failed |-> "leave_failed", unwedge |-> "leave_raised",
  restart_successful |-> "restart_event", handler_failed |-> "post",
  mark_stopped |-> "manual_stop", manual_stop |-> "done", manual_restart |-> "done"]

AfterCommit == [
  update_health |-> "collect",
  mark_restarting |-> "docker_stop", mark_running |-> "count", count |-> "leave_ok",
  restart_failed |-> "leave_failed", unwedge |-> "leave_raised",
  restart_successful |-> "restart_event", handler_failed |-> "post",
  mark_stopped |-> "manual_stop", manual_stop |-> "done", manual_restart |-> "done"]

\* mutant: a start that raises leaves the restart without marking it failed
AfterErrorUnmarked == [
  update_health |-> "collect",
  mark_restarting |-> "unwedge", mark_running |-> "leave_failed", count |-> "leave_ok",
  restart_failed |-> "leave_failed", unwedge |-> "leave_raised",
  restart_successful |-> "handler_failed", handler_failed |-> "post",
  mark_stopped |-> "done", manual_stop |-> "done", manual_restart |-> "done"]

\* Where the exception handlers lead: a start that fails is a failed restart,
\* the counter and the failure mark swallow their errors, the outer handler
\* repairs the row and re-raises.
AfterError == [
  update_health |-> "collect",
  mark_restarting |-> "unwedge", mark_running |-> "restart_failed", count |-> "leave_ok",
  restart_failed |-> "leave_failed", unwedge |-> "leave_raised",
  restart_successful |-> "handler_failed", handler_failed |-> "post",
  mark_stopped |-> "done", manual_stop |-> "done", manual_restart |-> "done"]

\* The row a session writes, from the row it loaded.
Change(label, s, r) ==
  CASE label = "update_health"      -> UpdateServiceHealth(r, verdict[s] = "ok")
    [] label = "mark_restarting"    -> MarkRestarting(r)
    [] label = "mark_running"       -> MarkServiceRunning(r)
    [] label = "count"              -> IncrementRestartCount(r)
    [] label = "unwedge"            -> UnwedgeRestarting(r)
    [] label \in {"restart_failed", "handler_failed"} -> MarkRestartFailed(r)
    [] label = "restart_successful" -> MarkRestartSuccessful(r)
    [] label = "mark_stopped"       -> MarkServiceStopped(r)
    [] label = "manual_stop"        -> RecordManualStop(r)
    [] label = "manual_restart"     -> RecordManualRestart(r)

InSection(t) == pc[t] \in Section

\* Thread t moves to a label; when it is done with a service it forgets it.
Goto(t, label) ==
  /\ pc' = [pc EXCEPT ![t] = label]
  /\ svc' = IF label \in {"idle", "collect", "post", "done", "dead"}
            THEN [svc EXCEPT ![t] = NoService] ELSE svc

Fault(kind) ==
  /\ faults[kind] < Faults[kind]
  /\ faults' = [faults EXCEPT ![kind] = @ + 1]

Init ==
  /\ \E fails \in [Services -> InitFails] :
       row = [s \in Services |->
               [status |-> "running", fails |-> fails[s], restarts |-> 0,
                health |-> IF fails[s] = 0 THEN "healthy"
                           ELSE IF fails[s] < FailureThreshold THEN "unhealthy"
                           ELSE "crashed"]]
  /\ container \in [Services -> {"running", "exited"}]
  /\ active = [p \in Processes |-> {}]
  /\ pc = [t \in Threads |-> IF t = Scheduler THEN "idle" ELSE "new"]
  /\ svc = [t \in Threads |-> NoService]
  /\ view = [t \in Threads |-> NoRow]
  /\ verdict = [s \in Services |-> "none"]
  /\ post = {}
  /\ attempts = [s \in Services |-> 0]
  /\ events = [s \in Services |-> 0]
  /\ faults = [k \in FaultKinds |-> 0]
  /\ runs = [s \in Services |-> 0]
  /\ autoRuns = [s \in Services |-> 0]

(***************************************************************************)
(* One database session of a thread.                                       *)
(***************************************************************************)
Load(t) ==
  /\ pc[t] \in Sessions /\ view[t] = NoRow
  /\ view' = [view EXCEPT ![t] = row[svc[t]]]
  /\ UNCHANGED <<row, container, active, pc, svc, passVars, attempts, events, faults, historyVars>>

Commit(t) ==
  LET s == svc[t]
  IN  /\ pc[t] \in Sessions /\ view[t] # NoRow
      /\ row' = [row EXCEPT ![s] = Flush(@, view[t], Change(pc[t], s, view[t]))]
      /\ events' = IF pc[t] = "manual_restart" THEN [events EXCEPT ![s] = @ + 1] ELSE events
      /\ view' = [view EXCEPT ![t] = NoRow]
      /\ Goto(t, AfterCommit[pc[t]])
      /\ UNCHANGED <<container, active, passVars, attempts, faults, historyVars>>

\* A session raises.  After a successful restart the scheduler's handler counts
\* the attempt a second time, for it adds 1 to a local it has already updated.
Raise(t) ==
  /\ pc[t] \in Sessions
  /\ Fault("database")
  /\ attempts' = IF pc[t] = "restart_successful"
                 THEN [attempts EXCEPT ![svc[t]] = @ + 1] ELSE attempts
  /\ view' = [view EXCEPT ![t] = NoRow]
  /\ Goto(t, AfterError[pc[t]])
  /\ UNCHANGED <<row, container, active, passVars, events, historyVars>>

(***************************************************************************)
(* The scheduler's pass.                                                   *)
(***************************************************************************)
\* The statuses are loaded in one query; stopped services are skipped.
BeginPass ==
  /\ pc[Scheduler] = "idle"
  /\ verdict' = [s \in Services |-> IF row[s].status = "stopped" THEN "none" ELSE "submitted"]
  /\ Goto(Scheduler, "collect")
  /\ UNCHANGED <<row, container, active, view, post, attempts, events, faults, historyVars>>

\* That query is outside every handler: the poll thread ends.
BeginPassRaises ==
  /\ pc[Scheduler] = "idle"
  /\ Fault("database")
  /\ Goto(Scheduler, "dead")
  /\ UNCHANGED <<row, container, active, view, passVars, attempts, events, historyVars>>

\* A worker of the pool runs the check; its answer waits to be recorded.
CheckPasses(s) ==
  /\ verdict[s] = "submitted" /\ container[s] = "running"
  /\ verdict' = [verdict EXCEPT ![s] = "ok"]
  /\ UNCHANGED <<row, container, active, pc, svc, view, post, attempts, events, faults, historyVars>>

CheckFails(s) ==
  /\ verdict[s] = "submitted"
  /\ IF container[s] = "running" THEN Fault("service") ELSE UNCHANGED faults
  /\ verdict' = [verdict EXCEPT ![s] = "failed"]
  /\ UNCHANGED <<row, container, active, pc, svc, view, post, attempts, events, historyVars>>

RecordResult(s) ==
  /\ pc[Scheduler] = "collect"
  /\ verdict[s] \in {"ok", "failed"} /\ s \notin post
  /\ post' = post \cup {s}
  /\ attempts' = IF verdict[s] = "ok" THEN [attempts EXCEPT ![s] = 0] ELSE attempts
  /\ autoRuns' = IF verdict[s] = "ok" THEN [autoRuns EXCEPT ![s] = 0] ELSE autoRuns
  /\ pc' = [pc EXCEPT ![Scheduler] = "update_health"]
  /\ svc' = [svc EXCEPT ![Scheduler] = s]
  /\ UNCHANGED <<row, container, active, view, verdict, events, faults, runs>>

AllRecorded ==
  /\ pc[Scheduler] = "collect"
  /\ \A s \in Services : verdict[s] = "none" \/ s \in post
  /\ Goto(Scheduler, "post")
  /\ UNCHANGED <<row, container, active, view, passVars, attempts, events, faults, historyVars>>

\* _handle_post_health of one recorded result, up to the self-healing switch.
HandleResult(s) ==
  /\ pc[Scheduler] = "post" /\ s \in post
  /\ post' = post \ {s}
  /\ verdict' = [verdict EXCEPT ![s] = "none"]
  /\ IF SvcHealing[s]
     THEN /\ pc' = [pc EXCEPT ![Scheduler] = "decide"]
          /\ svc' = [svc EXCEPT ![Scheduler] = s]
     ELSE UNCHANGED <<pc, svc>>
  /\ UNCHANGED <<row, container, active, view, attempts, events, faults, historyVars>>

PassDone ==
  /\ pc[Scheduler] = "post" /\ post = {}
  /\ Goto(Scheduler, "idle")
  /\ UNCHANGED <<row, container, active, view, passVars, attempts, events, faults, historyVars>>

\* mutant: one attempt too many
WithinLimitInclusive(s) == MaxRestarts[s] # Unlimited => attempts[s] <= MaxRestarts[s]

\* max_restarts counts attempts, successful or not.
WithinLimit(s) == MaxRestarts[s] # Unlimited => attempts[s] < MaxRestarts[s]

\* The row is read once; the restart is attempted on that reading.  A backoff
\* still running postpones the attempt (module HealthPoll gives it its clock).
DecideRestart ==
  LET s == svc[Scheduler]
  IN  /\ pc[Scheduler] = "decide"
      /\ NeedsRestart(row[s], Policy[s]) /\ WithinLimit(s)
      /\ Goto(Scheduler, "guard")
      /\ UNCHANGED <<row, container, active, view, passVars, attempts, events, faults, historyVars>>

DecideNothing ==
  LET s == svc[Scheduler]
  IN  /\ pc[Scheduler] = "decide"
      /\ NeedsRestart(row[s], Policy[s]) /\ WithinLimit(s) => Backoff[s]
      /\ Goto(Scheduler, "post")
      /\ UNCHANGED <<row, container, active, view, passVars, attempts, events, faults, historyVars>>

\* The reading of the row raises: the pass goes on with the next result.
DecideRaises ==
  /\ pc[Scheduler] = "decide"
  /\ Fault("database")
  /\ Goto(Scheduler, "post")
  /\ UNCHANGED <<row, container, active, view, passVars, attempts, events, historyVars>>

RecordEvent ==
  /\ pc[Scheduler] = "restart_event"
  /\ events' = [events EXCEPT ![svc[Scheduler]] = @ + 1]
  /\ Goto(Scheduler, "post")
  /\ UNCHANGED <<row, container, active, view, passVars, attempts, faults, historyVars>>

RecordEventRaises ==
  /\ pc[Scheduler] = "restart_event"
  /\ Fault("database")
  /\ attempts' = [attempts EXCEPT ![svc[Scheduler]] = @ + 1]
  /\ Goto(Scheduler, "handler_failed")
  /\ UNCHANGED <<row, container, active, view, passVars, events, historyVars>>

(***************************************************************************)
(* Orchestrator.restart_service, called by the scheduler (detailed=True)   *)
(* or by a dashboard request.                                              *)
(***************************************************************************)
\* What the caller does with a restart that did not happen.
Home(t) == IF t = Scheduler THEN "post" ELSE "done"

CountAttempt(t) ==
  attempts' = IF t = Scheduler THEN [attempts EXCEPT ![svc[t]] = @ + 1] ELSE attempts

\* Every caller builds its Orchestrator with self_healing=True.
RestartAllowed(s) == Policy[s] # "never"

RestartRefused(t) ==
  /\ pc[t] = "guard" /\ ~RestartAllowed(svc[t])
  /\ CountAttempt(t)
  /\ Goto(t, Home(t))
  /\ UNCHANGED <<row, container, active, view, passVars, events, faults, historyVars>>

\* mutant: the restart does not look for one already in progress
EnterRestartUnguarded(t) ==
  LET p == ProcessOf[t]
  IN  /\ pc[t] = "guard" /\ RestartAllowed(svc[t])
      /\ active' = [active EXCEPT ![p] = @ \cup {svc[t]}]
      /\ Goto(t, "mark_restarting")
      /\ UNCHANGED <<row, container, view, passVars, attempts, events, faults, historyVars>>

EnterRestart(t) ==
  LET p == ProcessOf[t]
  IN  /\ pc[t] = "guard" /\ RestartAllowed(svc[t]) /\ svc[t] \notin active[p]
      /\ active' = [active EXCEPT ![p] = @ \cup {svc[t]}]
      /\ Goto(t, "mark_restarting")
      /\ UNCHANGED <<row, container, view, passVars, attempts, events, faults, historyVars>>

\* None (False to the dashboard): the attempt is not counted.
RestartBusy(t) ==
  /\ pc[t] = "guard" /\ RestartAllowed(svc[t]) /\ svc[t] \in active[ProcessOf[t]]
  /\ Goto(t, Home(t))
  /\ UNCHANGED <<row, container, active, view, passVars, attempts, events, faults, historyVars>>

\* A docker command of thread t at a label: it works, or it fails by a fault.
Docker(t, label, state, next) ==
  /\ pc[t] = label
  /\ container' = [container EXCEPT ![svc[t]] = state]
  /\ Goto(t, next)
  /\ UNCHANGED <<row, active, view, passVars, attempts, events, faults, historyVars>>

DockerFails(t, label, next) ==
  /\ pc[t] = label
  /\ Fault("docker")
  /\ Goto(t, next)
  /\ UNCHANGED <<row, container, active, view, passVars, attempts, events, historyVars>>

Stopped(s) == IF container[s] = "running" THEN "exited" ELSE container[s]

\* Stop and remove are best effort; start_service removes once more.
RestartStop(t) ==
  \/ Docker(t, "docker_stop", Stopped(svc[t]), "docker_rm")
  \/ DockerFails(t, "docker_stop", "docker_rm")

RestartRemove(t) ==
  \/ Docker(t, "docker_rm", "absent", "start_rm")
  \/ DockerFails(t, "docker_rm", "start_rm")

StartRemove(t) ==
  \/ Docker(t, "start_rm", "absent", "docker_run")
  \/ DockerFails(t, "start_rm", "docker_run")

StartRun(t) ==
  /\ pc[t] = "docker_run" /\ container[svc[t]] = "absent"
  /\ container' = [container EXCEPT ![svc[t]] = "running"]
  /\ runs' = [runs EXCEPT ![svc[t]] = @ + 1]
  /\ autoRuns' = IF t = Scheduler THEN [autoRuns EXCEPT ![svc[t]] = @ + 1] ELSE autoRuns
  /\ Goto(t, "mark_running")
  /\ UNCHANGED <<row, active, view, passVars, attempts, events, faults>>

\* The name is taken by a container that could not be removed.
StartConflict(t) ==
  /\ pc[t] = "docker_run" /\ container[svc[t]] # "absent"
  /\ Goto(t, "restart_failed")
  /\ UNCHANGED <<row, container, active, view, passVars, attempts, events, faults, historyVars>>

StartFails(t) == DockerFails(t, "docker_run", "restart_failed")

\* mutant: the dashboard records a restart whatever its outcome
LeaveRestartAlwaysRecorded(t) ==
  LET p == ProcessOf[t]
      After == [leave_ok |-> "restart_successful", leave_failed |-> "post",
                leave_raised |-> "handler_failed"]
  IN  /\ pc[t] \in DOMAIN After
      /\ active' = [active EXCEPT ![p] = @ \ {svc[t]}]
      /\ CountAttempt(t)
      /\ Goto(t, IF t = Scheduler THEN After[pc[t]] ELSE "manual_restart")
      /\ UNCHANGED <<row, container, view, passVars, events, faults, historyVars>>

\* mutant: the guard is released only when the restart succeeded
LeaveRestartLeaks(t) ==
  LET p == ProcessOf[t]
      After == [leave_ok |-> "restart_successful", leave_failed |-> "post",
                leave_raised |-> "handler_failed"]
  IN  /\ pc[t] \in DOMAIN After
      /\ active' = IF pc[t] = "leave_ok" THEN [active EXCEPT ![p] = @ \ {svc[t]}] ELSE active
      /\ CountAttempt(t)
      /\ Goto(t, IF t = Scheduler THEN After[pc[t]]
                 ELSE IF pc[t] = "leave_ok" THEN "manual_restart" ELSE "done")
      /\ UNCHANGED <<row, container, view, passVars, events, faults, historyVars>>

\* `finally`: the guard is released, then the caller handles the outcome.
LeaveRestart(t) ==
  LET p == ProcessOf[t]
      After == [leave_ok |-> "restart_successful", leave_failed |-> "post",
                leave_raised |-> "handler_failed"]
  IN  /\ pc[t] \in DOMAIN After
      /\ active' = [active EXCEPT ![p] = @ \ {svc[t]}]
      /\ CountAttempt(t)
      /\ Goto(t, IF t = Scheduler THEN After[pc[t]]
                 ELSE IF pc[t] = "leave_ok" THEN "manual_restart" ELSE "done")
      /\ UNCHANGED <<row, container, view, passVars, events, faults, historyVars>>

(***************************************************************************)
(* Dashboard requests, and Orchestrator.stop_service, which takes no guard.*)
(***************************************************************************)
BeginRequest(t, s) ==
  /\ t # Scheduler /\ pc[t] = "new"
  /\ \E label \in {"guard", "stop_container"} : pc' = [pc EXCEPT ![t] = label]
  /\ svc' = [svc EXCEPT ![t] = s]
  /\ UNCHANGED <<row, container, active, view, passVars, attempts, events, faults, historyVars>>

StopContainer(t) ==
  \/ Docker(t, "stop_container", Stopped(svc[t]), "stop_rm")
  \/ DockerFails(t, "stop_container", "done")

StopRemove(t) ==
  \/ Docker(t, "stop_rm", "absent", "mark_stopped")
  \/ DockerFails(t, "stop_rm", "done")

(***************************************************************************)
(* The environment.                                                        *)
(***************************************************************************)
Die(s) ==
  /\ container[s] = "running"
  /\ Fault("service")
  /\ container' = [container EXCEPT ![s] = "exited"]
  /\ UNCHANGED <<row, active, pc, svc, view, passVars, attempts, events, historyVars>>

\* Process p is killed, with its threads and its memory, and starts again.
\* Requests not yet received are served by the new process.
Crash(p) ==
  LET mine == {t \in Threads : ProcessOf[t] = p /\ pc[t] # "new"}
      scheduling == ProcessOf[Scheduler] = p
      Forget(f, default) == IF scheduling THEN [s \in Services |-> default] ELSE f
  IN  /\ Fault("crash")
      /\ active' = [active EXCEPT ![p] = {}]
      /\ pc' = [t \in Threads |-> IF t \notin mine THEN pc[t]
                                  ELSE IF t = Scheduler THEN "idle" ELSE "done"]
      /\ svc' = [t \in Threads |-> IF t \in mine THEN NoService ELSE svc[t]]
      /\ view' = [t \in Threads |-> IF t \in mine THEN NoRow ELSE view[t]]
      /\ verdict' = Forget(verdict, "none")
      /\ post' = IF scheduling THEN {} ELSE post
      /\ attempts' = Forget(attempts, 0)
      /\ autoRuns' = Forget(autoRuns, 0)
      /\ UNCHANGED <<row, container, events, runs>>

Restarting(t) ==
  \/ RestartRefused(t) \/ EnterRestart(t) \/ RestartBusy(t)
  \/ RestartStop(t) \/ RestartRemove(t) \/ StartRemove(t)
  \/ StartRun(t) \/ StartConflict(t) \/ StartFails(t) \/ LeaveRestart(t)

Working(t) ==
  \/ Load(t) \/ Commit(t) \/ Raise(t)
  \/ Restarting(t) \/ StopContainer(t) \/ StopRemove(t)

Scheduling ==
  \/ BeginPass \/ BeginPassRaises \/ AllRecorded \/ PassDone
  \/ DecideRestart \/ DecideNothing \/ DecideRaises
  \/ RecordEvent \/ RecordEventRaises
  \/ \E s \in Services : RecordResult(s) \/ HandleResult(s)

Checking(s) == CheckPasses(s) \/ CheckFails(s)

Next ==
  \/ Scheduling
  \/ \E t \in Threads : Working(t)
  \/ \E t \in Requests, s \in Services : BeginRequest(t, s)
  \/ \E s \in Services : Checking(s) \/ Die(s)
  \/ \E p \in Processes : Crash(p)

Spec == Init /\ [][Next]_vars

\* Threads are scheduled and every docker command, check and session ends (the
\* code gives them timeouts); requests, faults and crashes are never forced.
Fairness ==
  /\ WF_vars(Scheduling)
  /\ \A t \in Threads : WF_vars(Working(t))
  /\ \A s \in Services : WF_vars(Checking(s))

FairSpec == Spec /\ Fairness

(***************************************************************************)
(* Properties.                                                             *)
(***************************************************************************)
\* Every variable stays within its type.
TypeOK ==
  /\ row \in [Services -> Row]
  /\ container \in [Services -> {"running", "exited", "absent"}]
  /\ active \in [Processes -> SUBSET Services]
  /\ pc \in [Threads -> Labels]
  /\ svc \in [Threads -> Services \cup {NoService}]
  /\ view \in [Threads -> Row \cup {NoRow}]
  /\ verdict \in [Services -> {"none", "submitted", "ok", "failed"}]
  /\ post \in SUBSET Services
  /\ attempts \in [Services -> Nat]
  /\ events \in [Services -> Nat]
  /\ faults \in [FaultKinds -> Nat]
  /\ runs \in [Services -> Nat]
  /\ autoRuns \in [Services -> Nat]

\* Two threads of one process are never both restarting the same service.
OneRestartPerProcess ==
  \A t, u \in Threads :
    t # u /\ ProcessOf[t] = ProcessOf[u] /\ InSection(t) /\ InSection(u) => svc[t] # svc[u]

\* A restart of s has its container and has not yet been counted.
Uncounted(s) == \E t \in Threads : pc[t] \in {"mark_running", "count"} /\ svc[t] = s

NoFault(kinds) == \A k \in kinds : faults[k] = 0

\* restart_count is the number of containers restarts have run, whatever the
\* other sessions on the row, until a session fails or a process is killed.
RestartCountExact ==
  NoFault({"database", "crash"}) =>
    \A s \in Services : row[s].restarts + (IF Uncounted(s) THEN 1 ELSE 0) = runs[s]

\* It never exceeds that number, whatever fails.
RestartCountNeverOver == \A s \in Services : row[s].restarts <= runs[s]

Resting(t) == pc[t] \in {"idle", "new", "done", "dead"}

\* With every thread at rest, each counted restart has its one RestartEvent,
\* though the counter is the orchestrator's and the event its caller's.
EventsMatchCount ==
  NoFault({"database", "crash"}) /\ (\A t \in Threads : Resting(t)) =>
    \A s \in Services : events[s] = row[s].restarts

\* A row says "restarting" only while a restart of the service is going on, with
\* at most one fault: a second may be a session that repairs the first.
RestartingHasOwner ==
  faults["docker"] + faults["database"] <= 1 /\ faults["crash"] = 0 =>
    \A s \in Services :
      row[s].health = "restarting" => \E t \in Threads : InSection(t) /\ svc[t] = s

\* The scheduler runs at most max_restarts containers between two healthy checks.
RestartLimitRespected ==
  \A s \in Services : MaxRestarts[s] # Unlimited => autoRuns[s] <= MaxRestarts[s]

\* "stopped: container is not running", once every thread is at rest.
StoppedIsDown ==
  (\A t \in Threads : Resting(t)) =>
    \A s \in Services : row[s].status = "stopped" => container[s] # "running"

\* The poll thread is gone, or the service is recorded as stopped and not checked.
LeftAlone(s) == pc[Scheduler] = "dead" \/ row[s].status = "stopped"

\* "DB state must not be permanently stuck in RESTARTING": whatever ended the
\* restart, a row that is still checked leaves it.
RestartingIsTransient ==
  \A s \in Services :
    row[s].health = "restarting" ~> row[s].health # "restarting" \/ LeftAlone(s)

\* A service whose container is down runs again, whatever failed on the way, if it
\* is healed without limit or backoff.
HealsOrStopped ==
  \A s \in Services :
    SvcHealing[s] /\ Policy[s] # "never" /\ MaxRestarts[s] = Unlimited /\ ~Backoff[s] =>
      (container[s] # "running" ~> container[s] = "running" \/ LeftAlone(s))
=============================================================================
