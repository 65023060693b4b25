------------------------- MODULE SelfHealing_proofs -------------------------
(***************************************************************************)
(* Theorems about SelfHealing, for any set of services and requests and    *)
(* any number of faults.                                                   *)
(***************************************************************************)
EXTENDS SelfHealing, FiniteSetTheorems, TLAPS

\* The labels at which a thread is about no service.
Free == {"idle", "collect", "post", "new", "done", "dead"}

SvcOK == \A t \in Threads : pc[t] \notin Free => svc[t] \in Services

TypeInv == TypeOK /\ SvcOK

(***************************************************************************)
(* Rows.                                                                   *)
(***************************************************************************)
LEMMA FlushTyped ==
  ASSUME NEW r \in Row, NEW v \in Row, NEW n \in Row
  PROVE  Flush(r, v, n) \in Row
BY DEF Flush, Row

LEMMA UpdateHealthTyped ==
  ASSUME NEW r \in Row, NEW ok \in BOOLEAN
  PROVE  /\ UpdateServiceHealth(r, ok) \in Row
         /\ UpdateServiceHealth(r, ok).restarts = r.restarts
<1>. USE FailCapAssumption DEF Row, ContainerStatus, HealthStatus
<1>1. CASE ok
  <2>. DEFINE st == IF r.status = "stopped" THEN r.status ELSE "running"
  <2>1. st \in ContainerStatus  OBVIOUS
  <2>2. UpdateServiceHealth(r, ok) = [r EXCEPT !.status = st, !.health = "healthy", !.fails = 0]
    BY <1>1 DEF UpdateServiceHealth
  <2>3. 0 \in 0 .. FailCap  OBVIOUS
  <2>. HIDE DEF st
  <2>. QED  BY <2>1, <2>2, <2>3
<1>2. CASE ~ok /\ r.status = "stopped"
  BY <1>2 DEF UpdateServiceHealth
<1>3. CASE ~ok /\ r.status # "stopped"
  <2>. DEFINE failures == IF r.fails < FailCap THEN r.fails + 1 ELSE FailCap
  <2>1. failures \in 0 .. FailCap  OBVIOUS
  <2>2. UpdateServiceHealth(r, ok) =
          [r EXCEPT !.fails = failures,
                    !.health = IF failures >= FailureThreshold THEN "crashed" ELSE "unhealthy"]
    BY <1>3 DEF UpdateServiceHealth
  <2>. HIDE DEF failures
  <2>. QED  BY <2>1, <2>2
<1>. QED  BY <1>1, <1>2, <1>3

\* A session writes a row, and only the counting one changes restart_count.
LEMMA ChangeTyped ==
  ASSUME NEW label \in Sessions, NEW s, NEW r \in Row
  PROVE  /\ Change(label, s, r) \in Row
         /\ label # "count" => Change(label, s, r).restarts = r.restarts
         /\ label = "count" => Change(label, s, r).restarts = r.restarts + 1
<1>1. CASE label = "update_health"
  <2>1. Change(label, s, r) = UpdateServiceHealth(r, verdict[s] = "ok")
    BY <1>1 DEF Change
  <2>. QED  BY <1>1, <2>1, UpdateHealthTyped, Zenon
<1>2. CASE label \in {"mark_restarting", "restart_failed", "handler_failed"}
  BY <1>2 DEF Change, MarkRestarting, MarkRestartFailed, Row, ContainerStatus, HealthStatus
<1>6. CASE label = "unwedge"
  <2>1. Change(label, s, r) = UnwedgeRestarting(r)  BY <1>6 DEF Change
  <2>2. CASE r.health = "restarting"
    <3>1. Change(label, s, r) = [r EXCEPT !.health = "crashed"]
      BY <2>1, <2>2 DEF UnwedgeRestarting
    <3>. QED  BY <1>6, <3>1 DEF Row, HealthStatus
  <2>3. CASE r.health # "restarting"
    <3>1. Change(label, s, r) = r
      BY <2>1, <2>3 DEF UnwedgeRestarting
    <3>. QED  BY <1>6, <3>1
  <2>. QED  BY <2>2, <2>3
<1>3. CASE label \in {"mark_running", "mark_stopped", "manual_stop"}
  BY <1>3 DEF Change, MarkServiceRunning, MarkServiceStopped, RecordManualStop,
              Row, ContainerStatus, HealthStatus
<1>4. CASE label \in {"restart_successful", "manual_restart"}
  <2>1. 0 \in 0 .. FailCap  BY FailCapAssumption
  <2>. QED
    BY <1>4, <2>1
       DEF Change, MarkRestartSuccessful, RecordManualRestart, Row, ContainerStatus, HealthStatus
<1>5. CASE label = "count"
  BY <1>5 DEF Change, IncrementRestartCount, Row
<1>. QED  BY <1>1, <1>2, <1>3, <1>4, <1>5, <1>6 DEF Sessions, SectionSessions

\* The restart_count a commit leaves behind.
LEMMA FlushRestarts ==
  ASSUME NEW label \in Sessions, NEW s, NEW r \in Row, NEW v \in Row
  PROVE  /\ label # "count" => Flush(r, v, Change(label, s, v)).restarts = r.restarts
         /\ label = "count" => Flush(r, v, Change(label, s, v)).restarts = v.restarts + 1
<1>1. v.restarts \in Nat  BY DEF Row
<1>. QED  BY <1>1, ChangeTyped DEF Flush

(***************************************************************************)
(* Control flow.                                                           *)
(***************************************************************************)
LEMMA FlowTyped ==
  ASSUME NEW label \in Sessions
  PROVE  /\ AfterCommit[label] \in Labels /\ AfterError[label] \in Labels
         /\ AfterCommit[label] \in Section => label \in Section
         /\ AfterError[label] \in Section => label \in Section
BY DEF Sessions, SectionSessions, Section, Labels, AfterCommit, AfterError

LEMMA GotoTyped ==
  ASSUME TypeInv, NEW t \in Threads, NEW label \in Labels, Goto(t, label),
         label \in Free \/ pc[t] \notin Free
  PROVE  /\ pc' \in [Threads -> Labels]
         /\ svc' \in [Threads -> Services \cup {NoService}]
         /\ SvcOK'
BY DEF TypeInv, TypeOK, SvcOK, Goto, Free

LEMMA SectionNotFree == Section \cap Free = {} /\ Sessions \cap Free = {}
BY DEF Section, Sessions, SectionSessions, Free

(***************************************************************************)
(* Type correctness.                                                       *)
(***************************************************************************)
LEMMA SchedulerThread ==
  /\ Scheduler \in Threads
  /\ \A t \in Threads : ProcessOf[t] \in Processes
BY DEF Threads, Processes

LEMMA TypeInit == Init => TypeInv
<1>. SUFFICES ASSUME Init PROVE TypeInv  OBVIOUS
<1>1. row \in [Services -> Row]
  <2>1. PICK fails \in [Services -> InitFails] :
          row = [s \in Services |->
                  [status |-> "running", fails |-> fails[s], restarts |-> 0,
                   health |-> IF fails[s] = 0 THEN "healthy"
                              ELSE IF fails[s] < FailureThreshold THEN "unhealthy"
                              ELSE "crashed"]]
    BY DEF Init
  <2>2. \A s \in Services : fails[s] \in 0 .. FailCap  BY ConfigAssumption
  <2>. QED  BY <2>1, <2>2 DEF Row, ContainerStatus, HealthStatus
<1>2. TypeOK
  BY <1>1 DEF Init, TypeOK, Labels
<1>3. SvcOK
  BY DEF Init, SvcOK, Free
<1>. QED  BY <1>2, <1>3 DEF TypeInv

\* A step of a thread's control flow keeps the types of pc and svc; the other
\* variables are the action's.
LEMMA SessionTypes ==
  ASSUME TypeInv, NEW t \in Threads, Load(t) \/ Commit(t) \/ Raise(t)
  PROVE  TypeInv'
<1>. pc[t] \in Sessions /\ pc[t] \notin Free /\ svc[t] \in Services
  BY SectionNotFree DEF Load, Commit, Raise, TypeInv, SvcOK
<1>. row[svc[t]] \in Row /\ (view[t] # NoRow => view[t] \in Row)
  BY DEF TypeInv, TypeOK
<1>1. CASE Load(t)
  BY <1>1 DEF Load, TypeInv, TypeOK, SvcOK, passVars, historyVars
<1>2. CASE Commit(t)
  <2>1. AfterCommit[pc[t]] \in Labels  BY FlowTyped
  <2>2. pc' \in [Threads -> Labels] /\ svc' \in [Threads -> Services \cup {NoService}] /\ SvcOK'
    BY <1>2, <2>1, GotoTyped DEF Commit
  <2>3. row' \in [Services -> Row]
    <3>1. Flush(row[svc[t]], view[t], Change(pc[t], svc[t], view[t])) \in Row
      BY <1>2, ChangeTyped, FlushTyped DEF Commit
    <3>. QED  BY <1>2, <3>1 DEF Commit, TypeInv, TypeOK
  <2>4. events' \in [Services -> Nat]  BY <1>2 DEF Commit, TypeInv, TypeOK
  <2>. QED  BY <1>2, <2>2, <2>3, <2>4 DEF Commit, TypeInv, TypeOK, passVars, historyVars
<1>3. CASE Raise(t)
  <2>1. AfterError[pc[t]] \in Labels  BY FlowTyped
  <2>2. pc' \in [Threads -> Labels] /\ svc' \in [Threads -> Services \cup {NoService}] /\ SvcOK'
    BY <1>3, <2>1, GotoTyped DEF Raise
  <2>3. attempts' \in [Services -> Nat]  BY <1>3 DEF Raise, TypeInv, TypeOK
  <2>4. faults' \in [FaultKinds -> Nat]  BY <1>3 DEF Raise, Fault, FaultKinds, TypeInv, TypeOK
  <2>. QED  BY <1>3, <2>2, <2>3, <2>4 DEF Raise, TypeInv, TypeOK, passVars, historyVars
<1>. QED  BY <1>1, <1>2, <1>3

LEMMA SchedulingTypes ==
  ASSUME TypeInv, Scheduling
  PROVE  TypeInv'
<1>. USE SchedulerThread DEF passVars, historyVars
<1>1. CASE BeginPass \/ BeginPassRaises \/ AllRecorded \/ PassDone
  <2>. PICK label \in {"collect", "dead", "post", "idle"} : Goto(Scheduler, label)
    BY <1>1 DEF BeginPass, BeginPassRaises, AllRecorded, PassDone
  <2>1. label \in Labels /\ label \in Free  BY DEF Labels, Free
  <2>2. pc' \in [Threads -> Labels] /\ svc' \in [Threads -> Services \cup {NoService}] /\ SvcOK'
    BY <2>1, GotoTyped
  <2>. QED
    BY <1>1, <2>2 DEF BeginPass, BeginPassRaises, AllRecorded, PassDone, Fault, TypeInv, TypeOK
<1>2. CASE DecideRestart \/ DecideNothing \/ DecideRaises \/ RecordEvent \/ RecordEventRaises
  <2>. PICK label \in {"guard", "post", "handler_failed"} : Goto(Scheduler, label)
    BY <1>2 DEF DecideRestart, DecideNothing, DecideRaises, RecordEvent, RecordEventRaises
  <2>1. label \in Labels /\ pc[Scheduler] \notin Free /\ svc[Scheduler] \in Services
    BY <1>2 DEF Labels, Sessions, Free, DecideRestart, DecideNothing, DecideRaises, RecordEvent,
                RecordEventRaises, TypeInv, SvcOK
  <2>2. pc' \in [Threads -> Labels] /\ svc' \in [Threads -> Services \cup {NoService}] /\ SvcOK'
    BY <2>1, GotoTyped
  <2>. QED
    BY <1>2, <2>1, <2>2 DEF DecideRestart, DecideNothing, DecideRaises, RecordEvent,
                            RecordEventRaises, Fault, TypeInv, TypeOK
<1>3. ASSUME NEW s \in Services, RecordResult(s)
      PROVE  TypeInv'
  <2>1. "update_health" \in Labels  BY DEF Labels, Sessions
  <2>. QED  BY <1>3, <2>1 DEF RecordResult, TypeInv, TypeOK, SvcOK
<1>4. ASSUME NEW s \in Services, HandleResult(s)
      PROVE  TypeInv'
  <2>1. "decide" \in Labels  BY DEF Labels
  <2>. QED  BY <1>4, <2>1 DEF HandleResult, TypeInv, TypeOK, SvcOK
<1>. QED  BY <1>1, <1>2, <1>3, <1>4 DEF Scheduling

LEMMA RestartTypes ==
  ASSUME TypeInv, NEW t \in Threads, Restarting(t)
  PROVE  TypeInv'
<1>. USE SchedulerThread DEF passVars, historyVars
<1>. pc[t] \notin Free /\ svc[t] \in Services
  <2>1. pc[t] \notin Free
    BY DEF Restarting, RestartRefused, EnterRestart, RestartBusy, RestartStop, RestartRemove,
           StartRemove, StartRun, StartConflict, StartFails, LeaveRestart, Docker, DockerFails, Free
  <2>. QED  BY <2>1 DEF TypeInv, SvcOK
<1>1. CASE RestartRefused(t) \/ RestartBusy(t)
  <2>1. Home(t) \in Labels  BY DEF Home, Labels
  <2>2. Goto(t, Home(t))  BY <1>1 DEF RestartRefused, RestartBusy
  <2>3. pc' \in [Threads -> Labels] /\ svc' \in [Threads -> Services \cup {NoService}] /\ SvcOK'
    BY <2>1, <2>2, GotoTyped
  <2>4. attempts' \in [Services -> Nat]
    BY <1>1 DEF RestartRefused, RestartBusy, CountAttempt, TypeInv, TypeOK
  <2>. QED  BY <1>1, <2>3, <2>4 DEF RestartRefused, RestartBusy, TypeInv, TypeOK
<1>2. CASE EnterRestart(t)
  <2>1. "mark_restarting" \in Labels  BY DEF Labels, Section, SectionSessions
  <2>2. pc' \in [Threads -> Labels] /\ svc' \in [Threads -> Services \cup {NoService}] /\ SvcOK'
    BY <1>2, <2>1, GotoTyped DEF EnterRestart
  <2>3. active' \in [Processes -> SUBSET Services]
    BY <1>2 DEF EnterRestart, TypeInv, TypeOK
  <2>. QED  BY <1>2, <2>2, <2>3 DEF EnterRestart, TypeInv, TypeOK
<1>3. CASE RestartStop(t) \/ RestartRemove(t) \/ StartRemove(t) \/ StartConflict(t) \/ StartFails(t)
  <2>. PICK label \in {"docker_rm", "start_rm", "docker_run", "restart_failed"} : Goto(t, label)
    BY <1>3 DEF RestartStop, RestartRemove, StartRemove, StartConflict, StartFails, Docker, DockerFails
  <2>1. label \in Labels  BY DEF Labels, Section, SectionSessions
  <2>2. pc' \in [Threads -> Labels] /\ svc' \in [Threads -> Services \cup {NoService}] /\ SvcOK'
    BY <2>1, GotoTyped
  <2>3. Stopped(svc[t]) \in {"running", "exited", "absent"}  BY DEF Stopped, TypeInv, TypeOK
  <2>4. container' \in [Services -> {"running", "exited", "absent"}]
    BY <1>3, <2>3 DEF RestartStop, RestartRemove, StartRemove, StartConflict, StartFails, Docker,
                      DockerFails, TypeInv, TypeOK
  <2>5. faults' \in [FaultKinds -> Nat]
    BY <1>3 DEF RestartStop, RestartRemove, StartRemove, StartConflict, StartFails, Docker,
                DockerFails, Fault, FaultKinds, TypeInv, TypeOK
  <2>. QED
    BY <1>3, <2>2, <2>4, <2>5
       DEF RestartStop, RestartRemove, StartRemove, StartConflict, StartFails, Docker, DockerFails,
           TypeInv, TypeOK
<1>4. CASE StartRun(t)
  <2>1. "mark_running" \in Labels  BY DEF Labels, Section, SectionSessions
  <2>2. pc' \in [Threads -> Labels] /\ svc' \in [Threads -> Services \cup {NoService}] /\ SvcOK'
    BY <1>4, <2>1, GotoTyped DEF StartRun
  <2>. QED  BY <1>4, <2>2 DEF StartRun, TypeInv, TypeOK
<1>5. CASE LeaveRestart(t)
  <2>. PICK label \in {"restart_successful", "post", "handler_failed", "manual_restart", "done"} :
         Goto(t, label)
    BY <1>5 DEF LeaveRestart
  <2>1. label \in Labels  BY DEF Labels, Sessions
  <2>2. pc' \in [Threads -> Labels] /\ svc' \in [Threads -> Services \cup {NoService}] /\ SvcOK'
    BY <2>1, GotoTyped
  <2>3. active' \in [Processes -> SUBSET Services]
    BY <1>5 DEF LeaveRestart, TypeInv, TypeOK
  <2>4. attempts' \in [Services -> Nat]
    BY <1>5 DEF LeaveRestart, CountAttempt, TypeInv, TypeOK
  <2>. QED  BY <1>5, <2>2, <2>3, <2>4 DEF LeaveRestart, TypeInv, TypeOK
<1>. QED  BY <1>1, <1>2, <1>3, <1>4, <1>5 DEF Restarting

LEMMA StopTypes ==
  ASSUME TypeInv, NEW t \in Threads, StopContainer(t) \/ StopRemove(t)
  PROVE  TypeInv'
<1>. USE DEF passVars, historyVars
<1>1. pc[t] \notin Free /\ svc[t] \in Services
  BY DEF StopContainer, StopRemove, Docker, DockerFails, Free, TypeInv, SvcOK
<1>. PICK label \in {"stop_rm", "mark_stopped", "done"} : Goto(t, label)
  BY DEF StopContainer, StopRemove, Docker, DockerFails
<1>2. label \in Labels  BY DEF Labels, Sessions
<1>3. pc' \in [Threads -> Labels] /\ svc' \in [Threads -> Services \cup {NoService}] /\ SvcOK'
  BY <1>1, <1>2, GotoTyped
<1>4. container' \in [Services -> {"running", "exited", "absent"}]
  <2>1. Stopped(svc[t]) \in {"running", "exited", "absent"}  BY <1>1 DEF Stopped, TypeInv, TypeOK
  <2>. QED  BY <2>1 DEF StopContainer, StopRemove, Docker, DockerFails, TypeInv, TypeOK
<1>5. faults' \in [FaultKinds -> Nat]
  BY DEF StopContainer, StopRemove, Docker, DockerFails, Fault, FaultKinds, TypeInv, TypeOK
<1>. QED
  BY <1>3, <1>4, <1>5 DEF StopContainer, StopRemove, Docker, DockerFails, TypeInv, TypeOK

LEMMA EnvironmentTypes ==
  ASSUME TypeInv,
         \/ \E t \in Requests, s \in Services : BeginRequest(t, s)
         \/ \E s \in Services : Checking(s) \/ Die(s)
         \/ \E p \in Processes : Crash(p)
  PROVE  TypeInv'
<1>. USE DEF passVars, historyVars
<1>1. ASSUME NEW t \in Requests, NEW s \in Services, BeginRequest(t, s)
      PROVE  TypeInv'
  <2>1. t \in Threads /\ {"guard", "stop_container"} \subseteq Labels  BY DEF Threads, Labels
  <2>. QED  BY <1>1, <2>1 DEF BeginRequest, TypeInv, TypeOK, SvcOK
<1>2. ASSUME NEW s \in Services, Checking(s)
      PROVE  TypeInv'
  BY <1>2 DEF Checking, CheckPasses, CheckFails, Fault, FaultKinds, TypeInv, TypeOK, SvcOK
<1>3. ASSUME NEW s \in Services, Die(s)
      PROVE  TypeInv'
  BY <1>3 DEF Die, Fault, FaultKinds, TypeInv, TypeOK, SvcOK
<1>4. ASSUME NEW p \in Processes, Crash(p)
      PROVE  TypeInv'
  <2>1. pc' \in [Threads -> Labels] /\ svc' \in [Threads -> Services \cup {NoService}] /\ SvcOK'
    BY <1>4 DEF Crash, Free, Labels, TypeInv, TypeOK, SvcOK
  <2>2. /\ verdict' \in [Services -> {"none", "submitted", "ok", "failed"}]
        /\ attempts' \in [Services -> Nat] /\ autoRuns' \in [Services -> Nat]
        /\ post' \in SUBSET Services
    BY <1>4 DEF Crash, TypeInv, TypeOK
  <2>3. /\ active' \in [Processes -> SUBSET Services]
        /\ view' \in [Threads -> Row \cup {NoRow}]
        /\ faults' \in [FaultKinds -> Nat]
    BY <1>4 DEF Crash, Fault, FaultKinds, TypeInv, TypeOK
  <2>. QED  BY <1>4, <2>1, <2>2, <2>3 DEF Crash, TypeInv, TypeOK
<1>. QED  BY <1>1, <1>2, <1>3, <1>4

LEMMA TypeNext == TypeInv /\ [Next]_vars => TypeInv'
<1>. SUFFICES ASSUME TypeInv, [Next]_vars PROVE TypeInv'  OBVIOUS
<1>1. CASE UNCHANGED vars
  BY <1>1 DEF vars, passVars, historyVars, TypeInv, TypeOK, SvcOK
<1>2. ASSUME NEW t \in Threads, Working(t)
      PROVE  TypeInv'
  BY <1>2, SessionTypes, RestartTypes, StopTypes DEF Working
<1>. QED  BY <1>1, <1>2, SchedulingTypes, EnvironmentTypes DEF Next

\* Every variable keeps its type, in every step of every thread and fault.
THEOREM TypeCorrect == Spec => []TypeOK
<1>1. TypeInv => TypeOK  BY DEF TypeInv
<1>. QED  BY <1>1, TypeInit, TypeNext, PTL DEF Spec

(***************************************************************************)
(* The guard _active_restarts excludes.  The inductive invariant is that   *)
(* every restart going on is in the guard of its process.                  *)
(***************************************************************************)
Guarded == \A t \in Threads : InSection(t) => svc[t] \in active[ProcessOf[t]]

GuardInv == Guarded /\ OneRestartPerProcess

LEMMA GuardInit == Init => GuardInv
BY DEF Init, GuardInv, Guarded, OneRestartPerProcess, InSection, Section, SectionSessions

\* Nothing is lost by a step that neither enters a section nor frees a guard.
LEMMA GuardFrame ==
  ASSUME GuardInv, active' = active,
         \A u \in Threads : InSection(u)' => InSection(u) /\ svc'[u] = svc[u]
  PROVE  GuardInv'
BY DEF GuardInv, Guarded, OneRestartPerProcess

LEMMA GuardGoto ==
  ASSUME TypeInv, GuardInv, active' = active,
         NEW t \in Threads, NEW label, Goto(t, label), label \in Section => InSection(t)
  PROVE  GuardInv'
<1>1. \A u \in Threads : InSection(u)' => InSection(u) /\ svc'[u] = svc[u]
  BY SectionNotFree DEF TypeInv, TypeOK, Goto, InSection, Section, SectionSessions
<1>. QED  BY <1>1, GuardFrame

\* Steps of the scheduler and of requests outside restart_service.
LEMMA GuardElsewhere ==
  ASSUME TypeInv, GuardInv,
         \/ Scheduling
         \/ \E t \in Threads : StopContainer(t) \/ StopRemove(t)
         \/ \E t \in Requests, s \in Services : BeginRequest(t, s)
         \/ \E s \in Services : Checking(s) \/ Die(s)
  PROVE  GuardInv'
<1>. USE SchedulerThread DEF passVars, historyVars
<1>1. CASE Scheduling
  <2>1. ASSUME NEW s \in Services, RecordResult(s) \/ HandleResult(s)
        PROVE  GuardInv'
    <3>1. \A u \in Threads : InSection(u)' => InSection(u) /\ svc'[u] = svc[u]
      BY <2>1 DEF RecordResult, HandleResult, TypeInv, TypeOK, InSection, Section, SectionSessions
    <3>. QED  BY <2>1, <3>1, GuardFrame DEF RecordResult, HandleResult
  <2>2. CASE ~ \E s \in Services : RecordResult(s) \/ HandleResult(s)
    <3>. PICK label \in {"collect", "dead", "post", "idle", "guard", "handler_failed"} :
           Goto(Scheduler, label)
      BY <1>1, <2>2
         DEF Scheduling, BeginPass, BeginPassRaises, AllRecorded, PassDone, DecideRestart,
             DecideNothing, DecideRaises, RecordEvent, RecordEventRaises
    <3>1. label \notin Section  BY DEF Section, SectionSessions
    <3>2. active' = active
      BY <1>1, <2>2
         DEF Scheduling, BeginPass, BeginPassRaises, AllRecorded, PassDone, DecideRestart,
             DecideNothing, DecideRaises, RecordEvent, RecordEventRaises
    <3>. QED  BY <3>1, <3>2, GuardGoto
  <2>. QED  BY <2>1, <2>2
<1>2. ASSUME NEW t \in Threads, StopContainer(t) \/ StopRemove(t)
      PROVE  GuardInv'
  <2>. PICK label \in {"stop_rm", "mark_stopped", "done"} : Goto(t, label)
    BY <1>2 DEF StopContainer, StopRemove, Docker, DockerFails
  <2>1. label \notin Section  BY DEF Section, SectionSessions
  <2>2. active' = active  BY <1>2 DEF StopContainer, StopRemove, Docker, DockerFails
  <2>. QED  BY <2>1, <2>2, GuardGoto
<1>3. ASSUME NEW t \in Requests, NEW s \in Services, BeginRequest(t, s)
      PROVE  GuardInv'
  <2>1. \A u \in Threads : InSection(u)' => InSection(u) /\ svc'[u] = svc[u]
    BY <1>3 DEF BeginRequest, TypeInv, TypeOK, InSection, Section, SectionSessions, Threads
  <2>. QED  BY <1>3, <2>1, GuardFrame DEF BeginRequest
<1>4. ASSUME NEW s \in Services, Checking(s) \/ Die(s)
      PROVE  GuardInv'
  <2>1. UNCHANGED <<pc, svc, active>>  BY <1>4 DEF Checking, CheckPasses, CheckFails, Die
  <2>. QED  BY <2>1 DEF GuardInv, Guarded, OneRestartPerProcess, InSection
<1>. QED  BY <1>1, <1>2, <1>3, <1>4

LEMMA GuardSession ==
  ASSUME TypeInv, GuardInv, NEW t \in Threads, Load(t) \/ Commit(t) \/ Raise(t)
  PROVE  GuardInv'
<1>1. CASE Load(t)
  BY <1>1 DEF Load, GuardInv, Guarded, OneRestartPerProcess, InSection
<1>2. CASE Commit(t)
  <2>1. AfterCommit[pc[t]] \in Section => InSection(t)
    BY <1>2, FlowTyped DEF Commit, InSection
  <2>. QED  BY <1>2, <2>1, GuardGoto DEF Commit
<1>3. CASE Raise(t)
  <2>1. AfterError[pc[t]] \in Section => InSection(t)
    BY <1>3, FlowTyped DEF Raise, InSection
  <2>. QED  BY <1>3, <2>1, GuardGoto DEF Raise
<1>. QED  BY <1>1, <1>2, <1>3

LEMMA GuardRestart ==
  ASSUME TypeInv, GuardInv, NEW t \in Threads, Restarting(t)
  PROVE  GuardInv'
<1>. USE SchedulerThread
<1>1. CASE RestartRefused(t) \/ RestartBusy(t)
  <2>1. Home(t) \notin Section  BY DEF Home, Section, SectionSessions
  <2>. QED  BY <1>1, <2>1, GuardGoto DEF RestartRefused, RestartBusy
<1>2. CASE EnterRestart(t)
  \* no other thread of the process can be restarting a service not in the guard
  <2>1. /\ svc' = svc
        /\ \A u \in Threads : u # t => pc'[u] = pc[u]
        /\ \A p \in Processes : active[p] \subseteq active'[p]
        /\ svc[t] \in active'[ProcessOf[t]] /\ svc[t] \notin active[ProcessOf[t]]
    BY <1>2 DEF EnterRestart, Goto, TypeInv, TypeOK
  <2>2. Guarded'
    BY <2>1 DEF GuardInv, Guarded, InSection
  <2>3. OneRestartPerProcess'
    BY <2>1 DEF GuardInv, Guarded, OneRestartPerProcess, InSection
  <2>. QED  BY <2>2, <2>3 DEF GuardInv
<1>3. CASE \/ RestartStop(t) \/ RestartRemove(t) \/ StartRemove(t)
           \/ StartRun(t) \/ StartConflict(t) \/ StartFails(t)
  <2>. PICK label : Goto(t, label)
    BY <1>3 DEF RestartStop, RestartRemove, StartRemove, StartRun, StartConflict, StartFails,
                Docker, DockerFails
  <2>1. InSection(t) /\ active' = active
    BY <1>3 DEF RestartStop, RestartRemove, StartRemove, StartRun, StartConflict, StartFails,
                Docker, DockerFails, InSection, Section, SectionSessions
  <2>. QED  BY <2>1, GuardGoto
<1>4. CASE LeaveRestart(t)
  <2>1. InSection(t)
    BY <1>4 DEF LeaveRestart, InSection, Section, SectionSessions
  <2>. PICK label \in {"restart_successful", "post", "handler_failed", "manual_restart", "done"} :
         Goto(t, label)
    BY <1>4 DEF LeaveRestart
  <2>2. \A u \in Threads : InSection(u)' => u # t /\ InSection(u) /\ svc'[u] = svc[u]
    BY DEF Goto, TypeInv, TypeOK, InSection, Section, SectionSessions
  <2>3. Guarded'
    <3>. SUFFICES ASSUME NEW u \in Threads, InSection(u)'
                  PROVE  svc'[u] \in active'[ProcessOf[u]]
      BY DEF Guarded
    <3>1. /\ svc'[u] = svc[u] /\ svc[u] \in active[ProcessOf[u]]
          /\ ProcessOf[u] = ProcessOf[t] => svc[u] # svc[t]
      BY <2>1, <2>2 DEF GuardInv, Guarded, OneRestartPerProcess
    <3>2. active' = [active EXCEPT ![ProcessOf[t]] = @ \ {svc[t]}]
      BY <1>4 DEF LeaveRestart
    <3>. QED  BY <3>1, <3>2 DEF TypeInv, TypeOK
  <2>4. OneRestartPerProcess'
    BY <2>2 DEF GuardInv, OneRestartPerProcess
  <2>. QED  BY <2>3, <2>4 DEF GuardInv
<1>. QED  BY <1>1, <1>2, <1>3, <1>4 DEF Restarting

LEMMA GuardCrash ==
  ASSUME TypeInv, GuardInv, NEW p \in Processes, Crash(p)
  PROVE  GuardInv'
<1>1. \A u \in Threads : InSection(u)' =>
         InSection(u) /\ svc'[u] = svc[u] /\ ProcessOf[u] # p
  BY DEF Crash, InSection, Section, SectionSessions
<1>2. \A q \in Processes : q # p => active'[q] = active[q]
  BY DEF Crash, TypeInv, TypeOK
<1>. QED  BY <1>1, <1>2, SchedulerThread DEF GuardInv, Guarded, OneRestartPerProcess

LEMMA GuardNext == TypeInv /\ GuardInv /\ [Next]_vars => GuardInv'
<1>. SUFFICES ASSUME TypeInv, GuardInv, [Next]_vars PROVE GuardInv'  OBVIOUS
<1>1. CASE UNCHANGED vars
  BY <1>1 DEF vars, GuardInv, Guarded, OneRestartPerProcess, InSection
<1>. QED
  BY <1>1, GuardElsewhere, GuardSession, GuardRestart, GuardCrash DEF Next, Working

\* The guard of restart_service works in every process: whatever fails and
\* whoever asks, one restart of a service at a time.
THEOREM GuardExcludes == Spec => []OneRestartPerProcess
<1>1. GuardInv => OneRestartPerProcess  BY DEF GuardInv
<1>. QED  BY <1>1, TypeInit, TypeNext, GuardInit, GuardNext, PTL DEF Spec

LEMMA CountTypes ==
  ASSUME TypeInv
  PROVE  /\ \A s \in Services : row[s].restarts \in Nat /\ runs[s] \in Nat
         /\ \A k \in FaultKinds : faults[k] \in Nat
BY DEF TypeInv, TypeOK, Row

\* A step that raises no database error and kills no process.
LEMMA FaultsFrame ==
  ASSUME TypeInv,
         faults' = faults \/ \E k \in FaultKinds : Fault(k)
  PROVE  NoFault({"database", "crash"})' => NoFault({"database", "crash"})
<1>1. \A k \in FaultKinds : faults[k] \in Nat  BY CountTypes
<1>2. \A k \in FaultKinds : faults'[k] = 0 => faults[k] = 0
  BY <1>1 DEF Fault, TypeInv, TypeOK
<1>. QED  BY <1>2 DEF NoFault, FaultKinds

(***************************************************************************)
(* Counters, kept by any number of threads and processes.  A restart that  *)
(* has run its container is counted in the row by its own thread, and      *)
(* recorded as an event by its caller: what the counters lack is the       *)
(* threads that have yet to do so.                                         *)
(***************************************************************************)
At(L, s) == {t \in Threads : pc[t] \in L /\ svc[t] = s}

Counting == {"mark_running", "count"}

Recording == Counting \cup {"leave_ok", "restart_successful", "restart_event", "manual_restart"}

Begun == {t \in Threads : pc[t] # "new"}

\* A session about to count may have loaded a count that is no longer the row's, but
\* never one that is too high for it.
UpperInv ==
  /\ \A s \in Services : row[s].restarts + Cardinality(At(Counting, s)) <= runs[s]
  /\ \A t \in Threads : pc[t] = "count" /\ view[t] # NoRow =>
       view[t].restarts + Cardinality(At(Counting, svc[t])) <= runs[svc[t]]

EventsInv ==
  NoFault({"database", "crash"}) =>
    \A s \in Services : runs[s] = events[s] + Cardinality(At(Recording, s))

CountersInv == IsFiniteSet(Begun) /\ UpperInv /\ EventsInv

LEMMA AtFinite ==
  ASSUME IsFiniteSet(Begun), NEW L, "new" \notin L, NEW s
  PROVE  IsFiniteSet(At(L, s)) /\ Cardinality(At(L, s)) \in Nat
<1>1. At(L, s) \in SUBSET Begun  BY DEF At, Begun
<1>2. IsFiniteSet(At(L, s))  BY <1>1, FS_Subset
<1>. QED  BY <1>2, FS_CardinalityType

LEMMA NotNew == "new" \notin Counting /\ "new" \notin Recording /\ Counting \subseteq Recording
BY DEF Counting, Recording

\* Thread t alone moves.
Moves(t) == \A u \in Threads \ {t} : pc'[u] = pc[u] /\ svc'[u] = svc[u] /\ view'[u] = view[u]

\* A thread that comes to L, stays in it, or leaves it.
LEMMA AtMoves ==
  ASSUME IsFiniteSet(Begun), NEW L, "new" \notin L, NEW s, NEW t \in Threads, Moves(t)
  PROVE  /\ ~(pc'[t] \in L /\ svc'[t] = s) => At(L, s)' \subseteq At(L, s)
         /\ (pc'[t] \in L /\ svc'[t] = s <=> pc[t] \in L /\ svc[t] = s) =>
              Cardinality(At(L, s)') = Cardinality(At(L, s))
         /\ pc'[t] \in L /\ svc'[t] = s /\ ~(pc[t] \in L /\ svc[t] = s) =>
              Cardinality(At(L, s)') = Cardinality(At(L, s)) + 1
         /\ ~(pc'[t] \in L /\ svc'[t] = s) /\ pc[t] \in L /\ svc[t] = s =>
              Cardinality(At(L, s)') = Cardinality(At(L, s)) - 1
<1>1. \A u \in Threads : u # t => (u \in At(L, s)' <=> u \in At(L, s))
  BY DEF Moves, At
<1>2. t \in At(L, s)' <=> pc'[t] \in L /\ svc'[t] = s
  BY DEF At
<1>3. t \in At(L, s) <=> pc[t] \in L /\ svc[t] = s
  BY DEF At
<1>4. At(L, s) \in SUBSET Threads /\ At(L, s)' \in SUBSET Threads
  BY DEF At
<1>5. IsFiniteSet(At(L, s))
  BY AtFinite
<1>6. CASE t \in At(L, s)' /\ t \notin At(L, s)
  <2>1. At(L, s)' = At(L, s) \cup {t}  BY <1>1, <1>4, <1>6
  <2>. QED  BY <1>2, <1>3, <1>5, <1>6, <2>1, FS_AddElement
<1>7. CASE t \notin At(L, s)' /\ t \in At(L, s)
  <2>1. At(L, s)' = At(L, s) \ {t}  BY <1>1, <1>4, <1>7
  <2>. QED  BY <1>2, <1>3, <1>5, <1>7, <2>1, FS_RemoveElement
<1>8. CASE t \in At(L, s)' <=> t \in At(L, s)
  <2>1. At(L, s)' = At(L, s)  BY <1>1, <1>4, <1>8
  <2>. QED  BY <1>2, <1>3, <1>8, <2>1
<1>. QED  BY <1>6, <1>7, <1>8

LEMMA CountersTypes ==
  ASSUME TypeInv, CountersInv
  PROVE  /\ \A s \in Services : row[s].restarts \in Nat /\ runs[s] \in Nat /\ events[s] \in Nat
         /\ \A k \in FaultKinds : faults[k] \in Nat
         /\ \A s : Cardinality(At(Counting, s)) \in Nat /\ Cardinality(At(Recording, s)) \in Nat
         /\ \A t \in Threads : view[t] # NoRow => view[t].restarts \in Nat
<1>1. \A s : Cardinality(At(Counting, s)) \in Nat /\ Cardinality(At(Recording, s)) \in Nat
  BY AtFinite, NotNew DEF CountersInv
<1>. QED  BY <1>1 DEF TypeInv, TypeOK, Row

LEMMA CountersInit == Init => CountersInv
<1>. SUFFICES ASSUME Init PROVE CountersInv  OBVIOUS
<1>1. Begun = {Scheduler} /\ \A s : At(Counting, s) = {} /\ At(Recording, s) = {}
  BY DEF Init, Begun, At, Counting, Recording, Threads
<1>2. IsFiniteSet(Begun) /\ \A s : Cardinality(At(Counting, s)) = 0 /\ Cardinality(At(Recording, s)) = 0
  BY <1>1, FS_Singleton, FS_EmptySet
<1>3. \A s \in Services : row[s].restarts = 0 /\ runs[s] = 0 /\ events[s] = 0
  BY DEF Init
<1>4. \A t \in Threads : view[t] = NoRow
  BY DEF Init
<1>. QED  BY <1>2, <1>3, <1>4 DEF CountersInv, UpperInv, EventsInv

\* What a step leaves: no more to count, nothing more or less to record.
LEMMA CountersFrame ==
  ASSUME TypeInv, TypeInv', CountersInv, IsFiniteSet(Begun'), runs' = runs,
         \A s \in Services : row'[s].restarts = row[s].restarts,
         \A s \in Services : Cardinality(At(Counting, s)') <= Cardinality(At(Counting, s)),
         \A t \in Threads : pc'[t] = "count" /\ view'[t] # NoRow =>
            pc[t] = "count" /\ view'[t] = view[t] /\ svc'[t] = svc[t],
         NoFault({"database", "crash"})' =>
            /\ NoFault({"database", "crash"}) /\ events' = events
            /\ \A s \in Services : Cardinality(At(Recording, s)') = Cardinality(At(Recording, s))
  PROVE  CountersInv'
<1>1. \A s \in Services : /\ Cardinality(At(Counting, s)) \in Nat /\ Cardinality(At(Counting, s)') \in Nat
                          /\ row[s].restarts \in Nat /\ runs[s] \in Nat
  <2>1. \A s \in Services : At(Counting, s)' \in SUBSET (Begun')
    BY NotNew DEF At, Begun
  <2>2. \A s \in Services : Cardinality(At(Counting, s)') \in Nat
    BY <2>1, FS_Subset, FS_CardinalityType
  <2>. QED  BY <2>2, CountersTypes
<1>2. UpperInv'
  <2>1. \A s \in Services : row'[s].restarts + Cardinality(At(Counting, s)') <= runs'[s]
    BY <1>1 DEF CountersInv, UpperInv
  <2>2. ASSUME NEW t \in Threads, pc'[t] = "count", view'[t] # NoRow
        PROVE  view'[t].restarts + Cardinality(At(Counting, svc[t]))' <= runs'[svc'[t]]
    <3>1. svc[t] \in Services /\ view[t] # NoRow /\ pc[t] = "count" /\ svc'[t] = svc[t] /\ view'[t] = view[t]
      BY <2>2 DEF TypeInv, SvcOK, Free
    <3>2. PICK s \in Services : s = svc[t]
      BY <3>1
    <3>3. view[t].restarts + Cardinality(At(Counting, s)) <= runs[s] /\ view[t].restarts \in Nat
      BY <3>1, <3>2, CountersTypes DEF CountersInv, UpperInv
    <3>4. view[t].restarts + Cardinality(At(Counting, s)') <= runs[s]
      BY <1>1, <3>3
    <3>. QED  BY <3>1, <3>2, <3>4
  <2>. QED  BY <2>1, <2>2 DEF UpperInv
<1>3. EventsInv'
  BY DEF CountersInv, EventsInv
<1>. QED  BY <1>2, <1>3 DEF CountersInv

\* A thread that begins adds itself to those that have.
LEMMA BegunMoves ==
  ASSUME IsFiniteSet(Begun), NEW t \in Threads, Moves(t)
  PROVE  IsFiniteSet(Begun')
<1>1. Begun' \in SUBSET (Begun \cup {t})  BY DEF Begun, Moves
<1>2. IsFiniteSet(Begun \cup {t})  BY FS_AddElement
<1>. QED  BY <1>1, <1>2, FS_Subset

\* Steps of a thread that has nothing to count or record, before and after.
LEMMA CountersQuiet ==
  ASSUME TypeInv, TypeInv', CountersInv, NEW t \in Threads, Moves(t),
         pc[t] \notin Recording, pc'[t] \notin Recording, UNCHANGED <<row, runs, events>>,
         faults' = faults \/ \E k \in FaultKinds : Fault(k)
  PROVE  CountersInv'
<1>1. \A L, s : L \in {Counting, Recording} => Cardinality(At(L, s)') = Cardinality(At(L, s))
  BY AtMoves, NotNew DEF CountersInv
<1>2. \A s \in Services : Cardinality(At(Counting, s)') <= Cardinality(At(Counting, s))
  BY <1>1, CountersTypes
<1>3. IsFiniteSet(Begun')
  BY BegunMoves DEF CountersInv
<1>4. NoFault({"database", "crash"})' => NoFault({"database", "crash"})
  BY FaultsFrame
<1>5. pc'[t] # "count"  BY DEF Recording, Counting
<1>. QED  BY <1>1, <1>2, <1>3, <1>4, <1>5, CountersFrame DEF Moves

\* What the commit of a session does.
LEMMA CommitEffect ==
  ASSUME TypeInv, NEW t \in Threads, Commit(t)
  PROVE  /\ pc[t] \in Sessions /\ svc[t] \in Services
         /\ view[t] # NoRow /\ view[t] \in Row /\ row[svc[t]] \in Row
         /\ pc'[t] = AfterCommit[pc[t]] /\ view'[t] = NoRow /\ Moves(t)
         /\ svc'[t] = svc[t] \/ pc'[t] \in Free
         /\ \A s \in Services : s # svc[t] => row'[s] = row[s]
         /\ row'[svc[t]] = Flush(row[svc[t]], view[t], Change(pc[t], svc[t], view[t]))
         /\ events' = IF pc[t] = "manual_restart" THEN [events EXCEPT ![svc[t]] = @ + 1] ELSE events
         /\ UNCHANGED <<container, active, runs, faults>>
<1>1. pc[t] \in Sessions /\ svc[t] \in Services
  BY SectionNotFree DEF Commit, TypeInv, SvcOK
<1>2. view[t] # NoRow /\ view[t] \in Row /\ row[svc[t]] \in Row
  BY <1>1 DEF Commit, TypeInv, TypeOK
<1>3. /\ row' = [row EXCEPT ![svc[t]] = Flush(@, view[t], Change(pc[t], svc[t], view[t]))]
      /\ view' = [view EXCEPT ![t] = NoRow]
      /\ Goto(t, AfterCommit[pc[t]])
  BY DEF Commit
<1>4. pc'[t] = AfterCommit[pc[t]] /\ view'[t] = NoRow /\ Moves(t) /\ (svc'[t] = svc[t] \/ pc'[t] \in Free)
  BY <1>3 DEF Goto, Moves, Free, TypeInv, TypeOK
<1>5. /\ \A s \in Services : s # svc[t] => row'[s] = row[s]
      /\ row'[svc[t]] = Flush(row[svc[t]], view[t], Change(pc[t], svc[t], view[t]))
  BY <1>1, <1>3 DEF TypeInv, TypeOK
<1>6. /\ events' = IF pc[t] = "manual_restart" THEN [events EXCEPT ![svc[t]] = @ + 1] ELSE events
      /\ UNCHANGED <<container, active, runs, faults>>
  BY DEF Commit, historyVars
<1>. QED  BY <1>1, <1>2, <1>4, <1>5, <1>6

LEMMA CountersLoad ==
  ASSUME TypeInv, CountersInv, NEW t \in Threads, Load(t)
  PROVE  CountersInv'
<1>1. /\ UNCHANGED <<row, pc, svc, runs, events, faults>>
      /\ view'[t] = row[svc[t]] /\ \A u \in Threads \ {t} : view'[u] = view[u]
  BY DEF Load, historyVars, TypeInv, TypeOK
<1>2. Begun' = Begun /\ \A L, s : At(L, s)' = At(L, s)
  BY <1>1 DEF Begun, At
<1>3. pc[t] = "count" => svc[t] \in Services
  BY DEF TypeInv, SvcOK, Free
<1>4. UpperInv'
  BY <1>1, <1>2, <1>3 DEF CountersInv, UpperInv
<1>5. EventsInv'
  BY <1>1, <1>2 DEF CountersInv, EventsInv, NoFault
<1>. QED  BY <1>2, <1>4, <1>5 DEF CountersInv

\* The session that counts: it may undo another's count, and still is not too high.
LEMMA CountersCount ==
  ASSUME TypeInv, CountersInv, NEW t \in Threads, Commit(t), pc[t] = "count"
  PROVE  CountersInv'
<1>1. /\ svc[t] \in Services /\ view[t] # NoRow /\ view[t] \in Row /\ row[svc[t]] \in Row
      /\ pc'[t] = "leave_ok" /\ view'[t] = NoRow /\ Moves(t) /\ svc'[t] = svc[t]
      /\ \A s \in Services : s # svc[t] => row'[s] = row[s]
      /\ row'[svc[t]] = Flush(row[svc[t]], view[t], Change("count", svc[t], view[t]))
      /\ UNCHANGED <<events, runs, faults>>
  BY CommitEffect DEF AfterCommit, Free
<1>2. PICK s0 \in Services : s0 = svc[t]
  BY <1>1
<1>3. row'[s0].restarts = view[t].restarts + 1
  BY <1>1, <1>2, FlushRestarts DEF Sessions, SectionSessions
<1>4. Cardinality(At(Counting, s0)') = Cardinality(At(Counting, s0)) - 1
  BY <1>1, <1>2, AtMoves, NotNew DEF CountersInv, Counting
<1>5. \A s \in Services : s # s0 => Cardinality(At(Counting, s)') = Cardinality(At(Counting, s))
  BY <1>1, <1>2, AtMoves, NotNew DEF CountersInv
<1>6. \A s \in Services : Cardinality(At(Recording, s)') = Cardinality(At(Recording, s))
  BY <1>1, AtMoves, NotNew DEF CountersInv, Recording, Counting
<1>7. UpperInv'
  <2>1. ASSUME NEW s \in Services
        PROVE  row'[s].restarts + Cardinality(At(Counting, s)') <= runs[s]
    <3>1. CASE s = s0
      <4>1. view[t].restarts + Cardinality(At(Counting, s0)) <= runs[s0]
        BY <1>1, <1>2 DEF CountersInv, UpperInv
      <4>2. view[t].restarts \in Nat /\ runs[s0] \in Nat /\ Cardinality(At(Counting, s0)) \in Nat
        BY <1>1, CountersTypes
      <4>. QED  BY <1>3, <1>4, <3>1, <4>1, <4>2
    <3>2. CASE s # s0
      BY <1>1, <1>2, <1>5, <3>2 DEF CountersInv, UpperInv
    <3>. QED  BY <3>1, <3>2
  <2>2. ASSUME NEW u \in Threads, pc'[u] = "count", view'[u] # NoRow
        PROVE  view'[u].restarts + Cardinality(At(Counting, svc[u]))' <= runs[svc'[u]]
    <3>1. u # t /\ pc[u] = "count" /\ view[u] # NoRow /\ svc[u] \in Services /\ svc'[u] = svc[u] /\ view'[u] = view[u]
      BY <1>1, <2>2 DEF Moves, TypeInv, SvcOK, Free
    <3>2. PICK s \in Services : s = svc[u]
      BY <3>1
    <3>3. view[u].restarts + Cardinality(At(Counting, s)) <= runs[s] /\ view[u].restarts \in Nat
      BY <3>1, <3>2, CountersTypes DEF CountersInv, UpperInv
    <3>4. /\ Cardinality(At(Counting, s)') = Cardinality(At(Counting, s)) \/ Cardinality(At(Counting, s)') = Cardinality(At(Counting, s)) - 1
          /\ Cardinality(At(Counting, s)) \in Nat /\ runs[s] \in Nat
      BY <1>4, <1>5, CountersTypes
    <3>5. view[u].restarts + Cardinality(At(Counting, s)') <= runs[s]
      BY <3>3, <3>4
    <3>. QED  BY <3>1, <3>2, <3>5
  <2>. QED  BY <1>1, <2>1, <2>2 DEF UpperInv
<1>8. EventsInv'
  BY <1>1, <1>6 DEF CountersInv, EventsInv, NoFault
<1>9. IsFiniteSet(Begun')
  BY <1>1, BegunMoves DEF CountersInv
<1>. QED  BY <1>7, <1>8, <1>9 DEF CountersInv

LEMMA CountersCommit ==
  ASSUME TypeInv, TypeInv', CountersInv, NEW t \in Threads, Commit(t)
  PROVE  CountersInv'
<1>1. /\ pc[t] \in Sessions /\ svc[t] \in Services /\ view[t] \in Row /\ row[svc[t]] \in Row
      /\ pc'[t] = AfterCommit[pc[t]] /\ view'[t] = NoRow /\ Moves(t)
      /\ svc'[t] = svc[t] \/ pc'[t] \in Free
      /\ \A s \in Services : s # svc[t] => row'[s] = row[s]
      /\ row'[svc[t]] = Flush(row[svc[t]], view[t], Change(pc[t], svc[t], view[t]))
      /\ events' = IF pc[t] = "manual_restart" THEN [events EXCEPT ![svc[t]] = @ + 1] ELSE events
      /\ UNCHANGED <<runs, faults>>
  BY CommitEffect
<1>2. pc[t] # "count" => \A s \in Services : row'[s].restarts = row[s].restarts
  BY <1>1, FlushRestarts
<1>3. IsFiniteSet(Begun')
  BY <1>1, BegunMoves DEF CountersInv
<1>4. NoFault({"database", "crash"})' <=> NoFault({"database", "crash"})
  BY <1>1 DEF NoFault
<1>5. CASE pc[t] = "count"
  BY <1>5, CountersCount
<1>6. CASE pc[t] = "manual_restart"
  <2>1. pc'[t] = "done"
    BY <1>1, <1>6 DEF AfterCommit
  <2>2. \A s : /\ Cardinality(At(Counting, s)') = Cardinality(At(Counting, s))
               /\ s # svc[t] => Cardinality(At(Recording, s)') = Cardinality(At(Recording, s))
               /\ s = svc[t] => Cardinality(At(Recording, s)') = Cardinality(At(Recording, s)) - 1
    BY <1>1, <1>6, <2>1, AtMoves, NotNew DEF CountersInv, Counting, Recording
  <2>3. \A s \in Services : events'[s] = IF s = svc[t] THEN events[s] + 1 ELSE events[s]
    BY <1>1, <1>6 DEF TypeInv, TypeOK
  <2>4. \A s \in Services : /\ events[s] \in Nat /\ Cardinality(At(Recording, s)) \in Nat
                            /\ Cardinality(At(Counting, s)) \in Nat /\ row'[s].restarts = row[s].restarts
    BY <1>2, <1>6, CountersTypes
  <2>5. EventsInv'
    BY <1>1, <1>4, <2>2, <2>3, <2>4 DEF CountersInv, EventsInv
  <2>6. UpperInv'
    <3>1. \A u \in Threads : pc'[u] = "count" /\ view'[u] # NoRow =>
            pc[u] = "count" /\ view'[u] = view[u] /\ svc'[u] = svc[u] /\ svc[u] \in Services
      BY <1>1 DEF Moves, TypeInv, SvcOK, Free
    <3>2. \A s \in Services : row'[s].restarts + Cardinality(At(Counting, s)') <= runs'[s]
      BY <1>1, <2>2, <2>4 DEF CountersInv, UpperInv
    <3>3. ASSUME NEW u \in Threads, pc'[u] = "count", view'[u] # NoRow
          PROVE  view'[u].restarts + Cardinality(At(Counting, svc[u]))' <= runs'[svc'[u]]
      <4>1. PICK s \in Services : s = svc[u]
        BY <3>1, <3>3
      <4>2. view[u].restarts + Cardinality(At(Counting, s)) <= runs[s]
        BY <3>1, <3>3, <4>1 DEF CountersInv, UpperInv
      <4>. QED  BY <1>1, <2>2, <3>1, <3>3, <4>1, <4>2
    <3>. QED  BY <3>2, <3>3 DEF UpperInv
  <2>. QED  BY <1>3, <2>5, <2>6 DEF CountersInv
<1>7. CASE pc[t] \notin {"count", "manual_restart"}
  <2>1. /\ pc'[t] \in Counting <=> pc[t] \in Counting
        /\ pc'[t] \in Recording <=> pc[t] \in Recording
        /\ pc'[t] \in Recording => svc'[t] = svc[t]
    BY <1>1, <1>7 DEF AfterCommit, Sessions, SectionSessions, Counting, Recording, Free
  <2>2. \A s : /\ Cardinality(At(Counting, s)') = Cardinality(At(Counting, s))
               /\ Cardinality(At(Recording, s)') = Cardinality(At(Recording, s))
    BY <1>1, <2>1, AtMoves, NotNew DEF CountersInv
  <2>3. \A s \in Services : Cardinality(At(Counting, s)') <= Cardinality(At(Counting, s))
    BY <2>2, CountersTypes
  <2>4. \A u \in Threads : pc'[u] = "count" /\ view'[u] # NoRow =>
          pc[u] = "count" /\ view'[u] = view[u] /\ svc'[u] = svc[u]
    BY <1>1 DEF Moves
  <2>5. events' = events
    BY <1>1, <1>7
  <2>. QED  BY <1>1, <1>2, <1>3, <1>4, <1>7, <2>2, <2>3, <2>4, <2>5, CountersFrame
<1>. QED  BY <1>5, <1>6, <1>7

\* A session that raises is a database error: it may leave a restart uncounted.
LEMMA CountersRaise ==
  ASSUME TypeInv, TypeInv', CountersInv, NEW t \in Threads, Raise(t)
  PROVE  CountersInv'
<1>1. ~ NoFault({"database", "crash"})'
  BY CountTypes DEF Raise, Fault, FaultKinds, NoFault, TypeInv, TypeOK
<1>2. pc'[t] = AfterError[pc[t]] /\ view'[t] = NoRow /\ Moves(t) /\ UNCHANGED <<row, runs>>
  BY DEF Raise, Goto, Moves, historyVars, TypeInv, TypeOK
<1>3. pc'[t] \notin Counting
  BY <1>2 DEF Raise, AfterError, Sessions, SectionSessions, Counting
<1>4. \A s \in Services : Cardinality(At(Counting, s)') <= Cardinality(At(Counting, s))
  <2>1. \A s : Cardinality(At(Counting, s)') = Cardinality(At(Counting, s)) \/ Cardinality(At(Counting, s)') = Cardinality(At(Counting, s)) - 1
    BY <1>2, <1>3, AtMoves, NotNew DEF CountersInv
  <2>. QED  BY <2>1, CountersTypes
<1>5. IsFiniteSet(Begun')
  BY <1>2, BegunMoves DEF CountersInv
<1>6. \A u \in Threads : pc'[u] = "count" /\ view'[u] # NoRow =>
        pc[u] = "count" /\ view'[u] = view[u] /\ svc'[u] = svc[u]
  BY <1>2 DEF Moves
<1>. QED  BY <1>1, <1>2, <1>4, <1>5, <1>6, CountersFrame

LEMMA CountersScheduling ==
  ASSUME TypeInv, TypeInv', CountersInv, Scheduling
  PROVE  CountersInv'
<1>. USE SchedulerThread DEF passVars, historyVars
<1>1. CASE RecordEvent
  <2>1. /\ pc[Scheduler] = "restart_event" /\ pc'[Scheduler] = "post" /\ Moves(Scheduler)
        /\ svc[Scheduler] \in Services
        /\ events' = [events EXCEPT ![svc[Scheduler]] = @ + 1]
        /\ UNCHANGED <<row, view, runs, faults>>
    BY <1>1 DEF RecordEvent, Goto, Moves, TypeInv, TypeOK, SvcOK, Free
  <2>2. \A s : /\ Cardinality(At(Counting, s)') = Cardinality(At(Counting, s))
               /\ s # svc[Scheduler] => Cardinality(At(Recording, s)') = Cardinality(At(Recording, s))
               /\ s = svc[Scheduler] => Cardinality(At(Recording, s)') = Cardinality(At(Recording, s)) - 1
    BY <2>1, AtMoves, NotNew DEF CountersInv, Counting, Recording
  <2>3. \A s \in Services : events'[s] = IF s = svc[Scheduler] THEN events[s] + 1 ELSE events[s]
    BY <2>1 DEF TypeInv, TypeOK
  <2>4. \A s \in Services : /\ events[s] \in Nat /\ runs[s] \in Nat
                            /\ Cardinality(At(Recording, s)) \in Nat
    BY CountersTypes
  <2>5. EventsInv'
    BY <2>1, <2>2, <2>3, <2>4 DEF CountersInv, EventsInv, NoFault
  <2>6. UpperInv'
    <3>1. \A u \in Threads : pc'[u] = "count" => pc[u] = "count" /\ svc'[u] = svc[u] /\ svc[u] \in Services
      BY <2>1 DEF Moves, TypeInv, SvcOK, Free
    <3>2. ASSUME NEW u \in Threads, pc'[u] = "count", view'[u] # NoRow
          PROVE  view'[u].restarts + Cardinality(At(Counting, svc[u]))' <= runs'[svc'[u]]
      <4>1. PICK s \in Services : s = svc[u]
        BY <3>1, <3>2
      <4>2. view[u].restarts + Cardinality(At(Counting, s)) <= runs[s]
        BY <2>1, <3>1, <3>2, <4>1 DEF CountersInv, UpperInv
      <4>. QED  BY <2>1, <2>2, <3>1, <3>2, <4>1, <4>2
    <3>3. \A s \in Services : row'[s].restarts + Cardinality(At(Counting, s)') <= runs'[s]
      BY <2>1, <2>2 DEF CountersInv, UpperInv
    <3>. QED  BY <3>2, <3>3 DEF UpperInv
  <2>7. IsFiniteSet(Begun')
    BY <2>1, BegunMoves DEF CountersInv
  <2>. QED  BY <2>5, <2>6, <2>7 DEF CountersInv
<1>2. CASE RecordEventRaises
  <2>1. ~ NoFault({"database", "crash"})'
    BY <1>2, CountTypes DEF RecordEventRaises, Fault, FaultKinds, NoFault, TypeInv, TypeOK
  <2>2. /\ pc[Scheduler] = "restart_event" /\ pc'[Scheduler] = "handler_failed" /\ Moves(Scheduler)
        /\ UNCHANGED <<row, view, runs>>
    BY <1>2 DEF RecordEventRaises, Goto, Moves, TypeInv, TypeOK
  <2>3. \A s : Cardinality(At(Counting, s)') = Cardinality(At(Counting, s))
    BY <2>2, AtMoves, NotNew DEF CountersInv, Counting
  <2>4. \A s \in Services : Cardinality(At(Counting, s)') <= Cardinality(At(Counting, s))
    BY <2>3, CountersTypes
  <2>5. IsFiniteSet(Begun')
    BY <2>2, BegunMoves DEF CountersInv
  <2>. QED  BY <2>1, <2>2, <2>4, <2>5, CountersFrame DEF Moves
<1>3. CASE ~RecordEvent /\ ~RecordEventRaises
  <2>1. /\ pc[Scheduler] \in {"idle", "collect", "post", "decide"}
        /\ pc'[Scheduler] \in {"collect", "dead", "post", "idle", "guard", "update_health", "decide"}
        /\ Moves(Scheduler)
    BY <1>3 DEF Scheduling, BeginPass, BeginPassRaises, AllRecorded, PassDone, DecideRestart,
                DecideNothing, DecideRaises, RecordResult, HandleResult, Goto, Moves, TypeInv, TypeOK
  <2>2. /\ UNCHANGED <<row, runs, events>>
        /\ faults' = faults \/ Fault("database")
    BY <1>3 DEF Scheduling, BeginPass, BeginPassRaises, AllRecorded, PassDone, DecideRestart,
                DecideNothing, DecideRaises, RecordResult, HandleResult
  <2>3. pc[Scheduler] \notin Recording /\ pc'[Scheduler] \notin Recording /\ "database" \in FaultKinds
    BY <2>1 DEF Recording, Counting, FaultKinds
  <2>. QED  BY <2>1, <2>2, <2>3, CountersQuiet
<1>. QED  BY <1>1, <1>2, <1>3

\* A container a restart runs is one more to count and to record.
LEMMA CountersRun ==
  ASSUME TypeInv, TypeInv', CountersInv, NEW t \in Threads, StartRun(t)
  PROVE  CountersInv'
<1>1. /\ pc[t] = "docker_run" /\ pc'[t] = "mark_running" /\ Moves(t)
      /\ svc'[t] = svc[t] /\ svc[t] \in Services
      /\ runs' = [runs EXCEPT ![svc[t]] = @ + 1]
      /\ UNCHANGED <<row, view, events, faults>>
  BY DEF StartRun, Goto, Moves, TypeInv, TypeOK, SvcOK, Free
<1>2. \A s : /\ s # svc[t] => /\ Cardinality(At(Counting, s)') = Cardinality(At(Counting, s))
                              /\ Cardinality(At(Recording, s)') = Cardinality(At(Recording, s))
             /\ s = svc[t] => /\ Cardinality(At(Counting, s)') = Cardinality(At(Counting, s)) + 1
                              /\ Cardinality(At(Recording, s)') = Cardinality(At(Recording, s)) + 1
  BY <1>1, AtMoves, NotNew DEF CountersInv, Counting, Recording
<1>3. \A s \in Services : runs'[s] = IF s = svc[t] THEN runs[s] + 1 ELSE runs[s]
  BY <1>1 DEF TypeInv, TypeOK
<1>4. \A s \in Services : /\ events[s] \in Nat /\ runs[s] \in Nat /\ row[s].restarts \in Nat
                          /\ Cardinality(At(Recording, s)) \in Nat /\ Cardinality(At(Counting, s)) \in Nat
  BY CountersTypes
<1>5. EventsInv'
  BY <1>1, <1>2, <1>3, <1>4 DEF CountersInv, EventsInv, NoFault
<1>6. UpperInv'
  <2>1. ASSUME NEW u \in Threads, pc'[u] = "count", view'[u] # NoRow
        PROVE  view'[u].restarts + Cardinality(At(Counting, svc[u]))' <= runs'[svc'[u]]
    <3>1. pc[u] = "count" /\ svc'[u] = svc[u] /\ view'[u] = view[u] /\ view[u] # NoRow /\ svc[u] \in Services
      BY <1>1, <2>1 DEF Moves, TypeInv, SvcOK, Free
    <3>2. PICK s \in Services : s = svc[u]
      BY <3>1
    <3>3. view[u].restarts + Cardinality(At(Counting, s)) <= runs[s] /\ view[u].restarts \in Nat
      BY <3>1, <3>2, CountersTypes DEF CountersInv, UpperInv
    <3>4. \/ Cardinality(At(Counting, s)') = Cardinality(At(Counting, s)) /\ runs'[s] = runs[s]
          \/ Cardinality(At(Counting, s)') = Cardinality(At(Counting, s)) + 1 /\ runs'[s] = runs[s] + 1
      BY <1>2, <1>3
    <3>5. view[u].restarts + Cardinality(At(Counting, s)') <= runs'[s]
      BY <1>4, <3>3, <3>4
    <3>. QED  BY <3>1, <3>2, <3>5
  <2>2. \A s \in Services : row'[s].restarts + Cardinality(At(Counting, s)') <= runs'[s]
    BY <1>1, <1>2, <1>3, <1>4 DEF CountersInv, UpperInv
  <2>. QED  BY <2>1, <2>2 DEF UpperInv
<1>7. IsFiniteSet(Begun')
  BY <1>1, BegunMoves DEF CountersInv
<1>. QED  BY <1>5, <1>6, <1>7 DEF CountersInv

LEMMA CountersRestart ==
  ASSUME TypeInv, TypeInv', CountersInv, NEW t \in Threads, Restarting(t)
  PROVE  CountersInv'
<1>. USE SchedulerThread DEF passVars, historyVars
<1>1. CASE StartRun(t)
  BY <1>1, CountersRun
<1>2. CASE LeaveRestart(t) /\ pc[t] = "leave_ok"
  <2>1. /\ pc'[t] \in {"restart_successful", "manual_restart"} /\ Moves(t) /\ svc'[t] = svc[t]
        /\ UNCHANGED <<row, view, runs, events, faults>>
    BY <1>2 DEF LeaveRestart, Goto, Moves, TypeInv, TypeOK
  <2>2. \A s : /\ Cardinality(At(Counting, s)') = Cardinality(At(Counting, s))
               /\ Cardinality(At(Recording, s)') = Cardinality(At(Recording, s))
    BY <1>2, <2>1, AtMoves, NotNew DEF CountersInv, Counting, Recording
  <2>3. \A s \in Services : Cardinality(At(Counting, s)') <= Cardinality(At(Counting, s))
    BY <2>2, CountersTypes
  <2>4. IsFiniteSet(Begun')
    BY <2>1, BegunMoves DEF CountersInv
  <2>5. NoFault({"database", "crash"})' => NoFault({"database", "crash"})
    BY <2>1, FaultsFrame
  <2>. QED  BY <2>1, <2>2, <2>3, <2>4, <2>5, CountersFrame DEF Moves
<1>3. CASE LeaveRestart(t) /\ pc[t] # "leave_ok"
  <2>1. /\ pc[t] \in {"leave_failed", "leave_raised"} /\ pc'[t] \in {"post", "handler_failed", "done"}
        /\ Moves(t) /\ UNCHANGED <<row, runs, events, faults>>
    BY <1>3 DEF LeaveRestart, Goto, Moves, TypeInv, TypeOK
  <2>. QED  BY <2>1, CountersQuiet DEF Recording, Counting
<1>4. CASE RestartRefused(t) \/ EnterRestart(t) \/ RestartBusy(t)
  <2>1. /\ pc[t] = "guard" /\ pc'[t] \in {"post", "done", "mark_restarting"}
        /\ Moves(t) /\ UNCHANGED <<row, runs, events, faults>>
    BY <1>4 DEF RestartRefused, EnterRestart, RestartBusy, Home, Goto, Moves, TypeInv, TypeOK
  <2>. QED  BY <2>1, CountersQuiet DEF Recording, Counting
<1>5. CASE RestartStop(t) \/ RestartRemove(t) \/ StartRemove(t) \/ StartConflict(t) \/ StartFails(t)
  <2>1. /\ pc[t] \in {"docker_stop", "docker_rm", "start_rm", "docker_run"}
        /\ pc'[t] \in {"docker_rm", "start_rm", "docker_run", "restart_failed"}
        /\ Moves(t)
    BY <1>5 DEF RestartStop, RestartRemove, StartRemove, StartConflict, StartFails, Docker, DockerFails,
                Goto, Moves, TypeInv, TypeOK
  <2>2. /\ UNCHANGED <<row, runs, events>>
        /\ faults' = faults \/ Fault("docker")
    BY <1>5 DEF RestartStop, RestartRemove, StartRemove, StartConflict, StartFails, Docker, DockerFails
  <2>3. pc[t] \notin Recording /\ pc'[t] \notin Recording /\ "docker" \in FaultKinds
    BY <2>1 DEF Recording, Counting, FaultKinds
  <2>. QED  BY <2>1, <2>2, <2>3, CountersQuiet
<1>. QED  BY <1>1, <1>2, <1>3, <1>4, <1>5 DEF Restarting

LEMMA CountersElsewhere ==
  ASSUME TypeInv, TypeInv', CountersInv,
         \/ \E t \in Threads : StopContainer(t) \/ StopRemove(t)
         \/ \E t \in Requests, s \in Services : BeginRequest(t, s)
         \/ \E s \in Services : Checking(s) \/ Die(s)
  PROVE  CountersInv'
<1>. USE SchedulerThread DEF passVars, historyVars
<1>1. ASSUME NEW t \in Threads, StopContainer(t) \/ StopRemove(t)
      PROVE  CountersInv'
  <2>1. /\ pc[t] \in {"stop_container", "stop_rm"} /\ pc'[t] \in {"stop_rm", "mark_stopped", "done"}
        /\ Moves(t)
    BY <1>1 DEF StopContainer, StopRemove, Docker, DockerFails, Goto, Moves, TypeInv, TypeOK
  <2>2. /\ UNCHANGED <<row, runs, events>>
        /\ faults' = faults \/ Fault("docker")
    BY <1>1 DEF StopContainer, StopRemove, Docker, DockerFails
  <2>3. pc[t] \notin Recording /\ pc'[t] \notin Recording /\ "docker" \in FaultKinds
    BY <2>1 DEF Recording, Counting, FaultKinds
  <2>. QED  BY <2>1, <2>2, <2>3, CountersQuiet
<1>2. ASSUME NEW t \in Requests, NEW s \in Services, BeginRequest(t, s)
      PROVE  CountersInv'
  <2>1. /\ t \in Threads /\ pc[t] = "new" /\ pc'[t] \in {"guard", "stop_container"}
        /\ Moves(t) /\ UNCHANGED <<row, runs, events, faults>>
    BY <1>2 DEF BeginRequest, Threads, Moves, TypeInv, TypeOK
  <2>. QED  BY <2>1, CountersQuiet DEF Recording, Counting
<1>3. ASSUME NEW s \in Services, Checking(s) \/ Die(s)
      PROVE  CountersInv'
  <2>1. /\ UNCHANGED <<pc, svc, view, row, runs, events>>
        /\ faults' = faults \/ Fault("service")
    BY <1>3 DEF Checking, CheckPasses, CheckFails, Die
  <2>2. Begun' = Begun /\ \A L, q : At(L, q)' = At(L, q)
    BY <2>1 DEF Begun, At
  <2>3. \A q \in Services : Cardinality(At(Counting, q)') <= Cardinality(At(Counting, q))
    BY <2>2, CountersTypes
  <2>4. NoFault({"database", "crash"})' => NoFault({"database", "crash"})
    BY <2>1, FaultsFrame DEF FaultKinds
  <2>. QED  BY <2>1, <2>2, <2>3, <2>4, CountersFrame DEF CountersInv
<1>. QED  BY <1>1, <1>2, <1>3

\* A process that is killed leaves what its restarts have run uncounted.
LEMMA CountersCrash ==
  ASSUME TypeInv, TypeInv', CountersInv, NEW p \in Processes, Crash(p)
  PROVE  CountersInv'
<1>1. ~ NoFault({"database", "crash"})'
  BY CountTypes DEF Crash, Fault, FaultKinds, NoFault, TypeInv, TypeOK
<1>2. /\ row' = row /\ runs' = runs
      /\ \A u \in Threads : \/ pc'[u] = pc[u] /\ svc'[u] = svc[u] /\ view'[u] = view[u]
                            \/ pc[u] # "new" /\ pc'[u] \in {"idle", "done"}
  BY DEF Crash
<1>3. Begun' \in SUBSET Begun
  BY <1>2 DEF Begun
<1>4. IsFiniteSet(Begun')
  BY <1>3, FS_Subset DEF CountersInv
<1>5. \A s \in Services : Cardinality(At(Counting, s)') <= Cardinality(At(Counting, s))
  <2>. SUFFICES ASSUME NEW s \in Services
                PROVE  Cardinality(At(Counting, s)') <= Cardinality(At(Counting, s))
    OBVIOUS
  <2>1. At(Counting, s)' \in SUBSET At(Counting, s)
    BY <1>2 DEF At, Counting
  <2>. QED  BY <2>1, AtFinite, NotNew, FS_Subset DEF CountersInv
<1>. QED  BY <1>1, <1>2, <1>4, <1>5, CountersFrame

LEMMA CountersNext == TypeInv /\ CountersInv /\ [Next]_vars => CountersInv'
<1>. SUFFICES ASSUME TypeInv, CountersInv, [Next]_vars PROVE CountersInv'  OBVIOUS
<1>0. TypeInv'  BY TypeNext
<1>1. CASE UNCHANGED vars
  <2>1. UNCHANGED <<row, runs, events, pc, svc, view, faults>>  BY <1>1 DEF vars
  <2>2. Begun' = Begun /\ \A L, s : At(L, s)' = At(L, s)  BY <2>1 DEF Begun, At
  <2>. QED  BY <2>1, <2>2 DEF CountersInv, UpperInv, EventsInv, NoFault
<1>2. ASSUME NEW t \in Threads, Working(t)
      PROVE  CountersInv'
  <2>1. CASE Load(t)  BY <2>1, CountersLoad
  <2>2. CASE Commit(t)  BY <1>0, <2>2, CountersCommit
  <2>3. CASE Raise(t)  BY <1>0, <2>3, CountersRaise
  <2>4. CASE Restarting(t)  BY <1>0, <2>4, CountersRestart
  <2>5. CASE StopContainer(t) \/ StopRemove(t)  BY <1>0, <2>5, CountersElsewhere
  <2>. QED  BY <1>2, <2>1, <2>2, <2>3, <2>4, <2>5 DEF Working
<1>. QED  BY <1>0, <1>1, <1>2, CountersScheduling, CountersElsewhere, CountersCrash DEF Next

LEMMA CountersInvariant == Spec => [](TypeInv /\ CountersInv)
BY TypeInit, TypeNext, CountersInit, CountersNext, PTL DEF Spec

\* restart_count never exceeds the containers run by restarts, whatever fails, dies or is
\* killed, and with any number of processes: a count may be lost, but none is made up.
THEOREM CountNeverOver == Spec => []RestartCountNeverOver
<1>1. TypeInv /\ CountersInv => RestartCountNeverOver
  <2>. SUFFICES ASSUME TypeInv, CountersInv, NEW s \in Services
                PROVE  row[s].restarts <= runs[s]
    BY DEF RestartCountNeverOver
  <2>1. row[s].restarts + Cardinality(At(Counting, s)) <= runs[s]  BY DEF CountersInv, UpperInv
  <2>. QED  BY <2>1, CountersTypes
<1>. QED  BY <1>1, CountersInvariant, PTL

(***************************************************************************)
(* restart_count.  In one process the guard makes the session that counts  *)
(* atomic: nobody else changes that column between its load and its        *)
(* commit, and no other restart of the service waits to be counted.        *)
(***************************************************************************)
SingleProcess == \A t, u \in Threads : ProcessOf[t] = ProcessOf[u]

Waiting(t, s) == pc[t] \in {"mark_running", "count"} /\ svc[t] = s

Debt(s) == IF Uncounted(s) THEN 1 ELSE 0

CountedOrWaiting(s) ==
  NoFault({"database", "crash"}) => row[s].restarts + Debt(s) = runs[s]

CountViewsFresh ==
  \A t \in Threads : pc[t] = "count" /\ view[t] # NoRow => view[t].restarts = row[svc[t]].restarts

CountInv == CountViewsFresh /\ \A s \in Services : CountedOrWaiting(s)

LEMMA CountInit == Init => CountInv
<1>. SUFFICES ASSUME Init PROVE CountInv  OBVIOUS
<1>1. \A s \in Services : row[s].restarts = 0 /\ runs[s] = 0  BY DEF Init
<1>2. \A s \in Services : ~ Uncounted(s)  BY DEF Init, Uncounted
<1>3. CountViewsFresh  BY DEF Init, CountViewsFresh
<1>. QED  BY <1>1, <1>2, <1>3 DEF CountInv, CountedOrWaiting, Debt

\* Steps that neither run, nor count, nor load for the counter.
LEMMA CountFrame ==
  ASSUME TypeInv, TypeInv', CountInv, runs' = runs,
         \A s \in Services : row'[s].restarts = row[s].restarts,
         \A t \in Threads : pc'[t] = "count" /\ view'[t] # NoRow =>
            pc[t] = "count" /\ view'[t] = view[t] /\ svc'[t] = svc[t],
         \A t \in Threads, s \in Services : Waiting(t, s)' => Waiting(t, s),
         \/ ~ NoFault({"database", "crash"})'
         \/ /\ \A t \in Threads, s \in Services : Waiting(t, s) => Waiting(t, s)'
            /\ NoFault({"database", "crash"})' => NoFault({"database", "crash"})
  PROVE  CountInv'
<1>1. CountViewsFresh'
  <2>. SUFFICES ASSUME NEW t \in Threads, pc'[t] = "count", view'[t] # NoRow
                PROVE  view'[t].restarts = row'[svc'[t]].restarts
    BY DEF CountViewsFresh
  <2>1. svc'[t] \in Services  BY DEF TypeInv, SvcOK, Free
  <2>. QED  BY <2>1 DEF CountInv, CountViewsFresh
<1>2. ASSUME NEW s \in Services
      PROVE  CountedOrWaiting(s)'
  <2>1. Uncounted(s)' => Uncounted(s)  BY DEF Uncounted, Waiting
  <2>2. \/ ~ NoFault({"database", "crash"})'
        \/ /\ Uncounted(s) => Uncounted(s)'
           /\ NoFault({"database", "crash"})' => NoFault({"database", "crash"})
    BY DEF Uncounted, Waiting
  <2>3. row[s].restarts \in Nat /\ runs[s] \in Nat  BY CountTypes
  <2>4. row'[s].restarts = row[s].restarts /\ runs'[s] = runs[s]  OBVIOUS
  <2>5. CountedOrWaiting(s)  BY DEF CountInv
  <2>. QED  BY <2>1, <2>2, <2>3, <2>4, <2>5 DEF CountedOrWaiting, Debt
<1>. QED  BY <1>1, <1>2 DEF CountInv

LEMMA CountGoto ==
  ASSUME TypeInv, TypeInv', CountInv, NEW t \in Threads, NEW label, Goto(t, label),
         label # "count", label # "mark_running", pc[t] \notin {"count", "mark_running"},
         UNCHANGED <<row, view, runs>>,
         NoFault({"database", "crash"})' => NoFault({"database", "crash"})
  PROVE  CountInv'
<1>1. \A u \in Threads : /\ u # t => pc'[u] = pc[u] /\ svc'[u] = svc[u]
                         /\ pc'[t] = label
  BY DEF Goto, TypeInv, TypeOK
<1>2. \A u \in Threads, s \in Services : Waiting(u, s)' <=> Waiting(u, s)
  BY <1>1 DEF Waiting
<1>. QED  BY <1>1, <1>2, CountFrame

LEMMA CountLoad ==
  ASSUME TypeInv, CountInv, NEW t \in Threads, Load(t)
  PROVE  CountInv'
<1>1. CountViewsFresh'
  BY DEF Load, CountInv, CountViewsFresh, TypeInv, TypeOK
<1>2. \A s \in Services : CountedOrWaiting(s)'
  BY DEF Load, historyVars, CountInv, CountedOrWaiting, Debt, Uncounted, NoFault
<1>. QED  BY <1>1, <1>2 DEF CountInv

\* In one process a thread in a section is alone in it with its service.
LEMMA Alone ==
  ASSUME SingleProcess, GuardInv, NEW t \in Threads, InSection(t),
         NEW u \in Threads, u # t, InSection(u)
  PROVE  svc[u] # svc[t]
BY DEF SingleProcess, GuardInv, OneRestartPerProcess

LEMMA CountCommit ==
  ASSUME SingleProcess, TypeInv, TypeInv', GuardInv, CountInv, NEW t \in Threads, Commit(t)
  PROVE  CountInv'
<1>. DEFINE next == AfterCommit[pc[t]]
<1>0. pc[t] \in Sessions /\ svc[t] \in Services
  BY SectionNotFree DEF Commit, TypeInv, SvcOK
<1>. PICK s0 \in Services : s0 = svc[t]  BY <1>0
<1>1. /\ pc[t] \in Sessions /\ view[t] # NoRow /\ view[t] \in Row
      /\ row[s0] \in Row
  BY <1>0 DEF Commit, TypeInv, TypeOK
<1>2. /\ row' = [row EXCEPT ![s0] = Flush(row[s0], view[t], Change(pc[t], s0, view[t]))]
      /\ view' = [view EXCEPT ![t] = NoRow]
      /\ Goto(t, next) /\ runs' = runs /\ faults' = faults
  BY DEF Commit, historyVars
<1>3. /\ pc'[t] = next /\ view'[t] = NoRow
      /\ \A u \in Threads : u # t => pc'[u] = pc[u] /\ svc'[u] = svc[u] /\ view'[u] = view[u]
  BY <1>2 DEF Goto, TypeInv, TypeOK
<1>4. \A s \in Services : s # s0 => row'[s] = row[s]
  BY <1>2 DEF TypeInv, TypeOK
<1>5. row'[s0] = Flush(row[s0], view[t], Change(pc[t], s0, view[t]))
  BY <1>1, <1>2 DEF TypeInv, TypeOK
<1>6. NoFault({"database", "crash"})' => NoFault({"database", "crash"})
  BY <1>2 DEF NoFault
<1>. HIDE DEF next
<1>7. CASE pc[t] = "count"
  <2>1. next = "leave_ok"  BY <1>7 DEF next, AfterCommit
  <2>2. view[t].restarts = row[s0].restarts
    BY <1>1, <1>7 DEF CountInv, CountViewsFresh
  <2>3. row'[s0].restarts = row[s0].restarts + 1
    BY <1>1, <1>5, <1>7, <2>2, FlushRestarts
  <2>4. \A u \in Threads : u # t /\ pc[u] \in {"mark_running", "count"} => svc[u] # s0
    BY <1>7, Alone DEF InSection, Section, SectionSessions
  <2>5. Uncounted(s0) /\ ~ Uncounted(s0)'
    BY <1>3, <1>7, <2>1, <2>4 DEF Uncounted
  <2>6. ASSUME NEW s \in Services, s # s0
        PROVE  CountedOrWaiting(s)'
    <3>1. Uncounted(s)' <=> Uncounted(s)
      BY <1>3, <1>7, <2>1, <2>6 DEF Uncounted
    <3>2. row'[s] = row[s] /\ runs'[s] = runs[s]  BY <1>2, <1>4, <2>6
    <3>. QED  BY <1>6, <3>1, <3>2 DEF CountInv, CountedOrWaiting, Debt
  <2>7. CountedOrWaiting(s0)'
    <3>1. row[s0].restarts \in Nat /\ runs[s0] \in Nat  BY <1>1, CountTypes
    <3>2. CountedOrWaiting(s0)  BY <1>1 DEF CountInv
    <3>3. runs'[s0] = runs[s0]  BY <1>2
    <3>. QED  BY <1>6, <2>3, <2>5, <3>1, <3>2, <3>3 DEF CountedOrWaiting, Debt
  <2>8. CountViewsFresh'
    <3>. SUFFICES ASSUME NEW u \in Threads, pc'[u] = "count", view'[u] # NoRow
                  PROVE  view'[u].restarts = row'[svc'[u]].restarts
      BY DEF CountViewsFresh
    <3>1. u # t /\ pc[u] = "count" /\ view[u] # NoRow  BY <1>3
    <3>2. svc[u] # s0 /\ svc[u] \in Services
      BY <2>4, <3>1 DEF TypeInv, SvcOK, Free
    <3>. QED  BY <1>3, <1>4, <3>1, <3>2 DEF CountInv, CountViewsFresh
  <2>. QED  BY <2>6, <2>7, <2>8 DEF CountInv
<1>8. CASE pc[t] # "count"
  <2>1. \A s \in Services : row'[s].restarts = row[s].restarts
    <3>1. row'[s0].restarts = row[s0].restarts  BY <1>1, <1>5, <1>8, FlushRestarts
    <3>. QED  BY <1>4, <3>1
  <2>2. (pc[t] = "mark_running" /\ next = "count") \/
        (pc[t] # "mark_running" /\ next \notin {"mark_running", "count"})
    BY <1>1, <1>8 DEF next, AfterCommit, Sessions, SectionSessions
  <2>3. next = "count" => svc'[t] = svc[t]
    BY <1>2 DEF Goto
  <2>4. \A u \in Threads, s \in Services : Waiting(u, s)' <=> Waiting(u, s)
    BY <1>3, <1>8, <2>2, <2>3 DEF Waiting
  <2>5. \A u \in Threads : pc'[u] = "count" /\ view'[u] # NoRow =>
           pc[u] = "count" /\ view'[u] = view[u] /\ svc'[u] = svc[u]
    BY <1>3
  <2>. QED  BY <1>2, <1>6, <2>1, <2>4, <2>5, CountFrame
<1>. QED  BY <1>7, <1>8

LEMMA CountRaise ==
  ASSUME TypeInv, TypeInv', CountInv, NEW t \in Threads, Raise(t)
  PROVE  CountInv'
<1>1. ~ NoFault({"database", "crash"})'
  BY CountTypes DEF Raise, Fault, FaultKinds, NoFault, TypeInv, TypeOK
<1>2. /\ pc'[t] = AfterError[pc[t]] /\ view'[t] = NoRow /\ row' = row /\ runs' = runs
      /\ \A u \in Threads : u # t => pc'[u] = pc[u] /\ svc'[u] = svc[u] /\ view'[u] = view[u]
  BY DEF Raise, Goto, historyVars, TypeInv, TypeOK
<1>3. AfterError[pc[t]] \notin {"mark_running", "count"}
  BY DEF Raise, AfterError, Sessions, SectionSessions
<1>4. \A u \in Threads, s \in Services : Waiting(u, s)' => Waiting(u, s)
  BY <1>2, <1>3 DEF Waiting
<1>5. \A u \in Threads : pc'[u] = "count" /\ view'[u] # NoRow =>
         pc[u] = "count" /\ view'[u] = view[u] /\ svc'[u] = svc[u]
  BY <1>2
<1>. QED  BY <1>1, <1>2, <1>4, <1>5, CountFrame

LEMMA CountRun ==
  ASSUME SingleProcess, TypeInv, TypeInv', GuardInv, CountInv, NEW t \in Threads, StartRun(t)
  PROVE  CountInv'
<1>1. pc[t] = "docker_run" /\ svc[t] \in Services
  BY DEF StartRun, TypeInv, SvcOK, Free
<1>. PICK s0 \in Services : s0 = svc[t]  BY <1>1
<1>2. /\ pc'[t] = "mark_running" /\ svc' = svc
      /\ \A u \in Threads : u # t => pc'[u] = pc[u]
      /\ runs'[s0] = runs[s0] + 1
      /\ \A s \in Services : s # s0 => runs'[s] = runs[s]
      /\ UNCHANGED <<row, view, faults>>
  BY <1>1 DEF StartRun, Goto, TypeInv, TypeOK
<1>3. \A u \in Threads : u # t /\ pc[u] \in {"mark_running", "count"} => svc[u] # s0
  BY <1>1, Alone DEF InSection, Section, SectionSessions
<1>4. ~ Uncounted(s0) /\ Uncounted(s0)'
  BY <1>1, <1>2, <1>3 DEF Uncounted
<1>5. CountedOrWaiting(s0)'
  <2>1. row[s0].restarts \in Nat /\ runs[s0] \in Nat  BY <1>1, CountTypes
  <2>2. CountedOrWaiting(s0)  BY <1>1 DEF CountInv
  <2>. QED  BY <1>2, <1>4, <2>1, <2>2 DEF CountedOrWaiting, Debt, NoFault
<1>6. ASSUME NEW s \in Services, s # s0
      PROVE  CountedOrWaiting(s)'
  <2>1. Uncounted(s)' <=> Uncounted(s)  BY <1>1, <1>2, <1>6 DEF Uncounted
  <2>. QED  BY <1>2, <1>6, <2>1 DEF CountInv, CountedOrWaiting, Debt, NoFault
<1>7. CountViewsFresh'
  BY <1>1, <1>2 DEF CountInv, CountViewsFresh
<1>. QED  BY <1>5, <1>6, <1>7 DEF CountInv

LEMMA CountRestart ==
  ASSUME SingleProcess, TypeInv, TypeInv', GuardInv, CountInv, NEW t \in Threads, Restarting(t)
  PROVE  CountInv'
<1>. USE DEF passVars, historyVars
<1>1. CASE StartRun(t)
  BY <1>1, CountRun
<1>2. CASE RestartRefused(t) \/ EnterRestart(t) \/ RestartBusy(t) \/ LeaveRestart(t)
  <2>. PICK label \in {"post", "done", "mark_restarting", "restart_successful", "handler_failed",
                       "manual_restart"} : Goto(t, label)
    BY <1>2 DEF RestartRefused, EnterRestart, RestartBusy, LeaveRestart, Home
  <2>1. pc[t] \notin {"count", "mark_running"} /\ UNCHANGED <<row, view, runs, faults>>
    BY <1>2 DEF RestartRefused, EnterRestart, RestartBusy, LeaveRestart
  <2>. QED  BY <2>1, FaultsFrame, CountGoto
<1>3. CASE RestartStop(t) \/ RestartRemove(t) \/ StartRemove(t) \/ StartConflict(t) \/ StartFails(t)
  <2>. PICK label \in {"docker_rm", "start_rm", "docker_run", "restart_failed"} : Goto(t, label)
    BY <1>3 DEF RestartStop, RestartRemove, StartRemove, StartConflict, StartFails, Docker, DockerFails
  <2>1. /\ pc[t] \notin {"count", "mark_running"} /\ UNCHANGED <<row, view, runs>>
        /\ faults' = faults \/ Fault("docker")
    BY <1>3 DEF RestartStop, RestartRemove, StartRemove, StartConflict, StartFails, Docker, DockerFails
  <2>2. "docker" \in FaultKinds  BY DEF FaultKinds
  <2>. QED  BY <2>1, <2>2, FaultsFrame, CountGoto
<1>. QED  BY <1>1, <1>2, <1>3 DEF Restarting

LEMMA CountElsewhere ==
  ASSUME TypeInv, TypeInv', CountInv,
         \/ Scheduling
         \/ \E t \in Threads : StopContainer(t) \/ StopRemove(t)
         \/ \E t \in Requests, s \in Services : BeginRequest(t, s)
         \/ \E s \in Services : Checking(s) \/ Die(s)
  PROVE  CountInv'
<1>. USE SchedulerThread DEF passVars, historyVars
<1>1. CASE Scheduling
  <2>1. ASSUME NEW s \in Services, RecordResult(s) \/ HandleResult(s)
        PROVE  CountInv'
    <3>1. /\ pc[Scheduler] \in {"collect", "post"}
          /\ pc'[Scheduler] \in {"update_health", "decide", "post"}
          /\ \A u \in Threads : u # Scheduler => pc'[u] = pc[u] /\ svc'[u] = svc[u]
          /\ UNCHANGED <<row, view, runs, faults>>
      BY <2>1 DEF RecordResult, HandleResult, TypeInv, TypeOK
    <3>2. \A u \in Threads, q \in Services : Waiting(u, q)' <=> Waiting(u, q)
      BY <3>1 DEF Waiting
    <3>3. \A u \in Threads : pc'[u] = "count" => pc[u] = "count" /\ svc'[u] = svc[u]
      BY <3>1
    <3>. QED  BY <3>1, <3>2, <3>3, FaultsFrame, CountFrame
  <2>2. CASE ~ \E s \in Services : RecordResult(s) \/ HandleResult(s)
    <3>. PICK label \in {"collect", "dead", "post", "idle", "guard", "handler_failed"} :
           Goto(Scheduler, label)
      BY <1>1, <2>2
         DEF Scheduling, BeginPass, BeginPassRaises, AllRecorded, PassDone, DecideRestart,
             DecideNothing, DecideRaises, RecordEvent, RecordEventRaises
    <3>1. /\ pc[Scheduler] \in {"idle", "collect", "post", "decide", "restart_event"}
          /\ UNCHANGED <<row, view, runs>>
          /\ faults' = faults \/ Fault("database")
      BY <1>1, <2>2
         DEF Scheduling, BeginPass, BeginPassRaises, AllRecorded, PassDone, DecideRestart,
             DecideNothing, DecideRaises, RecordEvent, RecordEventRaises
    <3>2. "database" \in FaultKinds  BY DEF FaultKinds
    <3>. QED  BY <3>1, <3>2, FaultsFrame, CountGoto
  <2>. QED  BY <2>1, <2>2
<1>2. ASSUME NEW t \in Threads, StopContainer(t) \/ StopRemove(t)
      PROVE  CountInv'
  <2>. PICK label \in {"stop_rm", "mark_stopped", "done"} : Goto(t, label)
    BY <1>2 DEF StopContainer, StopRemove, Docker, DockerFails
  <2>1. /\ pc[t] \in {"stop_container", "stop_rm"} /\ UNCHANGED <<row, view, runs>>
        /\ faults' = faults \/ Fault("docker")
    BY <1>2 DEF StopContainer, StopRemove, Docker, DockerFails
  <2>2. "docker" \in FaultKinds  BY DEF FaultKinds
  <2>. QED  BY <2>1, <2>2, FaultsFrame, CountGoto
<1>3. ASSUME NEW t \in Requests, NEW s \in Services, BeginRequest(t, s)
      PROVE  CountInv'
  <2>1. /\ t \in Threads /\ pc[t] = "new" /\ pc'[t] \in {"guard", "stop_container"}
        /\ \A u \in Threads : u # t => pc'[u] = pc[u] /\ svc'[u] = svc[u]
        /\ UNCHANGED <<row, view, runs, faults>>
    BY <1>3 DEF BeginRequest, Threads, TypeInv, TypeOK
  <2>2. \A u \in Threads, q \in Services : Waiting(u, q)' <=> Waiting(u, q)
    BY <2>1 DEF Waiting
  <2>3. \A u \in Threads : pc'[u] = "count" => pc[u] = "count" /\ svc'[u] = svc[u]
    BY <2>1
  <2>. QED  BY <2>1, <2>2, <2>3, FaultsFrame, CountFrame
<1>4. ASSUME NEW s \in Services, Checking(s) \/ Die(s)
      PROVE  CountInv'
  <2>1. /\ UNCHANGED <<pc, svc, row, view, runs>>
        /\ faults' = faults \/ Fault("service")
    BY <1>4 DEF Checking, CheckPasses, CheckFails, Die
  <2>2. "service" \in FaultKinds  BY DEF FaultKinds
  <2>3. \A u \in Threads, q \in Services : Waiting(u, q)' <=> Waiting(u, q)
    BY <2>1 DEF Waiting
  <2>. QED  BY <2>1, <2>2, <2>3, FaultsFrame, CountFrame
<1>. QED  BY <1>1, <1>2, <1>3, <1>4

LEMMA CountCrash ==
  ASSUME TypeInv, TypeInv', CountInv, NEW p \in Processes, Crash(p)
  PROVE  CountInv'
<1>1. ~ NoFault({"database", "crash"})'
  BY CountTypes DEF Crash, Fault, FaultKinds, NoFault, TypeInv, TypeOK
<1>2. /\ row' = row /\ runs' = runs
      /\ \A u \in Threads : \/ pc'[u] = pc[u] /\ svc'[u] = svc[u] /\ view'[u] = view[u]
                            \/ pc'[u] \in {"idle", "done"}
  BY DEF Crash
<1>3. \A u \in Threads, s \in Services : Waiting(u, s)' => Waiting(u, s)
  BY <1>2 DEF Waiting
<1>. QED  BY <1>1, <1>2, <1>3, CountFrame

LEMMA CountNext ==
  ASSUME SingleProcess
  PROVE  TypeInv /\ GuardInv /\ CountInv /\ [Next]_vars => CountInv'
<1>. SUFFICES ASSUME TypeInv, GuardInv, CountInv, [Next]_vars PROVE CountInv'  OBVIOUS
<1>0. TypeInv'  BY TypeNext
<1>1. CASE UNCHANGED vars
  <2>1. UNCHANGED <<row, runs, pc, svc, view, faults>>  BY <1>1 DEF vars
  <2>2. \A u \in Threads, s \in Services : Waiting(u, s)' <=> Waiting(u, s)  BY <2>1 DEF Waiting
  <2>. QED  BY <1>0, <2>1, <2>2, FaultsFrame, CountFrame
<1>2. ASSUME NEW t \in Threads, Working(t)
      PROVE  CountInv'
  <2>1. CASE Load(t)  BY <2>1, CountLoad
  <2>2. CASE Commit(t)  BY <1>0, <2>2, CountCommit
  <2>3. CASE Raise(t)  BY <1>0, <2>3, CountRaise
  <2>4. CASE Restarting(t)  BY <1>0, <2>4, CountRestart
  <2>5. CASE StopContainer(t) \/ StopRemove(t)  BY <1>0, <2>5, CountElsewhere
  <2>. QED  BY <1>2, <2>1, <2>2, <2>3, <2>4, <2>5 DEF Working
<1>. QED  BY <1>0, <1>1, <1>2, CountElsewhere, CountCrash DEF Next

LEMMA CountInvariant ==
  ASSUME SingleProcess
  PROVE  Spec => [](TypeInv /\ CountInv)
<1>1. Init => TypeInv /\ GuardInv /\ CountInv  BY TypeInit, GuardInit, CountInit
<1>2. TypeInv /\ GuardInv /\ CountInv /\ [Next]_vars => (TypeInv /\ GuardInv /\ CountInv)'
  BY TypeNext, GuardNext, CountNext
<1>. QED  BY <1>1, <1>2, PTL DEF Spec

\* In one process restart_count loses no restart, however sessions on the row
\* interleave, until a session fails or a process is killed.
THEOREM CountExact ==
  ASSUME SingleProcess
  PROVE  Spec => []RestartCountExact
<1>1. CountInv => RestartCountExact
  BY DEF CountInv, CountedOrWaiting, Debt, RestartCountExact
<1>. QED  BY <1>1, CountInvariant, PTL

\* With every thread of the process at rest, the row and the RestartEvent table tell of
\* the same restarts, though the orchestrator counts and its callers record, until a
\* session fails or the process is killed.
THEOREM EventsMatch ==
  ASSUME SingleProcess
  PROVE  Spec => []EventsMatchCount
<1>1. CountersInv /\ CountInv /\ TypeInv => EventsMatchCount
  <2>. SUFFICES ASSUME CountersInv, CountInv, TypeInv, NoFault({"database", "crash"}),
                       \A t \in Threads : Resting(t), NEW s \in Services
                PROVE  events[s] = row[s].restarts
    BY DEF EventsMatchCount
  <2>1. At(Recording, s) = {} /\ ~Uncounted(s)
    BY DEF Resting, At, Recording, Counting, Uncounted
  <2>2. runs[s] = events[s] + Cardinality(At(Recording, s))
    BY DEF CountersInv, EventsInv
  <2>3. row[s].restarts = runs[s]
    BY <2>1, CountersTypes DEF CountInv, CountedOrWaiting, Debt
  <2>. QED  BY <2>1, <2>2, <2>3, CountersTypes, FS_EmptySet
<1>. QED  BY <1>1, CountInvariant, CountersInvariant, PTL

(***************************************************************************)
(* "restarting".  A row says so from the session that marks it to the one  *)
(* that marks the restart done or failed, or repairs the row.  One fault   *)
(* leads from the first of these to the next; what must be excluded is     *)
(* that a restart fails, or has its row to repair, with no fault spent.    *)
(***************************************************************************)
\* The restart of t has yet to repair the row of its service, and will.
Repairing(t) ==
  \/ pc[t] \in {"docker_stop", "docker_rm", "start_rm", "docker_run"}
  \/ /\ pc[t] \in {"mark_running", "restart_failed", "unwedge"}
     /\ view[t] # NoRow => view[t].health = "restarting"

Fixing == {"docker_stop", "docker_rm", "start_rm", "docker_run",
           "mark_running", "restart_failed", "unwedge"}

Tolerated == faults["docker"] + faults["database"] <= 1 /\ faults["crash"] = 0

SessionViews == \A t \in Threads : view[t] # NoRow => pc[t] \in Sessions

FailedByFault ==
  \A t \in Threads : pc[t] \in {"restart_failed", "unwedge"} => faults["docker"] + faults["database"] >= 1

RunsOnFreeName ==
  \A t \in Threads : pc[t] = "docker_run" /\ container[svc[t]] # "absent" => faults["docker"] >= 1

Repaired ==
  \A s \in Services : Tolerated /\ row[s].health = "restarting" =>
    \E t \in Threads : svc[t] = s /\ Repairing(t)

RepairInv == SessionViews /\ FailedByFault /\ RunsOnFreeName /\ Repaired

LEMMA RepairInit == Init => RepairInv
<1>. SUFFICES ASSUME Init PROVE RepairInv  OBVIOUS
<1>1. \A t \in Threads : view[t] = NoRow /\ pc[t] \in {"idle", "new"}
  BY DEF Init
<1>2. \A s \in Services : row[s].health # "restarting"
  BY DEF Init
<1>. QED  BY <1>1, <1>2 DEF RepairInv, SessionViews, FailedByFault, RunsOnFreeName, Repaired

LEMMA FaultsGrow ==
  ASSUME TypeInv, faults' = faults \/ \E k \in FaultKinds : Fault(k)
  PROVE  \A k \in FaultKinds : faults[k] \in Nat /\ faults'[k] \in Nat /\ faults[k] <= faults'[k]
<1>1. \A k \in FaultKinds : faults[k] \in Nat  BY CountTypes
<1>. QED  BY <1>1 DEF Fault, TypeInv, TypeOK

\* A step of thread t, which repairs or leaves the repair to another.
LEMMA RepairFrame ==
  ASSUME TypeInv, RepairInv, NEW t \in Threads, Moves(t),
         faults' = faults \/ \E k \in FaultKinds : Fault(k),
         view'[t] # NoRow => pc'[t] \in Sessions,
         pc'[t] \in {"restart_failed", "unwedge"} => faults'["docker"] + faults'["database"] >= 1,
         pc'[t] = "docker_run" /\ container'[svc'[t]] # "absent" => faults'["docker"] >= 1,
         \A u \in Threads \ {t} :
            pc[u] = "docker_run" /\ container'[svc[u]] # "absent" => container[svc[u]] # "absent",
         \A s \in Services : Tolerated' /\ row'[s].health = "restarting" =>
            \/ row[s].health = "restarting" /\ ~(svc[t] = s /\ Repairing(t))
            \/ svc'[t] = s /\ Repairing(t)'
  PROVE  RepairInv'
<1>1. \A k \in FaultKinds : faults[k] \in Nat /\ faults'[k] \in Nat /\ faults[k] <= faults'[k]
  BY FaultsGrow
<1>2. {"docker", "database", "crash"} \subseteq FaultKinds
  BY DEF FaultKinds
<1>3. SessionViews'
  BY DEF RepairInv, SessionViews, Moves
<1>4. FailedByFault'
  <2>. SUFFICES ASSUME NEW u \in Threads, u # t, pc'[u] \in {"restart_failed", "unwedge"}
                PROVE  faults'["docker"] + faults'["database"] >= 1
    BY DEF FailedByFault
  <2>1. faults["docker"] + faults["database"] >= 1
    BY DEF RepairInv, FailedByFault, Moves
  <2>. QED  BY <1>1, <1>2, <2>1
<1>5. RunsOnFreeName'
  <2>. SUFFICES ASSUME NEW u \in Threads, u # t, pc'[u] = "docker_run", container'[svc'[u]] # "absent"
                PROVE  faults'["docker"] >= 1
    BY DEF RunsOnFreeName
  <2>1. faults["docker"] >= 1
    BY DEF RepairInv, RunsOnFreeName, Moves
  <2>. QED  BY <1>1, <1>2, <2>1
<1>6. Repaired'
  <2>. SUFFICES ASSUME NEW s \in Services, Tolerated', row'[s].health = "restarting"
                PROVE  \E u \in Threads : svc'[u] = s /\ Repairing(u)'
    BY DEF Repaired
  <2>1. CASE svc'[t] = s /\ Repairing(t)'
    BY <2>1
  <2>2. CASE row[s].health = "restarting" /\ ~(svc[t] = s /\ Repairing(t))
    <3>1. Tolerated
      BY <1>1, <1>2 DEF Tolerated
    <3>2. PICK u \in Threads : svc[u] = s /\ Repairing(u)
      BY <2>2, <3>1 DEF RepairInv, Repaired
    <3>. QED  BY <2>2, <3>2 DEF Moves, Repairing
  <2>. QED  BY <2>1, <2>2
<1>. QED  BY <1>3, <1>4, <1>5, <1>6 DEF RepairInv

\* Steps of a thread that has no row to repair, before and after.
LEMMA RepairQuiet ==
  ASSUME TypeInv, RepairInv, NEW t \in Threads, Moves(t), UNCHANGED <<row, view>>,
         faults' = faults \/ \E k \in FaultKinds : Fault(k),
         pc[t] \notin Sessions, pc[t] \notin Fixing, pc'[t] \notin {"docker_run", "restart_failed", "unwedge"},
         \A s \in Services : container[s] = "absent" => container'[s] = "absent"
  PROVE  RepairInv'
<1>1. view'[t] = NoRow
  BY DEF RepairInv, SessionViews
<1>2. ~Repairing(t)
  BY DEF Repairing, Fixing
<1>3. \A u \in Threads : pc[u] = "docker_run" => svc[u] \in Services
  BY DEF TypeInv, SvcOK, Free
<1>. QED  BY <1>1, <1>2, <1>3, RepairFrame

LEMMA RepairScheduling ==
  ASSUME TypeInv, RepairInv, Scheduling
  PROVE  RepairInv'
<1>. USE SchedulerThread DEF passVars, historyVars
<1>1. /\ pc[Scheduler] \in {"idle", "collect", "post", "decide", "restart_event"}
      /\ pc'[Scheduler] \in {"collect", "dead", "post", "idle", "guard", "update_health", "decide", "handler_failed"}
      /\ Moves(Scheduler)
  BY DEF Scheduling, BeginPass, BeginPassRaises, AllRecorded, PassDone, DecideRestart, DecideNothing,
         DecideRaises, RecordEvent, RecordEventRaises, RecordResult, HandleResult, Goto, Moves, TypeInv, TypeOK
<1>2. UNCHANGED <<row, container, view>> /\ (faults' = faults \/ Fault("database"))
  BY DEF Scheduling, BeginPass, BeginPassRaises, AllRecorded, PassDone, DecideRestart, DecideNothing,
         DecideRaises, RecordEvent, RecordEventRaises, RecordResult, HandleResult
<1>3. /\ pc[Scheduler] \notin Sessions /\ pc[Scheduler] \notin Fixing
      /\ pc'[Scheduler] \notin {"docker_run", "restart_failed", "unwedge"} /\ "database" \in FaultKinds
  BY <1>1 DEF Sessions, SectionSessions, Fixing, FaultKinds
<1>. QED  BY <1>1, <1>2, <1>3, RepairQuiet

\* The docker commands of restarts: in one process only the restart that found the name
\* free makes a container of it.
LEMMA RepairRestart ==
  ASSUME SingleProcess, TypeInv, GuardInv, RepairInv, NEW t \in Threads, Restarting(t)
  PROVE  RepairInv'
<1>. USE SchedulerThread DEF passVars, historyVars
<1>1. CASE RestartRefused(t) \/ EnterRestart(t) \/ RestartBusy(t) \/ LeaveRestart(t)
  <2>1. /\ pc[t] \in {"guard", "leave_ok", "leave_failed", "leave_raised"}
        /\ pc'[t] \in {"post", "done", "mark_restarting", "restart_successful", "handler_failed", "manual_restart"}
        /\ Moves(t) /\ UNCHANGED <<row, container, view, faults>>
    BY <1>1 DEF RestartRefused, EnterRestart, RestartBusy, LeaveRestart, Home, Goto, Moves, TypeInv, TypeOK
  <2>2. /\ pc[t] \notin Sessions /\ pc[t] \notin Fixing
        /\ pc'[t] \notin {"docker_run", "restart_failed", "unwedge"}
    BY <2>1 DEF Sessions, SectionSessions, Fixing
  <2>. QED  BY <2>1, <2>2, RepairQuiet
<1>2. CASE ~(RestartRefused(t) \/ EnterRestart(t) \/ RestartBusy(t) \/ LeaveRestart(t))
  <2>1. /\ pc[t] \in {"docker_stop", "docker_rm", "start_rm", "docker_run"}
        /\ pc'[t] \in {"docker_rm", "start_rm", "docker_run", "mark_running", "restart_failed"}
        /\ Moves(t) /\ svc' = svc /\ UNCHANGED <<row, view>>
    BY <1>2 DEF Restarting, RestartStop, RestartRemove, StartRemove, StartRun, StartConflict, StartFails,
                Docker, DockerFails, Goto, Moves, TypeInv, TypeOK
  <2>2. faults' = faults \/ Fault("docker")
    BY <1>2 DEF Restarting, RestartStop, RestartRemove, StartRemove, StartRun, StartConflict, StartFails,
                Docker, DockerFails
  <2>3. "docker" \in FaultKinds /\ "database" \in FaultKinds /\ svc[t] \in Services /\ InSection(t)
    BY <2>1 DEF FaultKinds, TypeInv, SvcOK, Free, InSection, Section, SectionSessions
  <2>4. \A k \in FaultKinds : faults[k] \in Nat /\ faults'[k] \in Nat /\ faults[k] <= faults'[k]
    BY <2>2, <2>3, FaultsGrow
  <2>5. Fault("docker") => faults'["docker"] >= 1
    BY <2>3, <2>4 DEF Fault, TypeInv, TypeOK
  <2>6. view'[t] = NoRow
    <3>1. pc[t] \notin Sessions  BY <2>1 DEF Sessions, SectionSessions
    <3>. QED  BY <2>1, <3>1 DEF RepairInv, SessionViews
  <2>7. pc'[t] \in {"restart_failed", "unwedge"} => faults'["docker"] + faults'["database"] >= 1
    <3>1. pc'[t] \in {"restart_failed", "unwedge"} => faults'["docker"] >= 1
      <4>1. pc'[t] \in {"restart_failed", "unwedge"} => Fault("docker") \/ StartConflict(t)
        BY <1>2, <2>1 DEF Restarting, RestartStop, RestartRemove, StartRemove, StartRun, StartFails, Docker,
                          DockerFails, Goto, TypeInv, TypeOK
      <4>2. StartConflict(t) => faults["docker"] >= 1 /\ faults' = faults
        BY DEF StartConflict, RepairInv, RunsOnFreeName
      <4>. QED  BY <2>5, <4>1, <4>2
    <3>. QED  BY <2>3, <2>4, <3>1
  <2>8. pc'[t] = "docker_run" /\ container'[svc'[t]] # "absent" => faults'["docker"] >= 1
    <3>1. pc'[t] = "docker_run" /\ container'[svc'[t]] # "absent" => Fault("docker")
      BY <1>2, <2>1, <2>3
         DEF Restarting, RestartStop, RestartRemove, StartRemove, StartRun, StartConflict, StartFails, Docker,
             DockerFails, Goto, TypeInv, TypeOK
    <3>. QED  BY <2>5, <3>1
  <2>9. \A u \in Threads \ {t} :
          pc[u] = "docker_run" /\ container'[svc[u]] # "absent" => container[svc[u]] # "absent"
    <3>. SUFFICES ASSUME NEW u \in Threads, u # t, pc[u] = "docker_run"
                  PROVE  container'[svc[u]] = container[svc[u]]
      OBVIOUS
    <3>1. svc[u] # svc[t] /\ svc[u] \in Services
      BY <2>3, Alone DEF InSection, Section, SectionSessions, TypeInv, SvcOK, Free
    <3>. QED
      BY <1>2, <3>1
         DEF Restarting, RestartStop, RestartRemove, StartRemove, StartRun, StartConflict, StartFails, Docker,
             DockerFails, TypeInv, TypeOK
  <2>10. Repairing(t)'
    BY <2>1, <2>6 DEF Repairing
  <2>. QED  BY <2>1, <2>2, <2>3, <2>6, <2>7, <2>8, <2>9, <2>10, RepairFrame
<1>. QED  BY <1>1, <1>2

\* Only the session that marks a restart writes "restarting"; those that end one write
\* another health, if the row they loaded says so.
LEMMA HealthWritten ==
  ASSUME NEW label \in Sessions, label # "mark_restarting", NEW s, NEW v \in Row
  PROVE  /\ \/ Change(label, s, v).health # "restarting"
            \/ Change(label, s, v).health = v.health
         /\ label \in {"mark_running", "restart_failed", "unwedge"} => Change(label, s, v).health # "restarting"
<1>1. CASE label = "update_health"
  BY <1>1 DEF Change, UpdateServiceHealth, Row
<1>2. CASE label = "unwedge"
  BY <1>2 DEF Change, UnwedgeRestarting, Row
<1>3. CASE label \notin {"update_health", "unwedge"}
  BY <1>3 DEF Sessions, SectionSessions, Change, MarkServiceRunning, IncrementRestartCount, MarkRestartFailed,
              MarkRestartSuccessful, MarkServiceStopped, RecordManualStop, RecordManualRestart, Row
<1>. QED  BY <1>1, <1>2, <1>3

\* A session that commits marks the row, repairs it, or was not the one to repair it.
LEMMA RepairSession ==
  ASSUME TypeInv, RepairInv, NEW t \in Threads, Load(t) \/ Commit(t) \/ Raise(t)
  PROVE  RepairInv'
<1>. USE DEF passVars, historyVars
<1>1. CASE Load(t)
  <2>1. /\ UNCHANGED <<row, container, pc, svc, faults>> /\ Moves(t)
        /\ view'[t] = row[svc[t]] /\ pc[t] \in Sessions
    BY <1>1 DEF Load, Moves, TypeInv, TypeOK
  <2>2. pc[t] \in {"restart_failed", "unwedge"} => faults["docker"] + faults["database"] >= 1
    BY DEF RepairInv, FailedByFault
  <2>3. \A s \in Services : row[s].health = "restarting" /\ svc[t] = s /\ Repairing(t) => Repairing(t)'
    BY <2>1 DEF Repairing
  <2>4. pc[t] # "docker_run"
    BY <2>1 DEF Sessions, SectionSessions
  <2>. QED  BY <2>1, <2>2, <2>3, <2>4, RepairFrame
<1>2. CASE Commit(t)
  <2>1. /\ pc[t] \in Sessions /\ svc[t] \in Services
        /\ view[t] # NoRow /\ view[t] \in Row /\ row[svc[t]] \in Row
        /\ pc'[t] = AfterCommit[pc[t]] /\ view'[t] = NoRow /\ Moves(t)
        /\ svc'[t] = svc[t] \/ pc'[t] \in Free
        /\ \A s \in Services : s # svc[t] => row'[s] = row[s]
        /\ row'[svc[t]] = Flush(row[svc[t]], view[t], Change(pc[t], svc[t], view[t]))
        /\ UNCHANGED <<container, faults>>
    BY <1>2, CommitEffect
  <2>2. pc'[t] \notin {"restart_failed", "unwedge", "docker_run"}
    BY <2>1 DEF Sessions, SectionSessions, AfterCommit
  <2>3. pc[t] = "mark_restarting" => svc'[t] = svc[t] /\ Repairing(t)'
    BY <2>1 DEF AfterCommit, Free, Repairing
  <2>4. ASSUME NEW s \in Services, row'[s].health = "restarting", pc[t] # "mark_restarting"
        PROVE  row[s].health = "restarting" /\ ~(svc[t] = s /\ Repairing(t))
    <3>1. CASE s # svc[t]
      BY <2>1, <2>4, <3>1
    <3>2. CASE s = svc[t]
      <4>. DEFINE new == Change(pc[t], s, view[t])
      <4>1. row'[s].health = IF new.health = view[t].health THEN row[s].health ELSE new.health
        BY <2>1, <3>2 DEF Flush
      <4>2. /\ new.health # "restarting" \/ new.health = view[t].health
            /\ pc[t] \in {"mark_running", "restart_failed", "unwedge"} => new.health # "restarting"
        BY <2>1, <2>4, HealthWritten
      <4>. HIDE DEF new
      <4>3. row[s].health = "restarting" /\ new.health = view[t].health
        BY <2>4, <4>1, <4>2
      <4>4. ~Repairing(t)
        BY <2>1, <4>2, <4>3 DEF Repairing, Sessions, SectionSessions
      <4>. QED  BY <4>3, <4>4
    <3>. QED  BY <3>1, <3>2
  <2>5. \A s \in Services : row'[s].health = "restarting" =>
          \/ row[s].health = "restarting" /\ ~(svc[t] = s /\ Repairing(t))
          \/ svc'[t] = s /\ Repairing(t)'
    <3>1. CASE pc[t] = "mark_restarting"
      <4>1. \A s \in Services : s # svc[t] => row'[s] = row[s]  BY <2>1
      <4>. QED  BY <2>3, <3>1, <4>1
    <3>2. CASE pc[t] # "mark_restarting"
      BY <2>4, <3>2
    <3>. QED  BY <3>1, <3>2
  <2>. QED  BY <2>1, <2>2, <2>5, RepairFrame
<1>3. CASE Raise(t)
  <2>1. /\ UNCHANGED <<row, container>> /\ Moves(t) /\ pc[t] \in Sessions /\ Fault("database")
        /\ pc'[t] = AfterError[pc[t]] /\ view'[t] = NoRow
        /\ svc'[t] = svc[t] \/ pc'[t] \in Free
    BY <1>3 DEF Raise, Goto, Moves, Free, TypeInv, TypeOK
  <2>2. /\ {"docker", "database"} \subseteq FaultKinds
        /\ \A k \in FaultKinds : faults[k] \in Nat
    BY CountTypes DEF FaultKinds
  <2>3. faults'["database"] = faults["database"] + 1 /\ faults'["docker"] = faults["docker"]
    BY <2>1, <2>2 DEF Fault, TypeInv, TypeOK
  <2>4. faults'["docker"] + faults'["database"] >= 1
    BY <2>2, <2>3
  <2>5. pc'[t] # "docker_run"
    BY <2>1 DEF Sessions, SectionSessions, AfterError
  <2>6. \A u \in Threads : pc[u] = "docker_run" => svc[u] \in Services
    BY DEF TypeInv, SvcOK, Free
  <2>7. Tolerated' /\ Repairing(t) => svc'[t] = svc[t] /\ Repairing(t)'
    <3>. SUFFICES ASSUME Tolerated', Repairing(t)
                  PROVE  svc'[t] = svc[t] /\ Repairing(t)'
      OBVIOUS
    <3>1. pc[t] \in {"mark_running", "restart_failed", "unwedge"}
      BY <2>1 DEF Repairing, Sessions, SectionSessions
    <3>2. pc[t] \notin {"restart_failed", "unwedge"}
      BY <2>2, <2>3 DEF Tolerated, RepairInv, FailedByFault
    <3>3. pc'[t] = "restart_failed"
      BY <2>1, <3>1, <3>2 DEF AfterError
    <3>. QED  BY <2>1, <3>3 DEF Repairing, Free
  <2>. QED  BY <2>1, <2>2, <2>4, <2>5, <2>7, RepairFrame
<1>. QED  BY <1>1, <1>2, <1>3

LEMMA RepairElsewhere ==
  ASSUME TypeInv, RepairInv,
         \/ \E t \in Threads : StopContainer(t) \/ StopRemove(t)
         \/ \E t \in Requests, s \in Services : BeginRequest(t, s)
         \/ \E s \in Services : Checking(s) \/ Die(s)
  PROVE  RepairInv'
<1>. USE SchedulerThread DEF passVars, historyVars
<1>1. ASSUME NEW t \in Threads, StopContainer(t) \/ StopRemove(t)
      PROVE  RepairInv'
  <2>1. /\ pc[t] \in {"stop_container", "stop_rm"} /\ pc'[t] \in {"stop_rm", "mark_stopped", "done"}
        /\ Moves(t)
    BY <1>1 DEF StopContainer, StopRemove, Docker, DockerFails, Goto, Moves, TypeInv, TypeOK
  <2>2. /\ UNCHANGED <<row, view>>
        /\ faults' = faults \/ Fault("docker")
        /\ \A s \in Services : container[s] = "absent" => container'[s] = "absent"
    BY <1>1 DEF StopContainer, StopRemove, Docker, DockerFails, Stopped, TypeInv, TypeOK
  <2>3. /\ pc[t] \notin Sessions /\ pc[t] \notin Fixing
        /\ pc'[t] \notin {"docker_run", "restart_failed", "unwedge"} /\ "docker" \in FaultKinds
    BY <2>1 DEF Sessions, SectionSessions, Fixing, FaultKinds
  <2>. QED  BY <2>1, <2>2, <2>3, RepairQuiet
<1>2. ASSUME NEW t \in Requests, NEW s \in Services, BeginRequest(t, s)
      PROVE  RepairInv'
  <2>1. /\ t \in Threads /\ pc[t] = "new" /\ pc'[t] \in {"guard", "stop_container"}
        /\ Moves(t) /\ UNCHANGED <<row, container, view, faults>>
    BY <1>2 DEF BeginRequest, Threads, Moves, TypeInv, TypeOK
  <2>. QED  BY <2>1, RepairQuiet DEF Sessions, SectionSessions, Fixing
<1>3. ASSUME NEW q \in Services, Checking(q) \/ Die(q)
      PROVE  RepairInv'
  <2>1. /\ UNCHANGED <<pc, svc, view, row>>
        /\ faults' = faults \/ Fault("service")
        /\ \A s \in Services : container[s] = "absent" => container'[s] = "absent"
    BY <1>3 DEF Checking, CheckPasses, CheckFails, Die, TypeInv, TypeOK
  <2>2. /\ {"docker", "database", "crash", "service"} \subseteq FaultKinds
        /\ \A k \in FaultKinds : faults[k] \in Nat /\ faults'[k] \in Nat /\ faults[k] <= faults'[k]
    BY <2>1, FaultsGrow DEF FaultKinds
  <2>3. SessionViews'
    BY <2>1 DEF RepairInv, SessionViews
  <2>4. FailedByFault'
    BY <2>1, <2>2 DEF RepairInv, FailedByFault
  <2>5. RunsOnFreeName'
    <3>1. \A u \in Threads : pc[u] = "docker_run" => svc[u] \in Services
      BY DEF TypeInv, SvcOK, Free
    <3>. QED  BY <2>1, <2>2, <3>1 DEF RepairInv, RunsOnFreeName
  <2>6. Repaired'
    <3>1. Tolerated' => Tolerated
      BY <2>2 DEF Tolerated
    <3>. QED  BY <2>1, <3>1 DEF RepairInv, Repaired, Repairing
  <2>. QED  BY <2>3, <2>4, <2>5, <2>6 DEF RepairInv
<1>. QED  BY <1>1, <1>2, <1>3

LEMMA RepairCrash ==
  ASSUME TypeInv, RepairInv, NEW p \in Processes, Crash(p)
  PROVE  RepairInv'
<1>1. /\ container' = container
      /\ \A u \in Threads : \/ pc'[u] = pc[u] /\ svc'[u] = svc[u] /\ view'[u] = view[u]
                            \/ pc'[u] \in {"idle", "done"} /\ view'[u] = NoRow
  BY DEF Crash
<1>2. ~Tolerated' /\ faults'["docker"] = faults["docker"] /\ faults'["database"] = faults["database"]
  BY CountTypes DEF Crash, Fault, FaultKinds, Tolerated, TypeInv, TypeOK
<1>. QED  BY <1>1, <1>2 DEF RepairInv, SessionViews, FailedByFault, RunsOnFreeName, Repaired

LEMMA RepairNext ==
  ASSUME SingleProcess
  PROVE  TypeInv /\ GuardInv /\ RepairInv /\ [Next]_vars => RepairInv'
<1>. SUFFICES ASSUME TypeInv, GuardInv, RepairInv, [Next]_vars PROVE RepairInv'  OBVIOUS
<1>1. CASE UNCHANGED vars
  BY <1>1 DEF vars, RepairInv, SessionViews, FailedByFault, RunsOnFreeName, Repaired, Repairing, Tolerated
<1>. QED
  BY <1>1, RepairScheduling, RepairSession, RepairRestart, RepairElsewhere, RepairCrash DEF Next, Working

\* In one process with at most one docker command or database session that fails, a row
\* says "restarting" only while a restart of the service is going on.
THEOREM RestartingOwned ==
  ASSUME SingleProcess
  PROVE  Spec => []RestartingHasOwner
<1>1. Init => TypeInv /\ GuardInv /\ RepairInv
  BY TypeInit, GuardInit, RepairInit
<1>2. TypeInv /\ GuardInv /\ RepairInv /\ [Next]_vars => (TypeInv /\ GuardInv /\ RepairInv)'
  BY TypeNext, GuardNext, RepairNext
<1>3. RepairInv => RestartingHasOwner
  <2>1. \A t \in Threads : Repairing(t) => InSection(t)
    BY DEF Repairing, InSection, Section, SectionSessions
  <2>. QED  BY <2>1 DEF RepairInv, Repaired, Tolerated, RestartingHasOwner
<1>. QED  BY <1>1, <1>2, <1>3, PTL DEF Spec

(***************************************************************************)
(* max_restarts.  An attempt is decided below the limit and counted when   *)
(* it is over; the containers run since the last healthy check are at most *)
(* the attempts counted, and one more while an attempt is past its         *)
(* `docker run`.                                                           *)
(***************************************************************************)
\* The scheduler attempts a restart of s; its attempt may have run the container.
Attempting(s) == pc[Scheduler] \in Section \cup {"guard"} /\ svc[Scheduler] = s

Spent == {"mark_running", "count", "restart_failed", "unwedge", "leave_ok", "leave_failed", "leave_raised"}

MayHaveRun(s) == pc[Scheduler] \in Spent /\ svc[Scheduler] = s

LimitInv ==
  \A s \in Services : MaxRestarts[s] # Unlimited =>
    /\ Attempting(s) => attempts[s] < MaxRestarts[s]
    /\ autoRuns[s] <= attempts[s] + (IF MayHaveRun(s) THEN 1 ELSE 0)
    /\ autoRuns[s] <= MaxRestarts[s]

\* The session that may count an attempt twice is the scheduler's alone.
RequestsCountNothing == \A t \in Requests : pc[t] # "restart_successful"

LEMMA LimitTypes ==
  ASSUME TypeInv, NEW s \in Services
  PROVE  /\ attempts[s] \in Nat /\ autoRuns[s] \in Nat
         /\ MaxRestarts[s] # Unlimited => MaxRestarts[s] \in Nat
BY ConfigAssumption DEF TypeInv, TypeOK

\* No attempt begins, and none that may have run a container ends.
LEMMA LimitFrame ==
  ASSUME TypeInv, LimitInv, UNCHANGED <<attempts, autoRuns>>,
         \A s \in Services : Attempting(s)' => Attempting(s),
         \A s \in Services : MayHaveRun(s) => MayHaveRun(s)'
  PROVE  LimitInv'
BY LimitTypes DEF LimitInv

\* So it is when the scheduler goes on within an attempt, or outside of one.
LEMMA LimitGoto ==
  ASSUME TypeInv, LimitInv, UNCHANGED <<attempts, autoRuns>>, NEW t \in Threads, NEW label, Goto(t, label),
         t = Scheduler =>
           /\ label \in Section \cup {"guard"} => pc[t] \in Section \cup {"guard"}
           /\ pc[t] \in Spent => label \in Spent
  PROVE  LimitInv'
<1>1. CASE t # Scheduler
  <2>1. pc'[Scheduler] = pc[Scheduler] /\ svc'[Scheduler] = svc[Scheduler]
    BY <1>1, SchedulerThread DEF Goto, TypeInv, TypeOK
  <2>. QED  BY <2>1, LimitFrame DEF Attempting, MayHaveRun
<1>2. CASE t = Scheduler
  <2>1. pc'[Scheduler] = label
    BY <1>2, SchedulerThread DEF Goto, TypeInv, TypeOK
  <2>2. label \in Section \cup {"guard"} => svc' = svc
    BY DEF Goto, Section, SectionSessions
  <2>3. \A s \in Services : Attempting(s)' => Attempting(s)
    BY <1>2, <2>1, <2>2 DEF Attempting
  <2>4. \A s \in Services : MayHaveRun(s) => MayHaveRun(s)'
    BY <1>2, <2>1, <2>2 DEF MayHaveRun, Spent, Section, SectionSessions
  <2>. QED  BY <2>3, <2>4, LimitFrame
<1>. QED  BY <1>1, <1>2

\* The scheduler counts an attempt that is over, or one more than there were.
LEMMA LimitCount ==
  ASSUME TypeInv, LimitInv, autoRuns' = autoRuns,
         attempts' = [attempts EXCEPT ![svc[Scheduler]] = @ + 1],
         pc'[Scheduler] \notin Section \cup {"guard"}
  PROVE  LimitInv'
<1>. SUFFICES ASSUME NEW s \in Services, MaxRestarts[s] # Unlimited
              PROVE  /\ autoRuns[s] <= attempts'[s]
                     /\ autoRuns[s] <= MaxRestarts[s]
  BY LimitTypes DEF LimitInv, Attempting, MayHaveRun, Spent, Section, SectionSessions, TypeInv, TypeOK
<1>1. /\ autoRuns[s] <= attempts[s] + (IF MayHaveRun(s) THEN 1 ELSE 0)
      /\ autoRuns[s] <= MaxRestarts[s]
  BY DEF LimitInv
<1>2. attempts'[s] = IF svc[Scheduler] = s THEN attempts[s] + 1 ELSE attempts[s]
  BY DEF TypeInv, TypeOK
<1>. QED  BY <1>1, <1>2, LimitTypes DEF MayHaveRun

LEMMA LimitSession ==
  ASSUME TypeInv, LimitInv, RequestsCountNothing, NEW t \in Threads, Load(t) \/ Commit(t) \/ Raise(t)
  PROVE  LimitInv'
<1>. USE DEF historyVars
<1>f. \A label \in Sessions :
        /\ AfterCommit[label] \in Section \cup {"guard"} => label \in Section
        /\ AfterError[label] \in Section \cup {"guard"} => label \in Section
        /\ label \in Spent => AfterCommit[label] \in Spent /\ AfterError[label] \in Spent
  BY DEF Sessions, SectionSessions, Section, Spent, AfterCommit, AfterError
<1>1. CASE Load(t)
  BY <1>1, LimitFrame DEF Load, Attempting, MayHaveRun
<1>2. CASE Commit(t)
  BY <1>2, <1>f, LimitGoto DEF Commit
<1>3. CASE Raise(t)
  <2>1. CASE pc[t] # "restart_successful"
    BY <1>3, <1>f, <2>1, LimitGoto DEF Raise
  <2>2. CASE pc[t] = "restart_successful" /\ t = Scheduler
    <3>1. pc'[Scheduler] = "handler_failed"
      BY <1>3, <2>2, SchedulerThread DEF Raise, Goto, AfterError, TypeInv, TypeOK
    <3>. QED  BY <1>3, <2>2, <3>1, LimitCount DEF Raise, Section, SectionSessions
  <2>3. pc[t] = "restart_successful" => t = Scheduler
    BY DEF RequestsCountNothing, Threads
  <2>. QED  BY <2>1, <2>2, <2>3
<1>. QED  BY <1>1, <1>2, <1>3

LEMMA LimitScheduling ==
  ASSUME TypeInv, LimitInv, Scheduling
  PROVE  LimitInv'
<1>. USE SchedulerThread DEF historyVars
<1>1. CASE BeginPass \/ BeginPassRaises \/ AllRecorded \/ PassDone \/ DecideNothing \/ DecideRaises \/ RecordEvent
  <2>1. PICK label \in {"collect", "dead", "post", "idle"} : Goto(Scheduler, label)
    BY <1>1 DEF BeginPass, BeginPassRaises, AllRecorded, PassDone, DecideNothing, DecideRaises, RecordEvent
  <2>2. UNCHANGED <<attempts, autoRuns>> /\ pc[Scheduler] \notin Spent
    BY <1>1 DEF BeginPass, BeginPassRaises, AllRecorded, PassDone, DecideNothing, DecideRaises, RecordEvent, Spent
  <2>. QED  BY <2>1, <2>2, LimitGoto DEF Section, SectionSessions
<1>2. CASE DecideRestart
  <2>1. /\ UNCHANGED <<attempts, autoRuns, svc>> /\ pc[Scheduler] = "decide" /\ pc'[Scheduler] = "guard"
        /\ WithinLimit(svc[Scheduler])
    BY <1>2 DEF DecideRestart, Goto, TypeInv, TypeOK
  <2>2. \A s \in Services : ~MayHaveRun(s) /\ ~MayHaveRun(s)'
    BY <2>1 DEF MayHaveRun, Spent
  <2>. QED  BY <2>1, <2>2 DEF LimitInv, Attempting, WithinLimit
<1>3. CASE RecordEventRaises
  <2>1. pc'[Scheduler] = "handler_failed"
    BY <1>3 DEF RecordEventRaises, Goto, TypeInv, TypeOK
  <2>. QED  BY <1>3, <2>1, LimitCount DEF RecordEventRaises, Section, SectionSessions
<1>4. ASSUME NEW q \in Services, RecordResult(q)
      PROVE  LimitInv'
  <2>1. pc[Scheduler] = "collect" /\ pc'[Scheduler] = "update_health"
    BY <1>4 DEF RecordResult, TypeInv, TypeOK
  <2>2. \A s \in Services : ~MayHaveRun(s) /\ ~Attempting(s)'
    BY <2>1 DEF MayHaveRun, Attempting, Spent, Section, SectionSessions
  <2>3. \A s \in Services : \/ attempts'[s] = attempts[s] /\ autoRuns'[s] = autoRuns[s]
                            \/ attempts'[s] = 0 /\ autoRuns'[s] = 0
    BY <1>4 DEF RecordResult, TypeInv, TypeOK
  <2>. SUFFICES ASSUME NEW s \in Services, MaxRestarts[s] # Unlimited
                PROVE  autoRuns'[s] <= attempts'[s] /\ autoRuns'[s] <= MaxRestarts[s]
    <3>1. \A s \in Services : MaxRestarts[s] # Unlimited =>
            attempts'[s] \in Nat /\ (autoRuns'[s] <= attempts'[s] =>
              autoRuns'[s] <= attempts'[s] + (IF MayHaveRun(s)' THEN 1 ELSE 0))
      BY <2>3, LimitTypes
    <3>. QED  BY <2>2, <3>1 DEF LimitInv
  <2>. QED  BY <2>2, <2>3, LimitTypes DEF LimitInv
<1>5. ASSUME NEW q \in Services, HandleResult(q)
      PROVE  LimitInv'
  <2>1. /\ UNCHANGED <<attempts, autoRuns>> /\ pc[Scheduler] = "post"
        /\ pc'[Scheduler] \in {"post", "decide"}
    BY <1>5 DEF HandleResult, TypeInv, TypeOK
  <2>. QED  BY <2>1, LimitFrame DEF Attempting, MayHaveRun, Spent, Section, SectionSessions
<1>. QED  BY <1>1, <1>2, <1>3, <1>4, <1>5 DEF Scheduling

LEMMA LimitRestart ==
  ASSUME TypeInv, LimitInv, NEW t \in Threads, Restarting(t)
  PROVE  LimitInv'
<1>. USE SchedulerThread DEF historyVars
<1>h. Home(t) \in {"post", "done"}  BY DEF Home
<1>c. ASSUME CountAttempt(t), autoRuns' = autoRuns, NEW label, Goto(t, label),
             label \notin Section \cup {"guard"}, pc[t] \in Section \cup {"guard"}
      PROVE  LimitInv'
  <2>1. CASE t = Scheduler
    <3>1. pc'[Scheduler] = label  BY <1>c, <2>1 DEF Goto, TypeInv, TypeOK
    <3>. QED  BY <1>c, <2>1, <3>1, LimitCount DEF CountAttempt
  <2>2. CASE t # Scheduler
    BY <1>c, <2>2, LimitGoto DEF CountAttempt
  <2>. QED  BY <2>1, <2>2
<1>1. CASE RestartRefused(t)
  BY <1>1, <1>c, <1>h DEF RestartRefused, Section, SectionSessions
<1>2. CASE EnterRestart(t) \/ RestartBusy(t)
  <2>1. PICK label \in {"mark_restarting", "post", "done"} : Goto(t, label)
    BY <1>2, <1>h DEF EnterRestart, RestartBusy
  <2>. QED  BY <1>2, <2>1, LimitGoto DEF EnterRestart, RestartBusy, Spent
<1>3. CASE RestartStop(t) \/ RestartRemove(t) \/ StartRemove(t)
  <2>1. PICK label \in {"docker_rm", "start_rm", "docker_run"} : Goto(t, label)
    BY <1>3 DEF RestartStop, RestartRemove, StartRemove, Docker, DockerFails
  <2>2. /\ UNCHANGED <<attempts, autoRuns>>
        /\ pc[t] \in Section /\ pc[t] \notin Spent
    BY <1>3 DEF RestartStop, RestartRemove, StartRemove, Docker, DockerFails, Section, SectionSessions, Spent
  <2>. QED  BY <2>1, <2>2, LimitGoto
<1>4. CASE StartConflict(t) \/ StartFails(t)
  <2>1. /\ UNCHANGED <<attempts, autoRuns>> /\ Goto(t, "restart_failed")
        /\ pc[t] \in Section
    BY <1>4 DEF StartConflict, StartFails, DockerFails, Section, SectionSessions
  <2>. QED  BY <2>1, LimitGoto DEF Spent
<1>5. CASE StartRun(t)
  <2>0. pc[t] = "docker_run" /\ Goto(t, "mark_running") /\ attempts' = attempts
    BY <1>5 DEF StartRun
  <2>1. CASE t # Scheduler
    BY <1>5, <2>0, <2>1, LimitGoto DEF StartRun
  <2>2. CASE t = Scheduler
    <3>1. /\ pc'[Scheduler] = "mark_running" /\ svc' = svc
          /\ autoRuns' = [autoRuns EXCEPT ![svc[Scheduler]] = @ + 1]
      BY <1>5, <2>0, <2>2 DEF StartRun, Goto, TypeInv, TypeOK
    <3>. SUFFICES ASSUME NEW s \in Services, MaxRestarts[s] # Unlimited
                  PROVE  /\ Attempting(s)' => attempts'[s] < MaxRestarts[s]
                         /\ autoRuns'[s] <= attempts'[s] + (IF MayHaveRun(s)' THEN 1 ELSE 0)
                         /\ autoRuns'[s] <= MaxRestarts[s]
      BY DEF LimitInv
    <3>2. /\ ~MayHaveRun(s)
          /\ svc[Scheduler] = s => Attempting(s) /\ MayHaveRun(s)'
          /\ Attempting(s)' => svc[Scheduler] = s
          /\ MayHaveRun(s)' => svc[Scheduler] = s
      BY <2>0, <2>2, <3>1 DEF MayHaveRun, Attempting, Spent, Section, SectionSessions
    <3>3. /\ Attempting(s) => attempts[s] < MaxRestarts[s]
          /\ autoRuns[s] <= attempts[s]
          /\ autoRuns[s] <= MaxRestarts[s]
      BY <3>2, LimitTypes DEF LimitInv
    <3>4. autoRuns'[s] = IF svc[Scheduler] = s THEN autoRuns[s] + 1 ELSE autoRuns[s]
      BY <3>1 DEF TypeInv, TypeOK
    <3>. QED  BY <2>0, <3>2, <3>3, <3>4, LimitTypes
  <2>. QED  BY <2>1, <2>2
<1>6. CASE LeaveRestart(t)
  <2>1. PICK label \in {"restart_successful", "post", "handler_failed", "manual_restart", "done"} :
         Goto(t, label)
    BY <1>6 DEF LeaveRestart
  <2>2. CountAttempt(t) /\ autoRuns' = autoRuns /\ pc[t] \in Section
    BY <1>6 DEF LeaveRestart, Section, SectionSessions
  <2>. QED  BY <1>c, <2>1, <2>2 DEF Section, SectionSessions
<1>. QED  BY <1>1, <1>2, <1>3, <1>4, <1>5, <1>6 DEF Restarting

LEMMA LimitElsewhere ==
  ASSUME TypeInv, LimitInv,
         \/ \E t \in Threads : StopContainer(t) \/ StopRemove(t)
         \/ \E t \in Requests, s \in Services : BeginRequest(t, s)
         \/ \E s \in Services : Checking(s) \/ Die(s)
         \/ \E p \in Processes : Crash(p)
  PROVE  LimitInv'
<1>. USE SchedulerThread DEF historyVars
<1>1. ASSUME NEW t \in Threads, StopContainer(t) \/ StopRemove(t)
      PROVE  LimitInv'
  <2>1. PICK label \in {"stop_rm", "done", "mark_stopped"} : Goto(t, label)
    BY <1>1 DEF StopContainer, StopRemove, Docker, DockerFails
  <2>2. UNCHANGED <<attempts, autoRuns>> /\ pc[t] \notin Spent
    BY <1>1 DEF StopContainer, StopRemove, Docker, DockerFails, Spent
  <2>. QED  BY <2>1, <2>2, LimitGoto DEF Section, SectionSessions
<1>2. ASSUME NEW t \in Requests, NEW s \in Services, BeginRequest(t, s)
      PROVE  LimitInv'
  <2>1. /\ UNCHANGED <<attempts, autoRuns>>
        /\ pc'[Scheduler] = pc[Scheduler] /\ svc'[Scheduler] = svc[Scheduler]
    BY <1>2 DEF BeginRequest, TypeInv, TypeOK
  <2>. QED  BY <2>1, LimitFrame DEF Attempting, MayHaveRun
<1>3. ASSUME NEW s \in Services, Checking(s) \/ Die(s)
      PROVE  LimitInv'
  <2>1. UNCHANGED <<attempts, autoRuns, pc, svc>>
    BY <1>3 DEF Checking, CheckPasses, CheckFails, Die
  <2>. QED  BY <2>1, LimitFrame DEF Attempting, MayHaveRun
<1>4. ASSUME NEW p \in Processes, Crash(p)
      PROVE  LimitInv'
  <2>1. CASE ProcessOf[Scheduler] = p /\ pc[Scheduler] # "new"
    <3>1. /\ attempts' = [s \in Services |-> 0] /\ autoRuns' = [s \in Services |-> 0]
          /\ pc'[Scheduler] = "idle"
      BY <1>4, <2>1 DEF Crash
    <3>. QED  BY <3>1, LimitTypes DEF LimitInv, Attempting, MayHaveRun, Spent, Section, SectionSessions
  <2>2. CASE ProcessOf[Scheduler] # p
    <3>1. UNCHANGED <<attempts, autoRuns>> /\ pc'[Scheduler] = pc[Scheduler] /\ svc'[Scheduler] = svc[Scheduler]
      BY <1>4, <2>2 DEF Crash
    <3>. QED  BY <3>1, LimitFrame DEF Attempting, MayHaveRun
  <2>3. CASE ProcessOf[Scheduler] = p /\ pc[Scheduler] = "new"
    <3>1. /\ attempts' = [s \in Services |-> 0] /\ autoRuns' = [s \in Services |-> 0]
          /\ pc'[Scheduler] = "new"
      BY <1>4, <2>3 DEF Crash
    <3>. QED  BY <3>1, LimitTypes DEF LimitInv, Attempting, MayHaveRun, Spent, Section, SectionSessions
  <2>. QED  BY <2>1, <2>2, <2>3
<1>. QED  BY <1>1, <1>2, <1>3, <1>4

\* Only a restart of the scheduler's leads to the session that may count twice.
LEMMA RequestsNext == TypeInv /\ RequestsCountNothing /\ [Next]_vars => RequestsCountNothing'
<1>. SUFFICES ASSUME TypeInv, RequestsCountNothing, [Next]_vars, NEW u \in Requests
              PROVE  pc'[u] # "restart_successful"
  BY DEF RequestsCountNothing
<1>. USE SchedulerThread
<1>u. u \in Threads /\ u # Scheduler /\ pc[u] # "restart_successful"
  BY ThreadsAssumption DEF Threads, RequestsCountNothing
<1>g. ASSUME NEW t \in Threads, NEW label, Goto(t, label), label # "restart_successful" \/ t = Scheduler
      PROVE  pc'[u] # "restart_successful"
  BY <1>g, <1>u DEF Goto, TypeInv, TypeOK
<1>1. CASE UNCHANGED vars
  BY <1>1, <1>u DEF vars
<1>2. CASE Scheduling
  BY <1>2, <1>u DEF Scheduling, BeginPass, BeginPassRaises, AllRecorded, PassDone, DecideRestart,
              DecideNothing, DecideRaises, RecordEvent, RecordEventRaises, RecordResult, HandleResult,
              Goto, TypeInv, TypeOK
<1>3. ASSUME NEW t \in Threads, Load(t) \/ Commit(t) \/ Raise(t)
      PROVE  pc'[u] # "restart_successful"
  <2>1. pc[t] \in Sessions  BY <1>3 DEF Load, Commit, Raise
  <2>2. AfterCommit[pc[t]] # "restart_successful" /\ AfterError[pc[t]] # "restart_successful"
    BY <2>1 DEF Sessions, SectionSessions, AfterCommit, AfterError
  <2>. QED  BY <1>3, <1>g, <1>u, <2>2 DEF Load, Commit, Raise
<1>4. ASSUME NEW t \in Threads, Restarting(t)
      PROVE  pc'[u] # "restart_successful"
  <2>1. CASE LeaveRestart(t)
    <3>1. CASE t = Scheduler
      <4>1. PICK label : Goto(t, label)
        BY <2>1 DEF LeaveRestart
      <4>. QED  BY <1>g, <3>1, <4>1
    <3>2. CASE t # Scheduler
      <4>1. PICK label \in {"manual_restart", "done"} : Goto(t, label)
        BY <2>1, <3>2 DEF LeaveRestart
      <4>. QED  BY <1>g, <4>1
    <3>. QED  BY <3>1, <3>2
  <2>2. CASE ~LeaveRestart(t)
    <3>1. PICK label \in {"post", "done", "mark_restarting", "docker_rm", "start_rm", "docker_run",
                          "mark_running", "restart_failed"} : Goto(t, label)
      BY <1>4, <2>2 DEF Restarting, RestartRefused, EnterRestart, RestartBusy, RestartStop, RestartRemove,
                  StartRemove, StartRun, StartConflict, StartFails, Docker, DockerFails, Home
    <3>. QED  BY <1>g, <3>1
  <2>. QED  BY <2>1, <2>2
<1>5. ASSUME NEW t \in Threads, StopContainer(t) \/ StopRemove(t)
      PROVE  pc'[u] # "restart_successful"
  <2>1. PICK label \in {"stop_rm", "done", "mark_stopped"} : Goto(t, label)
    BY <1>5 DEF StopContainer, StopRemove, Docker, DockerFails
  <2>. QED  BY <1>g, <2>1
<1>6. ASSUME NEW t \in Requests, NEW s \in Services, BeginRequest(t, s)
      PROVE  pc'[u] # "restart_successful"
  BY <1>6, <1>u DEF BeginRequest, TypeInv, TypeOK
<1>7. ASSUME NEW s \in Services, Checking(s) \/ Die(s)
      PROVE  pc'[u] # "restart_successful"
  BY <1>7, <1>u DEF Checking, CheckPasses, CheckFails, Die
<1>8. ASSUME NEW p \in Processes, Crash(p)
      PROVE  pc'[u] # "restart_successful"
  BY <1>8, <1>u DEF Crash
<1>. QED  BY <1>1, <1>2, <1>3, <1>4, <1>5, <1>6, <1>7, <1>8 DEF Next, Working

\* The scheduler runs at most max_restarts containers of a service between two healthy
\* checks, whatever fails, though an attempt is counted after it and sometimes twice.
THEOREM LimitHolds == Spec => []RestartLimitRespected
<1>1. Init => RequestsCountNothing /\ LimitInv
  <2>1. Init => RequestsCountNothing
    BY SchedulerThread, ThreadsAssumption DEF Init, RequestsCountNothing, Threads
  <2>2. Init => LimitInv
    <3>. SUFFICES ASSUME Init PROVE LimitInv  OBVIOUS
    <3>1. pc[Scheduler] = "idle"  BY SchedulerThread DEF Init
    <3>2. \A s \in Services : attempts[s] = 0 /\ autoRuns[s] = 0  BY DEF Init
    <3>3. \A s \in Services : MaxRestarts[s] # Unlimited => MaxRestarts[s] \in Nat
      BY ConfigAssumption
    <3>. QED  BY <3>1, <3>2, <3>3 DEF LimitInv, Attempting, MayHaveRun, Spent, Section, SectionSessions
  <2>. QED  BY <2>1, <2>2
<1>2. TypeInv /\ RequestsCountNothing /\ LimitInv /\ [Next]_vars => LimitInv'
  <2>. SUFFICES ASSUME TypeInv, RequestsCountNothing, LimitInv, [Next]_vars PROVE LimitInv'  OBVIOUS
  <2>1. CASE UNCHANGED vars
    BY <2>1, LimitFrame DEF vars, Attempting, MayHaveRun
  <2>. QED  BY <2>1, LimitSession, LimitScheduling, LimitRestart, LimitElsewhere DEF Next, Working
<1>3. LimitInv => RestartLimitRespected
  BY DEF LimitInv, RestartLimitRespected
<1>. QED  BY <1>1, <1>2, <1>3, TypeInit, TypeNext, RequestsNext, PTL DEF Spec
=============================================================================
