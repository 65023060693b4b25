------------------------------- MODULE Fleet --------------------------------
(***************************************************************************)
(* The commands that act on all services at once: `dockfleet up`, `down`   *)
(* and `restart` (cli/main.py) over Orchestrator.up, down and restart      *)
(* (core/orchestrator.py), and the dashboard's startup and shutdown        *)
(* (dashboard/api.py), with the scheduler processes they start and stop.   *)
(*                                                                         *)
(* A command c is a process; the scheduler it starts is a detached child   *)
(* (`up`, `restart`) or a thread of c itself (`up --foreground`, the       *)
(* dashboard), and is called c too.  A command goes through the phases of  *)
(* Follow; in a start or stop phase it is about the service at position    *)
(* at[c].  The rows keep only their lifecycle status, the lock only who    *)
(* has the flock of the file now named .scheduler.lock: rows in detail are *)
(* in SelfHealing, the lock's protocol is in SchedulerLock.                *)
(***************************************************************************)
EXTENDS Naturals, Sequences

CONSTANTS
  Services,     \* the services of the configuration
  Deps,         \* [Services -> SUBSET Services]: depends_on
  Order,        \* what _resolve_service_order returns (module ServiceOrder)
  Commands,     \* the processes users start
  Kinds,        \* what they may be
  MaxFaults,    \* [FaultKinds -> Nat]: bounds
  Nobody,       \* no process
  OldPid        \* the PID in a stale file: no such process

CommandKinds == {"up", "foreground", "dashboard", "down", "restart"}

\* A docker command fails, a container dies, a scheduler's process is killed.
FaultKinds == {"docker", "death", "kill"}

ASSUME FleetAssumption ==
  /\ Deps \in [Services -> SUBSET Services]
  /\ Kinds \subseteq CommandKinds
  /\ MaxFaults \in [FaultKinds -> Nat]
  /\ Nobody \notin Commands /\ OldPid \notin Commands /\ Nobody # OldPid

\* Every service once, dependencies first: what ServiceOrder's theorems give.
ASSUME OrderAssumption ==
  /\ Order \in Seq(Services) /\ Order # <<>>
  /\ \A s \in Services : \E i \in DOMAIN Order : Order[i] = s
  /\ \A i, j \in DOMAIN Order : Order[i] = Order[j] => i = j
  /\ \A i, j \in DOMAIN Order : Order[j] \in Deps[Order[i]] => j < i

VARIABLES
  status,       \* [Services -> the row's status, "unseeded" without a row, or
                \*              "untabled" without the table]
  container,    \* [Services -> {"running", "exited", "absent"}]
  kind, pc, at, \* per command: what it is, its step, the position in the order
  failed,       \* per command: the services its loop collected in `failed`
  sched,        \* per command: the scheduler process it has started
  hpc, hsvc,    \* per scheduler: the step of its restart, and the service
  flocked,      \* who has the flock of the file .scheduler.lock, or Nobody
  pidFile,      \* whose PID .scheduler.pid has, or Nobody
  signalled,    \* schedulers that were sent SIGTERM
  faults,       \* [FaultKinds -> Nat] (bounded by MaxFaults)
  disturbed,    \* history: commands since whose start another actor acted
  raced,        \* history: services two actors worked on at once
  lost          \* history: commands since whose end the last scheduler ended

vars == <<status, container, kind, pc, at, failed, sched, hpc, hsvc, flocked, pidFile,
          signalled, faults, disturbed, raced, lost>>

fleetVars == <<status, container>>
commandVars == <<kind, pc, at, failed>>
lockVars == <<sched, flocked, pidFile, signalled>>
healVars == <<hpc, hsvc>>
historyVars == <<disturbed, raced, lost>>

(***************************************************************************)
(* Control flow.                                                           *)
(***************************************************************************)
\* The phase after each phase.
Follow == [
  up |->         [new |-> "seed", seed |-> "network", network |-> "start_rm", starts |-> "look"],
  foreground |-> [new |-> "seed", seed |-> "network", network |-> "start_rm", starts |-> "serve"],
  dashboard |->  [new |-> "seed", seed |-> "network", network |-> "start_rm", starts |-> "serve"],
  down |->       [new |-> "stop", stops |-> "signal", unlink |-> "done"],
  restart |->    [new |-> "signal", unlink |-> "seed", seed |-> "stop", stops |-> "network",
                  network |-> "start_rm", starts |-> "spawn"]]

StartSteps == {"start_rm", "start_run", "start_mark"}
StopSteps == {"stop", "stop_rm", "stop_mark"}
MidSteps == {"start_run", "start_mark", "stop_rm", "stop_mark"}    \* not the first of a service
Ended == {"done", "failed"}
Steps == StartSteps \cup StopSteps \cup Ended \cup
  {"new", "seed", "network", "look", "spawn", "serve", "signal", "unlink"}

\* mutant: services are stopped in the order they were started in
SvcForward(c) == Order[at[c]]

\* Starts follow the order, stops its reverse.
Svc(c) == IF pc[c] \in StopSteps THEN Order[Len(Order) + 1 - at[c]] ELSE Order[at[c]]

Fault(k) ==
  /\ faults[k] < MaxFaults[k]
  /\ faults' = [faults EXCEPT ![k] = @ + 1]

\* A command, or the scheduler of one, is in the middle of its work on s.
CommandAt(c, s) == pc[c] \in MidSteps /\ Svc(c) = s
HealAt(c, s) == hpc[c] # "idle" /\ hsvc[c] = s

\* For the histories: a step on s beside other commands and other schedulers.
Touch(commands, schedulers, s) ==
  /\ disturbed' = disturbed \cup {c \in commands : pc[c] # "new"}
  /\ raced' = IF (\E c \in commands : CommandAt(c, s)) \/ (\E c \in schedulers : HealAt(c, s))
              THEN raced \cup {s} ELSE raced

CommandTouches(c) == Touch(Commands \ {c}, Commands, Svc(c))
SchedulerTouches(c, s) == Touch(Commands, Commands \ {c}, s)

\* The services without a row: nothing has seeded them.
Rowless == {"untabled", "unseeded"}

Init ==
  /\ \/ /\ \E none \in Rowless : status = [s \in Services |-> none]
        /\ container = [s \in Services |-> "absent"]
     \/ /\ status = [s \in Services |-> "running"]
        /\ container = [s \in Services |-> "running"]
  /\ kind \in [Commands -> Kinds]
  /\ pc = [c \in Commands |-> "new"]
  /\ at = [c \in Commands |-> 1]
  /\ failed = [c \in Commands |-> {}]
  /\ sched = [c \in Commands |-> "none"]
  /\ hpc = [c \in Commands |-> "idle"]
  /\ hsvc = [c \in Commands |-> Order[1]]
  /\ flocked = Nobody
  /\ pidFile \in {Nobody, OldPid}
  /\ signalled = {}
  /\ faults = [k \in FaultKinds |-> 0]
  /\ disturbed = {} /\ raced = {} /\ lost = {}

(***************************************************************************)
(* The commands.                                                           *)
(***************************************************************************)
Goto(c, step) ==
  /\ pc' = [pc EXCEPT ![c] = step]
  /\ UNCHANGED <<kind, at, failed>>

Begin(c) ==
  /\ pc[c] = "new"
  /\ Goto(c, Follow[kind[c]].new)
  /\ UNCHANGED <<fleetVars, lockVars, healVars, faults, historyVars>>

\* mutant: seeding writes the runtime defaults over existing rows
SeedServicesAfresh(c) ==
  /\ pc[c] = "seed"
  /\ status' = [s \in Services |-> "stopped"]
  /\ Goto(c, Follow[kind[c]].seed)
  /\ UNCHANGED <<container, lockVars, healVars, faults, historyVars>>

\* bootstrap_from_config: new rows are STOPPED, existing ones keep their runtime state.
SeedServices(c) ==
  /\ pc[c] = "seed"
  /\ status' = [s \in Services |-> IF status[s] \in Rowless THEN "stopped" ELSE status[s]]
  /\ Goto(c, Follow[kind[c]].seed)
  /\ UNCHANGED <<container, lockVars, healVars, faults, historyVars>>

\* What follows an exception of Orchestrator.up: only the dashboard goes on.
Raised(c) == IF kind[c] = "dashboard" THEN Follow.dashboard.starts ELSE "failed"

\* In-process schedulers begin to acquire when their command serves.
Launch(c, step) ==
  sched' = IF step = "serve" THEN [sched EXCEPT ![c] = "booting"] ELSE sched

\* create_network: an existing network is fine, another failure is not.
CreateNetwork(c) ==
  /\ pc[c] = "network"
  /\ pc' = [pc EXCEPT ![c] = Follow[kind[c]].network]
  /\ at' = [at EXCEPT ![c] = 1]
  /\ UNCHANGED <<kind, failed, fleetVars, lockVars, healVars, faults, historyVars>>

CreateNetworkFails(c) ==
  /\ pc[c] = "network"
  /\ Fault("docker")
  /\ Goto(c, Raised(c))
  /\ Launch(c, Raised(c))
  /\ UNCHANGED <<fleetVars, flocked, pidFile, signalled, healVars, historyVars>>

\* mutant: the loop's end is found one service late
ServiceDoneBeyond(c, ok, first, phase) ==
  LET bad == IF ok THEN failed[c] ELSE failed[c] \cup {Svc(c)}
      last == at[c] > Len(Order)
      next == IF ~last THEN first
              ELSE IF bad # {} THEN Raised(c) ELSE Follow[kind[c]][phase]
  IN  /\ pc' = [pc EXCEPT ![c] = next]
      /\ at' = [at EXCEPT ![c] = IF last THEN @ ELSE @ + 1]
      /\ failed' = [failed EXCEPT ![c] = bad]
      /\ Launch(c, next)
      /\ UNCHANGED <<kind, flocked, pidFile, signalled>>

\* mutant: only the last service's outcome counts
ServiceDoneLast(c, ok, first, phase) ==
  LET bad == IF ok THEN {} ELSE {Svc(c)}
      last == at[c] = Len(Order)
      next == IF ~last THEN first
              ELSE IF bad # {} THEN Raised(c) ELSE Follow[kind[c]][phase]
  IN  /\ pc' = [pc EXCEPT ![c] = next]
      /\ at' = [at EXCEPT ![c] = IF last THEN @ ELSE @ + 1]
      /\ failed' = [failed EXCEPT ![c] = bad]
      /\ Launch(c, next)
      /\ UNCHANGED <<kind, flocked, pidFile, signalled>>

\* The loop goes on behind a failure, and raises at its end if there was one.
ServiceDone(c, ok, first, phase) ==
  LET bad == IF ok THEN failed[c] ELSE failed[c] \cup {Svc(c)}
      last == at[c] = Len(Order)
      next == IF ~last THEN first
              ELSE IF bad # {} THEN Raised(c) ELSE Follow[kind[c]][phase]
  IN  /\ pc' = [pc EXCEPT ![c] = next]
      /\ at' = [at EXCEPT ![c] = IF last THEN @ ELSE @ + 1]
      /\ failed' = [failed EXCEPT ![c] = bad]
      /\ Launch(c, next)
      /\ UNCHANGED <<kind, flocked, pidFile, signalled>>

\* start_service: remove (best effort), run, mark running.
StartRemove(c) ==
  /\ pc[c] = "start_rm"
  /\ \/ container' = [container EXCEPT ![Svc(c)] = "absent"] /\ UNCHANGED faults
     \/ Fault("docker") /\ UNCHANGED container
  /\ Goto(c, "start_run")
  /\ CommandTouches(c)
  /\ UNCHANGED <<status, lockVars, healVars, lost>>

StartRun(c) ==
  /\ pc[c] = "start_run" /\ container[Svc(c)] = "absent"
  /\ container' = [container EXCEPT ![Svc(c)] = "running"]
  /\ Goto(c, "start_mark")
  /\ CommandTouches(c)
  /\ UNCHANGED <<status, lockVars, healVars, faults, lost>>

\* The name is taken, or docker fails, which may leave a created container behind.
StartFails(c) ==
  /\ pc[c] = "start_run"
  /\ \/ container[Svc(c)] # "absent" /\ UNCHANGED <<container, faults>>
     \/ /\ container[Svc(c)] = "absent" /\ Fault("docker")
        /\ \E left \in {"absent", "exited"} : container' = [container EXCEPT ![Svc(c)] = left]
  /\ ServiceDone(c, FALSE, "start_rm", "starts")
  /\ CommandTouches(c)
  /\ UNCHANGED <<status, healVars, lost>>

StartMark(c) ==
  /\ pc[c] = "start_mark"
  /\ status' = [status EXCEPT ![Svc(c)] = "running"]
  /\ ServiceDone(c, TRUE, "start_rm", "starts")
  /\ CommandTouches(c)
  /\ UNCHANGED <<container, healVars, faults, lost>>

\* stop_service: stop, remove, mark stopped; a missing container is no error, any
\* other failure ends the attempt.
Stop(c) ==
  /\ pc[c] = "stop"
  /\ container' = [container EXCEPT ![Svc(c)] = IF @ = "running" THEN "exited" ELSE @]
  /\ Goto(c, "stop_rm")
  /\ CommandTouches(c)
  /\ UNCHANGED <<status, lockVars, healVars, faults, lost>>

StopRemove(c) ==
  /\ pc[c] = "stop_rm"
  /\ container' = [container EXCEPT ![Svc(c)] = "absent"]
  /\ Goto(c, "stop_mark")
  /\ CommandTouches(c)
  /\ UNCHANGED <<status, lockVars, healVars, faults, lost>>

StopFails(c) ==
  /\ pc[c] \in {"stop", "stop_rm"}
  /\ Fault("docker")
  /\ ServiceDone(c, FALSE, "stop", "stops")
  /\ CommandTouches(c)
  /\ UNCHANGED <<fleetVars, healVars, lost>>

\* mark_service_stopped skips a service without a row: `down` does not seed.
StopMark(c) ==
  /\ pc[c] = "stop_mark" /\ status[Svc(c)] # "untabled"
  /\ status' = [status EXCEPT ![Svc(c)] = IF @ = "unseeded" THEN @ ELSE "stopped"]
  /\ ServiceDone(c, TRUE, "stop", "stops")
  /\ CommandTouches(c)
  /\ UNCHANGED <<container, healVars, faults, lost>>

\* Without the table its query raises, within stop_service's try.
StopMarkFails(c) ==
  /\ pc[c] = "stop_mark" /\ status[Svc(c)] = "untabled"
  /\ ServiceDone(c, FALSE, "stop", "stops")
  /\ CommandTouches(c)
  /\ UNCHANGED <<fleetVars, healVars, faults, lost>>

(***************************************************************************)
(* Starting and stopping the scheduler.                                    *)
(***************************************************************************)
InProcess(c) == kind[c] \in {"foreground", "dashboard"}

LiveScheduler == {"booting", "locked", "running"}

\* The process that a PID names exists.
Alive(p) ==
  p \in Commands /\ (sched[p] \in LiveScheduler \/ (InProcess(p) /\ pc[p] = "serve"))

\* mutant: any PID file is taken for a running scheduler
LookAtFile(c) ==
  /\ pc[c] = "look"
  /\ sched' = IF pidFile # Nobody THEN sched ELSE [sched EXCEPT ![c] = "booting"]
  /\ Goto(c, "done")
  /\ UNCHANGED <<fleetVars, flocked, pidFile, signalled, healVars, faults, historyVars>>

\* `up`: a live PID is a running scheduler, otherwise one is spawned.
Look(c) ==
  /\ pc[c] = "look"
  /\ sched' = IF Alive(pidFile) THEN sched ELSE [sched EXCEPT ![c] = "booting"]
  /\ Goto(c, "done")
  /\ UNCHANGED <<fleetVars, flocked, pidFile, signalled, healVars, faults, historyVars>>

\* `restart` spawns without looking.
Spawn(c) ==
  /\ pc[c] = "spawn"
  /\ sched' = [sched EXCEPT ![c] = "booting"]
  /\ Goto(c, "done")
  /\ UNCHANGED <<fleetVars, flocked, pidFile, signalled, healVars, faults, historyVars>>

\* stop_background_scheduler: signal the process of the PID file, unlink both files.
Signal(c) ==
  /\ pc[c] = "signal"
  /\ signalled' = IF Alive(pidFile) THEN signalled \cup {pidFile} ELSE signalled
  /\ Goto(c, "unlink")
  /\ UNCHANGED <<fleetVars, sched, flocked, pidFile, healVars, faults, historyVars>>

UnlinkFiles ==
  /\ pidFile' = Nobody
  /\ flocked' = Nobody

Unlink(c) ==
  /\ pc[c] = "unlink"
  /\ UnlinkFiles
  /\ pc' = [pc EXCEPT ![c] = Follow[kind[c]].unlink]
  /\ UNCHANGED <<kind, at, failed, fleetVars, sched, signalled, healVars, faults, historyVars>>

(***************************************************************************)
(* A scheduler process: it acquires the lock, writes its PID, and heals.   *)
(***************************************************************************)
\* A free lock is taken; so is one beside the PID of a dead process, by new files.
Acquire(c) ==
  /\ sched[c] = "booting"
  /\ \/ flocked = Nobody /\ UNCHANGED pidFile
     \/ flocked # Nobody /\ pidFile # Nobody /\ ~Alive(pidFile) /\ pidFile' = Nobody
  /\ sched' = [sched EXCEPT ![c] = "locked"]
  /\ flocked' = c
  /\ UNCHANGED <<fleetVars, commandVars, signalled, healVars, faults, historyVars>>

\* Otherwise start raises: the child and `up --foreground` end, the dashboard goes on.
Refused(c) ==
  /\ sched[c] = "booting"
  /\ flocked # Nobody /\ (pidFile = Nobody \/ Alive(pidFile))
  /\ sched' = [sched EXCEPT ![c] = "ended"]
  /\ pc' = [pc EXCEPT ![c] = IF kind[c] = "foreground" THEN "failed" ELSE @]
  /\ UNCHANGED <<kind, at, failed, fleetVars, flocked, pidFile, signalled, healVars, faults, historyVars>>

WritePid(c) ==
  /\ sched[c] = "locked"
  /\ sched' = [sched EXCEPT ![c] = "running"]
  /\ pidFile' = c
  /\ UNCHANGED <<fleetVars, commandVars, flocked, signalled, healVars, faults, historyVars>>

\* The scheduler of c ends; if it was the last one, the commands that ended with one
\* have lost it.
EndScheduler(c) ==
  /\ sched' = [sched EXCEPT ![c] = "ended"]
  /\ hpc' = [hpc EXCEPT ![c] = "idle"]
  /\ signalled' = signalled \ {c}
  /\ lost' = IF \E d \in Commands \ {c} : sched[d] \in LiveScheduler THEN lost
             ELSE lost \cup {d \in Commands : pc[d] = "done"}
  /\ UNCHANGED <<hsvc, disturbed, raced>>

\* A process that ends without a release drops its flock; its files stay.
DropFlock(c) ==
  /\ flocked' = IF flocked = c THEN Nobody ELSE flocked
  /\ UNCHANGED pidFile

\* A process dies in the middle of anything.
Dies(c) ==
  /\ sched[c] \in LiveScheduler
  /\ EndScheduler(c)
  /\ DropFlock(c)
  /\ pc' = [pc EXCEPT ![c] = IF InProcess(c) THEN "failed" ELSE @]
  /\ UNCHANGED <<kind, at, failed, fleetVars>>

Kill(c) == Fault("kill") /\ Dies(c)

\* SIGTERM ends the CLI's processes at once; uvicorn runs on_shutdown instead.
Terminate(c) == c \in signalled /\ kind[c] # "dashboard" /\ Dies(c) /\ UNCHANGED faults

\* Ctrl+C, or SIGTERM to the dashboard: scheduler.stop, whose release unlinks by name.
\* A join that times out on a restart skips the release, and the process ends.
Shutdown(c) ==
  /\ InProcess(c) /\ pc[c] = "serve"
  /\ Goto(c, "done")
  /\ \/ sched[c] = "running" /\ hpc[c] = "idle" /\ EndScheduler(c) /\ UnlinkFiles
     \/ sched[c] = "running" /\ hpc[c] # "idle" /\ EndScheduler(c) /\ DropFlock(c)
     \/ sched[c] = "ended" /\ UNCHANGED <<lockVars, healVars, historyVars>>
  /\ UNCHANGED <<fleetVars, faults>>

\* Three checks of a service that is not recorded as stopped have failed, whether its
\* container is down or runs and is unhealthy.
HealBegin(c, s) ==
  /\ sched[c] = "running" /\ hpc[c] = "idle"
  /\ status[s] \notin Rowless \cup {"stopped"}
  /\ hpc' = [hpc EXCEPT ![c] = "rm"]
  /\ hsvc' = [hsvc EXCEPT ![c] = s]
  /\ UNCHANGED <<fleetVars, commandVars, lockVars, faults, historyVars>>

Heal(c, from, to) ==
  /\ hpc[c] = from
  /\ hpc' = [hpc EXCEPT ![c] = to]
  /\ SchedulerTouches(c, hsvc[c])
  /\ UNCHANGED <<commandVars, lockVars, hsvc, lost>>

\* Stop and remove, both best effort: a failed removal may find the container stopped.
HealRemove(c) ==
  /\ Heal(c, "rm", "run")
  /\ \/ container' = [container EXCEPT ![hsvc[c]] = "absent"] /\ UNCHANGED faults
     \/ /\ Fault("docker")
        /\ \E left \in {container[hsvc[c]], "exited"} :
             /\ container[hsvc[c]] = "absent" => left = "absent"
             /\ container' = [container EXCEPT ![hsvc[c]] = left]
  /\ UNCHANGED status

HealRun(c) ==
  /\ Heal(c, "run", "mark") /\ container[hsvc[c]] = "absent"
  /\ container' = [container EXCEPT ![hsvc[c]] = "running"]
  /\ UNCHANGED <<status, faults>>

HealRunFails(c) ==
  /\ Heal(c, "run", "mark_failed")
  /\ \/ container[hsvc[c]] # "absent" /\ UNCHANGED <<container, faults>>
     \/ /\ container[hsvc[c]] = "absent" /\ Fault("docker")
        /\ \E left \in {"absent", "exited"} : container' = [container EXCEPT ![hsvc[c]] = left]
  /\ UNCHANGED status

\* A restart ends with RUNNING, or with UNKNOWN if it failed.
HealMark(c) ==
  /\ \/ Heal(c, "mark", "idle") /\ status' = [status EXCEPT ![hsvc[c]] = "running"]
     \/ Heal(c, "mark_failed", "idle") /\ status' = [status EXCEPT ![hsvc[c]] = "unknown"]
  /\ UNCHANGED <<container, faults>>

\* A check of a running container that passes makes its row RUNNING, unless it is stopped.
CheckPasses(c, s) ==
  /\ sched[c] = "running" /\ hpc[c] = "idle"
  /\ status[s] = "unknown" /\ container[s] = "running"
  /\ status' = [status EXCEPT ![s] = "running"]
  /\ SchedulerTouches(c, s)
  /\ UNCHANGED <<container, commandVars, lockVars, healVars, faults, lost>>

ContainerDies(s) ==
  /\ container[s] = "running"
  /\ Fault("death")
  /\ container' = [container EXCEPT ![s] = "exited"]
  /\ disturbed' = {c \in Commands : pc[c] # "new"}
  /\ UNCHANGED <<status, commandVars, lockVars, healVars, raced, lost>>

Command(c) ==
  \/ Begin(c) \/ SeedServices(c) \/ CreateNetwork(c) \/ CreateNetworkFails(c)
  \/ StartRemove(c) \/ StartRun(c) \/ StartFails(c) \/ StartMark(c)
  \/ Stop(c) \/ StopRemove(c) \/ StopFails(c) \/ StopMark(c) \/ StopMarkFails(c)
  \/ Look(c) \/ Spawn(c) \/ Signal(c) \/ Unlink(c)

Boot(c) == Acquire(c) \/ Refused(c) \/ WritePid(c)

Healing(c) ==
  \/ \E s \in Services : HealBegin(c, s)
  \/ HealRemove(c) \/ HealRun(c) \/ HealRunFails(c) \/ HealMark(c)

Next ==
  \/ \E c \in Commands :
       \/ Command(c) \/ Boot(c) \/ Healing(c)
       \/ Kill(c) \/ Terminate(c) \/ Shutdown(c)
       \/ \E s \in Services : CheckPasses(c, s)
  \/ \E s \in Services : ContainerDies(s)

Spec == Init /\ [][Next]_vars

(***************************************************************************)
(* Properties.                                                             *)
(***************************************************************************)
\* Every variable stays within its type.
TypeOK ==
  /\ status \in [Services -> Rowless \cup {"running", "stopped", "unknown"}]
  /\ container \in [Services -> {"running", "exited", "absent"}]
  /\ kind \in [Commands -> Kinds]
  /\ pc \in [Commands -> Steps]
  /\ at \in [Commands -> DOMAIN Order]
  /\ failed \in [Commands -> SUBSET Services]
  /\ sched \in [Commands -> LiveScheduler \cup {"none", "ended"}]
  /\ hpc \in [Commands -> {"idle", "rm", "run", "mark", "mark_failed"}]
  /\ hsvc \in [Commands -> Services]
  /\ flocked \in Commands \cup {Nobody}
  /\ pidFile \in Commands \cup {Nobody, OldPid}
  /\ signalled \in SUBSET Commands
  /\ faults \in [FaultKinds -> Nat]
  /\ disturbed \in SUBSET Commands /\ raced \in SUBSET Services /\ lost \in SUBSET Commands

Starting(c) == kind[c] # "down" /\ pc[c] \in {"look", "spawn", "serve", "done"}

\* The exit status of a command tells the truth, whatever docker command failed on the
\* way: as long as nobody else has acted, after an `up` or a `restart` without a
\* failure everything runs and is recorded as running, after a `down` nothing is left
\* and no row says otherwise (a service that was never seeded still has none).
ReportIsTrue ==
  \A c \in Commands \ disturbed :
    /\ Starting(c) /\ kind[c] # "dashboard" =>
         \A s \in Services : container[s] = "running" /\ status[s] = "running"
    /\ kind[c] = "down" /\ pc[c] \in {"signal", "unlink", "done"} =>
         \A s \in Services : container[s] = "absent" /\ status[s] \in {"stopped", "unseeded"}

\* A container a command has just run finds its dependencies running, and one it has
\* just stopped has no dependent running, while nobody else acts and none has failed.
DependenciesUp ==
  \A c \in Commands \ disturbed : failed[c] = {} =>
    /\ pc[c] = "start_mark" => \A d \in Deps[Svc(c)] : container[d] = "running"
    /\ pc[c] = "stop_rm" => \A s \in Services : Svc(c) \in Deps[s] => container[s] # "running"

\* Recorded as stopped, a service is down: for all failures of docker, deaths and kills
\* of schedulers, and for all commands, unless two of them, or one and a scheduler,
\* were at work on the very same service at once.
StoppedIsDownUnlessRaced ==
  \A s \in Services \ raced :
    status[s] = "stopped" /\ (\A c \in Commands : ~CommandAt(c, s)) => container[s] # "running"

\* An `up` or a `restart` that has ended well leaves a scheduler process, though it may
\* have left the matter to one it saw, and its own may find the lock taken: they never
\* all give way, until somebody ends the last one.
UpLeavesScheduler ==
  \A c \in Commands :
    kind[c] \in {"up", "restart"} /\ pc[c] = "done" =>
      c \in lost \/ \E d \in Commands : sched[d] \in LiveScheduler
=============================================================================
