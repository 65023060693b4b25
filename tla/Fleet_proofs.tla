---------------------------- MODULE Fleet_proofs -----------------------------
(***************************************************************************)
(* Theorems about Fleet for any configuration, any commands and any        *)
(* number of failures, deaths and kills.                                   *)
(***************************************************************************)
EXTENDS Fleet, TLAPS

\* The table of phases, kind by kind; the other entries do not exist.
LEMMA FollowNew ==
  \A k \in CommandKinds :
    Follow[k].new = IF k = "down" THEN "stop" ELSE IF k = "restart" THEN "signal" ELSE "seed"
BY DEF Follow, CommandKinds

LEMMA FollowStart ==
  \A k \in CommandKinds \ {"down"} :
    /\ Follow[k].seed = IF k = "restart" THEN "stop" ELSE "network"
    /\ Follow[k].network = "start_rm"
    /\ Follow[k].starts = IF k = "up" THEN "look" ELSE IF k = "restart" THEN "spawn" ELSE "serve"
BY DEF Follow, CommandKinds

LEMMA FollowStop ==
  \A k \in {"down", "restart"} :
    /\ Follow[k].stops = IF k = "down" THEN "signal" ELSE "network"
    /\ Follow[k].unlink = IF k = "down" THEN "done" ELSE "seed"
BY DEF Follow

\* A step lies in a phase its kind of command has.
PhaseOK(c) ==
  /\ pc[c] \in {"seed", "network"} \cup StartSteps => kind[c] # "down"
  /\ pc[c] \in {"signal", "unlink"} \cup StopSteps => kind[c] \in {"down", "restart"}
  /\ pc[c] = "look" => kind[c] = "up"
  /\ pc[c] = "spawn" => kind[c] = "restart"
  /\ pc[c] = "serve" => InProcess(c)

\* The types that the control flow and the order need.
ControlOK ==
  /\ kind \in [Commands -> CommandKinds]
  /\ pc \in [Commands -> Steps]
  /\ at \in [Commands -> DOMAIN Order]
  /\ \A c \in Commands : PhaseOK(c)

LEMMA SvcInServices == ASSUME ControlOK, NEW c \in Commands PROVE Svc(c) \in Services
<1>1. /\ Len(Order) \in Nat /\ DOMAIN Order = 1 .. Len(Order)
      /\ \A i \in 1 .. Len(Order) : Order[i] \in Services
  BY OrderAssumption
<1>2. at[c] \in 1 .. Len(Order) /\ Len(Order) + 1 - at[c] \in 1 .. Len(Order)
  BY <1>1 DEF ControlOK
<1> QED BY <1>1, <1>2 DEF Svc

\* Moving to a step of the same kind's phases keeps control in order.
LEMMA GotoControl ==
  ASSUME ControlOK, NEW c \in Commands, NEW step \in Steps,
         pc' = [pc EXCEPT ![c] = step], UNCHANGED kind, at' \in [Commands -> DOMAIN Order],
         /\ step \in {"seed", "network"} \cup StartSteps => kind[c] # "down"
         /\ step \in {"signal", "unlink"} \cup StopSteps => kind[c] \in {"down", "restart"}
         /\ step = "look" => kind[c] = "up"
         /\ step = "spawn" => kind[c] = "restart"
         /\ step = "serve" => InProcess(c)
  PROVE  ControlOK'
BY DEF ControlOK, PhaseOK, InProcess

LEMMA LaunchType ==
  ASSUME TypeOK, NEW c \in Commands, NEW step, Launch(c, step)
  PROVE  sched' \in [Commands -> LiveScheduler \cup {"none", "ended"}]
BY DEF TypeOK, Launch, LiveScheduler

DoneSteps == {"start_rm", "stop", "failed", "look", "spawn", "serve", "signal", "network"}

\* A service of a loop is done: the next one, the exception, or the next phase.
LEMMA DoneControl ==
  ASSUME ControlOK, TypeOK, NEW c \in Commands, NEW ok \in BOOLEAN, NEW first, NEW phase,
         ServiceDone(c, ok, first, phase),
         \/ pc[c] \in StartSteps /\ first = "start_rm" /\ phase = "starts"
         \/ pc[c] \in StopSteps /\ first = "stop" /\ phase = "stops"
  PROVE  /\ ControlOK'
         /\ failed' \in [Commands -> SUBSET Services]
         /\ sched' \in [Commands -> LiveScheduler \cup {"none", "ended"}]
         /\ \E step \in DoneSteps : pc' = [pc EXCEPT ![c] = step] /\ Launch(c, step)
<1> DEFINE bad == IF ok THEN failed[c] ELSE failed[c] \cup {Svc(c)}
           last == at[c] = Len(Order)
           next == IF ~last THEN first
                   ELSE IF bad # {} THEN Raised(c) ELSE Follow[kind[c]][phase]
<1>1. /\ pc' = [pc EXCEPT ![c] = next] /\ UNCHANGED kind
      /\ at' = [at EXCEPT ![c] = IF last THEN @ ELSE @ + 1]
      /\ failed' = [failed EXCEPT ![c] = bad]
      /\ Launch(c, next)
  BY DEF ServiceDone
<1>2. at' \in [Commands -> DOMAIN Order]
  <2>1. Len(Order) \in Nat /\ DOMAIN Order = 1 .. Len(Order)
    BY OrderAssumption
  <2> QED BY <1>1, <2>1 DEF ControlOK
<1>3. kind[c] \in CommandKinds /\ PhaseOK(c)
  BY DEF ControlOK
<1>4. CASE pc[c] \in StartSteps /\ first = "start_rm" /\ phase = "starts"
  <2>1. kind[c] # "down"
    BY <1>3, <1>4 DEF PhaseOK
  <2>2. Follow[kind[c]].starts = IF kind[c] = "up" THEN "look"
                                 ELSE IF kind[c] = "restart" THEN "spawn" ELSE "serve"
    BY <1>3, <2>1, FollowStart
  <2>3. Follow["dashboard"].starts = "serve"
    BY FollowStart DEF CommandKinds
  <2>4. next \in {"start_rm", "failed", "look", "spawn", "serve"}
    BY <1>4, <2>2, <2>3 DEF Raised
  <2>5. /\ next = "look" => kind[c] = "up"
        /\ next = "spawn" => kind[c] = "restart"
        /\ next = "serve" => InProcess(c)
    BY <1>3, <1>4, <2>1, <2>2, <2>3 DEF Raised, InProcess, CommandKinds
  <2> HIDE DEF next
  <2>6. ControlOK'
    BY <1>1, <1>2, <2>1, <2>4, <2>5, GotoControl DEF Steps, StartSteps, StopSteps, Ended
  <2> QED BY <1>1, <2>4, <2>6, SvcInServices, LaunchType DEF TypeOK, DoneSteps
<1>5. CASE pc[c] \in StopSteps /\ first = "stop" /\ phase = "stops"
  <2>1. kind[c] \in {"down", "restart"}
    BY <1>3, <1>5 DEF PhaseOK
  <2>2. Follow[kind[c]].stops = IF kind[c] = "down" THEN "signal" ELSE "network"
    BY <2>1, FollowStop
  <2>3. next \in {"stop", "failed", "signal", "network"} /\ (next = "network" => kind[c] # "down")
    BY <1>5, <2>1, <2>2 DEF Raised
  <2> HIDE DEF next
  <2>4. ControlOK'
    BY <1>1, <1>2, <2>1, <2>3, GotoControl DEF Steps, StartSteps, StopSteps, Ended
  <2> QED BY <1>1, <2>3, <2>4, SvcInServices, LaunchType DEF TypeOK, DoneSteps
<1> QED BY <1>4, <1>5

Types == TypeOK /\ ControlOK

LEMMA TouchTypes ==
  ASSUME TypeOK, NEW cs \in SUBSET Commands, NEW ss, NEW s \in Services, Touch(cs, ss, s)
  PROVE  disturbed' \in SUBSET Commands /\ raced' \in SUBSET Services
BY DEF TypeOK, Touch

LEMMA FaultType ==
  ASSUME TypeOK, NEW k, Fault(k)
  PROVE  faults' \in [FaultKinds -> Nat]
<1>1. CASE k \in FaultKinds
  BY <1>1 DEF TypeOK, Fault
<1>2. CASE k \notin FaultKinds
  BY <1>2 DEF TypeOK, Fault
<1> QED BY <1>1, <1>2

LEMMA CommandKeepsTypes ==
  ASSUME Types, NEW c \in Commands, Command(c)
  PROVE  Types'
<1> USE DEF Types
<1>k. kind[c] \in CommandKinds /\ PhaseOK(c) /\ Svc(c) \in Services /\ 1 \in DOMAIN Order
  BY SvcInServices, OrderAssumption DEF ControlOK
<1>t. ASSUME CommandTouches(c)
      PROVE  disturbed' \in SUBSET Commands /\ raced' \in SUBSET Services
  BY <1>k, <1>t, TouchTypes DEF CommandTouches
<1> USE DEF Steps, StartSteps, StopSteps, Ended
<1>1. CASE Begin(c)
  <2>1. Follow[kind[c]].new \in {"seed", "stop", "signal"}
        /\ (Follow[kind[c]].new = "seed" => kind[c] # "down")
        /\ (Follow[kind[c]].new # "seed" => kind[c] \in {"down", "restart"})
    BY <1>k, FollowNew
  <2>2. ControlOK'
    BY <1>1, <2>1, GotoControl DEF Begin, Goto, ControlOK
  <2> QED BY <1>1, <2>2 DEF Begin, Goto, TypeOK, ControlOK, fleetVars, lockVars, healVars, historyVars
<1>2. CASE SeedServices(c)
  <2>1. kind[c] # "down" /\ Follow[kind[c]].seed = IF kind[c] = "restart" THEN "stop" ELSE "network"
    BY <1>2, <1>k, FollowStart DEF SeedServices, PhaseOK
  <2>2. ControlOK'
    BY <1>2, <2>1, GotoControl DEF SeedServices, Goto, ControlOK
  <2> QED BY <1>2, <2>2 DEF SeedServices, Goto, TypeOK, ControlOK, lockVars, healVars, historyVars
<1>3. CASE CreateNetwork(c)
  <2>1. kind[c] # "down" /\ Follow[kind[c]].network = "start_rm"
    BY <1>3, <1>k, FollowStart DEF CreateNetwork, PhaseOK
  <2>2. ControlOK'
    BY <1>3, <1>k, <2>1, GotoControl DEF CreateNetwork, ControlOK
  <2> QED BY <1>3, <2>2 DEF CreateNetwork, TypeOK, ControlOK, fleetVars, lockVars, healVars, historyVars
<1>4. CASE CreateNetworkFails(c)
  <2>1. Raised(c) = IF kind[c] = "dashboard" THEN "serve" ELSE "failed"
    BY FollowStart DEF Raised, CommandKinds
  <2>2. ControlOK'
    BY <1>4, <2>1, GotoControl DEF CreateNetworkFails, Goto, ControlOK, InProcess
  <2>3. sched' \in [Commands -> LiveScheduler \cup {"none", "ended"}]
    BY <1>4, LaunchType DEF CreateNetworkFails
  <2> QED BY <1>4, <2>2, <2>3, FaultType DEF CreateNetworkFails, Goto, TypeOK, ControlOK,
                                  fleetVars, healVars, historyVars
<1>5. CASE StartRemove(c)
  <2>1. ControlOK'
    BY <1>5, <1>k, GotoControl DEF StartRemove, Goto, ControlOK, PhaseOK
  <2> QED BY <1>5, <1>k, <1>t, <2>1, FaultType DEF StartRemove, Goto, TypeOK, ControlOK, lockVars, healVars
<1>6. CASE StartRun(c)
  <2>1. ControlOK'
    BY <1>6, <1>k, GotoControl DEF StartRun, Goto, ControlOK, PhaseOK
  <2> QED BY <1>6, <1>k, <1>t, <2>1 DEF StartRun, Goto, TypeOK, ControlOK, lockVars, healVars
<1>7. CASE StartFails(c)
  <2>1. /\ ControlOK' /\ failed' \in [Commands -> SUBSET Services]
        /\ sched' \in [Commands -> LiveScheduler \cup {"none", "ended"}]
    BY <1>7, DoneControl DEF StartFails
  <2>2. container' \in [Services -> {"running", "exited", "absent"}]
    BY <1>7, <1>k DEF StartFails, TypeOK
  <2>3. faults' \in [FaultKinds -> Nat]
    BY <1>7, FaultType DEF StartFails, TypeOK
  <2> QED BY <1>7, <1>t, <2>1, <2>2, <2>3 DEF StartFails, ServiceDone, TypeOK, ControlOK, healVars
<1>8. CASE StartMark(c)
  <2>1. /\ ControlOK' /\ failed' \in [Commands -> SUBSET Services]
        /\ sched' \in [Commands -> LiveScheduler \cup {"none", "ended"}]
    BY <1>8, DoneControl DEF StartMark
  <2> QED BY <1>8, <1>k, <1>t, <2>1 DEF StartMark, ServiceDone, TypeOK, ControlOK, healVars
<1>9. CASE Stop(c)
  <2>1. ControlOK'
    BY <1>9, <1>k, GotoControl DEF Stop, Goto, ControlOK, PhaseOK
  <2> QED BY <1>9, <1>k, <1>t, <2>1 DEF Stop, Goto, TypeOK, ControlOK, lockVars, healVars
<1>10. CASE StopRemove(c)
  <2>1. ControlOK'
    BY <1>10, <1>k, GotoControl DEF StopRemove, Goto, ControlOK, PhaseOK
  <2> QED BY <1>10, <1>k, <1>t, <2>1 DEF StopRemove, Goto, TypeOK, ControlOK, lockVars, healVars
<1>11. CASE StopFails(c)
  <2>1. /\ ControlOK' /\ failed' \in [Commands -> SUBSET Services]
        /\ sched' \in [Commands -> LiveScheduler \cup {"none", "ended"}]
    BY <1>11, DoneControl DEF StopFails
  <2> QED BY <1>11, <1>t, <2>1, FaultType DEF StopFails, ServiceDone, TypeOK, ControlOK, fleetVars, healVars
<1>12. CASE StopMark(c)
  <2>1. /\ ControlOK' /\ failed' \in [Commands -> SUBSET Services]
        /\ sched' \in [Commands -> LiveScheduler \cup {"none", "ended"}]
    BY <1>12, DoneControl DEF StopMark
  <2> QED BY <1>12, <1>k, <1>t, <2>1 DEF StopMark, ServiceDone, TypeOK, ControlOK, healVars
<1>13. CASE StopMarkFails(c)
  <2>1. /\ ControlOK' /\ failed' \in [Commands -> SUBSET Services]
        /\ sched' \in [Commands -> LiveScheduler \cup {"none", "ended"}]
    BY <1>13, DoneControl DEF StopMarkFails
  <2> QED BY <1>13, <1>t, <2>1 DEF StopMarkFails, ServiceDone, TypeOK, ControlOK, fleetVars, healVars
<1>14. CASE Look(c) \/ Spawn(c)
  <2>1. ControlOK'
    BY <1>14, GotoControl DEF Look, Spawn, Goto, ControlOK
  <2> QED BY <1>14, <2>1 DEF Look, Spawn, Goto, TypeOK, ControlOK, LiveScheduler, fleetVars, healVars, historyVars
<1>15. CASE Signal(c)
  <2>1. ControlOK'
    BY <1>15, <1>k, GotoControl DEF Signal, Goto, ControlOK, PhaseOK
  <2> QED BY <1>15, <2>1 DEF Signal, Goto, Alive, TypeOK, ControlOK, fleetVars, healVars, historyVars
<1>16. CASE Unlink(c)
  <2>1. Follow[kind[c]].unlink = IF kind[c] = "down" THEN "done" ELSE "seed"
    BY <1>16, <1>k, FollowStop DEF Unlink, PhaseOK
  <2>2. ControlOK'
    BY <1>16, <2>1, GotoControl DEF Unlink, ControlOK
  <2> QED BY <1>16, <2>2 DEF Unlink, UnlinkFiles, TypeOK, ControlOK, fleetVars, healVars, historyVars
<1> QED
  BY <1>1, <1>2, <1>3, <1>4, <1>5, <1>6, <1>7, <1>8, <1>9, <1>10, <1>11, <1>12, <1>14, <1>15, <1>16, <1>13
  DEF Command

LEMMA SchedulerKeepsTypes ==
  ASSUME Types, NEW c \in Commands,
         \/ Boot(c) \/ Healing(c) \/ Kill(c) \/ Terminate(c) \/ Shutdown(c)
         \/ \E s \in Services : CheckPasses(c, s)
  PROVE  Types'
<1> USE DEF Types
<1>h. hsvc[c] \in Services
  BY DEF TypeOK
<1>t. ASSUME NEW s \in Services, SchedulerTouches(c, s)
      PROVE  disturbed' \in SUBSET Commands /\ raced' \in SUBSET Services
  BY <1>t, TouchTypes DEF SchedulerTouches
<1>d. ASSUME Dies(c) PROVE ControlOK'
  <2>1. CASE InProcess(c)
    BY <1>d, <2>1, GotoControl DEF Dies, ControlOK, Steps, StartSteps, StopSteps, Ended
  <2>2. CASE ~InProcess(c)
    <3>1. UNCHANGED commandVars
      BY <1>d, <2>2 DEF Dies, ControlOK, commandVars
    <3> QED BY <3>1 DEF ControlOK, PhaseOK, InProcess, commandVars
  <2> QED BY <2>1, <2>2
<1>1. CASE Acquire(c) \/ WritePid(c)
  BY <1>1 DEF Acquire, WritePid, Alive, TypeOK, ControlOK, PhaseOK, InProcess, LiveScheduler,
              fleetVars, commandVars, healVars, historyVars
<1>2. CASE Refused(c)
  <2>1. ControlOK'
    <3>1. CASE kind[c] = "foreground"
      BY <1>2, <3>1, GotoControl DEF Refused, ControlOK, Steps, StartSteps, StopSteps, Ended
    <3>2. CASE kind[c] # "foreground"
      <4>1. UNCHANGED commandVars
        BY <1>2, <3>2 DEF Refused, ControlOK, commandVars
      <4> QED BY <4>1 DEF ControlOK, PhaseOK, InProcess, commandVars
    <3> QED BY <3>1, <3>2
  <2> QED BY <1>2, <2>1 DEF Refused, TypeOK, ControlOK, LiveScheduler, fleetVars, healVars, historyVars
<1>3. CASE Kill(c)
  BY <1>3, <1>d, FaultType DEF Kill, Dies, EndScheduler, DropFlock, TypeOK, ControlOK, fleetVars
<1>4. CASE Terminate(c)
  BY <1>4, <1>d DEF Terminate, Dies, EndScheduler, DropFlock, TypeOK, ControlOK, fleetVars
<1>5. CASE Shutdown(c)
  <2>1. ControlOK'
    BY <1>5, GotoControl DEF Shutdown, Goto, ControlOK, Steps, StartSteps, StopSteps, Ended
  <2> QED BY <1>5, <2>1 DEF Shutdown, Goto, EndScheduler, UnlinkFiles, DropFlock, TypeOK, ControlOK,
                            fleetVars, lockVars, healVars, historyVars
<1>6. ASSUME NEW s \in Services, HealBegin(c, s) PROVE Types'
  BY <1>6 DEF HealBegin, TypeOK, ControlOK, PhaseOK, InProcess, fleetVars, commandVars, lockVars, historyVars
<1>7. CASE HealRemove(c) \/ HealRun(c)
  BY <1>7, <1>h, <1>t, FaultType DEF HealRemove, HealRun, Heal, TypeOK, ControlOK, PhaseOK, InProcess,
              commandVars, lockVars
<1>8. CASE HealRunFails(c) \/ HealMark(c)
  BY <1>8, <1>h, <1>t, FaultType DEF HealRunFails, HealMark, Heal, TypeOK, ControlOK, PhaseOK, InProcess,
              fleetVars, commandVars, lockVars
<1>9. ASSUME NEW s \in Services, CheckPasses(c, s) PROVE Types'
  BY <1>9, <1>t DEF CheckPasses, TypeOK, ControlOK, PhaseOK, InProcess, commandVars, lockVars, healVars
<1> QED BY <1>1, <1>2, <1>3, <1>4, <1>5, <1>6, <1>7, <1>8, <1>9 DEF Boot, Healing

\* Each command stays in the phases of its kind, so that no entry of the table of phases
\* is read that does not exist.
LEMMA FleetKeepsTypes == Spec => []Types
<1>1. Init => Types
  <2> SUFFICES ASSUME Init PROVE Types
    OBVIOUS
  <2>1. Order[1] \in Services /\ 1 \in DOMAIN Order
    BY OrderAssumption
  <2>2. ControlOK
    BY <2>1, FleetAssumption DEF Init, ControlOK, PhaseOK, Steps, StartSteps, StopSteps
  <2>3. status \in [Services -> Rowless \cup {"running", "stopped", "unknown"}]
        /\ container \in [Services -> {"running", "exited", "absent"}]
    BY DEF Init
  <2>4. /\ hpc \in [Commands -> {"idle", "rm", "run", "mark", "mark_failed"}]
        /\ hsvc \in [Commands -> Services] /\ faults \in [FaultKinds -> Nat]
        /\ sched \in [Commands -> LiveScheduler \cup {"none", "ended"}]
        /\ failed \in [Commands -> SUBSET Services]
    BY <2>1 DEF Init
  <2> QED BY <2>2, <2>3, <2>4 DEF Init, Types, TypeOK, ControlOK
<1>2. Types /\ [Next]_vars => Types'
  <2> SUFFICES ASSUME Types, [Next]_vars PROVE Types'
    OBVIOUS
  <2>1. CASE UNCHANGED vars
    BY <2>1 DEF Types, TypeOK, ControlOK, PhaseOK, InProcess, vars
  <2>2. ASSUME NEW s \in Services, ContainerDies(s) PROVE Types'
    BY <2>2, FaultType DEF ContainerDies, Types, TypeOK, ControlOK, PhaseOK, InProcess,
                commandVars, lockVars, healVars
  <2> QED BY <2>1, <2>2, CommandKeepsTypes, SchedulerKeepsTypes DEF Next
<1> QED BY <1>1, <1>2, PTL DEF Spec

\* Every variable keeps its type.
THEOREM FleetTypes == Spec => []TypeOK
<1>1. Types => TypeOK
  BY DEF Types
<1> QED BY <1>1, FleetKeepsTypes, PTL

(***************************************************************************)
(* Some scheduler is left.  A command has none before its end; who has the *)
(* flock is alive; and the PID of a file is one of a process that has had  *)
(* the lock, whose scheduler lives as long as the process serves.          *)
(***************************************************************************)
Late == {"done", "serve", "failed"}

SchedInv ==
  /\ \A c \in Commands : pc[c] \notin Late => sched[c] = "none"
  /\ flocked # Nobody => sched[flocked] \in {"locked", "running"}
  /\ \A c \in Commands : pidFile = c =>
       /\ sched[c] \in {"running", "ended"}
       /\ InProcess(c) /\ pc[c] = "serve" => sched[c] = "running"

\* The step of a command that has no scheduler yet, the first one of its scheduler too.
MovesOn(c) ==
  /\ pc[c] \notin Late
  /\ \E step \in Steps :
       /\ pc' = [pc EXCEPT ![c] = step]
       /\ \/ sched' = sched /\ (step = "done" => kind[c] = "down" \/ Alive(pidFile))
          \/ step \in Late /\ sched' = [sched EXCEPT ![c] = "booting"]
  /\ kind' = kind /\ lost' = lost
  /\ UNCHANGED <<flocked, pidFile>> \/ UnlinkFiles

LEMMA CommandMovesOn ==
  ASSUME Types, NEW c \in Commands, Command(c)
  PROVE  MovesOn(c)
<1> USE DEF Types
<1>k. kind[c] \in CommandKinds /\ PhaseOK(c)
  BY DEF ControlOK
<1> USE DEF Steps, StartSteps, StopSteps, Ended, Late, lockVars, historyVars
<1>l. ASSUME NEW step \in Steps \ {"done"}, Launch(c, step)
      PROVE  sched' = sched \/ (step \in Late /\ sched' = [sched EXCEPT ![c] = "booting"])
  BY <1>l DEF Launch
<1>d. ASSUME NEW ok \in BOOLEAN, NEW first, NEW phase, ServiceDone(c, ok, first, phase), lost' = lost,
             \/ pc[c] \in StartSteps /\ first = "start_rm" /\ phase = "starts"
             \/ pc[c] \in StopSteps /\ first = "stop" /\ phase = "stops"
      PROVE  MovesOn(c)
  <2>1. PICK step \in DoneSteps : pc' = [pc EXCEPT ![c] = step] /\ Launch(c, step)
    BY <1>d, DoneControl
  <2>2. UNCHANGED <<kind, flocked, pidFile>>
    BY <1>d DEF ServiceDone
  <2> QED BY <1>d, <1>l, <2>1, <2>2 DEF MovesOn, DoneSteps
<1>1. CASE Begin(c)
  <2>1. Follow[kind[c]].new \in {"seed", "stop", "signal"}
    BY <1>k, FollowNew
  <2> QED BY <1>1, <2>1 DEF Begin, Goto, MovesOn
<1>2. CASE SeedServices(c)
  <2>1. Follow[kind[c]].seed \in {"stop", "network"}
    BY <1>2, <1>k, FollowStart DEF SeedServices, PhaseOK
  <2> QED BY <1>2, <2>1 DEF SeedServices, Goto, MovesOn
<1>3. CASE CreateNetwork(c)
  <2>1. Follow[kind[c]].network = "start_rm"
    BY <1>3, <1>k, FollowStart DEF CreateNetwork, PhaseOK
  <2> QED BY <1>3, <2>1 DEF CreateNetwork, MovesOn
<1>4. CASE CreateNetworkFails(c)
  <2>1. Raised(c) \in {"serve", "failed"}
    BY FollowStart DEF Raised, CommandKinds
  <2> QED BY <1>4, <1>l, <2>1 DEF CreateNetworkFails, Goto, MovesOn
<1>5. CASE StartRemove(c) \/ StartRun(c) \/ Stop(c) \/ StopRemove(c)
  BY <1>5 DEF StartRemove, StartRun, Stop, StopRemove, Goto, MovesOn
<1>6. CASE StartFails(c) \/ StartMark(c)
  BY <1>6, <1>d DEF StartFails, StartMark
<1>7. CASE StopFails(c) \/ StopMark(c) \/ StopMarkFails(c)
  BY <1>7, <1>d DEF StopFails, StopMark, StopMarkFails
<1>8. CASE Look(c) \/ Spawn(c)
  BY <1>8 DEF Look, Spawn, Goto, MovesOn
<1>9. CASE Signal(c)
  BY <1>9 DEF Signal, Goto, MovesOn
<1>10. CASE Unlink(c)
  <2>1. Follow[kind[c]].unlink = IF kind[c] = "down" THEN "done" ELSE "seed"
    BY <1>10, <1>k, FollowStop DEF Unlink, PhaseOK
  <2> QED BY <1>10, <2>1 DEF Unlink, MovesOn
<1> QED BY <1>1, <1>2, <1>3, <1>4, <1>5, <1>6, <1>7, <1>8, <1>9, <1>10 DEF Command

UpInv == SchedInv /\ UpLeavesScheduler

LEMMA MovesOnKeepsUp ==
  ASSUME Types, UpInv, NEW c \in Commands, MovesOn(c)
  PROVE  UpInv'
<1> USE FleetAssumption DEF Types
<1>1. PICK step \in Steps :
        /\ pc' = [pc EXCEPT ![c] = step]
        /\ \/ sched' = sched /\ (step = "done" => kind[c] = "down" \/ Alive(pidFile))
           \/ step \in Late /\ sched' = [sched EXCEPT ![c] = "booting"]
  BY DEF MovesOn
<1>2. pc \in [Commands -> Steps] /\ sched[c] = "none"
      /\ sched \in [Commands -> LiveScheduler \cup {"none", "ended"}]
  BY DEF MovesOn, ControlOK, UpInv, SchedInv, TypeOK
<1>3. pidFile # c /\ flocked # c
  BY <1>2 DEF UpInv, SchedInv
<1>4. SchedInv'
  BY <1>1, <1>2, <1>3 DEF MovesOn, UpInv, SchedInv, TypeOK, UnlinkFiles, InProcess
<1>5. ASSUME Alive(pidFile) PROVE \E d \in Commands : sched[d] \in LiveScheduler
  BY <1>5 DEF Alive, UpInv, SchedInv, LiveScheduler
<1>6. \A d \in Commands : sched[d] \in LiveScheduler => sched'[d] \in LiveScheduler
  BY <1>1, <1>2 DEF LiveScheduler
<1>7. UpLeavesScheduler'
  <2> SUFFICES ASSUME NEW d \in Commands, kind[d] \in {"up", "restart"}, pc'[d] = "done", d \notin lost
               PROVE  \E e \in Commands : sched'[e] \in LiveScheduler
    BY DEF MovesOn, UpLeavesScheduler
  <2>1. CASE d # c
    BY <1>1, <1>2, <1>6, <2>1 DEF UpInv, UpLeavesScheduler
  <2>2. CASE d = c
    BY <1>1, <1>2, <1>5, <1>6, <2>2 DEF LiveScheduler
  <2> QED BY <2>1, <2>2
<1> QED BY <1>4, <1>7 DEF UpInv

\* A scheduler ends: the last one takes the commands that ended with one with it.
LEMMA EndKeepsUp ==
  ASSUME Types, UpInv, NEW c \in Commands, EndScheduler(c), kind' = kind,
         sched[c] \in LiveScheduler,
         /\ pc' = [pc EXCEPT ![c] = IF InProcess(c) THEN pc'[c] ELSE @]
         /\ InProcess(c) => pc'[c] \in {"done", "failed"},
         \/ UnlinkFiles
         \/ pidFile' = pidFile /\ flocked' = IF flocked = c THEN Nobody ELSE flocked
  PROVE  UpInv'
<1> USE FleetAssumption DEF Types
<1>1. /\ pc \in [Commands -> Steps] /\ pc[c] \in Late
      /\ sched \in [Commands -> LiveScheduler \cup {"none", "ended"}]
      /\ sched' = [sched EXCEPT ![c] = "ended"]
  BY DEF ControlOK, UpInv, SchedInv, TypeOK, EndScheduler, LiveScheduler
<1>2. \A d \in Commands : d # c => pc'[d] = pc[d] /\ sched'[d] = sched[d]
  BY <1>1
<1>3. pc'[c] \in Late /\ (InProcess(c) => pc'[c] # "serve")
  BY <1>1 DEF Late
<1>4. SchedInv'
  BY <1>1, <1>2, <1>3 DEF UpInv, SchedInv, TypeOK, UnlinkFiles, InProcess
<1>5. UpLeavesScheduler'
  <2> SUFFICES ASSUME NEW d \in Commands, kind[d] \in {"up", "restart"}, pc'[d] = "done", d \notin lost',
                      \A e \in Commands : sched'[e] \notin LiveScheduler
               PROVE  FALSE
    BY DEF UpLeavesScheduler
  <2>1. pc[d] = "done"
    BY <1>1 DEF InProcess
  <2> QED BY <1>2, <2>1 DEF EndScheduler
<1> QED BY <1>4, <1>5 DEF UpInv

LEMMA SchedulerKeepsUp ==
  ASSUME Types, UpInv, NEW c \in Commands,
         \/ Boot(c) \/ Healing(c) \/ Kill(c) \/ Terminate(c) \/ Shutdown(c)
         \/ \E s \in Services : CheckPasses(c, s)
  PROVE  UpInv'
<1> USE FleetAssumption DEF Types
<1>t. /\ pc \in [Commands -> Steps] /\ kind \in [Commands -> CommandKinds]
      /\ sched \in [Commands -> LiveScheduler \cup {"none", "ended"}]
  BY DEF ControlOK, TypeOK
<1>1. CASE Acquire(c)
  BY <1>1, <1>t DEF Acquire, UpInv, SchedInv, UpLeavesScheduler, InProcess, LiveScheduler,
                    commandVars, historyVars
<1>2. CASE WritePid(c)
  BY <1>2, <1>t DEF WritePid, UpInv, SchedInv, UpLeavesScheduler, InProcess, LiveScheduler,
                    commandVars, historyVars
<1>3. CASE Refused(c)
  <2>1. /\ sched[c] = "booting" /\ sched' = [sched EXCEPT ![c] = "ended"]
        /\ pc' = [pc EXCEPT ![c] = IF kind[c] = "foreground" THEN "failed" ELSE @]
        /\ flocked \in Commands /\ sched[flocked] \in {"locked", "running"}
        /\ UNCHANGED <<kind, flocked, pidFile, lost>>
    BY <1>3 DEF Refused, UpInv, SchedInv, TypeOK, historyVars
  <2>2. flocked # c /\ pidFile # c /\ sched'[flocked] \in LiveScheduler
    BY <1>t, <2>1 DEF UpInv, SchedInv, LiveScheduler
  <2>3. SchedInv'
    BY <1>t, <2>1, <2>2 DEF UpInv, SchedInv, InProcess, Late
  <2> QED BY <2>1, <2>2, <2>3 DEF UpInv, UpLeavesScheduler
<1>4. CASE Kill(c) \/ Terminate(c)
  <2>1. /\ Dies(c) /\ pc' = [pc EXCEPT ![c] = IF InProcess(c) THEN "failed" ELSE @]
    BY <1>4 DEF Kill, Terminate, Dies
  <2>2. InProcess(c) => pc'[c] = "failed"
    BY <1>t, <2>1
  <2> QED BY <1>t, <2>1, <2>2, EndKeepsUp DEF Dies, DropFlock
<1>5. CASE Shutdown(c)
  <2>1. /\ InProcess(c) /\ pc' = [pc EXCEPT ![c] = "done"] /\ kind' = kind
        /\ pc'[c] = "done"
    BY <1>5, <1>t DEF Shutdown, Goto
  <2>2. CASE EndScheduler(c) /\ UnlinkFiles /\ sched[c] = "running"
    BY <1>t, <2>1, <2>2, EndKeepsUp DEF LiveScheduler
  <2>4. CASE EndScheduler(c) /\ DropFlock(c) /\ sched[c] = "running"
    BY <1>t, <2>1, <2>4, EndKeepsUp DEF DropFlock, LiveScheduler
  <2>3. CASE UNCHANGED <<lockVars, healVars, historyVars>>
    BY <1>t, <2>1, <2>3 DEF UpInv, SchedInv, UpLeavesScheduler, InProcess, Late, lockVars, historyVars
  <2> QED BY <1>5, <2>2, <2>3, <2>4 DEF Shutdown
<1>6. CASE Healing(c) \/ \E s \in Services : CheckPasses(c, s)
  <2>1. UNCHANGED <<commandVars, lockVars, lost>>
    BY <1>6 DEF Healing, HealBegin, HealRemove, HealRun, HealRunFails, HealMark, Heal, CheckPasses,
                historyVars
  <2> QED BY <2>1 DEF UpInv, SchedInv, UpLeavesScheduler, InProcess, commandVars, lockVars
<1> QED BY <1>1, <1>2, <1>3, <1>4, <1>5, <1>6 DEF Boot

LEMMA UpAlways == Spec => []UpInv
<1>1. Init => UpInv
  BY FleetAssumption DEF Init, UpInv, SchedInv, UpLeavesScheduler
<1>2. Types /\ UpInv /\ [Next]_vars => UpInv'
  <2> SUFFICES ASSUME Types, UpInv, [Next]_vars PROVE UpInv'
    OBVIOUS
  <2>1. CASE UNCHANGED vars
    BY <2>1 DEF UpInv, SchedInv, UpLeavesScheduler, InProcess, vars
  <2>2. ASSUME NEW s \in Services, ContainerDies(s) PROVE UpInv'
    BY <2>2 DEF ContainerDies, UpInv, SchedInv, UpLeavesScheduler, InProcess, commandVars, lockVars
  <2> QED BY <2>1, <2>2, CommandMovesOn, MovesOnKeepsUp, SchedulerKeepsUp DEF Next
<1> QED BY <1>1, <1>2, FleetKeepsTypes, PTL DEF Spec

\* An `up` or a `restart` that has ended well leaves some scheduler, whoever takes the lock
\* or looks at the PID file in between, until somebody ends the last one.
THEOREM SomeSchedulerIsLeft == Spec => []UpLeavesScheduler
<1>1. UpInv => UpLeavesScheduler
  BY DEF UpInv
<1> QED BY <1>1, UpAlways, PTL

(***************************************************************************)
(* Stopped means down.  Outside the services that two actors worked on at  *)
(* once: a command between its `docker stop` and the row finds the service *)
(* down still; a container that runs behind a stopped row is one that a    *)
(* command is about to mark; and no scheduler restarts a stopped service.  *)
(***************************************************************************)
Down == Rowless \cup {"stopped"}

\* Command c has run s and not marked it yet; it has stopped s and not marked it yet.
MarksRunning(c, s) == pc[c] = "start_mark" /\ Svc(c) = s
MarksStopped(c, s) == pc[c] \in {"stop_rm", "stop_mark"} /\ Svc(c) = s

StoppedInv(s) ==
  /\ \A c \in Commands : MarksStopped(c, s) => container[s] # "running"
  /\ status[s] \in Down /\ container[s] = "running" => \E c \in Commands : MarksRunning(c, s)
  /\ \A c \in Commands : HealAt(c, s) => status[s] \notin Down

RacedInv == \A s \in Services \ raced : StoppedInv(s)

\* Of the commands, at most c makes a step.
OnlyMoves(c) == \A d \in Commands \ {c} : UNCHANGED <<pc[d], at[d], hpc[d], hsvc[d]>>

\* The marks of the others stay as they are.
LEMMA OthersStay ==
  ASSUME NEW c \in Commands, OnlyMoves(c), NEW d \in Commands \ {c}, NEW s
  PROVE  /\ MarksRunning(d, s)' <=> MarksRunning(d, s)
         /\ MarksStopped(d, s)' <=> MarksStopped(d, s)
         /\ HealAt(d, s)' <=> HealAt(d, s)
BY DEF OnlyMoves, MarksRunning, MarksStopped, HealAt, Svc

\* A step that leaves the service alone, and begins or ends no mark of it.
LEMMA ElsewhereKeepsStopped ==
  ASSUME NEW s \in Services, StoppedInv(s), NEW c \in Commands, OnlyMoves(c),
         container'[s] = container[s] \/ container'[s] # "running",
         status[s] \in Down <=> status'[s] \in Down,
         MarksRunning(c, s) => MarksRunning(c, s)',
         MarksStopped(c, s)' => MarksStopped(c, s),
         HealAt(c, s)' => HealAt(c, s)
  PROVE  StoppedInv(s)'
<1>1. \A d \in Commands : /\ MarksRunning(d, s) => MarksRunning(d, s)'
                          /\ MarksStopped(d, s)' => MarksStopped(d, s)
                          /\ HealAt(d, s)' => HealAt(d, s)
  BY OthersStay
<1>2. \A d \in Commands : MarksStopped(d, s)' => container'[s] # "running"
  BY <1>1 DEF StoppedInv
<1>3. status'[s] \in Down /\ container'[s] = "running" => \E d \in Commands : MarksRunning(d, s)'
  BY <1>1 DEF StoppedInv
<1>4. \A d \in Commands : HealAt(d, s)' => status'[s] \notin Down
  BY <1>1 DEF StoppedInv
<1> QED BY <1>2, <1>3, <1>4 DEF StoppedInv

\* Only the actor is at the service, if the step does not add it to `raced`.
LEMMA Alone ==
  ASSUME NEW cs, NEW ss, NEW s, Touch(cs, ss, s), s \notin raced'
  PROVE  /\ s \notin raced
         /\ \A c \in cs : ~CommandAt(c, s)
         /\ \A c \in ss : ~HealAt(c, s)
BY DEF Touch

\* A step of a command that is about no service; its scheduler may end with it.
LEMMA IdleKeepsRaced ==
  ASSUME Types, RacedInv, NEW c \in Commands,
         NEW step \in Steps \ MidSteps, pc[c] \notin MidSteps,
         pc' = [pc EXCEPT ![c] = step],
         \A d \in Commands \ {c} : at'[d] = at[d],
         UNCHANGED <<container, hsvc, raced>>,
         hpc' = hpc \/ hpc' = [hpc EXCEPT ![c] = "idle"],
         \A s \in Services : status[s] \in Down <=> status'[s] \in Down
  PROVE  RacedInv'
<1> USE DEF Types
<1> SUFFICES ASSUME NEW s \in Services \ raced' PROVE StoppedInv(s)'
  BY DEF RacedInv
<1>1. StoppedInv(s)
  BY DEF RacedInv
<1>2. pc \in [Commands -> Steps] /\ pc'[c] = step
  BY DEF ControlOK
<1>3. OnlyMoves(c)
  BY <1>2 DEF OnlyMoves, TypeOK
<1>4. ~MarksRunning(c, s) /\ ~MarksStopped(c, s)'
  BY <1>2 DEF MarksRunning, MarksStopped, MidSteps
<1>5. HealAt(c, s)' => HealAt(c, s)
  BY DEF HealAt, TypeOK
<1> QED BY <1>1, <1>3, <1>4, <1>5, ElsewhereKeepsStopped

\* A step of a command on a service: how control goes on, and what else stays.
WorksOn(c) ==
  /\ pc[c] \in StartSteps \cup StopSteps
  /\ \A d \in Commands \ {c} : pc'[d] = pc[d] /\ at'[d] = at[d]
  /\ \/ pc'[c] \in MidSteps /\ Svc(c)' = Svc(c)
     \/ pc'[c] \in Steps \ MidSteps
  /\ \A s \in Services \ {Svc(c)} : container'[s] = container[s] /\ status'[s] = status[s]
  /\ UNCHANGED healVars
  /\ CommandTouches(c)

LEMMA CommandWorksOn ==
  ASSUME Types, NEW c \in Commands,
         \/ StartRemove(c) \/ StartRun(c) \/ StartFails(c) \/ StartMark(c)
         \/ Stop(c) \/ StopRemove(c) \/ StopFails(c) \/ StopMark(c) \/ StopMarkFails(c)
  PROVE  /\ WorksOn(c)
         /\ StartFails(c) \/ StartMark(c) \/ StopFails(c) \/ StopMark(c) \/ StopMarkFails(c) => pc'[c] \in Steps \ MidSteps
<1> USE DEF Types
<1>t. /\ pc \in [Commands -> Steps] /\ at \in [Commands -> DOMAIN Order] /\ Svc(c) \in Services
      /\ status \in [Services -> Rowless \cup {"running", "stopped", "unknown"}]
      /\ container \in [Services -> {"running", "exited", "absent"}]
  BY SvcInServices DEF ControlOK, TypeOK
<1>g. ASSUME NEW step, Goto(c, step), pc[c] \in StopSteps <=> step \in StopSteps
      PROVE  /\ pc'[c] = step /\ Svc(c)' = Svc(c)
             /\ \A d \in Commands \ {c} : pc'[d] = pc[d] /\ at'[d] = at[d]
  BY <1>t, <1>g DEF Goto, Svc
<1>d. ASSUME NEW ok \in BOOLEAN, NEW first, NEW phase, ServiceDone(c, ok, first, phase),
             \/ pc[c] \in StartSteps /\ first = "start_rm" /\ phase = "starts"
             \/ pc[c] \in StopSteps /\ first = "stop" /\ phase = "stops"
      PROVE  /\ pc'[c] \in Steps \ MidSteps
             /\ \A d \in Commands \ {c} : pc'[d] = pc[d] /\ at'[d] = at[d]
  <2>1. PICK step \in DoneSteps : pc' = [pc EXCEPT ![c] = step]
    BY <1>d, DoneControl
  <2> QED BY <1>d, <1>t, <2>1 DEF ServiceDone, DoneSteps, Steps, StartSteps, StopSteps, Ended, MidSteps
<1>1. ASSUME StartRemove(c) PROVE WorksOn(c)
  <2>1. /\ pc'[c] = "start_run" /\ Svc(c)' = Svc(c)
        /\ \A d \in Commands \ {c} : pc'[d] = pc[d] /\ at'[d] = at[d]
    BY <1>1, <1>g DEF StartRemove, StopSteps
  <2> QED BY <1>1, <1>t, <2>1 DEF StartRemove, WorksOn, StartSteps, StopSteps, MidSteps
<1>2. ASSUME StartRun(c) PROVE WorksOn(c)
  <2>1. /\ pc'[c] = "start_mark" /\ Svc(c)' = Svc(c)
        /\ \A d \in Commands \ {c} : pc'[d] = pc[d] /\ at'[d] = at[d]
    BY <1>2, <1>g DEF StartRun, StopSteps
  <2> QED BY <1>2, <1>t, <2>1 DEF StartRun, WorksOn, StartSteps, StopSteps, MidSteps
<1>3. ASSUME StartFails(c) PROVE WorksOn(c)
  <2>1. \A s \in Services \ {Svc(c)} : container'[s] = container[s]
    BY <1>3, <1>t DEF StartFails
  <2>2. pc[c] \in StartSteps /\ status' = status /\ UNCHANGED healVars /\ CommandTouches(c)
    BY <1>3 DEF StartFails, StartSteps
  <2>3. pc'[c] \in Steps \ MidSteps /\ \A d \in Commands \ {c} : pc'[d] = pc[d] /\ at'[d] = at[d]
    BY <1>3, <1>d, <2>2 DEF StartFails
  <2> QED BY <2>1, <2>2, <2>3 DEF WorksOn
<1>4. ASSUME StartMark(c) PROVE WorksOn(c)
  BY <1>4, <1>t, <1>d DEF StartMark, WorksOn, StartSteps
<1>5. ASSUME Stop(c) PROVE WorksOn(c)
  <2>1. /\ pc'[c] = "stop_rm" /\ Svc(c)' = Svc(c)
        /\ \A d \in Commands \ {c} : pc'[d] = pc[d] /\ at'[d] = at[d]
    BY <1>5, <1>g DEF Stop, StopSteps
  <2> QED BY <1>5, <1>t, <2>1 DEF Stop, WorksOn, StopSteps, MidSteps
<1>6. ASSUME StopRemove(c) PROVE WorksOn(c)
  <2>1. /\ pc'[c] = "stop_mark" /\ Svc(c)' = Svc(c)
        /\ \A d \in Commands \ {c} : pc'[d] = pc[d] /\ at'[d] = at[d]
    BY <1>6, <1>g DEF StopRemove, StopSteps
  <2> QED BY <1>6, <1>t, <2>1 DEF StopRemove, WorksOn, StopSteps, MidSteps
<1>7. ASSUME StopFails(c) PROVE WorksOn(c)
  BY <1>7, <1>t, <1>d DEF StopFails, WorksOn, StopSteps, fleetVars
<1>8. ASSUME StopMark(c) PROVE WorksOn(c)
  BY <1>8, <1>t, <1>d DEF StopMark, WorksOn, StopSteps
<1>9. ASSUME StopMarkFails(c) PROVE WorksOn(c)
  BY <1>9, <1>t, <1>d DEF StopMarkFails, WorksOn, StopSteps, fleetVars
<1>10. StartFails(c) \/ StartMark(c) \/ StopFails(c) \/ StopMark(c) \/ StopMarkFails(c) => pc'[c] \in Steps \ MidSteps
  BY <1>d DEF StartFails, StartMark, StopFails, StopMark, StopMarkFails, StartSteps, StopSteps
<1> QED BY <1>1, <1>2, <1>3, <1>4, <1>5, <1>6, <1>7, <1>8, <1>9, <1>10

\* The commands' own steps on a service.
LEMMA WorkKeepsRaced ==
  ASSUME Types, RacedInv, NEW c \in Commands,
         \/ StartRemove(c) \/ StartRun(c) \/ StartFails(c) \/ StartMark(c)
         \/ Stop(c) \/ StopRemove(c) \/ StopFails(c) \/ StopMark(c) \/ StopMarkFails(c)
  PROVE  RacedInv'
<1> USE DEF Types
<1> SUFFICES ASSUME NEW s \in Services \ raced' PROVE StoppedInv(s)'
  BY DEF RacedInv
<1>1. WorksOn(c)
  BY CommandWorksOn
<1>2. StoppedInv(s) /\ OnlyMoves(c)
  BY <1>1 DEF WorksOn, CommandTouches, Touch, RacedInv, OnlyMoves, healVars
<1>3. HealAt(c, s)' <=> HealAt(c, s)
  BY <1>1 DEF WorksOn, HealAt, healVars
<1>4. CASE Svc(c) # s
  <2>1. container'[s] = container[s] /\ status'[s] = status[s]
    BY <1>1, <1>4 DEF WorksOn
  <2>2. ~MarksRunning(c, s) /\ ~MarksStopped(c, s)'
    BY <1>1, <1>4 DEF WorksOn, MarksRunning, MarksStopped, MidSteps
  <2> QED BY <1>2, <1>3, <2>1, <2>2, ElsewhereKeepsStopped
<1>5. CASE Svc(c) = s
  <2>1. /\ \A d \in Commands \ {c} : ~CommandAt(d, s)
        /\ \A d \in Commands : ~HealAt(d, s)
    BY <1>1, <1>5, Alone DEF WorksOn, CommandTouches
  <2>2. \A d \in Commands \ {c} : ~MarksRunning(d, s) /\ ~MarksStopped(d, s)
    BY <2>1 DEF CommandAt, MarksRunning, MarksStopped, MidSteps
  <2>3. /\ \A d \in Commands \ {c} : ~MarksRunning(d, s)' /\ ~MarksStopped(d, s)'
        /\ \A d \in Commands : ~HealAt(d, s)'
    BY <1>2, <1>3, <2>1, <2>2, OthersStay
  <2>4. /\ pc[c] \in {"stop_rm", "stop_mark"} => container[s] # "running"
        /\ status[s] \in Down /\ container[s] = "running" => pc[c] = "start_mark"
    BY <1>2, <1>5, <2>2 DEF StoppedInv, MarksRunning, MarksStopped
  <2>t. /\ pc \in [Commands -> Steps]
        /\ status \in [Services -> Rowless \cup {"running", "stopped", "unknown"}]
        /\ container \in [Services -> {"running", "exited", "absent"}]
    BY DEF ControlOK, TypeOK
  <2>5. ASSUME MarksStopped(c, s)' => container'[s] # "running",
               status'[s] \in Down /\ container'[s] = "running" => MarksRunning(c, s)'
        PROVE  StoppedInv(s)'
    BY <2>3, <2>5 DEF StoppedInv
  <2>6. CASE StartRemove(c)
    <3>1. ~MarksStopped(c, s)'
      BY <2>6, <2>t DEF StartRemove, Goto, MarksStopped
    <3> QED BY <1>5, <2>4, <2>5, <2>6, <2>t, <3>1 DEF StartRemove
  <2>7. CASE StartRun(c)
    <3>1. ~MarksStopped(c, s)' /\ MarksRunning(c, s)'
      BY <1>1, <1>5, <2>7, <2>t DEF StartRun, Goto, MarksStopped, MarksRunning, WorksOn, MidSteps
    <3> QED BY <2>5, <3>1
  <2>8. CASE StartFails(c)
    <3>1. ~MarksStopped(c, s)'
      BY <2>8, CommandWorksOn DEF MarksStopped, MidSteps
    <3>2. container'[s] = container[s] \/ container'[s] # "running"
      BY <1>5, <2>8, <2>t DEF StartFails
    <3> QED BY <2>4, <2>5, <2>8, <3>1, <3>2 DEF StartFails
  <2>9. CASE StartMark(c)
    <3>1. ~MarksStopped(c, s)'
      BY <2>9, CommandWorksOn DEF MarksStopped, MidSteps
    <3> QED BY <1>5, <2>5, <2>9, <2>t, <3>1 DEF StartMark, Down, Rowless
  <2>10. CASE Stop(c)
    <3>1. container'[s] # "running"
      BY <1>5, <2>10, <2>t DEF Stop
    <3> QED BY <2>5, <3>1
  <2>11. CASE StopRemove(c)
    <3>1. container'[s] # "running"
      BY <1>5, <2>11, <2>t DEF StopRemove
    <3> QED BY <2>5, <3>1
  <2>12. CASE StopFails(c)
    <3>1. ~MarksStopped(c, s)'
      BY <2>12, CommandWorksOn DEF MarksStopped, MidSteps
    <3> QED BY <2>4, <2>5, <2>12, <3>1 DEF StopFails, fleetVars
  <2>13. CASE StopMark(c)
    <3>1. container'[s] # "running"
      BY <2>4, <2>13 DEF StopMark
    <3> QED BY <2>5, <3>1
  <2>14. CASE StopMarkFails(c)
    <3>1. container'[s] # "running"
      BY <2>4, <2>14 DEF StopMarkFails, fleetVars
    <3> QED BY <2>5, <3>1
  <2> QED BY <2>6, <2>7, <2>8, <2>9, <2>10, <2>11, <2>12, <2>13, <2>14
<1> QED BY <1>4, <1>5

LEMMA CommandKeepsRaced ==
  ASSUME Types, RacedInv, NEW c \in Commands, Command(c)
  PROVE  RacedInv'
<1> USE DEF Types
<1>k. kind[c] \in CommandKinds /\ PhaseOK(c)
  BY DEF ControlOK
<1> USE DEF Steps, StartSteps, StopSteps, Ended, MidSteps, fleetVars, healVars, historyVars
<1>1. CASE Begin(c)
  <2>1. Follow[kind[c]].new \in {"seed", "stop", "signal"}
    BY <1>k, FollowNew
  <2> QED BY <1>1, <2>1, IdleKeepsRaced DEF Begin, Goto
<1>2. CASE SeedServices(c)
  <2>1. Follow[kind[c]].seed \in {"stop", "network"}
    BY <1>2, <1>k, FollowStart DEF SeedServices, PhaseOK
  <2>2. \A s \in Services : status[s] \in Down <=> status'[s] \in Down
    BY <1>2 DEF SeedServices, Down
  <2> QED BY <1>2, <2>1, <2>2, IdleKeepsRaced DEF SeedServices, Goto
<1>3. CASE CreateNetwork(c)
  <2>1. Follow[kind[c]].network = "start_rm"
    BY <1>3, <1>k, FollowStart DEF CreateNetwork, PhaseOK
  <2>2. \A d \in Commands \ {c} : at'[d] = at[d]
    BY <1>3 DEF CreateNetwork, ControlOK
  <2> QED BY <1>3, <2>1, <2>2, IdleKeepsRaced DEF CreateNetwork
<1>4. CASE CreateNetworkFails(c)
  <2>1. Raised(c) \in {"serve", "failed"}
    BY FollowStart DEF Raised, CommandKinds
  <2> QED BY <1>4, <2>1, IdleKeepsRaced DEF CreateNetworkFails, Goto
<1>5. CASE \/ StartRemove(c) \/ StartRun(c) \/ StartFails(c) \/ StartMark(c)
           \/ Stop(c) \/ StopRemove(c) \/ StopFails(c) \/ StopMark(c) \/ StopMarkFails(c)
  BY <1>5, WorkKeepsRaced
<1>6. CASE Look(c) \/ Spawn(c)
  BY <1>6, IdleKeepsRaced DEF Look, Spawn, Goto
<1>7. CASE Signal(c)
  BY <1>7, IdleKeepsRaced DEF Signal, Goto
<1>8. CASE Unlink(c)
  <2>1. Follow[kind[c]].unlink \in {"done", "seed"}
    BY <1>8, <1>k, FollowStop DEF Unlink, PhaseOK
  <2> QED BY <1>8, <2>1, IdleKeepsRaced DEF Unlink
<1> QED BY <1>1, <1>2, <1>3, <1>4, <1>5, <1>6, <1>7, <1>8 DEF Command

\* A scheduler's own steps on the service it restarts.
LEMMA HealKeepsRaced ==
  ASSUME Types, RacedInv, NEW c \in Commands, Healing(c)
  PROVE  RacedInv'
<1> USE DEF Types
<1> SUFFICES ASSUME NEW s \in Services \ raced' PROVE StoppedInv(s)'
  BY DEF RacedInv
<1>t. /\ status \in [Services -> Rowless \cup {"running", "stopped", "unknown"}]
      /\ container \in [Services -> {"running", "exited", "absent"}]
      /\ hpc \in [Commands -> {"idle", "rm", "run", "mark", "mark_failed"}]
      /\ hsvc \in [Commands -> Services]
  BY DEF TypeOK
<1>m. ASSUME UNCHANGED <<pc, at>>, NEW d \in Commands
      PROVE  /\ MarksRunning(d, s)' <=> MarksRunning(d, s)
             /\ MarksStopped(d, s)' <=> MarksStopped(d, s)
  BY <1>m DEF MarksRunning, MarksStopped, Svc
<1>1. ASSUME NEW q \in Services, HealBegin(c, q) PROVE StoppedInv(s)'
  <2>1. /\ UNCHANGED <<pc, at, status, container, raced>>
        /\ \A d \in Commands : HealAt(d, s)' => HealAt(d, s) \/ (d = c /\ s = q)
    BY <1>1, <1>t DEF HealBegin, HealAt, commandVars, fleetVars, historyVars
  <2>2. StoppedInv(s) /\ (s = q => status[s] \notin Down)
    BY <1>1, <2>1 DEF RacedInv, HealBegin, Down
  <2> QED BY <1>m, <2>1, <2>2 DEF StoppedInv
<1>2. ASSUME NEW from, NEW to, Heal(c, from, to), from # "idle",
             \A q \in Services \ {hsvc[c]} : container'[q] = container[q] /\ status'[q] = status[q],
             status'[hsvc[c]] \in Down => status' = status
      PROVE  StoppedInv(s)'
  <2>1. /\ UNCHANGED <<pc, at, hsvc>> /\ hpc[c] = from
        /\ \A d \in Commands : HealAt(d, s)' => HealAt(d, s)
    BY <1>2, <1>t DEF Heal, HealAt, commandVars
  <2>2. StoppedInv(s)
    BY <1>2 DEF Heal, SchedulerTouches, Touch, RacedInv
  <2>3. CASE s # hsvc[c]
    BY <1>2, <1>m, <2>1, <2>2, <2>3 DEF StoppedInv
  <2>4. CASE s = hsvc[c]
    <3>1. \A d \in Commands : ~CommandAt(d, s)
      BY <1>2, <2>4, Alone DEF Heal, SchedulerTouches
    <3>2. \A d \in Commands : ~MarksRunning(d, s)' /\ ~MarksStopped(d, s)'
      BY <1>m, <2>1, <3>1 DEF CommandAt, MarksRunning, MarksStopped, MidSteps
    <3>3. status[s] \notin Down
      BY <1>2, <2>1, <2>2, <2>4 DEF StoppedInv, HealAt
    <3>4. status'[s] \notin Down
      BY <1>2, <2>4, <3>3
    <3> QED BY <3>2, <3>4 DEF StoppedInv
  <2> QED BY <2>3, <2>4
<1>3. CASE HealRemove(c) \/ HealRun(c) \/ HealRunFails(c)
  <2>1. /\ \A q \in Services \ {hsvc[c]} : container'[q] = container[q]
        /\ status' = status
    BY <1>3, <1>t DEF HealRemove, HealRun, HealRunFails, fleetVars
  <2> QED BY <1>2, <1>3, <2>1 DEF HealRemove, HealRun, HealRunFails
<1>4. CASE HealMark(c)
  <2>1. /\ \A q \in Services \ {hsvc[c]} : container'[q] = container[q] /\ status'[q] = status[q]
        /\ status'[hsvc[c]] \notin Down
    BY <1>4, <1>t DEF HealMark, Down, Rowless
  <2> QED BY <1>2, <1>4, <2>1 DEF HealMark
<1> QED BY <1>1, <1>3, <1>4 DEF Healing

LEMMA SchedulerKeepsRaced ==
  ASSUME Types, SchedInv, RacedInv, NEW c \in Commands,
         \/ Boot(c) \/ Healing(c) \/ Kill(c) \/ Terminate(c) \/ Shutdown(c)
         \/ \E s \in Services : CheckPasses(c, s)
  PROVE  RacedInv'
<1> USE DEF Types
<1>t. pc \in [Commands -> Steps]
  BY DEF ControlOK
<1>e. sched[c] # "none" => pc[c] \in Late /\ pc[c] \notin MidSteps
  BY DEF SchedInv, Late, MidSteps
<1>1. CASE Acquire(c) \/ WritePid(c)
  BY <1>1 DEF Acquire, WritePid, RacedInv, StoppedInv, MarksRunning, MarksStopped, HealAt, Svc,
              fleetVars, commandVars, healVars, historyVars
<1>2. CASE Refused(c)
  <2>1. PICK step \in Late : pc' = [pc EXCEPT ![c] = step]
    BY <1>2, <1>t, <1>e DEF Refused, Late
  <2> QED BY <1>2, <1>e, <2>1, IdleKeepsRaced
      DEF Refused, Late, Steps, Ended, MidSteps, fleetVars, healVars, historyVars
<1>3. CASE Kill(c) \/ Terminate(c)
  <2>1. Dies(c) /\ pc[c] \in Late
    BY <1>3, <1>e DEF Kill, Terminate, Dies, LiveScheduler
  <2>2. PICK step \in Late : pc' = [pc EXCEPT ![c] = step]
    BY <1>t, <2>1 DEF Dies, Late
  <2> QED BY <1>e, <2>1, <2>2, IdleKeepsRaced
      DEF Dies, EndScheduler, Late, Steps, Ended, MidSteps, LiveScheduler, fleetVars
<1>4. CASE Shutdown(c)
  BY <1>4, <1>t, IdleKeepsRaced
  DEF Shutdown, Goto, EndScheduler, Steps, Ended, MidSteps, fleetVars, healVars, historyVars
<1>5. ASSUME NEW q \in Services, CheckPasses(c, q) PROVE RacedInv'
  <2>1. \A s \in Services : status[s] \in Down <=> status'[s] \in Down
    BY <1>5 DEF CheckPasses, TypeOK, Down, Rowless
  <2> SUFFICES ASSUME NEW s \in Services \ raced' PROVE StoppedInv(s)'
    BY DEF RacedInv
  <2>2. StoppedInv(s) /\ OnlyMoves(c) /\ UNCHANGED <<container, pc, at, hpc, hsvc>>
    BY <1>5 DEF CheckPasses, SchedulerTouches, Touch, RacedInv, OnlyMoves, commandVars, healVars
  <2>3. /\ MarksRunning(c, s) <=> MarksRunning(c, s)' 
        /\ MarksStopped(c, s) <=> MarksStopped(c, s)'
        /\ HealAt(c, s) <=> HealAt(c, s)'
    BY <2>2 DEF MarksRunning, MarksStopped, HealAt, Svc
  <2> QED BY <2>1, <2>2, <2>3, ElsewhereKeepsStopped
<1> QED BY <1>1, <1>2, <1>3, <1>4, <1>5, HealKeepsRaced DEF Boot

\* A service that is recorded as stopped is down, whatever fails and whichever commands
\* and schedulers run, unless two of them were at work on that very service at once.
THEOREM StoppedIsDown == Spec => []StoppedIsDownUnlessRaced
<1>1. Init => RacedInv
  <2> SUFFICES ASSUME Init, NEW s \in Services PROVE StoppedInv(s)
    BY DEF RacedInv
  <2>1. \A c \in Commands : pc[c] = "new" /\ hpc[c] = "idle"
    BY DEF Init
  <2>2. container[s] = "running" => status[s] = "running"
    BY DEF Init
  <2> QED BY <2>1, <2>2 DEF StoppedInv, MarksStopped, HealAt, Down, Rowless
<1>2. Types /\ SchedInv /\ RacedInv /\ [Next]_vars => RacedInv'
  <2> SUFFICES ASSUME Types, SchedInv, RacedInv, [Next]_vars PROVE RacedInv'
    OBVIOUS
  <2>1. CASE UNCHANGED vars
    BY <2>1 DEF RacedInv, StoppedInv, MarksRunning, MarksStopped, HealAt, Svc, vars
  <2>2. ASSUME NEW q \in Services, ContainerDies(q) PROVE RacedInv'
    <3> SUFFICES ASSUME NEW s \in Services \ raced' PROVE StoppedInv(s)'
      BY DEF RacedInv
    <3>1. /\ StoppedInv(s) /\ UNCHANGED <<pc, at, hpc, hsvc, status>>
          /\ container'[s] = container[s] \/ container'[s] # "running"
      BY <2>2 DEF ContainerDies, RacedInv, Types, TypeOK, commandVars, healVars
    <3> QED BY <3>1 DEF StoppedInv, MarksRunning, MarksStopped, HealAt, Svc
  <2> QED BY <2>1, <2>2, CommandKeepsRaced, SchedulerKeepsRaced DEF Next
<1>3. Types /\ RacedInv => StoppedIsDownUnlessRaced
  BY DEF RacedInv, StoppedInv, MarksRunning, CommandAt, MidSteps, Down, StoppedIsDownUnlessRaced
<1>4. UpInv => SchedInv
  BY DEF UpInv
<1> QED BY <1>1, <1>2, <1>3, <1>4, FleetKeepsTypes, UpAlways, PTL DEF Spec

(***************************************************************************)
(* The exit status tells the truth.  A command that nobody has disturbed   *)
(* finds everything its loop has passed as it left it, but for what it     *)
(* has noted as failed.                                                    *)
(***************************************************************************)
IsUp(s) == container[s] = "running" /\ status[s] = "running"
IsGone(s) == container[s] = "absent" /\ status[s] \in {"stopped", "unseeded"}

\* A loop begins at the first position, and with nothing failed.
LoopInv(c) ==
  /\ pc[c] = "new" \/ (kind[c] # "down" /\ pc[c] \in {"signal", "unlink", "seed"}) => at[c] = 1
  /\ pc[c] \in {"new", "seed", "network", "signal", "unlink", "look", "spawn"} => failed[c] = {}

Started(c) == \A i \in 1 .. at[c] - 1 : Order[i] \in failed[c] \/ IsUp(Order[i])
StopAt(i) == Order[Len(Order) + 1 - i]
StoppedSoFar(c) == \A i \in 1 .. at[c] - 1 : StopAt(i) \in failed[c] \/ IsGone(StopAt(i))

WorkInv(c) ==
  /\ pc[c] \in StartSteps => Started(c)
  /\ pc[c] = "start_mark" => container[Svc(c)] = "running"
  /\ pc[c] \in StopSteps => StoppedSoFar(c)
  /\ pc[c] = "stop_rm" => container[Svc(c)] # "running"
  /\ pc[c] = "stop_mark" => container[Svc(c)] = "absent"
  /\ Starting(c) /\ kind[c] # "dashboard" => \A s \in Services : IsUp(s)
  /\ kind[c] = "down" /\ pc[c] \in {"signal", "unlink", "done"} => \A s \in Services : IsGone(s)

ReportInv ==
  /\ \A c \in Commands : LoopInv(c)
  /\ \A c \in Commands \ disturbed : WorkInv(c)

LEMMA OrderFacts ==
  /\ Len(Order) \in Nat \ {0} /\ DOMAIN Order = 1 .. Len(Order)
  /\ \A i \in 1 .. Len(Order) : Order[i] \in Services
  /\ \A i, j \in 1 .. Len(Order) : Order[i] = Order[j] => i = j
  /\ \A s \in Services : \E i \in 1 .. Len(Order) : Order[i] = s
BY OrderAssumption

\* The service a loop is at is none of those it has passed.
LEMMA NotPassed ==
  ASSUME ControlOK, NEW c \in Commands, NEW i \in 1 .. at[c] - 1
  PROVE  /\ Order[i] \in Services /\ Order[i] # Order[at[c]]
         /\ StopAt(i) \in Services /\ StopAt(i) # StopAt(at[c])
<1>1. at[c] \in 1 .. Len(Order)  BY OrderFacts DEF ControlOK
<1>2. /\ i \in 1 .. Len(Order) /\ i # at[c]
      /\ Len(Order) + 1 - i \in 1 .. Len(Order)
      /\ Len(Order) + 1 - at[c] \in 1 .. Len(Order)
      /\ Len(Order) + 1 - i # Len(Order) + 1 - at[c]
  BY <1>1, OrderFacts
<1> QED BY <1>1, <1>2, OrderFacts DEF StopAt

\* A command that makes no step, and whose services are left as they are or which has
\* not begun, finds its work as it was.
LEMMA OthersWork ==
  ASSUME ReportInv, NEW d \in Commands,
         UNCHANGED <<pc[d], at[d], failed[d], kind[d]>>,
         \/ d \notin disturbed' => pc[d] = "new"
         \/ /\ disturbed \subseteq disturbed' /\ UNCHANGED container
            /\ \A s \in Services : (IsUp(s) => IsUp(s)') /\ (IsGone(s) => IsGone(s)'),
         ControlOK
  PROVE  LoopInv(d)' /\ (d \notin disturbed' => WorkInv(d)')
<1>1. LoopInv(d)'  BY DEF ReportInv, LoopInv
<1>2. ASSUME d \notin disturbed', pc[d] = "new" PROVE WorkInv(d)'
  BY <1>2 DEF WorkInv, StartSteps, StopSteps, Starting
<1>3. ASSUME d \notin disturbed', disturbed \subseteq disturbed', UNCHANGED container,
             \A s \in Services : (IsUp(s) => IsUp(s)') /\ (IsGone(s) => IsGone(s)')
      PROVE  WorkInv(d)'
  <2>1. WorkInv(d) /\ Svc(d)' = Svc(d)  BY <1>3 DEF ReportInv, Svc
  <2>2. Started(d) => Started(d)'  BY <1>3, NotPassed DEF Started
  <2>3. StoppedSoFar(d) => StoppedSoFar(d)'  BY <1>3, NotPassed DEF StoppedSoFar, StopAt
  <2> QED BY <1>3, <2>1, <2>2, <2>3 DEF WorkInv, Starting
<1> QED BY <1>1, <1>2, <1>3

\* The invariant after a step of c, which has left the others where they are.
LEMMA StepReport ==
  ASSUME Types, ReportInv, NEW c \in Commands,
         \A d \in Commands \ {c} : UNCHANGED <<pc[d], at[d], failed[d], kind[d]>>,
         disturbed \subseteq disturbed',
         \/ \A d \in Commands \ {c} : d \notin disturbed' => pc[d] = "new"
         \/ UNCHANGED container /\ \A s \in Services : (IsUp(s) => IsUp(s)') /\ (IsGone(s) => IsGone(s)'),
         LoopInv(c)', c \notin disturbed' => WorkInv(c)'
  PROVE  ReportInv'
BY OthersWork DEF ReportInv, Types

\* The end of one service's turn: on to the next one, an exception, or the next phase.
LEMMA DoneWork ==
  ASSUME Types, NEW c \in Commands, NEW ok \in BOOLEAN, NEW first, NEW phase,
         ServiceDone(c, ok, first, phase),
         \/ pc[c] \in StartSteps /\ first = "start_rm" /\ phase = "starts"
         \/ pc[c] \in StopSteps /\ first = "stop" /\ phase = "stops"
  PROVE  /\ kind' = kind /\ failed'[c] = IF ok THEN failed[c] ELSE failed[c] \cup {Svc(c)}
         /\ \A d \in Commands \ {c} : UNCHANGED <<pc[d], at[d], failed[d], kind[d]>>
         /\ \/ at[c] # Len(Order) /\ at'[c] = at[c] + 1 /\ pc'[c] = first
            \/ pc'[c] = "failed" \/ (pc'[c] = "serve" /\ kind[c] = "dashboard")
            \/ /\ at[c] = Len(Order) /\ failed'[c] = {}
               /\ \/ phase = "starts" /\ pc'[c] \in {"look", "spawn", "serve"}
                  \/ phase = "stops" /\ pc'[c] = IF kind[c] = "down" THEN "signal" ELSE "network"
<1> USE DEF Types
<1>t. /\ pc \in [Commands -> Steps] /\ at \in [Commands -> DOMAIN Order]
      /\ failed \in [Commands -> SUBSET Services] /\ kind[c] \in CommandKinds /\ PhaseOK(c)
  BY DEF ControlOK, TypeOK
<1> DEFINE bad == IF ok THEN failed[c] ELSE failed[c] \cup {Svc(c)}
           last == at[c] = Len(Order)
           next == IF ~last THEN first
                   ELSE IF bad # {} THEN Raised(c) ELSE Follow[kind[c]][phase]
<1>1. /\ pc' = [pc EXCEPT ![c] = next] /\ UNCHANGED kind
      /\ at' = [at EXCEPT ![c] = IF last THEN @ ELSE @ + 1]
      /\ failed' = [failed EXCEPT ![c] = bad]
  BY DEF ServiceDone
<1>2. Raised(c) = "failed" \/ (Raised(c) = "serve" /\ kind[c] = "dashboard")
  BY FollowStart DEF Raised, CommandKinds
<1>3. CASE pc[c] \in StartSteps /\ first = "start_rm" /\ phase = "starts"
  <2>1. Follow[kind[c]].starts \in {"look", "spawn", "serve"}
    BY <1>t, <1>3, FollowStart DEF PhaseOK
  <2> QED BY <1>t, <1>1, <1>2, <1>3, <2>1
<1>4. CASE pc[c] \in StopSteps /\ first = "stop" /\ phase = "stops"
  <2>1. Follow[kind[c]].stops = IF kind[c] = "down" THEN "signal" ELSE "network"
    BY <1>t, <1>4, FollowStop DEF PhaseOK
  <2> QED BY <1>t, <1>1, <1>2, <1>4, <2>1
<1> QED BY <1>3, <1>4

\* When a loop has come to its end with nothing failed, it has done every service.
LEMMA AllPassed ==
  ASSUME ControlOK, NEW c \in Commands, at[c] = Len(Order), NEW s \in Services
  PROVE  /\ s = Order[at[c]] \/ \E i \in 1 .. at[c] - 1 : s = Order[i]
         /\ s = StopAt(at[c]) \/ \E i \in 1 .. at[c] - 1 : s = StopAt(i)
<1>1. PICK k \in 1 .. Len(Order) : Order[k] = s  BY OrderFacts
<1>n. at[c] \in Nat \ {0}  BY OrderFacts
<1>2. k \in 1 .. at[c] - 1 \/ k = at[c]  BY <1>n
<1>3. \/ Len(Order) + 1 - k \in 1 .. at[c] - 1
      \/ Len(Order) + 1 - k = at[c]
  BY <1>n
<1>4. StopAt(Len(Order) + 1 - k) = s  BY <1>1, OrderFacts DEF StopAt
<1> QED BY <1>1, <1>2, <1>3, <1>4

\* A turn of the starting loop: its service is up now, or noted as failed.
LEMMA StartTurn ==
  ASSUME Types, NEW c \in Commands, pc[c] \in StartSteps, LoopInv(c), Started(c), NEW ok \in BOOLEAN,
         ServiceDone(c, ok, "start_rm", "starts"),
         \A s \in Services \ {Svc(c)} : IsUp(s) => IsUp(s)',
         \A s \in Services : ok /\ s = Svc(c) => IsUp(s)'
  PROVE  LoopInv(c)' /\ WorkInv(c)'
<1> USE DEF Types
<1>k. kind[c] \in CommandKinds /\ PhaseOK(c) /\ at[c] \in 1 .. Len(Order)
  BY OrderFacts DEF ControlOK
<1>s. Svc(c) = Order[at[c]] /\ kind[c] # "down"
  BY <1>k DEF Svc, StartSteps, StopSteps, PhaseOK
<1>1. /\ kind' = kind /\ failed'[c] = IF ok THEN failed[c] ELSE failed[c] \cup {Svc(c)}
      /\ \/ at[c] # Len(Order) /\ at'[c] = at[c] + 1 /\ pc'[c] = "start_rm"
         \/ pc'[c] = "failed" \/ (pc'[c] = "serve" /\ kind[c] = "dashboard")
         \/ /\ at[c] = Len(Order) /\ failed'[c] = {}
            /\ pc'[c] \in {"look", "spawn", "serve"}
  <2>1. /\ kind' = kind /\ failed'[c] = IF ok THEN failed[c] ELSE failed[c] \cup {Svc(c)}
        /\ \/ at[c] # Len(Order) /\ at'[c] = at[c] + 1 /\ pc'[c] = "start_rm"
           \/ pc'[c] = "failed" \/ (pc'[c] = "serve" /\ kind[c] = "dashboard")
           \/ /\ at[c] = Len(Order) /\ failed'[c] = {}
              /\ \/ "starts" = "starts" /\ pc'[c] \in {"look", "spawn", "serve"}
                 \/ "starts" = "stops" /\ pc'[c] = IF kind[c] = "down" THEN "signal" ELSE "network"
    BY DoneWork, Zenon
  <2> QED BY <2>1
<1>2. \A i \in 1 .. at[c] : Order[i] \in failed'[c] \/ IsUp(Order[i])'
  <2> TAKE i \in 1 .. at[c]
  <2>1. CASE i = at[c]  BY <1>1, <1>s, <2>1, SvcInServices
  <2>2. CASE i # at[c]
    <3>1. i \in 1 .. at[c] - 1  BY <1>k, <2>2
    <3> QED BY <1>1, <1>s, <3>1, NotPassed DEF Started
  <2> QED BY <2>1, <2>2
<1>3. CASE at[c] # Len(Order) /\ at'[c] = at[c] + 1 /\ pc'[c] = "start_rm"
  <2>1. Started(c)'  BY <1>k, <1>2, <1>3 DEF Started
  <2> QED BY <1>1, <1>3, <2>1 DEF LoopInv, WorkInv, StopSteps, Starting
<1>4. CASE pc'[c] = "failed" \/ (pc'[c] = "serve" /\ kind[c] = "dashboard")
  BY <1>1, <1>4 DEF LoopInv, WorkInv, StartSteps, StopSteps, Starting
<1>5. CASE /\ at[c] = Len(Order) /\ failed'[c] = {}
           /\ pc'[c] \in {"look", "spawn", "serve"}
  <2>1. \A s \in Services : IsUp(s)'
    <3> TAKE s \in Services
    <3>1. PICK i \in 1 .. at[c] : s = Order[i]
      <4>1. s = Order[at[c]] \/ \E i \in 1 .. at[c] - 1 : s = Order[i]  BY <1>5, AllPassed
      <4> QED BY <1>k, <4>1
    <3> QED BY <1>2, <1>5, <3>1
  <2> QED BY <1>1, <1>5, <1>s, <2>1 DEF LoopInv, WorkInv, StartSteps, StopSteps
<1> QED BY <1>1, <1>3, <1>4, <1>5

\* A turn of the stopping loop: its service is gone now, or noted as failed.
LEMMA StopTurn ==
  ASSUME Types, NEW c \in Commands, pc[c] \in StopSteps, LoopInv(c), StoppedSoFar(c), NEW ok \in BOOLEAN,
         ServiceDone(c, ok, "stop", "stops"),
         \A s \in Services \ {Svc(c)} : IsGone(s) => IsGone(s)',
         \A s \in Services : ok /\ s = Svc(c) => IsGone(s)'
  PROVE  LoopInv(c)' /\ WorkInv(c)'
<1> USE DEF Types
<1>k. kind[c] \in CommandKinds /\ PhaseOK(c) /\ at[c] \in 1 .. Len(Order)
  BY OrderFacts DEF ControlOK
<1>s. Svc(c) = StopAt(at[c])
  BY DEF Svc, StopAt
<1>1. /\ kind' = kind /\ failed'[c] = IF ok THEN failed[c] ELSE failed[c] \cup {Svc(c)}
      /\ \/ at[c] # Len(Order) /\ at'[c] = at[c] + 1 /\ pc'[c] = "stop"
         \/ pc'[c] = "failed" \/ (pc'[c] = "serve" /\ kind[c] = "dashboard")
         \/ /\ at[c] = Len(Order) /\ failed'[c] = {}
            /\ pc'[c] = IF kind[c] = "down" THEN "signal" ELSE "network"
  <2>1. /\ kind' = kind /\ failed'[c] = IF ok THEN failed[c] ELSE failed[c] \cup {Svc(c)}
        /\ \/ at[c] # Len(Order) /\ at'[c] = at[c] + 1 /\ pc'[c] = "stop"
           \/ pc'[c] = "failed" \/ (pc'[c] = "serve" /\ kind[c] = "dashboard")
           \/ /\ at[c] = Len(Order) /\ failed'[c] = {}
              /\ \/ "stops" = "starts" /\ pc'[c] \in {"look", "spawn", "serve"}
                 \/ "stops" = "stops" /\ pc'[c] = IF kind[c] = "down" THEN "signal" ELSE "network"
    BY DoneWork, Zenon
  <2> QED BY <2>1
<1>2. \A i \in 1 .. at[c] : StopAt(i) \in failed'[c] \/ IsGone(StopAt(i))'
  <2> TAKE i \in 1 .. at[c]
  <2>1. CASE i = at[c]  BY <1>1, <1>s, <2>1, SvcInServices
  <2>2. CASE i # at[c]
    <3>1. i \in 1 .. at[c] - 1  BY <1>k, <2>2
    <3> QED BY <1>1, <1>s, <3>1, NotPassed DEF StoppedSoFar
  <2> QED BY <2>1, <2>2
<1>3. CASE at[c] # Len(Order) /\ at'[c] = at[c] + 1 /\ pc'[c] = "stop"
  <2>1. StoppedSoFar(c)'  BY <1>k, <1>2, <1>3 DEF StoppedSoFar, StopAt
  <2> QED BY <1>1, <1>3, <2>1 DEF LoopInv, WorkInv, StartSteps, Starting
<1>4. CASE pc'[c] = "failed" \/ (pc'[c] = "serve" /\ kind[c] = "dashboard")
  BY <1>1, <1>4 DEF LoopInv, WorkInv, StartSteps, StopSteps, Starting
<1>5. CASE /\ at[c] = Len(Order) /\ failed'[c] = {}
           /\ pc'[c] = IF kind[c] = "down" THEN "signal" ELSE "network"
  <2>1. \A s \in Services : IsGone(s)'
    <3> TAKE s \in Services
    <3>1. PICK i \in 1 .. at[c] : s = StopAt(i)
      <4>1. s = StopAt(at[c]) \/ \E i \in 1 .. at[c] - 1 : s = StopAt(i)  BY <1>5, AllPassed
      <4> QED BY <1>k, <4>1
    <3> QED BY <1>2, <1>5, <3>1
  <2> QED BY <1>1, <1>5, <2>1 DEF LoopInv, WorkInv, StartSteps, StopSteps, Starting
<1> QED BY <1>1, <1>3, <1>4, <1>5

\* A touched service disturbs every other command that has begun.
LEMMA TouchDisturbs ==
  ASSUME Types, NEW c \in Commands, CommandTouches(c)
  PROVE  disturbed \subseteq disturbed' /\ \A d \in Commands \ {c} : d \notin disturbed' => pc[d] = "new"
BY DEF CommandTouches, Touch

\* Within a service's turn: the step leaves what the loop has passed as it is.
LEMMA MidTurn ==
  ASSUME Types, NEW c \in Commands, LoopInv(c), WorkInv(c), NEW step \in MidSteps,
         pc[c] \in StartSteps \cup StopSteps, pc[c] \in StopSteps <=> step \in StopSteps,
         Goto(c, step), UNCHANGED status,
         \A s \in Services \ {Svc(c)} : container'[s] = container[s],
         step = "start_mark" => container'[Svc(c)] = "running",
         step = "stop_rm" => container'[Svc(c)] # "running",
         step = "stop_mark" => container'[Svc(c)] = "absent"
  PROVE  LoopInv(c)' /\ WorkInv(c)'
<1> USE DEF Types
<1>1. pc'[c] = step /\ UNCHANGED <<kind, at, failed>> /\ Svc(c)' = Svc(c)
  BY DEF Goto, ControlOK, Svc
<1>2. Svc(c) = IF pc[c] \in StopSteps THEN StopAt(at[c]) ELSE Order[at[c]]
  BY DEF Svc, StopAt
<1>3. LoopInv(c)'
  BY <1>1 DEF LoopInv, MidSteps
<1>4. step \in StartSteps => Started(c)'
  BY <1>1, <1>2, NotPassed DEF WorkInv, Started, IsUp, StartSteps, StopSteps
<1>5. step \in StopSteps => StoppedSoFar(c)'
  <2> SUFFICES ASSUME step \in StopSteps PROVE StoppedSoFar(c)'
    OBVIOUS
  <2>1. StoppedSoFar(c) /\ Svc(c) = StopAt(at[c])
    BY <1>2 DEF WorkInv
  <2>2. \A i \in 1 .. at[c] - 1 : /\ StopAt(i) \in Services
                                 /\ container'[StopAt(i)] = container[StopAt(i)]
    BY <2>1, NotPassed
  <2> QED BY <1>1, <2>1, <2>2 DEF StoppedSoFar, StopAt, IsGone
<1> QED BY <1>1, <1>3, <1>4, <1>5 DEF WorkInv, Starting, MidSteps, StartSteps, StopSteps

\* The steps on a service.
LEMMA WorkKeepsReport ==
  ASSUME Types, ReportInv, NEW c \in Commands,
         \/ StartRemove(c) \/ StartRun(c) \/ StartFails(c) \/ StartMark(c)
         \/ Stop(c) \/ StopRemove(c) \/ StopFails(c) \/ StopMark(c) \/ StopMarkFails(c)
  PROVE  ReportInv'
<1> USE DEF Types
<1>t. /\ pc \in [Commands -> Steps] /\ Svc(c) \in Services
      /\ at \in [Commands -> DOMAIN Order] /\ failed \in [Commands -> SUBSET Services]
      /\ status \in [Services -> Rowless \cup {"running", "stopped", "unknown"}]
      /\ container \in [Services -> {"running", "exited", "absent"}]
  BY SvcInServices DEF ControlOK, TypeOK
<1>w. CommandTouches(c)
  BY CommandWorksOn DEF WorksOn
<1>d. disturbed \subseteq disturbed' /\ \A d \in Commands \ {c} : d \notin disturbed' => pc[d] = "new"
  BY <1>w, TouchDisturbs
<1>l. LoopInv(c) /\ (c \notin disturbed' => WorkInv(c))
  BY <1>d DEF ReportInv
<1>g. ASSUME NEW step, Goto(c, step)
      PROVE  \A d \in Commands \ {c} : UNCHANGED <<pc[d], at[d], failed[d], kind[d]>>
  BY <1>g, <1>t DEF Goto
<1>o. ASSUME \A d \in Commands \ {c} : UNCHANGED <<pc[d], at[d], failed[d], kind[d]>>,
             LoopInv(c)', c \notin disturbed' => WorkInv(c)'
      PROVE  ReportInv'
  BY <1>o, <1>d, StepReport
<1>n. ASSUME NEW step \in MidSteps, Goto(c, step),
             pc[c] \in StartSteps \cup StopSteps PROVE LoopInv(c)'
  BY <1>n, <1>t, <1>l DEF Goto, LoopInv, MidSteps
<1>1. CASE StartRemove(c)
  <2>1. c \notin disturbed' => WorkInv(c)'
    BY <1>1, <1>t, <1>l, MidTurn DEF StartRemove, MidSteps, StartSteps, StopSteps
  <2> QED BY <1>1, <1>g, <1>n, <1>o, <2>1 DEF StartRemove, MidSteps, StartSteps
<1>2. CASE StartRun(c)
  <2>1. c \notin disturbed' => WorkInv(c)'
    BY <1>2, <1>t, <1>l, MidTurn DEF StartRun, MidSteps, StartSteps, StopSteps
  <2> QED BY <1>2, <1>g, <1>n, <1>o, <2>1 DEF StartRun, MidSteps, StartSteps
<1>3. CASE Stop(c)
  <2>1. container'[Svc(c)] # "running"
    BY <1>3, <1>t DEF Stop
  <2>2. c \notin disturbed' => WorkInv(c)'
    BY <1>3, <1>t, <1>l, <2>1, MidTurn DEF Stop, MidSteps, StartSteps, StopSteps
  <2> QED BY <1>3, <1>g, <1>n, <1>o, <2>2 DEF Stop, MidSteps, StopSteps
<1>4. CASE StopRemove(c)
  <2>1. c \notin disturbed' => WorkInv(c)'
    BY <1>4, <1>t, <1>l, MidTurn DEF StopRemove, MidSteps, StartSteps, StopSteps
  <2> QED BY <1>4, <1>g, <1>n, <1>o, <2>1 DEF StopRemove, MidSteps, StopSteps
<1>5. ASSUME NEW ok \in BOOLEAN, NEW first, NEW phase, ServiceDone(c, ok, first, phase),
             \/ pc[c] \in StartSteps /\ first = "start_rm" /\ phase = "starts"
             \/ pc[c] \in StopSteps /\ first = "stop" /\ phase = "stops"
      PROVE  /\ \A d \in Commands \ {c} : UNCHANGED <<pc[d], at[d], failed[d], kind[d]>>
             /\ LoopInv(c)'
  <2>1. /\ kind' = kind /\ failed'[c] = IF ok THEN failed[c] ELSE failed[c] \cup {Svc(c)}
        /\ \A d \in Commands \ {c} : UNCHANGED <<pc[d], at[d], failed[d], kind[d]>>
        /\ \/ at[c] # Len(Order) /\ at'[c] = at[c] + 1 /\ pc'[c] = first
           \/ pc'[c] = "failed" \/ (pc'[c] = "serve" /\ kind[c] = "dashboard")
           \/ /\ at[c] = Len(Order) /\ failed'[c] = {}
              /\ \/ phase = "starts" /\ pc'[c] \in {"look", "spawn", "serve"}
                 \/ phase = "stops" /\ pc'[c] = IF kind[c] = "down" THEN "signal" ELSE "network"
    BY <1>5, DoneWork
  <2> QED BY <1>5, <2>1 DEF LoopInv
<1>6. CASE StartFails(c)
  <2>1. /\ pc[c] = "start_run" /\ ServiceDone(c, FALSE, "start_rm", "starts") /\ status' = status
        /\ \A s \in Services \ {Svc(c)} : container'[s] = container[s]
    BY <1>6, <1>t DEF StartFails
  <2>2. c \notin disturbed' => WorkInv(c)'
    BY <1>l, <2>1, StartTurn DEF WorkInv, StartSteps, IsUp
  <2> QED BY <1>5, <1>o, <2>1, <2>2 DEF StartSteps
<1>7. CASE StartMark(c)
  <2>1. /\ pc[c] = "start_mark" /\ ServiceDone(c, TRUE, "start_rm", "starts") /\ container' = container
        /\ \A s \in Services \ {Svc(c)} : status'[s] = status[s]
        /\ status'[Svc(c)] = "running"
    BY <1>7, <1>t DEF StartMark
  <2>2. c \notin disturbed' => WorkInv(c)'
    BY <1>l, <2>1, StartTurn DEF WorkInv, StartSteps, IsUp
  <2> QED BY <1>5, <1>o, <2>1, <2>2 DEF StartSteps
<1>8. CASE StopFails(c)
  <2>1. pc[c] \in {"stop", "stop_rm"} /\ ServiceDone(c, FALSE, "stop", "stops") /\ UNCHANGED fleetVars
    BY <1>8 DEF StopFails
  <2>2. c \notin disturbed' => WorkInv(c)'
    BY <1>l, <2>1, StopTurn DEF WorkInv, StopSteps, IsGone, fleetVars
  <2> QED BY <1>5, <1>o, <2>1, <2>2 DEF StopSteps
<1>9. CASE StopMark(c)
  <2>1. /\ pc[c] = "stop_mark" /\ ServiceDone(c, TRUE, "stop", "stops") /\ container' = container
        /\ \A s \in Services \ {Svc(c)} : status'[s] = status[s]
        /\ status'[Svc(c)] \in {"stopped", "unseeded"}
    BY <1>9, <1>t DEF StopMark
  <2>2. c \notin disturbed' => WorkInv(c)'
    BY <1>l, <2>1, StopTurn DEF WorkInv, StopSteps, IsGone
  <2> QED BY <1>5, <1>o, <2>1, <2>2 DEF StopSteps
<1>10. CASE StopMarkFails(c)
  <2>1. pc[c] = "stop_mark" /\ ServiceDone(c, FALSE, "stop", "stops") /\ UNCHANGED fleetVars
    BY <1>10 DEF StopMarkFails
  <2>2. c \notin disturbed' => WorkInv(c)'
    BY <1>l, <2>1, StopTurn DEF WorkInv, StopSteps, IsGone, fleetVars
  <2> QED BY <1>5, <1>o, <2>1, <2>2 DEF StopSteps
<1> QED BY <1>1, <1>2, <1>3, <1>4, <1>6, <1>7, <1>8, <1>9, <1>10

LEMMA CommandKeepsReport ==
  ASSUME Types, ReportInv, NEW c \in Commands, Command(c)
  PROVE  ReportInv'
<1> USE DEF Types
<1>k. kind[c] \in CommandKinds /\ PhaseOK(c) /\ pc \in [Commands -> Steps] /\ at[c] \in 1 .. Len(Order)
  BY OrderFacts DEF ControlOK
<1>l. LoopInv(c) /\ (c \notin disturbed => WorkInv(c))
  BY DEF ReportInv
\* A step of no service, which leaves rows and containers; where it leads is all that matters.
<1>s. ASSUME NEW step \in Steps, Goto(c, step), UNCHANGED <<fleetVars, disturbed>>,
             LoopInv(c)', WorkInv(c) => WorkInv(c)'
      PROVE  ReportInv'
  <2>1. \A d \in Commands \ {c} : UNCHANGED <<pc[d], at[d], failed[d], kind[d]>>
    BY <1>s, <1>k DEF Goto
  <2> QED BY <1>l, <1>s, <2>1, StepReport DEF fleetVars, IsUp, IsGone
<1> USE DEF Steps, StartSteps, StopSteps, Ended
<1>1. CASE Begin(c)
  <2>1. Follow[kind[c]].new = IF kind[c] = "down" THEN "stop" ELSE IF kind[c] = "restart" THEN "signal" ELSE "seed"
    BY <1>k, FollowNew
  <2>2. /\ pc[c] = "new" /\ pc'[c] = Follow[kind[c]].new /\ UNCHANGED <<kind, at, failed>>
        /\ Goto(c, Follow[kind[c]].new) /\ UNCHANGED <<fleetVars, disturbed>>
    BY <1>1, <1>k DEF Begin, Goto, historyVars
  <2>3. LoopInv(c)'
    BY <1>l, <2>1, <2>2 DEF LoopInv
  <2>4. WorkInv(c)'
    BY <1>l, <2>1, <2>2 DEF LoopInv, WorkInv, StoppedSoFar, Starting
  <2> QED BY <1>s, <2>1, <2>2, <2>3, <2>4
<1>2. CASE SeedServices(c)
  <2>1. kind[c] # "down" /\ Follow[kind[c]].seed = IF kind[c] = "restart" THEN "stop" ELSE "network"
    BY <1>2, <1>k, FollowStart DEF SeedServices, PhaseOK
  <2>2. /\ pc[c] = "seed" /\ pc'[c] = Follow[kind[c]].seed /\ UNCHANGED <<kind, at, failed>>
        /\ container' = container /\ disturbed' = disturbed
        /\ \A d \in Commands \ {c} : UNCHANGED <<pc[d], at[d], failed[d], kind[d]>>
    BY <1>2, <1>k DEF SeedServices, Goto, historyVars
  <2>3. LoopInv(c)'
    BY <1>l, <2>1, <2>2 DEF LoopInv
  <2>4. WorkInv(c)'
    BY <1>l, <2>1, <2>2 DEF LoopInv, WorkInv, StoppedSoFar, Starting
  <2>5. \A s \in Services : (IsUp(s) => IsUp(s)') /\ (IsGone(s) => IsGone(s)')
    BY <1>2, <2>2 DEF SeedServices, IsUp, IsGone, Rowless
  <2> QED BY <2>2, <2>3, <2>4, <2>5, StepReport
<1>3. CASE CreateNetwork(c)
  <2>1. kind[c] # "down" /\ Follow[kind[c]].network = "start_rm"
    BY <1>3, <1>k, FollowStart DEF CreateNetwork, PhaseOK
  <2>2. /\ pc[c] = "network" /\ pc'[c] = "start_rm" /\ at'[c] = 1 /\ UNCHANGED <<kind, failed>>
        /\ UNCHANGED <<fleetVars, disturbed>>
        /\ \A d \in Commands \ {c} : UNCHANGED <<pc[d], at[d], failed[d], kind[d]>>
    BY <1>3, <1>k, <2>1 DEF CreateNetwork, ControlOK, historyVars
  <2>3. LoopInv(c)' /\ WorkInv(c)'
    BY <2>2 DEF LoopInv, WorkInv, Started, Starting
  <2> QED BY <2>2, <2>3, StepReport DEF fleetVars, IsUp, IsGone
<1>4. CASE CreateNetworkFails(c)
  <2>1. Raised(c) = IF kind[c] = "dashboard" THEN "serve" ELSE "failed"
    BY FollowStart DEF Raised, CommandKinds
  <2>2. /\ pc'[c] = Raised(c) /\ UNCHANGED <<kind, at, failed>>
        /\ Goto(c, Raised(c)) /\ UNCHANGED <<fleetVars, disturbed>>
    BY <1>4, <1>k DEF CreateNetworkFails, Goto, historyVars
  <2>3. LoopInv(c)' /\ WorkInv(c)'
    BY <2>1, <2>2 DEF LoopInv, WorkInv, Starting
  <2> QED BY <1>s, <2>1, <2>2, <2>3
<1>5. CASE \/ StartRemove(c) \/ StartRun(c) \/ StartFails(c) \/ StartMark(c)
           \/ Stop(c) \/ StopRemove(c) \/ StopFails(c) \/ StopMark(c) \/ StopMarkFails(c)
  BY <1>5, WorkKeepsReport
<1>6. CASE Look(c) \/ Spawn(c)
  <2>1. /\ pc[c] \in {"look", "spawn"} /\ pc'[c] = "done" /\ UNCHANGED <<kind, at, failed>>
        /\ Goto(c, "done") /\ UNCHANGED <<fleetVars, disturbed>> /\ kind[c] # "down"
    BY <1>6, <1>k DEF Look, Spawn, Goto, historyVars, PhaseOK
  <2>2. LoopInv(c)' /\ (WorkInv(c) => WorkInv(c)')
    BY <2>1 DEF LoopInv, WorkInv, Starting, IsUp, fleetVars
  <2> QED BY <1>s, <2>1, <2>2
<1>7. CASE Signal(c)
  <2>1. /\ pc[c] = "signal" /\ pc'[c] = "unlink" /\ UNCHANGED <<kind, at, failed>>
        /\ Goto(c, "unlink") /\ UNCHANGED <<fleetVars, disturbed>>
    BY <1>7, <1>k DEF Signal, Goto, historyVars
  <2>2. LoopInv(c)' /\ (WorkInv(c) => WorkInv(c)')
    BY <1>l, <2>1 DEF LoopInv, WorkInv, Starting, IsGone, fleetVars
  <2> QED BY <1>s, <2>1, <2>2
<1>8. CASE Unlink(c)
  <2>1. Follow[kind[c]].unlink = IF kind[c] = "down" THEN "done" ELSE "seed"
    BY <1>8, <1>k, FollowStop DEF Unlink, PhaseOK
  <2>2. /\ pc[c] = "unlink" /\ pc'[c] = Follow[kind[c]].unlink /\ UNCHANGED <<kind, at, failed>>
        /\ Goto(c, Follow[kind[c]].unlink) /\ UNCHANGED <<fleetVars, disturbed>>
    BY <1>8, <1>k DEF Unlink, Goto, historyVars
  <2>3. LoopInv(c)' /\ (WorkInv(c) => WorkInv(c)')
    BY <1>l, <2>1, <2>2 DEF LoopInv, WorkInv, Starting, IsGone, fleetVars
  <2> QED BY <1>s, <2>1, <2>2, <2>3
<1> QED BY <1>1, <1>2, <1>3, <1>4, <1>5, <1>6, <1>7, <1>8 DEF Command

\* What a scheduler does disturbs the commands that have begun, if it touches a service.
LEMMA SchedulerKeepsReport ==
  ASSUME Types, ReportInv, NEW c \in Commands,
         \/ Boot(c) \/ Healing(c) \/ Kill(c) \/ Terminate(c) \/ Shutdown(c)
         \/ \E s \in Services : CheckPasses(c, s)
  PROVE  ReportInv'
<1> USE DEF Types
<1>k. pc \in [Commands -> Steps] /\ kind \in [Commands -> CommandKinds]
  BY DEF ControlOK
\* Nothing but the step of c, at most to its end.
<1>s. ASSUME NEW step, pc' = [pc EXCEPT ![c] = step], UNCHANGED <<kind, at, failed, fleetVars, disturbed>>,
             \/ step = pc[c] \/ step = "failed"
             \/ step = "done" /\ pc[c] = "serve" /\ kind[c] # "down"
      PROVE  ReportInv'
  <2>1. /\ pc'[c] = step
        /\ \A d \in Commands \ {c} : UNCHANGED <<pc[d], at[d], failed[d], kind[d]>>
    BY <1>s, <1>k
  <2>2. LoopInv(c) /\ (c \notin disturbed => WorkInv(c)) /\ (step = pc[c] => Svc(c)' = Svc(c))
    BY <1>s, <2>1 DEF ReportInv, Svc
  <2>3. LoopInv(c)'
    BY <1>s, <2>1, <2>2 DEF LoopInv
  <2>4. step = pc[c] => (Started(c) => Started(c)') /\ (StoppedSoFar(c) => StoppedSoFar(c)')
    BY <1>s, <2>1 DEF Started, StoppedSoFar, StopAt, IsUp, IsGone, fleetVars
  <2>5. c \notin disturbed' => WorkInv(c)'
    BY <1>s, <2>1, <2>2, <2>4 DEF WorkInv, Starting, StartSteps, StopSteps, IsUp, IsGone, fleetVars
  <2> QED BY <1>s, <2>1, <2>3, <2>5, StepReport DEF fleetVars, IsUp, IsGone
\* A touch: every command that has begun is disturbed.
<1>t. ASSUME NEW s, SchedulerTouches(c, s), UNCHANGED commandVars
      PROVE  ReportInv'
  <2>1. disturbed \subseteq disturbed' /\ \A d \in Commands : d \notin disturbed' => pc[d] = "new"
    BY <1>t DEF SchedulerTouches, Touch
  <2> QED BY <1>t, <2>1, OthersWork DEF commandVars, ReportInv
<1>1. CASE Acquire(c) \/ WritePid(c) \/ \E s \in Services : HealBegin(c, s)
  <2>1. pc' = [pc EXCEPT ![c] = pc[c]] /\ UNCHANGED <<kind, at, failed, fleetVars, disturbed>>
    BY <1>1, <1>k DEF Acquire, WritePid, HealBegin, commandVars, historyVars
  <2> QED BY <1>s, <2>1
<1>2. CASE Refused(c)
  <2>1. /\ pc' = [pc EXCEPT ![c] = IF kind[c] = "foreground" THEN "failed" ELSE pc[c]]
        /\ UNCHANGED <<kind, at, failed, fleetVars, disturbed>>
    BY <1>2, <1>k DEF Refused, historyVars
  <2> QED BY <1>s, <2>1
<1>3. CASE Kill(c) \/ Terminate(c)
  <2>1. /\ pc' = [pc EXCEPT ![c] = IF InProcess(c) THEN "failed" ELSE pc[c]]
        /\ UNCHANGED <<kind, at, failed, fleetVars, disturbed>>
    BY <1>3, <1>k DEF Kill, Terminate, Dies, EndScheduler
  <2> QED BY <1>s, <2>1
<1>4. CASE Shutdown(c)
  <2>1. /\ pc' = [pc EXCEPT ![c] = "done"] /\ pc[c] = "serve" /\ kind[c] # "down"
        /\ UNCHANGED <<kind, at, failed, fleetVars, disturbed>>
    BY <1>4, <1>k DEF Shutdown, Goto, EndScheduler, InProcess, historyVars
  <2> QED BY <1>s, <2>1
<1>5. CASE HealRemove(c) \/ HealRun(c) \/ HealRunFails(c) \/ HealMark(c)
  BY <1>5, <1>t DEF HealRemove, HealRun, HealRunFails, HealMark, Heal
<1>6. ASSUME NEW s \in Services, CheckPasses(c, s) PROVE ReportInv'
  BY <1>6, <1>t DEF CheckPasses
<1> QED BY <1>1, <1>2, <1>3, <1>4, <1>5, <1>6 DEF Boot, Healing

LEMMA ReportAlways == Spec => []ReportInv
<1>1. Init => ReportInv
  BY DEF Init, ReportInv, LoopInv, WorkInv, Starting, StartSteps, StopSteps
<1>2. Types /\ ReportInv /\ [Next]_vars => ReportInv'
  <2> SUFFICES ASSUME Types, ReportInv, [Next]_vars PROVE ReportInv'
    OBVIOUS
  <2>1. CASE UNCHANGED vars
    BY <2>1, OthersWork DEF vars, Types, ReportInv, IsUp, IsGone
  <2>2. ASSUME NEW s \in Services, ContainerDies(s) PROVE ReportInv'
    <3>1. /\ \A d \in Commands : UNCHANGED <<pc[d], at[d], failed[d], kind[d]>>
          /\ \A d \in Commands : d \notin disturbed' => pc[d] = "new"
      BY <2>2 DEF ContainerDies, commandVars
    <3> QED BY <3>1, OthersWork DEF Types, ReportInv
  <2> QED BY <2>1, <2>2, CommandKeepsReport, SchedulerKeepsReport DEF Next
<1> QED BY <1>1, <1>2, FleetKeepsTypes, PTL DEF Spec

\* The exit status of a command nobody has disturbed tells the truth: after an `up` or a
\* `restart` all services run and are recorded so, after a `down` none is left and no row
\* claims that one is, whether or not they were ever seeded, whichever docker commands
\* failed on the way and however many services there are.
THEOREM ReportsAreTrue == Spec => []ReportIsTrue
<1>1. ReportInv => ReportIsTrue
  BY DEF ReportInv, WorkInv, ReportIsTrue, IsUp, IsGone
<1> QED BY <1>1, ReportAlways, PTL

\* A container is run behind the dependencies it has, and stopped behind its dependents:
\* the order of ServiceOrder, kept by the loops of every command.
THEOREM DependenciesAreUp == Spec => []DependenciesUp
<1>1. Types /\ ReportInv => DependenciesUp
  <2> SUFFICES ASSUME Types, ReportInv, NEW c \in Commands \ disturbed, failed[c] = {}
               PROVE  /\ pc[c] = "start_mark" => \A d \in Deps[Svc(c)] : container[d] = "running"
                      /\ pc[c] = "stop_rm" =>
                           \A s \in Services : Svc(c) \in Deps[s] => container[s] # "running"
    BY DEF DependenciesUp
  <2>1. WorkInv(c) /\ at[c] \in 1 .. Len(Order)
    BY OrderFacts DEF ReportInv, Types, ControlOK
  <2>2. ASSUME pc[c] = "start_mark", NEW d \in Deps[Svc(c)] PROVE container[d] = "running"
    <3>1. Svc(c) = Order[at[c]] /\ Started(c) /\ Svc(c) \in Services
      BY <2>1, <2>2, OrderFacts DEF WorkInv, Svc, StartSteps, StopSteps
    <3>2. d \in Services
      BY <2>2, <3>1, FleetAssumption
    <3>3. PICK i \in 1 .. Len(Order) : Order[i] = d
      BY <3>2, OrderFacts
    <3>4. i < at[c]
      BY <2>1, <2>2, <3>1, <3>3, OrderAssumption, OrderFacts
    <3> QED BY <2>1, <3>1, <3>3, <3>4 DEF Started, IsUp
  <2>3. ASSUME pc[c] = "stop_rm", NEW s \in Services, Svc(c) \in Deps[s]
        PROVE  container[s] # "running"
    <3>1. Svc(c) = StopAt(at[c]) /\ StoppedSoFar(c)
      BY <2>1, <2>3 DEF WorkInv, Svc, StopAt, StopSteps
    <3>2. PICK i \in 1 .. Len(Order) : Order[i] = s
      BY OrderFacts
    <3>3. Len(Order) + 1 - at[c] \in 1 .. Len(Order)
      BY <2>1, OrderFacts
    <3>4. Len(Order) + 1 - at[c] < i
      BY <2>3, <3>1, <3>2, <3>3, OrderAssumption, OrderFacts DEF StopAt
    <3>5. Len(Order) + 1 - i \in 1 .. at[c] - 1 /\ StopAt(Len(Order) + 1 - i) = s
      BY <2>1, <3>2, <3>4, OrderFacts DEF StopAt
    <3> QED BY <3>1, <3>5 DEF StoppedSoFar, IsGone
  <2> QED BY <2>2, <2>3
<1> QED BY <1>1, ReportAlways, FleetKeepsTypes, PTL
=============================================================================
