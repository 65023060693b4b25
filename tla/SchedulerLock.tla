--------------------------- MODULE SchedulerLock ----------------------------
(***************************************************************************)
(* The cross-process lock of the health scheduler: SchedulerLock           *)
(* (health/scheduler_lock.py) as HealthScheduler.start and stop use it,    *)
(* and stop_background_scheduler (cli/main.py), which deletes its files.   *)
(*                                                                         *)
(* flock locks a file, not a name: a process that opened .scheduler.lock   *)
(* keeps its inode when the name is unlinked, and the next open creates    *)
(* another.  A process of Procs makes one start of the scheduler and is    *)
(* never started again, so a PID is never reused.                          *)
(***************************************************************************)
EXTENDS Naturals, FiniteSets

CONSTANTS
  Procs,        \* processes that start a scheduler
  Stoppers,     \* runs of `dockfleet down` or `dockfleet restart`
  MaxInodes,    \* bound: lock files ever created
  MaxCrashes,   \* bound: processes that die by themselves
  Releases,     \* BOOLEAN: running schedulers may be stopped by HealthScheduler.stop
  StaleFiles,   \* BOOLEAN: a crashed scheduler left both files behind
  Nobody,       \* no process
  OldPid        \* the PID in the stale file: no such process

ASSUME LockAssumption ==
  /\ MaxInodes \in Nat \ {0} /\ MaxCrashes \in Nat
  /\ Releases \in BOOLEAN /\ StaleFiles \in BOOLEAN
  /\ Nobody \notin Procs /\ OldPid \notin Procs /\ Nobody # OldPid
  /\ Procs \cap Stoppers = {}

VARIABLES
  lockPath,     \* the inode .scheduler.lock names, 0 if there is no such file
  created,      \* how many lock inodes have been created
  flock,        \* [inode -> the process that holds its lock, or Nobody]
  pidFile,      \* .scheduler.pid: whose it is, and whether it is written out
  pc, fd, seen, \* per process: step, open lock inode (0: none), PID it has read
  spc,          \* per stopper: step
  signalled,    \* processes that were sent SIGTERM
  crashes,      \* deaths so far
  stolen        \* history: the lock file was unlinked while another process had it open

vars == <<lockPath, created, flock, pidFile, pc, fd, seen, spc, signalled, crashes, stolen>>

Inodes == 1 .. MaxInodes
NoFile == [by |-> Nobody, whole |-> FALSE]
PidFiles == [by : Procs \cup {Nobody, OldPid}, whole : BOOLEAN]

Gone == {"new", "refused", "ended"}
Running == {"pid_open", "pid_write", "running"}     \* _acquired is True
Alive(p) == p \in Procs /\ pc[p] \notin Gone

Holds(p) == pc[p] \in Running

Init ==
  /\ lockPath = IF StaleFiles THEN 1 ELSE 0
  /\ created = lockPath
  /\ flock = [i \in Inodes |-> Nobody]
  /\ pidFile = IF StaleFiles THEN [by |-> OldPid, whole |-> TRUE] ELSE NoFile
  /\ pc = [p \in Procs |-> "new"]
  /\ fd = [p \in Procs |-> 0]
  /\ seen = [p \in Procs |-> Nobody]
  /\ spc = [q \in Stoppers |-> "new"]
  /\ signalled = {}
  /\ crashes = 0
  /\ stolen = FALSE

Step(p, from, to) == pc[p] = from /\ pc' = [pc EXCEPT ![p] = to]

\* open(path, "a+"): the file it names, or a new one.
OpenLock(p) ==
  /\ IF lockPath = 0
     THEN /\ created < MaxInodes
          /\ created' = created + 1
          /\ lockPath' = created + 1
     ELSE UNCHANGED <<created, lockPath>>
  /\ fd' = [fd EXCEPT ![p] = lockPath']
  /\ UNCHANGED <<flock, pidFile, seen, spc, signalled, crashes, stolen>>

\* mutant: a shared lock
TryLockShared(p, refused) ==
  /\ flock' = [flock EXCEPT ![fd[p]] = p]
  /\ pc' = [pc EXCEPT ![p] = "pid_open"]
  /\ UNCHANGED <<lockPath, created, pidFile, fd, seen, spc, signalled, crashes, stolen>>

\* LOCK_EX | LOCK_NB: a process that gets no lock closes its file.
TryLock(p, refused) ==
  \/ /\ flock[fd[p]] = Nobody
     /\ flock' = [flock EXCEPT ![fd[p]] = p]
     /\ pc' = [pc EXCEPT ![p] = "pid_open"]
     /\ UNCHANGED <<lockPath, created, pidFile, fd, seen, spc, signalled, crashes, stolen>>
  \/ /\ flock[fd[p]] # Nobody
     /\ fd' = [fd EXCEPT ![p] = 0]
     /\ pc' = [pc EXCEPT ![p] = refused]
     /\ UNCHANGED <<lockPath, created, flock, pidFile, seen, spc, signalled, crashes, stolen>>

Open(p) == Step(p, "new", "lock") /\ OpenLock(p)

\* mutant: a PID file is taken for a running scheduler
LockNoPidFile(p) ==
  /\ pc[p] = "lock"
  /\ IF pidFile = NoFile
     THEN TryLock(p, "conflict")
     ELSE /\ Step(p, "lock", "refused")
          /\ fd' = [fd EXCEPT ![p] = 0]
          /\ UNCHANGED <<lockPath, created, flock, pidFile, seen, spc, signalled, crashes, stolen>>

Lock(p) == pc[p] = "lock" /\ TryLock(p, "conflict")

\* Truncated by open(path, "w") and then written.
OpenPid(p) ==
  /\ Step(p, "pid_open", "pid_write")
  /\ pidFile' = [by |-> p, whole |-> FALSE]
  /\ UNCHANGED <<lockPath, created, flock, fd, seen, spc, signalled, crashes, stolen>>

\* What is written to a file unlinked or replaced meanwhile is seen by nobody.
WritePid(p) ==
  /\ Step(p, "pid_write", "running")
  /\ pidFile' = IF pidFile.by = p THEN [by |-> p, whole |-> TRUE] ELSE pidFile
  /\ UNCHANGED <<lockPath, created, flock, fd, seen, spc, signalled, crashes, stolen>>

(***************************************************************************)
(* The lock is held: is its holder alive?                                  *)
(***************************************************************************)
ReadHolder(p) ==
  /\ IF pidFile.whole
     THEN /\ Step(p, "conflict", "probe")
          /\ seen' = [seen EXCEPT ![p] = pidFile.by]
     ELSE Step(p, "conflict", "refused") /\ UNCHANGED seen
  /\ UNCHANGED <<lockPath, created, flock, pidFile, fd, spc, signalled, crashes, stolen>>

ProbeHolder(p) ==
  /\ Step(p, "probe", IF Alive(seen[p]) THEN "refused" ELSE "clean_pid")
  /\ UNCHANGED <<lockPath, created, flock, pidFile, fd, seen, spc, signalled, crashes, stolen>>

\* unlink(missing_ok=True) of the PID file, and of the lock file.
UnlinkPid ==
  /\ pidFile' = NoFile
  /\ UNCHANGED <<lockPath, created, flock, fd, seen, signalled, crashes, stolen>>

UnlinkLock(me) ==
  /\ lockPath' = 0
  /\ stolen' = (stolen \/ \E p \in Procs \ {me} : fd[p] # 0 /\ fd[p] = lockPath)
  /\ UNCHANGED <<created, flock, pidFile, fd, seen, signalled, crashes>>

CleanPid(p) == Step(p, "clean_pid", "clean_lock") /\ UnlinkPid /\ UNCHANGED spc
CleanLock(p) == Step(p, "clean_lock", "reopen") /\ UnlinkLock(p) /\ UNCHANGED spc
Reopen(p) == Step(p, "reopen", "relock") /\ OpenLock(p)
Relock(p) == pc[p] = "relock" /\ TryLock(p, "refused")

(***************************************************************************)
(* release(): unlock and close, then unlink both names.                    *)
(***************************************************************************)
Unlock(p) ==
  /\ Releases
  /\ Step(p, "running", "rm_pid")
  /\ flock' = [flock EXCEPT ![fd[p]] = Nobody]
  /\ fd' = [fd EXCEPT ![p] = 0]
  /\ UNCHANGED <<lockPath, created, pidFile, seen, spc, signalled, crashes, stolen>>

RemovePid(p) == Step(p, "rm_pid", "rm_lock") /\ UnlinkPid /\ UNCHANGED spc
RemoveLock(p) == Step(p, "rm_lock", "ended") /\ UnlinkLock(p) /\ UNCHANGED spc

(***************************************************************************)
(* stop_background_scheduler: signal the process of the PID file, and      *)
(* unlink both files without waiting for it to end.                        *)
(***************************************************************************)
\* mutant: the PID is not probed before it is signalled
StopSignalUnprobed(q) ==
  /\ spc[q] = "new"
  /\ spc' = [spc EXCEPT ![q] = "rm_pid"]
  /\ signalled' = IF pidFile.whole THEN signalled \cup {pidFile.by} ELSE signalled
  /\ UNCHANGED <<lockPath, created, flock, pidFile, pc, fd, seen, crashes, stolen>>

StopSignal(q) ==
  /\ spc[q] = "new"
  /\ spc' = [spc EXCEPT ![q] = "rm_pid"]
  /\ signalled' = IF pidFile.whole /\ Alive(pidFile.by) THEN signalled \cup {pidFile.by} ELSE signalled
  /\ UNCHANGED <<lockPath, created, flock, pidFile, pc, fd, seen, crashes, stolen>>

StopRemovePid(q) ==
  /\ spc[q] = "rm_pid" /\ spc' = [spc EXCEPT ![q] = "rm_lock"]
  /\ UnlinkPid /\ UNCHANGED pc

StopRemoveLock(q) ==
  /\ spc[q] = "rm_lock" /\ spc' = [spc EXCEPT ![q] = "done"]
  /\ UnlinkLock(q) /\ UNCHANGED pc

\* A process ends: its descriptors are closed, which frees its lock.
Die(p) ==
  /\ Alive(p)
  /\ pc' = [pc EXCEPT ![p] = "ended"]
  /\ flock' = [i \in Inodes |-> IF flock[i] = p THEN Nobody ELSE flock[i]]
  /\ fd' = [fd EXCEPT ![p] = 0]
  /\ UNCHANGED <<lockPath, created, pidFile, seen, spc, signalled, stolen>>

Crash(p) == crashes < MaxCrashes /\ crashes' = crashes + 1 /\ Die(p)

Terminate(p) == p \in signalled /\ Die(p) /\ UNCHANGED crashes

Acquire(p) ==
  \/ Open(p) \/ Lock(p) \/ OpenPid(p) \/ WritePid(p)
  \/ ReadHolder(p) \/ ProbeHolder(p) \/ CleanPid(p) \/ CleanLock(p) \/ Reopen(p) \/ Relock(p)

Release(p) == Unlock(p) \/ RemovePid(p) \/ RemoveLock(p)

Stop(q) == StopSignal(q) \/ StopRemovePid(q) \/ StopRemoveLock(q)

Next ==
  \/ \E p \in Procs : Acquire(p) \/ Release(p) \/ Crash(p) \/ Terminate(p)
  \/ \E q \in Stoppers : Stop(q)

Spec == Init /\ [][Next]_vars

(***************************************************************************)
(* Properties.                                                             *)
(***************************************************************************)
\* Every variable stays within its type.
TypeOK ==
  /\ lockPath \in 0 .. MaxInodes /\ created \in 0 .. MaxInodes
  /\ flock \in [Inodes -> Procs \cup {Nobody}]
  /\ pidFile \in PidFiles
  /\ pc \in [Procs -> Gone \cup Running \cup
              {"lock", "conflict", "probe", "clean_pid", "clean_lock", "reopen", "relock",
               "rm_pid", "rm_lock"}]
  /\ fd \in [Procs -> 0 .. MaxInodes]
  /\ seen \in [Procs -> Procs \cup {Nobody, OldPid}]
  /\ spc \in [Stoppers -> {"new", "rm_pid", "rm_lock", "done"}]
  /\ signalled \in SUBSET Procs
  /\ crashes \in 0 .. MaxCrashes
  /\ stolen \in BOOLEAN

\* "Only one health scheduler can be active per project at a time."
AtMostOneScheduler == \A p, q \in Procs : Holds(p) /\ Holds(q) => p = q

\* The lock excludes until somebody unlinks the file another process has open:
\* crashes, stale PIDs and refused starts alone never let a second scheduler in.
ExclusiveUntilStolen == ~stolen => AtMostOneScheduler

\* Starters cannot all refuse each other: when every start has been decided, one
\* scheduler runs, unless one died or was stopped.
SomebodyStarts ==
  crashes = 0 /\ signalled = {} /\ (\A p \in Procs : pc[p] \in {"refused", "running"}) /\ Procs # {}
    => \E p \in Procs : pc[p] = "running"

\* The schedulers the abstract lock has.
Active == {p \in Procs : Holds(p)}

Mutex == INSTANCE SchedulerMutex WITH active <- Active, broken <- stolen

\* The files and flocks together implement the lock the guide promises, up to the
\* deletion of a lock file that is in use.
ImplementsMutex == Mutex!Spec
=============================================================================
