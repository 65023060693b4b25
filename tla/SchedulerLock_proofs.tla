------------------------ MODULE SchedulerLock_proofs ------------------------
(***************************************************************************)
(* Theorems about SchedulerLock, for any number of starters, stoppers,     *)
(* lock files and crashes.                                                 *)
(***************************************************************************)
EXTENDS SchedulerLock, TLAPS

\* Where a process has the lock file open.
Opened == Running \cup {"lock", "relock"}

\* A process has an inode open exactly at these labels; a scheduler that runs has
\* the lock of its inode; and until the file is stolen, every process that has
\* one open has the one the name stands for.
OpenInv == \A p \in Procs : fd[p] # 0 <=> pc[p] \in Opened
HoldInv == \A p \in Procs : Holds(p) => flock[fd[p]] = p
NameInv == ~stolen => \A p \in Procs : fd[p] # 0 => fd[p] = lockPath

LockInv == TypeOK /\ OpenInv /\ HoldInv /\ NameInv

LEMMA LockInit == Init => LockInv
<1>. USE LockAssumption
<1>. SUFFICES ASSUME Init PROVE LockInv  OBVIOUS
<1>1. TypeOK
  <2>1. lockPath \in 0 .. MaxInodes /\ created \in 0 .. MaxInodes  BY DEF Init
  <2>2. pidFile \in PidFiles
    <3>1. CASE StaleFiles  BY <3>1 DEF Init, PidFiles
    <3>2. CASE ~StaleFiles  BY <3>2 DEF Init, PidFiles, NoFile
    <3>. QED  BY <3>1, <3>2
  <2>3. crashes \in 0 .. MaxCrashes  BY DEF Init
  <2>4. flock \in [Inodes -> Procs \cup {Nobody}]  BY DEF Init
  <2>5. fd \in [Procs -> 0 .. MaxInodes]
    <3>1. 0 \in 0 .. MaxInodes  OBVIOUS
    <3>. QED  BY <3>1 DEF Init
  <2>7. seen \in [Procs -> Procs \cup {Nobody, OldPid}]  BY DEF Init
  <2>8. spc \in [Stoppers -> {"new", "rm_pid", "rm_lock", "done"}]  BY DEF Init
  <2>9. signalled \in SUBSET Procs /\ stolen \in BOOLEAN  BY DEF Init
  <2>6. pc \in [Procs -> Gone]  BY DEF Init, Gone
  <2>. HIDE DEF Init
  <2>. QED  BY <2>1, <2>2, <2>3, <2>4, <2>5, <2>6, <2>7, <2>8, <2>9 DEF TypeOK
<1>2. OpenInv /\ HoldInv /\ NameInv
  BY DEF Init, OpenInv, HoldInv, NameInv, Holds, Opened, Running
<1>. QED  BY <1>1, <1>2 DEF LockInv

(***************************************************************************)
(* Opening the file, and taking its lock.                                  *)
(***************************************************************************)
LEMMA OpenStep ==
  ASSUME LockInv, NEW p \in Procs, NEW from, NEW to \in {"lock", "relock"},
         from \notin Opened, Step(p, from, to), OpenLock(p)
  PROVE  LockInv'
<1>. USE LockAssumption
<1>1. PICK path \in 0 .. MaxInodes :
        lockPath' = path /\ path # 0 /\ created' \in 0 .. MaxInodes /\ (lockPath # 0 => path = lockPath)
  BY DEF OpenLock, LockInv, TypeOK
<1>2. fd' = [fd EXCEPT ![p] = path]  BY <1>1 DEF OpenLock
<1>3. TypeOK'
  BY <1>1, <1>2 DEF LockInv, TypeOK, Step, OpenLock, Inodes, PidFiles
<1>4. OpenInv'
  BY <1>1, <1>2 DEF LockInv, TypeOK, OpenInv, Step, Opened, Running
<1>5. HoldInv'
  BY <1>1, <1>2 DEF LockInv, TypeOK, HoldInv, Holds, Step, OpenLock, Running
<1>6. NameInv'
  BY <1>1, <1>2 DEF LockInv, TypeOK, NameInv, OpenLock
<1>. QED  BY <1>3, <1>4, <1>5, <1>6 DEF LockInv

LEMMA TryStep ==
  ASSUME LockInv, NEW p \in Procs, pc[p] \in {"lock", "relock"},
         NEW refused \in {"conflict", "refused"}, TryLock(p, refused)
  PROVE  LockInv'
<1>. USE LockAssumption
<1>1. fd[p] \in Inodes
  BY DEF LockInv, TypeOK, OpenInv, Opened, Inodes
<1>2. CASE flock[fd[p]] = Nobody
  <2>1. /\ flock' = [flock EXCEPT ![fd[p]] = p]
        /\ pc' = [pc EXCEPT ![p] = "pid_open"]
        /\ UNCHANGED <<lockPath, created, pidFile, fd, seen, spc, signalled, crashes, stolen>>
    BY <1>2 DEF TryLock
  <2>2. TypeOK'  BY <1>1, <2>1 DEF LockInv, TypeOK, Running, Inodes
  <2>3. OpenInv'  BY <2>1 DEF LockInv, TypeOK, OpenInv, Opened, Running
  <2>4. HoldInv'
    BY <1>1, <1>2, <2>1 DEF LockInv, TypeOK, HoldInv, Holds, OpenInv, Opened, Running, Inodes
  <2>5. NameInv'  BY <2>1 DEF LockInv, NameInv
  <2>. QED  BY <2>2, <2>3, <2>4, <2>5 DEF LockInv
<1>3. CASE flock[fd[p]] # Nobody
  <2>1. /\ fd' = [fd EXCEPT ![p] = 0]
        /\ pc' = [pc EXCEPT ![p] = refused]
        /\ UNCHANGED <<lockPath, created, flock, pidFile, seen, spc, signalled, crashes, stolen>>
    BY <1>3 DEF TryLock
  <2>2. TypeOK'  BY <2>1 DEF LockInv, TypeOK, Gone
  <2>3. OpenInv'  BY <2>1 DEF LockInv, TypeOK, OpenInv, Opened, Running
  <2>4. HoldInv'  BY <2>1 DEF LockInv, TypeOK, HoldInv, Holds, Running
  <2>5. NameInv'  BY <2>1 DEF LockInv, TypeOK, NameInv
  <2>. QED  BY <2>2, <2>3, <2>4, <2>5 DEF LockInv
<1>. QED  BY <1>2, <1>3

(***************************************************************************)
(* Steps that touch neither an open file nor a lock.                       *)
(***************************************************************************)
LEMMA QuietStep ==
  ASSUME LockInv, TypeOK', NEW p \in Procs, NEW to,
         pc' = [pc EXCEPT ![p] = to],
         pc[p] \in Running <=> to \in Running, pc[p] \in Opened <=> to \in Opened,
         UNCHANGED <<lockPath, flock, fd, stolen>>
  PROVE  LockInv'
<1>1. OpenInv'  BY DEF LockInv, TypeOK, OpenInv
<1>2. HoldInv'  BY DEF LockInv, TypeOK, HoldInv, Holds
<1>3. NameInv'  BY DEF LockInv, NameInv
<1>. QED  BY <1>1, <1>2, <1>3 DEF LockInv

\* Unlinking the name: either another process has the file open, and it is
\* stolen, or nobody has it open.
LEMMA UnlinkStep ==
  ASSUME LockInv, NEW me, me \in Procs => fd[me] = 0, UnlinkLock(me),
         TypeOK', OpenInv', HoldInv'
  PROVE  LockInv'
<1>1. NameInv'
  <2>. SUFFICES ASSUME ~stolen', NEW q \in Procs PROVE fd'[q] = 0
    BY DEF NameInv
  <2>1. ~stolen /\ \A r \in Procs \ {me} : fd[r] = 0 \/ fd[r] # lockPath
    BY DEF UnlinkLock
  <2>. QED  BY <2>1 DEF UnlinkLock, LockInv, NameInv
<1>. QED  BY <1>1 DEF LockInv

LEMMA AcquireStep ==
  ASSUME LockInv, NEW p \in Procs, Acquire(p)
  PROVE  LockInv'
<1>. USE LockAssumption
<1>1. CASE Open(p)
  <2>1. "new" \notin Opened  BY DEF Opened, Running
  <2>. QED  BY <1>1, <2>1, OpenStep DEF Open
<1>2. CASE Reopen(p)
  <2>1. "reopen" \notin Opened  BY DEF Opened, Running
  <2>. QED  BY <1>2, <2>1, OpenStep DEF Reopen
<1>3. CASE Lock(p)
  BY <1>3, TryStep DEF Lock
<1>4. CASE Relock(p)
  BY <1>4, TryStep DEF Relock
<1>5. CASE OpenPid(p)
  <2>1. TypeOK'  BY <1>5 DEF OpenPid, Step, LockInv, TypeOK, PidFiles, Running
  <2>. QED  BY <1>5, <2>1, QuietStep DEF OpenPid, Step, Opened, Running
<1>6. CASE WritePid(p)
  <2>1. pidFile' \in PidFiles  BY <1>6 DEF WritePid, LockInv, TypeOK, PidFiles
  <2>2. TypeOK'  BY <1>6, <2>1 DEF WritePid, Step, LockInv, TypeOK, Running
  <2>. QED  BY <1>6, <2>2, QuietStep DEF WritePid, Step, Opened, Running
<1>7. CASE ReadHolder(p)
  <2>1. PICK to \in {"probe", "refused"} : pc[p] = "conflict" /\ pc' = [pc EXCEPT ![p] = to]
    BY <1>7 DEF ReadHolder, Step
  <2>2. seen' \in [Procs -> Procs \cup {Nobody, OldPid}]
    BY <1>7 DEF ReadHolder, LockInv, TypeOK, PidFiles
  <2>3. UNCHANGED <<lockPath, created, flock, pidFile, fd, spc, signalled, crashes, stolen>>
    BY <1>7 DEF ReadHolder
  <2>4. TypeOK'  BY <2>1, <2>2, <2>3 DEF LockInv, TypeOK, Gone
  <2>. QED  BY <2>1, <2>3, <2>4, QuietStep DEF Opened, Running
<1>8. CASE ProbeHolder(p)
  <2>1. PICK to \in {"refused", "clean_pid"} : pc[p] = "probe" /\ pc' = [pc EXCEPT ![p] = to]
    BY <1>8 DEF ProbeHolder, Step
  <2>2. UNCHANGED <<lockPath, created, flock, pidFile, fd, seen, spc, signalled, crashes, stolen>>
    BY <1>8 DEF ProbeHolder
  <2>3. TypeOK'  BY <2>1, <2>2 DEF LockInv, TypeOK, Gone
  <2>. QED  BY <2>1, <2>2, <2>3, QuietStep DEF Opened, Running
<1>9. CASE CleanPid(p)
  <2>1. TypeOK'  BY <1>9 DEF CleanPid, UnlinkPid, Step, LockInv, TypeOK, PidFiles, NoFile
  <2>. QED  BY <1>9, <2>1, QuietStep DEF CleanPid, UnlinkPid, Step, Opened, Running
<1>10. CASE CleanLock(p)
  <2>1. fd[p] = 0
    BY <1>10 DEF CleanLock, Step, LockInv, OpenInv, Opened, Running
  <2>2. stolen' \in BOOLEAN  BY <1>10 DEF CleanLock, UnlinkLock, LockInv, TypeOK
  <2>3. TypeOK'  BY <1>10, <2>2 DEF CleanLock, UnlinkLock, Step, LockInv, TypeOK
  <2>4. OpenInv'
    BY <1>10 DEF CleanLock, UnlinkLock, Step, LockInv, TypeOK, OpenInv, Opened, Running
  <2>5. HoldInv'
    BY <1>10 DEF CleanLock, UnlinkLock, Step, LockInv, TypeOK, HoldInv, Holds, Running
  <2>. QED  BY <1>10, <2>1, <2>3, <2>4, <2>5, UnlinkStep DEF CleanLock
<1>. QED  BY <1>1, <1>2, <1>3, <1>4, <1>5, <1>6, <1>7, <1>8, <1>9, <1>10 DEF Acquire

LEMMA ReleaseStep ==
  ASSUME LockInv, NEW p \in Procs, Release(p)
  PROVE  LockInv'
<1>. USE LockAssumption
<1>1. CASE Unlock(p)
  <2>1. fd[p] \in Inodes /\ pc[p] = "running" /\ flock[fd[p]] = p
    BY <1>1 DEF Unlock, Step, LockInv, TypeOK, OpenInv, HoldInv, Holds, Opened, Running, Inodes
  <2>2. TypeOK'  BY <1>1, <2>1 DEF Unlock, Step, LockInv, TypeOK
  <2>3. OpenInv'  BY <1>1 DEF Unlock, Step, LockInv, TypeOK, OpenInv, Opened, Running
  <2>4. HoldInv'
    BY <1>1, <2>1
       DEF Unlock, Step, LockInv, TypeOK, HoldInv, Holds, OpenInv, Opened, Running, Inodes
  <2>5. NameInv'  BY <1>1 DEF Unlock, LockInv, TypeOK, NameInv
  <2>. QED  BY <2>2, <2>3, <2>4, <2>5 DEF LockInv
<1>2. CASE RemovePid(p)
  <2>1. TypeOK'  BY <1>2 DEF RemovePid, UnlinkPid, Step, LockInv, TypeOK, PidFiles, NoFile
  <2>. QED  BY <1>2, <2>1, QuietStep DEF RemovePid, UnlinkPid, Step, Opened, Running
<1>3. CASE RemoveLock(p)
  <2>1. fd[p] = 0
    BY <1>3 DEF RemoveLock, Step, LockInv, OpenInv, Opened, Running
  <2>2. stolen' \in BOOLEAN  BY <1>3 DEF RemoveLock, UnlinkLock, LockInv, TypeOK
  <2>3. TypeOK'  BY <1>3, <2>2 DEF RemoveLock, UnlinkLock, Step, LockInv, TypeOK, Gone
  <2>4. OpenInv'
    BY <1>3 DEF RemoveLock, UnlinkLock, Step, LockInv, TypeOK, OpenInv, Opened, Running
  <2>5. HoldInv'
    BY <1>3 DEF RemoveLock, UnlinkLock, Step, LockInv, TypeOK, HoldInv, Holds, Running
  <2>. QED  BY <1>3, <2>1, <2>3, <2>4, <2>5, UnlinkStep DEF RemoveLock
<1>. QED  BY <1>1, <1>2, <1>3 DEF Release

LEMMA StopStep ==
  ASSUME LockInv, NEW q \in Stoppers, Stop(q)
  PROVE  LockInv'
<1>. USE LockAssumption
<1>1. CASE StopSignal(q)
  <2>1. signalled' \in SUBSET Procs
    BY <1>1 DEF StopSignal, LockInv, TypeOK, Alive
  <2>2. TypeOK'  BY <1>1, <2>1 DEF StopSignal, LockInv, TypeOK
  <2>. QED
    BY <1>1, <2>2 DEF StopSignal, LockInv, OpenInv, HoldInv, NameInv, Holds
<1>2. CASE StopRemovePid(q)
  <2>1. TypeOK'  BY <1>2 DEF StopRemovePid, UnlinkPid, LockInv, TypeOK, PidFiles, NoFile
  <2>. QED
    BY <1>2, <2>1 DEF StopRemovePid, UnlinkPid, LockInv, OpenInv, HoldInv, NameInv, Holds
<1>3. CASE StopRemoveLock(q)
  <2>1. q \notin Procs  OBVIOUS
  <2>2. stolen' \in BOOLEAN  BY <1>3 DEF StopRemoveLock, UnlinkLock, LockInv, TypeOK
  <2>3. TypeOK'  BY <1>3, <2>2 DEF StopRemoveLock, UnlinkLock, LockInv, TypeOK
  <2>4. OpenInv' /\ HoldInv'
    BY <1>3 DEF StopRemoveLock, UnlinkLock, LockInv, OpenInv, HoldInv, Holds
  <2>. QED  BY <1>3, <2>1, <2>3, <2>4, UnlinkStep DEF StopRemoveLock
<1>. QED  BY <1>1, <1>2, <1>3 DEF Stop

LEMMA DieStep ==
  ASSUME LockInv, NEW p \in Procs, Die(p), crashes' \in 0 .. MaxCrashes
  PROVE  LockInv'
<1>. USE LockAssumption
<1>1. TypeOK'  BY DEF Die, LockInv, TypeOK, Gone
<1>2. OpenInv'  BY DEF Die, LockInv, TypeOK, OpenInv, Opened, Running
<1>3. HoldInv'
  <2>. SUFFICES ASSUME NEW q \in Procs, Holds(q)' PROVE flock'[fd'[q]] = q
    BY DEF HoldInv
  <2>1. q # p /\ Holds(q) /\ fd'[q] = fd[q]
    BY DEF Die, Holds, Running, LockInv, TypeOK
  <2>2. fd[q] \in Inodes /\ flock[fd[q]] = q
    BY <2>1 DEF LockInv, TypeOK, OpenInv, HoldInv, Holds, Opened, Inodes
  <2>. QED  BY <2>1, <2>2 DEF Die
<1>4. NameInv'  BY DEF Die, LockInv, TypeOK, NameInv
<1>. QED  BY <1>1, <1>2, <1>3, <1>4 DEF LockInv

LEMMA LockNext == LockInv /\ [Next]_vars => LockInv'
<1>. SUFFICES ASSUME LockInv, [Next]_vars PROVE LockInv'  OBVIOUS
<1>1. CASE UNCHANGED vars
  BY <1>1 DEF vars, LockInv, TypeOK, OpenInv, HoldInv, NameInv, Holds
<1>2. ASSUME NEW p \in Procs, Acquire(p) PROVE LockInv'  BY <1>2, AcquireStep
<1>3. ASSUME NEW p \in Procs, Release(p) PROVE LockInv'  BY <1>3, ReleaseStep
<1>4. ASSUME NEW p \in Procs, Crash(p) PROVE LockInv'
  <2>1. crashes' \in 0 .. MaxCrashes
    BY <1>4, LockAssumption DEF Crash, LockInv, TypeOK
  <2>. QED  BY <1>4, <2>1, DieStep DEF Crash
<1>5. ASSUME NEW p \in Procs, Terminate(p) PROVE LockInv'
  <2>1. crashes' \in 0 .. MaxCrashes  BY <1>5 DEF Terminate, LockInv, TypeOK
  <2>. QED  BY <1>5, <2>1, DieStep DEF Terminate
<1>6. ASSUME NEW q \in Stoppers, Stop(q) PROVE LockInv'  BY <1>6, StopStep
<1>. QED  BY <1>1, <1>2, <1>3, <1>4, <1>5, <1>6 DEF Next

LEMMA LockInvariant == Spec => []LockInv
BY LockInit, LockNext, PTL DEF Spec

\* Every variable of the lock protocol stays within its type.
THEOREM LockTypes == Spec => []TypeOK
<1>1. LockInv => TypeOK  BY DEF LockInv
<1>. QED  BY <1>1, LockInvariant, PTL

LEMMA LockExcludes == LockInv => ExclusiveUntilStolen
<1>. SUFFICES ASSUME LockInv, ~stolen, NEW p \in Procs, NEW q \in Procs, Holds(p), Holds(q)
              PROVE  p = q
  BY DEF ExclusiveUntilStolen, AtMostOneScheduler
<1>1. fd[p] = lockPath /\ fd[q] = lockPath
  BY DEF LockInv, OpenInv, NameInv, Holds, Opened
<1>. QED  BY <1>1 DEF LockInv, HoldInv

\* Until somebody unlinks a lock file that another process has open, acquire and
\* release never let two schedulers run: whatever starts, refusals, stale files
\* and crashes there are.
THEOREM Exclusive == Spec => []ExclusiveUntilStolen
BY LockInvariant, LockExcludes, PTL

(***************************************************************************)
(* The refinement.                                                         *)
(***************************************************************************)
LEMMA MutexStep ==
  ASSUME TypeOK, ExclusiveUntilStolen', [Next]_vars
  PROVE  [Mutex!Next]_<<Active, stolen>>
<1>1. ASSUME pc' = pc PROVE [Mutex!Next]_<<Active, stolen>>
  <2>1. Active' = Active  BY <1>1 DEF Active, Holds
  <2>2. stolen' = stolen \/ stolen' = TRUE
    BY DEF Next, vars, Acquire, Release, Crash, Terminate, Stop, Die, TryLock, Open, OpenLock, Lock,
           OpenPid, WritePid, ReadHolder, ProbeHolder, CleanPid, CleanLock, Reopen, Relock,
           Unlock, RemovePid, RemoveLock, UnlinkPid, UnlinkLock,
           StopSignal, StopRemovePid, StopRemoveLock, TypeOK
  <2>. QED  BY <2>1, <2>2 DEF Mutex!Next, Mutex!Break
<1>2. ASSUME NEW p \in Procs, CleanLock(p) \/ RemoveLock(p)
      PROVE  [Mutex!Next]_<<Active, stolen>>
  <2>1. Active' = Active
    BY <1>2 DEF CleanLock, RemoveLock, Step, Active, Holds, Running, TypeOK
  <2>2. stolen' = stolen \/ stolen' = TRUE
    BY <1>2 DEF CleanLock, RemoveLock, UnlinkLock, TypeOK
  <2>. QED  BY <2>1, <2>2 DEF Mutex!Next, Mutex!Break
<1>3. ASSUME NEW p \in Procs, stolen' = stolen, \A q \in Procs \ {p} : pc'[q] = pc[q]
      PROVE  [Mutex!Next]_<<Active, stolen>>
  <2>0. \A q \in Procs \ {p} : Holds(q)' <=> Holds(q)  BY <1>3 DEF Holds
  <2>1. CASE Holds(p) /\ ~Holds(p)'
    <3>1. p \in Active /\ Active' = Active \ {p}  BY <2>0, <2>1 DEF Active
    <3>. QED  BY <1>3, <3>1 DEF Mutex!Next, Mutex!End
  <2>2. CASE ~Holds(p) /\ Holds(p)'
    <3>1. p \notin Active /\ Active' = Active \cup {p}  BY <2>0, <2>2 DEF Active
    <3>2. ~stolen => Active = {}
      BY <1>3, <2>0, <2>2 DEF ExclusiveUntilStolen, AtMostOneScheduler, Active
    <3>3. Active = {} \/ stolen  BY <3>2
    <3>. QED  BY <1>3, <3>1, <3>3 DEF Mutex!Next, Mutex!Start
  <2>3. CASE Holds(p)' <=> Holds(p)
    <3>1. Active' = Active  BY <2>0, <2>3 DEF Active
    <3>. QED  BY <1>3, <3>1
  <2>. QED  BY <2>1, <2>2, <2>3
<1>4. ASSUME NEW p \in Procs, Acquire(p) \/ Release(p) \/ Die(p)
      PROVE  \A q \in Procs \ {p} : pc'[q] = pc[q]
  BY <1>4
     DEF TypeOK, Acquire, Release, Die, Step, TryLock, Open, Lock, OpenPid, WritePid, ReadHolder,
         ProbeHolder, CleanPid, CleanLock, Reopen, Relock, Unlock, RemovePid, RemoveLock
<1>5. ASSUME NEW p \in Procs, Acquire(p) \/ Release(p) \/ Die(p), ~CleanLock(p), ~RemoveLock(p)
      PROVE  stolen' = stolen
  BY <1>5
     DEF Acquire, Release, Die, TryLock, Open, OpenLock, Lock, OpenPid, WritePid, ReadHolder,
         ProbeHolder, CleanPid, Reopen, Relock, Unlock, RemovePid, UnlinkPid
<1>6. ASSUME NEW p \in Procs, Acquire(p) \/ Release(p) \/ Die(p)
      PROVE  [Mutex!Next]_<<Active, stolen>>
  BY <1>2, <1>3, <1>4, <1>5, <1>6
<1>7. ASSUME NEW q \in Stoppers, Stop(q) PROVE pc' = pc
  BY <1>7 DEF Stop, StopSignal, StopRemovePid, StopRemoveLock
<1>8. CASE UNCHANGED vars  BY <1>1, <1>8 DEF vars
<1>9. CASE Next  BY <1>1, <1>6, <1>7, <1>9 DEF Next, Crash, Terminate
<1>. QED  BY <1>8, <1>9

\* The files and flocks implement the lock that one scheduler at a time can have,
\* until a lock file in use is deleted.
THEOREM Implements == Spec => ImplementsMutex
<1>1. Init => Mutex!Init
  BY DEF Init, Mutex!Init, Active, Holds, Running
<1>2. LockInv => TypeOK  BY DEF LockInv
<1>3. LockInv => ExclusiveUntilStolen  BY LockExcludes
<1>4. TypeOK /\ ExclusiveUntilStolen' /\ [Next]_vars => [Mutex!Next]_<<Active, stolen>>
  BY MutexStep
<1>. QED  BY <1>1, <1>2, <1>3, <1>4, LockInvariant, PTL DEF Spec, ImplementsMutex, Mutex!Spec

(***************************************************************************)
(* Somebody starts.                                                        *)
(***************************************************************************)
\* A process that once had the lock; one that once was refused it.
Got == Running \cup {"rm_pid", "rm_lock", "ended"}
Tried == {"conflict", "probe", "clean_pid", "clean_lock", "reopen", "relock", "refused"}

\* Whoever was refused the lock was refused it for somebody, who does not become a
\* starter again.
OwnedInv == \A i \in Inodes : flock[i] # Nobody => pc[flock[i]] \in Got
TriedInv == (\E p \in Procs : pc[p] \in Tried) => \E q \in Procs : pc[q] \in Got

StartsInv == LockInv /\ OwnedInv /\ TriedInv

LEMMA GotStays ==
  ASSUME LockInv, [Next]_vars, NEW q \in Procs, pc[q] \in Got
  PROVE  pc'[q] \in Got
<1>1. ASSUME NEW p \in Procs, Acquire(p) PROVE pc'[q] \in Got
  BY <1>1 DEF LockInv, TypeOK, Acquire, Step, TryLock, Open, Lock, OpenPid, WritePid, ReadHolder,
    ProbeHolder, CleanPid, CleanLock, Reopen, Relock, Got, Running
<1>2. ASSUME NEW p \in Procs, Release(p) \/ Die(p) PROVE pc'[q] \in Got
  BY <1>2 DEF LockInv, TypeOK, Release, Step, Unlock, RemovePid, RemoveLock, Die, Got, Running
<1>3. ASSUME pc' = pc PROVE pc'[q] \in Got
  BY <1>3
<1>. QED
  BY <1>1, <1>2, <1>3 DEF Next, vars, Crash, Terminate, Stop, StopSignal, StopRemovePid, StopRemoveLock

\* A lock is taken by the process that is then at pid_open.
LEMMA OwnedStep ==
  ASSUME StartsInv, [Next]_vars
  PROVE  OwnedInv'
<1>. USE LockAssumption
<1>1. ASSUME \A i \in Inodes : flock'[i] # Nobody => flock'[i] = flock[i] \/ pc'[flock'[i]] \in Got
      PROVE  OwnedInv'
  <2>1. \A i \in Inodes : flock[i] \in Procs \cup {Nobody}
    BY DEF StartsInv, LockInv, TypeOK
  <2>. QED  BY <1>1, <2>1, GotStays DEF OwnedInv, StartsInv
<1>2. ASSUME NEW p \in Procs, Lock(p) \/ Relock(p) PROVE OwnedInv'
  <2>1. fd[p] \in Inodes
    BY <1>2 DEF Lock, Relock, StartsInv, LockInv, TypeOK, OpenInv, Opened, Inodes
  <2>2. PICK refused : TryLock(p, refused)
    BY <1>2 DEF Lock, Relock
  <2>. QED  BY <1>1, <2>1, <2>2 DEF TryLock, StartsInv, LockInv, TypeOK, Got, Running
<1>3. ASSUME NEW p \in Procs, Unlock(p) \/ Die(p) PROVE OwnedInv'
  BY <1>1, <1>3 DEF Unlock, Die, StartsInv, LockInv, TypeOK
<1>4. ASSUME flock' = flock PROVE OwnedInv'
  BY <1>1, <1>4
<1>5. ASSUME NEW p \in Procs, Acquire(p) PROVE OwnedInv'
  BY <1>2, <1>4, <1>5 DEF Acquire, Open, OpenLock, OpenPid, WritePid, ReadHolder, ProbeHolder,
    CleanPid, UnlinkPid, CleanLock, UnlinkLock, Reopen
<1>6. ASSUME NEW p \in Procs, Release(p) PROVE OwnedInv'
  BY <1>3, <1>4, <1>6 DEF Release, RemovePid, RemoveLock, UnlinkPid, UnlinkLock
<1>7. ASSUME NEW q \in Stoppers, Stop(q) PROVE OwnedInv'
  BY <1>4, <1>7 DEF Stop, StopSignal, StopRemovePid, StopRemoveLock, UnlinkPid, UnlinkLock
<1>. QED
  BY <1>3, <1>4, <1>5, <1>6, <1>7 DEF Next, vars, Crash, Terminate

LEMMA TriedStep ==
  ASSUME StartsInv, [Next]_vars
  PROVE  TriedInv'
<1>. USE LockAssumption
<1>1. ASSUME NEW q \in Procs, pc[q] \in Got PROVE TriedInv'
  BY <1>1, GotStays DEF TriedInv, StartsInv
<1>2. CASE \A p \in Procs : pc[p] \notin Tried
  <2>1. ASSUME NEW p \in Procs, Lock(p), flock[fd[p]] # Nobody PROVE TriedInv'
    <3>1. fd[p] \in Inodes
      BY <2>1 DEF Lock, StartsInv, LockInv, TypeOK, OpenInv, Opened, Inodes
    <3>2. flock[fd[p]] \in Procs /\ pc[flock[fd[p]]] \in Got
      BY <2>1, <3>1 DEF StartsInv, OwnedInv, LockInv, TypeOK
    <3>. QED  BY <1>1, <3>2
  <2>2. ASSUME NEW p \in Procs, \A q \in Procs \ {p} : pc'[q] = pc[q], pc'[p] \notin Tried
        PROVE  TriedInv'
    BY <1>2, <2>2 DEF TriedInv
  <2>3. ASSUME NEW p \in Procs, Acquire(p) PROVE TriedInv'
    <3>1. pc[p] \notin Tried
      BY <1>2
    <3>2. Open(p) \/ Lock(p) \/ OpenPid(p) \/ WritePid(p)
      BY <2>3, <3>1 DEF Acquire, ReadHolder, ProbeHolder, CleanPid, CleanLock, Reopen, Relock, Step, Tried
    <3>3. CASE Lock(p) /\ flock[fd[p]] # Nobody
      BY <2>1, <3>3
    <3>4. CASE Open(p) \/ OpenPid(p) \/ WritePid(p) \/ (Lock(p) /\ flock[fd[p]] = Nobody)
      BY <2>2, <3>4 DEF Open, OpenPid, WritePid, Lock, TryLock, Step, Tried, StartsInv, LockInv, TypeOK
    <3>. QED  BY <3>2, <3>3, <3>4
  <2>4. ASSUME NEW p \in Procs, Release(p) \/ Die(p) PROVE TriedInv'
    BY <2>2, <2>4 DEF Release, Unlock, RemovePid, RemoveLock, Die, Step, Tried, StartsInv, LockInv, TypeOK
  <2>5. ASSUME pc' = pc PROVE TriedInv'
    BY <1>2, <2>5 DEF TriedInv
  <2>. QED
    BY <2>3, <2>4, <2>5 DEF Next, vars, Crash, Terminate, Stop, StopSignal, StopRemovePid, StopRemoveLock
<1>3. CASE \E p \in Procs : pc[p] \in Tried
  BY <1>1, <1>3 DEF StartsInv, TriedInv
<1>. QED  BY <1>2, <1>3

\* Starters never all give way to each other: when all starts are decided one scheduler runs,
\* for any number of them and however many stale files each of them cleans up.
THEOREM OneStarts == Spec => []SomebodyStarts
<1>1. Init => StartsInv
  BY LockInit, LockAssumption DEF Init, StartsInv, OwnedInv, TriedInv, Tried
<1>2. StartsInv /\ [Next]_vars => StartsInv'
  BY LockNext, OwnedStep, TriedStep DEF StartsInv
<1>3. StartsInv => SomebodyStarts
  BY DEF StartsInv, TriedInv, SomebodyStarts, Tried, Got, Running
<1>. QED  BY <1>1, <1>2, <1>3, PTL DEF Spec
=============================================================================
