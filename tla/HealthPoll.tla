----------------------------- MODULE HealthPoll -----------------------------
(***************************************************************************)
(* The life of the poll thread: HealthScheduler.start, stop and _poll      *)
(* (health/scheduler.py), with the deadline of every service's next check, *)
(* the sleep between passes, and the timed join of stop.                   *)
(*                                                                         *)
(* Time is counted in ticks and every clock is relative to now: a tick     *)
(* brings all deadlines nearer.  Code that neither sleeps nor waits takes  *)
(* no time, so no tick passes while a thread has such a step to make.      *)
(* What a pass does is SelfHealing's subject; here it lasts at most        *)
(* MaxPass ticks.                                                          *)
(***************************************************************************)
EXTENDS Naturals, FiniteSets, FiniteSetsExt

CONSTANTS
  Services,       \* the services with a healthcheck
  Interval,       \* [Services -> ticks]: healthcheck.interval
  LoopInterval,   \* interval_seconds of the scheduler
  JoinSlack,      \* the seconds stop adds to the interval to wait for the thread
  Second,         \* ticks in a second: the least cap of a sleep
  MaxPass,        \* the longest pass
  NoDeadline      \* a service not yet in _next_check_at

ASSUME PollAssumption ==
  /\ Interval \in [Services -> Nat \ {0}]
  /\ LoopInterval \in Nat \ {0} /\ JoinSlack \in Nat /\ Second \in Nat \ {0} /\ MaxPass \in Nat
  /\ NoDeadline \notin Nat
  /\ Second <= JoinSlack

VARIABLES
  thread,     \* "none", "loop" (top of the while loop), "pass", "sleep", or "ended"
  stopped,    \* _stopped
  held,       \* the scheduler has the cross-process lock
  due,        \* _next_check_at: ticks to each deadline, 0 once passed, or NoDeadline
  selected,   \* the services the pass checks
  age,        \* ticks since the iteration began
  sleep,      \* ticks left of the sleep
  caller,     \* "free", or "join": in stop, waiting for the thread
  patience,   \* ticks left of the join
  late,       \* history: ticks each deadline has been past with the thread polling
  since       \* history: ticks since each service's last check, up to its interval

vars == <<thread, stopped, held, due, selected, age, sleep, caller, patience, late, since>>
threadVars == <<thread, selected, age, sleep>>
deadlineVars == <<due, late, since>>
callerVars == <<stopped, held, caller, patience>>

Alive == thread \in {"loop", "pass", "sleep"}
JoinTimeout == LoopInterval + JoinSlack
SleepCap == IF LoopInterval > Second THEN LoopInterval ELSE Second
LateCap == MaxPass + SleepCap + 1

Init ==
  /\ thread = "none" /\ stopped = TRUE /\ held = FALSE
  /\ due = [s \in Services |-> NoDeadline]
  /\ selected = {} /\ age = 0 /\ sleep = 0
  /\ caller = "free" /\ patience = 0
  /\ late = [s \in Services |-> 0]
  /\ since = Interval

(***************************************************************************)
(* start and stop, called by one thread: the command's or the dashboard's. *)
(***************************************************************************)
\* mutant: _stopped is cleared before the early return
StartAliveResumes ==
  /\ caller = "free" /\ Alive
  /\ stopped' = FALSE
  /\ UNCHANGED <<held, caller, patience, threadVars, deadlineVars>>

\* With the thread alive start returns at once, though _stopped may be set.
StartAlive ==
  /\ caller = "free" /\ Alive
  /\ UNCHANGED vars

\* The lock may be refused: another process holds it.
StartRefused ==
  /\ caller = "free" /\ ~Alive /\ ~held
  /\ UNCHANGED vars

Start ==
  /\ caller = "free" /\ ~Alive
  /\ held' = TRUE
  /\ stopped' = FALSE
  /\ thread' = "loop"
  /\ late' = [s \in Services |-> 0]
  /\ UNCHANGED <<due, selected, age, sleep, caller, patience, since>>

\* mutant: the lock is released before the thread is gone
StopReleasesFirst ==
  /\ caller = "free" /\ Alive
  /\ stopped' = TRUE
  /\ held' = FALSE
  /\ caller' = "join"
  /\ patience' = JoinTimeout
  /\ UNCHANGED <<threadVars, deadlineVars>>

Stop ==
  /\ caller = "free" /\ Alive
  /\ stopped' = TRUE
  /\ caller' = "join"
  /\ patience' = JoinTimeout
  /\ UNCHANGED <<held, threadVars, deadlineVars>>

StopGone ==
  /\ caller = "free" /\ ~Alive
  /\ stopped' = TRUE
  /\ held' = FALSE
  /\ thread' = "none"
  /\ UNCHANGED <<selected, age, sleep, caller, patience, deadlineVars>>

Joined ==
  /\ caller = "join" /\ ~Alive
  /\ caller' = "free"
  /\ held' = FALSE
  /\ thread' = "none"
  /\ UNCHANGED <<stopped, patience, selected, age, sleep, deadlineVars>>

\* The lock is kept for the thread that would not end.
JoinTimesOut ==
  /\ caller = "join" /\ Alive /\ patience = 0
  /\ caller' = "free"
  /\ UNCHANGED <<stopped, held, patience, threadVars, deadlineVars>>

(***************************************************************************)
(* The poll loop.                                                          *)
(***************************************************************************)
\* mutant: every pass checks every service
DueServicesAll == Services

DueServices == {s \in Services : due[s] \in {NoDeadline, 0}}

NoDeadlines == \A s \in Services : due[s] = NoDeadline

Deadlines == {due[s] : s \in {r \in Services : due[r] # NoDeadline}}

\* mutant: the loop sleeps its own interval, whatever is due before
NextSleepFixed == LoopInterval

\* mutant: the earliest deadline, however far
NextSleepUncapped ==
  IF NoDeadlines THEN IF LoopInterval > age THEN LoopInterval - age ELSE 0 ELSE Min(Deadlines)

\* To the earliest deadline, capped; the old fixed interval if there is none.
NextSleep ==
  IF NoDeadlines
  THEN IF LoopInterval > age THEN LoopInterval - age ELSE 0
  ELSE Min(Deadlines \cup {SleepCap})

\* The deadlines of a pass count from its start.
BeginPass(names) ==
  /\ thread' = "pass"
  /\ selected' = names
  /\ age' = 0
  /\ due' = [s \in Services |-> IF s \in names THEN Interval[s] ELSE due[s]]
  /\ since' = [s \in Services |-> IF s \in names THEN 0 ELSE since[s]]
  /\ late' = [s \in Services |-> IF s \in names THEN 0 ELSE late[s]]
  /\ UNCHANGED <<sleep, callerVars>>

FirstPass == thread = "loop" /\ ~stopped /\ NoDeadlines /\ BeginPass(Services)

DuePass == thread = "loop" /\ ~stopped /\ ~NoDeadlines /\ DueServices # {} /\ BeginPass(DueServices)

\* To sleep, or back to the top when there is nothing to wait for.
Rest ==
  /\ sleep' = IF stopped THEN 0 ELSE NextSleep
  /\ thread' = IF sleep' = 0 THEN "loop" ELSE "sleep"
  /\ selected' = {}
  /\ UNCHANGED <<callerVars, deadlineVars>>

NoPass ==
  /\ thread = "loop" /\ ~stopped /\ ~NoDeadlines /\ DueServices = {}
  /\ age' = 0
  /\ Rest

EndPass == thread = "pass" /\ Rest /\ UNCHANGED age

Wake ==
  /\ thread = "sleep" /\ sleep = 0
  /\ thread' = "loop"
  /\ UNCHANGED <<selected, age, sleep, callerVars, deadlineVars>>

LeaveLoop ==
  /\ thread = "loop" /\ stopped
  /\ thread' = "ended"
  /\ UNCHANGED <<selected, age, sleep, callerVars, deadlineVars>>

\* The statuses cannot be loaded, before any deadline is moved: nothing catches it.
PassRaises ==
  /\ thread = "loop" /\ ~stopped /\ (NoDeadlines \/ DueServices # {})
  /\ thread' = "ended"
  /\ UNCHANGED <<selected, age, sleep, callerVars, deadlineVars>>

(***************************************************************************)
(* Time.                                                                   *)
(***************************************************************************)
Urgent ==
  \/ thread = "loop"
  \/ thread = "pass" /\ age = MaxPass
  \/ thread = "sleep" /\ sleep = 0
  \/ caller = "join" /\ (~Alive \/ patience = 0)

Tick ==
  /\ ~Urgent
  /\ age' = IF thread = "pass" THEN age + 1 ELSE age
  /\ sleep' = IF thread = "sleep" THEN sleep - 1 ELSE sleep
  /\ patience' = IF caller = "join" THEN patience - 1 ELSE patience
  /\ due' = [s \in Services |-> IF due[s] \in {NoDeadline, 0} THEN due[s] ELSE due[s] - 1]
  /\ since' = [s \in Services |-> IF since[s] < Interval[s] THEN since[s] + 1 ELSE since[s]]
  /\ late' = [s \in Services |->
                IF due[s] = 0 /\ Alive /\ ~stopped /\ late[s] < LateCap THEN late[s] + 1 ELSE late[s]]
  /\ UNCHANGED <<thread, selected, stopped, held, caller>>

Polling == FirstPass \/ DuePass \/ NoPass \/ EndPass \/ Wake \/ LeaveLoop

Calling == StartAlive \/ StartRefused \/ Start \/ Stop \/ StopGone

Next == Polling \/ PassRaises \/ Calling \/ Joined \/ JoinTimesOut \/ Tick

Spec == Init /\ [][Next]_vars

\* The thread runs, time passes, and a join ends; nobody is made to call.
FairSpec == Spec /\ WF_vars(Polling) /\ WF_vars(Tick) /\ WF_vars(Joined \/ JoinTimesOut)

(***************************************************************************)
(* Properties.                                                             *)
(***************************************************************************)
\* Every variable stays within its type.
TypeOK ==
  /\ thread \in {"none", "loop", "pass", "sleep", "ended"}
  /\ stopped \in BOOLEAN /\ held \in BOOLEAN
  /\ due \in [Services -> Nat \cup {NoDeadline}]
  /\ \A s \in Services : due[s] # NoDeadline => due[s] <= Interval[s]
  /\ selected \in SUBSET Services
  /\ age \in 0 .. MaxPass /\ sleep \in 0 .. SleepCap
  /\ caller \in {"free", "join"} /\ patience \in 0 .. JoinTimeout
  /\ late \in [Services -> 0 .. LateCap]
  /\ since \in [Services -> Nat]

\* "The lock is released only after confirming the thread has exited": a thread
\* that polls has the lock, whatever was called and however joins ended.
LockCoversThread == Alive => held

\* A join times out only on a pass at least as long as its timeout, and never on a
\* sleeping thread, however far the deadlines: the sleep is capped below it.
StopOutwaitsSleep == [][JoinTimesOut => thread # "sleep" /\ age >= JoinTimeout]_vars

\* No check is later than its deadline by more than one pass, for the loop wakes
\* at the earliest deadline.
CheckedOnTime == \A s \in Services : Alive /\ ~stopped => late[s] <= MaxPass

\* A service is not checked again before its own interval, however often the
\* others are, and across restarts of the thread.
NotOverpolled ==
  [][\A s \in Services : thread = "loop" /\ thread' = "pass" /\ s \in selected'
                           => since[s] = Interval[s]]_vars

\* A thread told to stop ends.
StopEnds == stopped /\ Alive ~> ~Alive
=============================================================================
