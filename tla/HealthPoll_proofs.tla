-------------------------- MODULE HealthPoll_proofs --------------------------
(***************************************************************************)
(* Theorems about HealthPoll, for any services, intervals and pass length. *)
(***************************************************************************)
EXTENDS HealthPoll, WellFoundedInduction, TLAPS

\* A thread that polls has the lock.
LEMMA LockNext == LockCoversThread /\ [Next]_vars => LockCoversThread'
<1>. SUFFICES ASSUME LockCoversThread, [Next]_vars, Alive' PROVE held'
  BY DEF LockCoversThread
<1>1. CASE Start  BY <1>1 DEF Start
<1>2. CASE UNCHANGED <<thread, held>>
  BY <1>2 DEF LockCoversThread, Alive
<1>3. CASE StopGone \/ Joined
  BY <1>3 DEF StopGone, Joined, Alive
<1>4. CASE thread \in {"loop", "pass", "sleep"} /\ held' = held
  BY <1>4 DEF LockCoversThread, Alive
<1>5. CASE Polling \/ PassRaises
  BY <1>4, <1>5
     DEF Polling, PassRaises, FirstPass, DuePass, BeginPass, NoPass, EndPass, Rest, Wake, LeaveLoop,
         callerVars
<1>6. CASE Calling \/ JoinTimesOut \/ Tick \/ UNCHANGED vars
  BY <1>1, <1>2, <1>3, <1>6
     DEF Calling, StartAlive, StartRefused, Stop, JoinTimesOut, Tick, vars, threadVars
<1>. QED  BY <1>3, <1>5, <1>6 DEF Next

\* stop releases the lock only when the thread has ended, and start takes it
\* first: whatever the calls, joins that time out and passes that raise.
THEOREM LockCovers == Spec => []LockCoversThread
<1>1. Init => LockCoversThread  BY DEF Init, LockCoversThread, Alive
<1>. QED  BY <1>1, LockNext, PTL DEF Spec

(***************************************************************************)
(* The sleep is shorter than a join.                                       *)
(***************************************************************************)
\* A set of naturals has a least element, which Min is.
LEMMA MinIs ==
  ASSUME NEW S \in SUBSET Nat, S # {}
  PROVE  Min(S) \in S /\ \A n \in S : Min(S) <= n
<1>1. PICK m \in S : \A n \in S : ~ (<<n, m>> \in OpToRel(<, Nat))
  BY NatLessThanWellFounded, WFMin
<1>2. \A n \in S : m <= n
  <2>. TAKE n \in S
  <2>1. ~ (n < m)  BY <1>1 DEF OpToRel
  <2>. QED  BY <2>1
<1>. QED  BY <1>2 DEF Min

LEMMA Bounds ==
  /\ SleepCap \in Nat \ {0} /\ LateCap \in Nat /\ JoinTimeout \in Nat
  /\ LoopInterval <= SleepCap /\ SleepCap < JoinTimeout
BY PollAssumption DEF SleepCap, LateCap, JoinTimeout

LEMMA NextSleepCapped ==
  ASSUME TypeOK PROVE NextSleep \in 0 .. SleepCap
<1>. USE PollAssumption, Bounds
<1>1. CASE NoDeadlines
  BY <1>1 DEF NextSleep, TypeOK
<1>2. CASE ~NoDeadlines
  <2>. DEFINE S == Deadlines \cup {SleepCap}
  <2>1. S \in SUBSET Nat /\ SleepCap \in S  BY DEF Deadlines, TypeOK
  <2>2. Min(S) \in S /\ \A n \in S : Min(S) <= n  BY <2>1, MinIs
  <2>3. NextSleep = Min(S)  BY <1>2 DEF NextSleep
  <2>4. PICK m \in Nat : Min(S) = m /\ m <= SleepCap  BY <2>1, <2>2, Zenon
  <2>5. NextSleep = m  BY <2>3, <2>4
  <2>. HIDE DEF S
  <2>. QED  BY <2>4, <2>5
<1>. QED  BY <1>1, <1>2

LEMMA BeginTypes ==
  ASSUME TypeOK, NEW names \in SUBSET Services, BeginPass(names)
  PROVE  TypeOK'
<1>. USE PollAssumption, Bounds
<1>1. due' \in [Services -> Nat \cup {NoDeadline}]
  BY DEF BeginPass, TypeOK
<1>2. \A s \in Services : due'[s] # NoDeadline => due'[s] <= Interval[s]
  BY DEF BeginPass, TypeOK
<1>3. since' \in [Services -> Nat]  BY DEF BeginPass, TypeOK
<1>4. late' \in [Services -> 0 .. LateCap]  BY DEF BeginPass, TypeOK
<1>. QED  BY <1>1, <1>2, <1>3, <1>4 DEF BeginPass, TypeOK, callerVars

LEMMA RestTypes ==
  ASSUME TypeOK, age' \in 0 .. MaxPass, Rest
  PROVE  TypeOK'
<1>1. sleep' \in 0 .. SleepCap
  BY NextSleepCapped, Bounds DEF Rest
<1>2. thread' \in {"loop", "sleep"}  BY DEF Rest
<1>. QED  BY <1>1, <1>2 DEF Rest, TypeOK, callerVars, deadlineVars

LEMMA TickTypes ==
  ASSUME TypeOK, Tick PROVE TypeOK'
<1>. USE PollAssumption, Bounds
<1>1. age' \in 0 .. MaxPass /\ sleep' \in 0 .. SleepCap /\ patience' \in 0 .. JoinTimeout
  BY DEF Tick, Urgent, TypeOK
<1>2. /\ due' \in [Services -> Nat \cup {NoDeadline}]
      /\ \A s \in Services : due'[s] # NoDeadline => due'[s] <= Interval[s]
  BY DEF Tick, TypeOK
<1>3. late' \in [Services -> 0 .. LateCap]  BY DEF Tick, TypeOK
<1>4. since' \in [Services -> Nat]  BY DEF Tick, TypeOK
<1>. QED  BY <1>1, <1>2, <1>3, <1>4 DEF Tick, TypeOK

LEMMA PollTypes == TypeOK /\ [Next]_vars => TypeOK'
<1>. SUFFICES ASSUME TypeOK, [Next]_vars PROVE TypeOK'  OBVIOUS
<1>. USE PollAssumption, Bounds
<1>1. CASE FirstPass  BY <1>1, BeginTypes DEF FirstPass
<1>2. CASE DuePass  BY <1>2, BeginTypes DEF DuePass, DueServices
<1>3. CASE NoPass  BY <1>3, RestTypes DEF NoPass
<1>4. CASE EndPass
  <2>1. age' \in 0 .. MaxPass  BY <1>4 DEF EndPass, TypeOK
  <2>. QED  BY <1>4, <2>1, RestTypes DEF EndPass
<1>5. CASE Wake \/ LeaveLoop \/ PassRaises
  BY <1>5 DEF Wake, LeaveLoop, PassRaises, callerVars, deadlineVars, TypeOK
<1>6. CASE Start
  <2>1. late' \in [Services -> 0 .. LateCap]  BY <1>6 DEF Start
  <2>. QED  BY <1>6, <2>1 DEF Start, TypeOK
<1>7. CASE StartAlive \/ StartRefused \/ UNCHANGED vars
  BY <1>7 DEF StartAlive, StartRefused, vars, TypeOK
<1>8. CASE Stop  BY <1>8 DEF Stop, threadVars, deadlineVars, TypeOK
<1>9. CASE StopGone \/ Joined \/ JoinTimesOut
  BY <1>9 DEF StopGone, Joined, JoinTimesOut, threadVars, deadlineVars, TypeOK
<1>10. CASE Tick  BY <1>10, TickTypes
<1>. QED
  BY <1>1, <1>2, <1>3, <1>4, <1>5, <1>6, <1>7, <1>8, <1>9, <1>10 DEF Next, Polling, Calling

\* Every variable of the poll loop stays within its type, the sleep within its cap.
THEOREM PollTypeCorrect == Spec => []TypeOK
<1>1. Init => TypeOK
  <2>. USE PollAssumption, Bounds
  <2>. SUFFICES ASSUME Init PROVE TypeOK  OBVIOUS
  <2>1. due \in [Services -> Nat \cup {NoDeadline}]  BY DEF Init
  <2>2. \A s \in Services : due[s] = NoDeadline  BY DEF Init
  <2>3. late \in [Services -> 0 .. LateCap]  BY DEF Init
  <2>4. since \in [Services -> Nat]  BY DEF Init
  <2>5. age \in 0 .. MaxPass /\ sleep \in 0 .. SleepCap /\ patience \in 0 .. JoinTimeout
    BY DEF Init
  <2>6. /\ thread = "none" /\ stopped = TRUE /\ held = FALSE
        /\ selected = {} /\ caller = "free"
    BY DEF Init
  <2>. HIDE DEF Init
  <2>. QED  BY <2>1, <2>2, <2>3, <2>4, <2>5, <2>6 DEF TypeOK
<1>. QED  BY <1>1, PollTypes, PTL DEF Spec

\* While stop waits: a sleep ends before the join does, and a pass that outlasts
\* the join has by then been going on for the whole of it.
JoinInv ==
  caller = "join" =>
    /\ stopped
    /\ thread = "sleep" => sleep < patience
    /\ thread = "pass" => age + patience >= JoinTimeout
    /\ thread = "loop" /\ patience = 0 => age >= JoinTimeout

LEMMA JoinNext == TypeOK /\ JoinInv /\ [Next]_vars => JoinInv'
<1>. SUFFICES ASSUME TypeOK, JoinInv, [Next]_vars, caller' = "join"
              PROVE  /\ stopped'
                     /\ thread' = "sleep" => sleep' < patience'
                     /\ thread' = "pass" => age' + patience' >= JoinTimeout
                     /\ thread' = "loop" /\ patience' = 0 => age' >= JoinTimeout
  BY DEF JoinInv
<1>. USE PollAssumption, Bounds
<1>1. CASE FirstPass \/ DuePass \/ NoPass \/ PassRaises
  BY <1>1 DEF FirstPass, DuePass, NoPass, PassRaises, BeginPass, Rest, callerVars, JoinInv
<1>2. CASE EndPass
  BY <1>2 DEF EndPass, Rest, callerVars, JoinInv, TypeOK
<1>3. CASE Wake
  BY <1>3 DEF Wake, callerVars, JoinInv, TypeOK
<1>4. CASE LeaveLoop
  BY <1>4 DEF LeaveLoop, callerVars, JoinInv
<1>5. CASE Stop
  BY <1>5 DEF Stop, threadVars, TypeOK
<1>6. CASE StartAlive \/ StartRefused \/ UNCHANGED vars
  BY <1>6 DEF StartAlive, StartRefused, vars, JoinInv
<1>7. CASE Start \/ StopGone \/ Joined \/ JoinTimesOut
  BY <1>7 DEF Start, StopGone, Joined, JoinTimesOut
<1>8. CASE Tick
  BY <1>8 DEF Tick, Urgent, JoinInv, TypeOK
<1>. QED  BY <1>1, <1>2, <1>3, <1>4, <1>5, <1>6, <1>7, <1>8 DEF Next, Polling, Calling

\* Whatever the deadlines, stop is never outwaited by a sleep: its join times out
\* only on a pass that lasts at least as long as it waits.
THEOREM StopOutwaits == Spec => StopOutwaitsSleep
<1>1. Init => JoinInv  BY DEF Init, JoinInv
<1>2. TypeOK /\ JoinInv /\ [Next]_vars => [JoinTimesOut => thread # "sleep" /\ age >= JoinTimeout]_vars
  <2>. SUFFICES ASSUME TypeOK, JoinInv, JoinTimesOut
                PROVE  thread # "sleep" /\ age >= JoinTimeout
    OBVIOUS
  <2>. QED  BY PollAssumption, Bounds DEF JoinTimesOut, JoinInv, Alive, TypeOK
<1>. QED  BY <1>1, <1>2, JoinNext, PollTypeCorrect, PTL DEF Spec, StopOutwaitsSleep

(***************************************************************************)
(* Checks are not late, and not early.                                     *)
(***************************************************************************)
LEMMA NextSleepReaches ==
  ASSUME TypeOK, NEW s \in Services, due[s] # NoDeadline
  PROVE  NextSleep <= due[s]
<1>. USE PollAssumption, Bounds
<1>. DEFINE S == Deadlines \cup {SleepCap}
<1>1. S \in SUBSET Nat /\ due[s] \in S  BY DEF Deadlines, TypeOK
<1>2. Min(S) <= due[s]  BY <1>1, MinIs
<1>3. NextSleep = Min(S)  BY DEF NextSleep, NoDeadlines
<1>. QED  BY <1>2, <1>3

\* Only a deadline that has passed is late; while the thread polls, at most by the
\* age of the pass, and a sleep ends no later than the earliest deadline.
LateInv ==
  /\ \A s \in Services : due[s] # 0 => late[s] = 0
  /\ Alive /\ ~stopped =>
       \A s \in Services :
         /\ late[s] <= MaxPass
         /\ thread = "pass" => late[s] <= age
         /\ thread = "sleep" /\ due[s] # NoDeadline => sleep <= due[s]

LEMMA BeginLate ==
  ASSUME TypeOK, LateInv, NEW names \in SUBSET Services, DueServices \subseteq names, BeginPass(names)
  PROVE  LateInv'
<1>. USE PollAssumption
<1>1. \A s \in Services : late'[s] = 0
  BY DEF BeginPass, DueServices, LateInv, TypeOK
<1>2. thread' = "pass" /\ age' = 0  BY DEF BeginPass
<1>. QED  BY <1>1, <1>2 DEF LateInv

LEMMA RestLate ==
  ASSUME TypeOK, LateInv, Alive, Rest PROVE LateInv'
<1>. USE PollAssumption, Bounds
<1>1. /\ due' = due /\ late' = late /\ stopped' = stopped
      /\ thread' \in {"loop", "sleep"} /\ sleep' = IF stopped THEN 0 ELSE NextSleep
  BY DEF Rest, callerVars, deadlineVars
<1>2. \A s \in Services : due[s] # NoDeadline => NextSleep <= due[s]
  BY NextSleepReaches
<1>. QED  BY <1>1, <1>2 DEF LateInv

LEMMA TickLate ==
  ASSUME TypeOK, LateInv, Tick PROVE LateInv'
<1>. USE PollAssumption, Bounds
<1>1. ASSUME NEW s \in Services, due'[s] # 0 PROVE late'[s] = 0
  <2>1. due[s] # 0  BY <1>1 DEF Tick, TypeOK
  <2>. QED  BY <2>1 DEF Tick, LateInv, TypeOK
<1>2. ASSUME Alive, ~stopped, NEW s \in Services
      PROVE  /\ late'[s] <= MaxPass
             /\ thread = "pass" => late'[s] <= age'
             /\ thread = "sleep" /\ due'[s] # NoDeadline => sleep' <= due'[s]
  <2>1. thread \in {"pass", "sleep"}  BY <1>2 DEF Tick, Urgent, Alive
  <2>2. CASE thread = "pass"
    <3>1. late[s] <= age /\ age < MaxPass /\ age' = age + 1
      BY <1>2, <2>2 DEF Tick, Urgent, LateInv, TypeOK
    <3>2. late'[s] <= late[s] + 1 /\ late[s] \in Nat /\ late'[s] \in Nat
      BY <1>2 DEF Tick, TypeOK
    <3>. QED  BY <2>2, <3>1, <3>2 DEF TypeOK
  <2>3. CASE thread = "sleep"
    <3>1. sleep > 0 /\ sleep' = sleep - 1 /\ sleep \in Nat
      BY <2>3 DEF Tick, Urgent, TypeOK
    <3>2. due[s] # NoDeadline => sleep <= due[s]  BY <1>2, <2>3 DEF LateInv
    <3>3. due[s] # 0 /\ late'[s] = late[s]
      BY <3>1, <3>2, <1>2 DEF Tick, TypeOK
    <3>4. due[s] # NoDeadline => due'[s] = due[s] - 1 /\ due[s] \in Nat
      BY <3>3 DEF Tick, TypeOK
    <3>5. due[s] = NoDeadline => due'[s] = NoDeadline
      BY DEF Tick, TypeOK
    <3>. QED  BY <1>2, <2>3, <3>1, <3>2, <3>3, <3>4, <3>5 DEF LateInv
  <2>. QED  BY <2>1, <2>2, <2>3
<1>3. thread' = thread /\ stopped' = stopped  BY DEF Tick
<1>. QED  BY <1>1, <1>2, <1>3 DEF LateInv, Alive

LEMMA LateNext == TypeOK /\ LateInv /\ [Next]_vars => LateInv'
<1>. SUFFICES ASSUME TypeOK, LateInv, [Next]_vars PROVE LateInv'  OBVIOUS
<1>1. CASE FirstPass
  BY <1>1, BeginLate DEF FirstPass, DueServices
<1>2. CASE DuePass  BY <1>2, BeginLate DEF DuePass, DueServices
<1>3. CASE NoPass  BY <1>3, RestLate DEF NoPass, Alive
<1>4. CASE EndPass  BY <1>4, RestLate DEF EndPass, Alive
<1>5. CASE Wake \/ LeaveLoop \/ PassRaises
  BY <1>5 DEF Wake, LeaveLoop, PassRaises, callerVars, deadlineVars, LateInv, Alive
<1>6. CASE Start
  <2>1. \A s \in Services : late'[s] = 0  BY <1>6 DEF Start
  <2>2. thread' = "loop"  BY <1>6 DEF Start
  <2>. QED  BY <2>1, <2>2, PollAssumption DEF LateInv
<1>7. CASE StartAlive \/ StartRefused \/ UNCHANGED vars
  BY <1>7 DEF StartAlive, StartRefused, vars, LateInv, Alive
<1>8. CASE Stop \/ StopGone
  BY <1>8 DEF Stop, StopGone, threadVars, deadlineVars, LateInv
<1>9. CASE Joined \/ JoinTimesOut
  BY <1>9 DEF Joined, JoinTimesOut, threadVars, deadlineVars, LateInv, Alive
<1>10. CASE Tick  BY <1>10, TickLate
<1>. QED
  BY <1>1, <1>2, <1>3, <1>4, <1>5, <1>6, <1>7, <1>8, <1>9, <1>10 DEF Next, Polling, Calling

\* Whatever the intervals, and however the thread is stopped and started, no check
\* is later than its deadline by more than one pass.
THEOREM ChecksAreOnTime == Spec => []CheckedOnTime
<1>1. Init => LateInv  BY DEF Init, LateInv, Alive
<1>2. TypeOK /\ LateInv => CheckedOnTime  BY DEF LateInv, CheckedOnTime
<1>. QED  BY <1>1, <1>2, LateNext, PollTypeCorrect, PTL DEF Spec

\* What has passed since a check and what is left to its deadline make up the interval.
SinceInv ==
  \A s \in Services :
    /\ since[s] <= Interval[s]
    /\ due[s] = NoDeadline => since[s] = Interval[s]
    /\ due[s] # NoDeadline => since[s] + due[s] >= Interval[s]

LEMMA SinceNext == TypeOK /\ SinceInv /\ [Next]_vars => SinceInv'
<1>. SUFFICES ASSUME TypeOK, SinceInv, [Next]_vars PROVE SinceInv'  OBVIOUS
<1>. USE PollAssumption
<1>1. ASSUME NEW names \in SUBSET Services, BeginPass(names) PROVE SinceInv'
  <2>. SUFFICES ASSUME NEW s \in Services
                PROVE  /\ since'[s] <= Interval[s]
                       /\ due'[s] = NoDeadline => since'[s] = Interval[s]
                       /\ due'[s] # NoDeadline => since'[s] + due'[s] >= Interval[s]
    BY DEF SinceInv
  <2>1. CASE s \in names  BY <1>1, <2>1 DEF BeginPass
  <2>2. CASE s \notin names  BY <1>1, <2>2 DEF BeginPass, SinceInv
  <2>. QED  BY <2>1, <2>2
<1>2. CASE FirstPass  BY <1>1, <1>2 DEF FirstPass
<1>3. CASE DuePass  BY <1>1, <1>3 DEF DuePass, DueServices
<1>4. CASE UNCHANGED <<due, since>>  BY <1>4 DEF SinceInv
<1>5. CASE Polling /\ ~FirstPass /\ ~DuePass
  BY <1>4, <1>5 DEF Polling, NoPass, EndPass, Wake, LeaveLoop, Rest, deadlineVars
<1>6. CASE PassRaises \/ Calling \/ Joined \/ JoinTimesOut \/ UNCHANGED vars
  BY <1>4, <1>6 DEF PassRaises, Calling, StartAlive, StartRefused, Start, Stop, StopGone,
                    Joined, JoinTimesOut, deadlineVars, vars
<1>7. CASE Tick
  <2>. SUFFICES ASSUME NEW s \in Services
                PROVE  /\ since'[s] <= Interval[s]
                       /\ due'[s] = NoDeadline => since'[s] = Interval[s]
                       /\ due'[s] # NoDeadline => since'[s] + due'[s] >= Interval[s]
    BY DEF SinceInv
  <2>1. since'[s] = IF since[s] < Interval[s] THEN since[s] + 1 ELSE since[s]
    BY <1>7 DEF Tick
  <2>2. due'[s] = IF due[s] \in {NoDeadline, 0} THEN due[s] ELSE due[s] - 1
    BY <1>7 DEF Tick
  <2>3. /\ since[s] \in Nat /\ Interval[s] \in Nat
        /\ due[s] = NoDeadline \/ due[s] \in Nat
    BY DEF TypeOK
  <2>. QED  BY <2>1, <2>2, <2>3 DEF SinceInv
<1>. QED  BY <1>2, <1>3, <1>5, <1>6, <1>7 DEF Next

\* Whatever the intervals, a service is never checked before its own has passed.
THEOREM NoneOverpolled == Spec => NotOverpolled
<1>1. Init => SinceInv  BY PollAssumption DEF Init, SinceInv
<1>2. ASSUME TypeOK, SinceInv, [Next]_vars,
             NEW s \in Services, thread = "loop", thread' = "pass", s \in selected'
      PROVE  since[s] = Interval[s]
  <2>. USE PollAssumption
  <2>1. FirstPass \/ DuePass
    BY <1>2 DEF Next, Polling, NoPass, EndPass, Wake, LeaveLoop, Rest, PassRaises, Calling, StartAlive,
                StartRefused, Start, Stop, StopGone, Joined, JoinTimesOut, Tick, vars, threadVars
  <2>2. CASE FirstPass  BY <1>2, <2>2 DEF FirstPass, NoDeadlines, SinceInv
  <2>3. CASE DuePass
    BY <1>2, <2>3 DEF DuePass, DueServices, BeginPass, SinceInv, TypeOK
  <2>. QED  BY <2>1, <2>2, <2>3
<1>3. TypeOK /\ SinceInv /\ [Next]_vars =>
        [\A s \in Services : thread = "loop" /\ thread' = "pass" /\ s \in selected'
                               => since[s] = Interval[s]]_vars
  BY <1>2
<1>. QED  BY <1>1, <1>3, SinceNext, PollTypeCorrect, PTL DEF Spec, NotOverpolled
=============================================================================
