--------------------------- MODULE SchedulerMutex ---------------------------
(***************************************************************************)
(* What the scheduler lock promises: "Only one health scheduler can be     *)
(* active per project at a time."  A scheduler starts when none is active, *)
(* and ends by itself or with its process.  The promise is void once the   *)
(* lock is broken: its file was deleted while a process had it open.       *)
(***************************************************************************)
CONSTANT Procs

VARIABLES active, broken

Init == active = {} /\ broken = FALSE

Start(p) ==
  /\ p \notin active
  /\ active = {} \/ broken
  /\ active' = active \cup {p}
  /\ UNCHANGED broken

End(p) ==
  /\ p \in active
  /\ active' = active \ {p}
  /\ UNCHANGED broken

Break == broken' = TRUE /\ UNCHANGED active

Next == Break \/ \E p \in Procs : Start(p) \/ End(p)

Spec == Init /\ [][Next]_<<active, broken>>
=============================================================================
