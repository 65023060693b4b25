--------------------------- MODULE MCSelfHealing ----------------------------
(***************************************************************************)
(* Values of SelfHealing's constants for TLC.                              *)
(***************************************************************************)
EXTENDS SelfHealing, TLC

OneProcess == [t \in Threads |-> "dashboard"]

\* The scheduler of `dockfleet up --detach` beside the dashboard's requests.
TwoProcesses == [t \in Threads |-> IF t = Scheduler THEN "scheduler" ELSE "dashboard"]

\* Services whose policy is "never", and which turned self-healing off.
CONSTANT NeverRestarted
AlwaysOrNever == [s \in Services |-> IF s \in NeverRestarted THEN "never" ELSE "always"]

UnlessOff == [s \in Services |-> s \notin NeverRestarted]

On == [s \in Services |-> TRUE]
Off == [s \in Services |-> FALSE]
NoLimit == [s \in Services |-> Unlimited]
LimitOne == [s \in Services |-> IF s \in NeverRestarted THEN Unlimited ELSE 1]

NoFaults == [k \in FaultKinds |-> 0]

\* Docker fails once, one session raises, the process is killed once.
DockerDatabaseCrash == [NoFaults EXCEPT !["docker"] = 1, !["database"] = 1, !["crash"] = 1]

\* A container dies or a check fails without cause, and docker fails once.
ServiceDocker == [NoFaults EXCEPT !["service"] = 1, !["docker"] = 1]
=============================================================================
