----------------------------- MODULE ServiceRow -----------------------------
(***************************************************************************)
(* The row of the `service` table that every component of DockFleet reads  *)
(* and writes (health/models.py), and the functions of health/status.py    *)
(* and core/orchestrator.py that change it.  A function f(row) below is    *)
(* what one database session computes from the row it loaded; Flush is     *)
(* what its commit does to the row then stored, which may be another one.  *)
(*                                                                         *)
(* Not represented: name, image, ports and the configuration columns       *)
(* (constant here), last_health_check and last_failure_reason (no property *)
(* depends on them).                                                       *)
(***************************************************************************)
EXTENDS Naturals

CONSTANT FailCap        \* consecutive_failures saturates here; the code only compares with 3

ASSUME FailCapAssumption == FailCap \in Nat /\ FailCap >= 3

ContainerStatus == {"running", "stopped", "unknown"}
HealthStatus == {"healthy", "unhealthy", "crashed", "restarting"}

FailureThreshold == 3

Row == [status : ContainerStatus, health : HealthStatus,
        fails : 0 .. FailCap, restarts : Nat]

(***************************************************************************)
(* SQLAlchemy emits an UPDATE of the columns whose value differs from the  *)
(* loaded one, and SQLite starts the transaction at that UPDATE, not at    *)
(* the SELECT.  So a commit leaves alone what its session did not change,  *)
(* and overwrites what another session changed meanwhile.                  *)
(***************************************************************************)
Flush(stored, loaded, new) ==
  LET Column(c) == IF new[c] = loaded[c] THEN stored[c] ELSE new[c]
  IN  [status |-> Column("status"), health |-> Column("health"),
       fails |-> Column("fails"), restarts |-> Column("restarts")]

MarkServiceRunning(row) == [row EXCEPT !.status = "running", !.health = "healthy"]

\* mutant: Docker's word for the state is stored instead of the enum's
MarkServiceStoppedExited(row) == [row EXCEPT !.status = "exited", !.health = "healthy"]

MarkServiceStopped(row) == [row EXCEPT !.status = "stopped", !.health = "healthy"]

\* mutant: a row in restart is left to its restart
UpdateServiceHealthNotRestarting(row, ok) ==
  IF row.health = "restarting" THEN row
  ELSE IF ok THEN [row EXCEPT !.health = "healthy", !.fails = 0]
  ELSE [row EXCEPT !.fails = IF @ < FailCap THEN @ + 1 ELSE FailCap,
                   !.health = IF row.fails + 1 >= FailureThreshold
                              THEN "crashed" ELSE "unhealthy"]

\* A failed check of a stopped service is ignored; any other failure counts.
UpdateServiceHealth(row, ok) ==
  LET failures == IF row.fails < FailCap THEN row.fails + 1 ELSE FailCap
  IN  IF ok
      THEN [row EXCEPT !.status = IF @ = "stopped" THEN @ ELSE "running",
                       !.health = "healthy", !.fails = 0]
      ELSE IF row.status = "stopped" THEN row
      ELSE [row EXCEPT !.fails = failures,
                       !.health = IF failures >= FailureThreshold
                                  THEN "crashed" ELSE "unhealthy"]

NeedsRestart(row, policy) ==
  /\ row.status # "stopped"
  /\ row.fails >= FailureThreshold
  /\ policy \in {"always", "on-failure"}
  /\ row.health \in {"unhealthy", "crashed"}

MarkRestarting(row) == [row EXCEPT !.health = "restarting"]

\* The repair of restart_service's outer handler, conditional on the loaded row.
UnwedgeRestarting(row) ==
  IF row.health = "restarting" THEN [row EXCEPT !.health = "crashed"] ELSE row

MarkRestartFailed(row) == [row EXCEPT !.status = "unknown", !.health = "crashed"]

IncrementRestartCount(row) == [row EXCEPT !.restarts = @ + 1]

MarkRestartSuccessful(row) ==
  [row EXCEPT !.fails = 0, !.status = "running", !.health = "healthy"]

RecordManualRestart(row) ==
  [row EXCEPT !.status = "running", !.health = "healthy", !.fails = 0]

RecordManualStop(row) == [row EXCEPT !.status = "stopped", !.health = "healthy"]
=============================================================================
