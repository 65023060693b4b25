---------------------------- MODULE MCHealthPoll ----------------------------
(***************************************************************************)
(* Values of HealthPoll's constants for TLC: intervals above the cap of    *)
(* a sleep and the timeout of a join, which a pass may outlast.            *)
(***************************************************************************)
EXTENDS HealthPoll, TLC

CONSTANTS web, batch

BeyondTheCap == (web :> 5) @@ (batch :> 7)
=============================================================================
