------------------------------- MODULE MCFleet -------------------------------
(***************************************************************************)
(* Values of Fleet's constants for TLC: a web service that depends on a    *)
(* database.                                                               *)
(***************************************************************************)
EXTENDS Fleet, TLC

CONSTANTS db, web

WebOnDb == [s \in Services |-> IF s = web THEN {db} ELSE {}]
DbThenWeb == <<db, web>>

\* One docker command fails, one container dies, one scheduler is killed.
OneEach == [k \in FaultKinds |-> 1]

\* The specification names no command.
Interchangeable == Permutations(Commands)
=============================================================================
