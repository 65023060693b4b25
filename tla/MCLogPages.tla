----------------------------- MODULE MCLogPages ------------------------------
(***************************************************************************)
(* Values of LogPages' constants for TLC: five rows of three instants,     *)
(* read in pages of two.                                                   *)
(***************************************************************************)
EXTENDS LogPages

ThreeInstants == 1 .. 3
=============================================================================
