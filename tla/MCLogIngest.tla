---------------------------- MODULE MCLogIngest -----------------------------
(***************************************************************************)
(* LogIngest for TLC: numbers and model values, given in the .cfg files.   *)
(***************************************************************************)
EXTENDS LogIngest, TLC

Interchangeable == Permutations(Ingestors) \cup Permutations(Messages \ {Blank})
=============================================================================
