---------------------------- MODULE MCLogStream -----------------------------
(***************************************************************************)
(* Values of LogStream's constants for TLC.                                *)
(***************************************************************************)
EXTENDS LogStream

\* Order shows within one stream; the other one only competes for the queue.  Two lines
\* are one less than a queue of three needs to lose an error.
OneStream == [s \in Streams |-> IF s = "stdout" THEN 2 ELSE 0]
OneEach == [s \in Streams |-> 1]
=============================================================================
