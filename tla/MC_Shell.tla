------------------------------ MODULE MC_Shell ------------------------------
(* Instances of Ai and Shell for TLC: the audit ring, the task table, the   *)
(* history and the log fill up, and a line is longer than a row.            *)
EXTENDS Shell
=============================================================================
