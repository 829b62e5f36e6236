------------------------------ MODULE MC_Coop ------------------------------
(* An instance of Sched, SchedDemo and Coop for TLC. *)
EXTENDS Coop
=============================================================================
