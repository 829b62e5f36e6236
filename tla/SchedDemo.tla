----------------------------- MODULE SchedDemo ------------------------------
(***************************************************************************)
(* The kernel's own scheduler table, kernel/sched/sched.c: the calls of    *)
(* Sched, and sched_kdemo, which picks PICKS times and lets each slice     *)
(* elapse by calling sched_on_tick itself (no timer does).  Nothing else   *)
(* touches the table while it runs.                                        *)
(***************************************************************************)
EXTENDS Sched

CONSTANT PICKS   \* turns of the loop in sched_kdemo: 10, for a table of 8

ASSUME PicksAssumption == PICKS \in Nat /\ PICKS >= CAP

VARIABLE kd      \* sched_kdemo: where it is, its i, the slots it has picked

kdVars == <<vars, kd>>

KdInit == Init /\ kd = [at |-> "out", i |-> 0, served |-> {}]

kdemo_start ==
    /\ kd.at = "out"
    /\ kd' = [at |-> "pick", i |-> 0, served |-> {}]
    /\ UNCHANGED vars

\* The head of the loop; with nothing to run it leaves at once.
kdemo_pick ==
    /\ kd.at = "pick" /\ kd.i < PICKS
    /\ sched_pick_next
    /\ kd' = IF current' < 0 THEN [kd EXCEPT !.at = "out"]
             ELSE [kd EXCEPT !.at = "slice", !.served = @ \cup {current'}]

\* One turn of `while (sched_on_tick(&sched) == 0)'.  With nothing current it
\* would spin for ever: no step.
kdemo_tick ==
    /\ kd.at = "slice"
    /\ sched_on_tick
    /\ kd' = IF tasks'[current].quantum = 0
             THEN [at |-> "pick", i |-> kd.i + 1, served |-> kd.served]
             ELSE kd

kdemo_done ==
    /\ kd.at = "pick" /\ kd.i = PICKS
    /\ kd' = [kd EXCEPT !.at = "out"]
    /\ UNCHANGED vars

sched_kdemo == kdemo_pick \/ kdemo_tick \/ kdemo_done

KdNext ==
    \/ kd.at = "out" /\ Next /\ UNCHANGED kd
    \/ kdemo_start
    \/ sched_kdemo

\* A demo that runs is executed on; nothing makes anybody start one.
KdSpec == KdInit /\ [][KdNext]_kdVars /\ WF_kdVars(sched_kdemo)

----------------------------------------------------------------------------
(* Properties.                                                             *)

Runnable == {i \in Slots : tasks[i].state \in {"READY", "RUNNING"}}

\* sched_kdemo returns, and by then every task that can run has had a slice,
\* whatever was added, blocked and exited before: each slice runs out, so the
\* busy loop of sched.c:42 ends, and PICKS turns are enough for the table.
KdemoServesAll ==
    kd.at # "out" ~> kd.at = "out" /\ Runnable \subseteq kd.served
=============================================================================
