------------------------------- MODULE Sched -------------------------------
(***************************************************************************)
(* The round-robin scheduling policy, kernel/sched/sched_core.c: a table   *)
(* of CAP task slots, the index of the running one and a scan cursor.      *)
(*                                                                         *)
(* One action per function of sched_core.h that changes the table; a call  *)
(* that returns without changing it is a stuttering step.  `waited' is a   *)
(* history variable.  The statistic `ran' is left out.                     *)
(***************************************************************************)
EXTENDS Integers

CONSTANTS
    CAP,     \* slots in the table (NTASK in sched.c)
    Ids,     \* task identifiers callers use
    Quanta   \* slice lengths callers ask for

ASSUME CapAssumption == CAP \in Nat \ {0}
ASSUME IdsAssumption == Ids \subseteq Nat
ASSUME QuantaAssumption == Quanta \subseteq Nat

Slots == 0 .. CAP - 1

States == {"UNUSED", "READY", "RUNNING", "BLOCKED", "ZOMBIE"}

VARIABLES
    tasks,    \* the table: id, state, quantum (ticks left), reload
    current,  \* slot of the running task, or -1
    cursor,   \* where the next scan starts
    waited    \* history: picks that passed over a slot since it became READY

vars == <<tasks, current, cursor, waited>>

EmptyTable == [i \in Slots |-> [id |-> 0, state |-> "UNUSED",
                                quantum |-> 0, reload |-> 0]]

\* sched_init.
Init ==
    /\ tasks = EmptyTable
    /\ current = -1 /\ cursor = 0
    /\ waited = [i \in Slots |-> 0]

\* i is the slot a left-to-right scan for a member of S returns.
IsFirst(i, S) == i \in S /\ \A j \in S : i <= j

Matching(id) == {i \in Slots : tasks[i].state # "UNUSED" /\ tasks[i].id = id}

find_id(i, id) == IsFirst(i, Matching(id))

sched_add(id, quantum) ==
    /\ \E i \in Slots :
          /\ IsFirst(i, {j \in Slots : tasks[j].state = "UNUSED"})
          /\ LET q == IF quantum = 0 THEN 1 ELSE quantum
             IN tasks' = [tasks EXCEPT ![i] = [id |-> id, state |-> "READY",
                                               quantum |-> q, reload |-> q]]
          /\ waited' = [waited EXCEPT ![i] = 0]
    /\ UNCHANGED <<current, cursor>>

(* sched_pick_next.                                                        *)

\* Slots the scan may choose: the running task is put back first.
Eligible == {i \in Slots : \/ tasks[i].state = "READY"
                           \/ i = current /\ tasks[i].state = "RUNNING"}

\* Steps of the scan from slot c to slot i; it finds the nearest eligible one.
DistFrom(c, i) == IF i >= c THEN i - c ELSE i - c + CAP

Dist(i) == DistFrom(cursor, i)

\* Definitions named Mut_... are faults seeded to show that a property can
\* fail; nothing else uses them.
Mut_NextCursor_Stays(i) == i

NextCursor(i) == (i + 1) % CAP

Mut_Requeued_Forgotten(i) == tasks[i]

\* The entry of slot i after the running task has gone back to the pool.
Requeued(i) ==
    IF i = current /\ tasks[i].state = "RUNNING"
    THEN [tasks[i] EXCEPT !.state = "READY"]
    ELSE tasks[i]

sched_pick_next ==
    \/ /\ Eligible = {}
       /\ current' = -1
       /\ UNCHANGED <<tasks, cursor, waited>>
    \/ \E i \in Eligible :
          /\ \A j \in Eligible : Dist(i) <= Dist(j)
          /\ tasks' = [j \in Slots |->
                         IF j = i THEN [tasks[i] EXCEPT !.state = "RUNNING",
                                                        !.quantum = tasks[i].reload]
                         ELSE Requeued(j)]
          /\ current' = i
          /\ cursor' = NextCursor(i)
          /\ waited' = [j \in Slots |->
                          IF j # i /\ j \in Eligible THEN waited[j] + 1 ELSE 0]

----------------------------------------------------------------------------

Mut_Ticked_Frozen(q) == q

Ticked(q) == IF q > 0 THEN q - 1 ELSE q

\* A timer tick charged to the running task; the code returns 1, asking for a
\* reschedule, when the quantum it leaves is 0.
sched_on_tick ==
    /\ current >= 0 /\ tasks[current].state = "RUNNING"
    /\ tasks' = [tasks EXCEPT ![current].quantum = Ticked(@)]
    /\ UNCHANGED <<current, cursor, waited>>

\* block and exit vacate the CPU when they hit the running task.
Release(i) == IF current = i THEN -1 ELSE current

\* Whatever state the task is in becomes BLOCKED.
sched_block(id) ==
    \E i \in Slots :
        /\ find_id(i, id)
        /\ tasks' = [tasks EXCEPT ![i].state = "BLOCKED"]
        /\ current' = Release(i)
        /\ waited' = [waited EXCEPT ![i] = 0]
        /\ UNCHANGED cursor

sched_unblock(id) ==
    \E i \in Slots :
        /\ find_id(i, id)
        /\ tasks[i].state = "BLOCKED"
        /\ tasks' = [tasks EXCEPT ![i].state = "READY"]
        /\ waited' = [waited EXCEPT ![i] = 0]
        /\ UNCHANGED <<current, cursor>>

sched_exit(id) ==
    \E i \in Slots :
        /\ find_id(i, id)
        /\ tasks' = [tasks EXCEPT ![i].state = "ZOMBIE"]
        /\ current' = Release(i)
        /\ waited' = [waited EXCEPT ![i] = 0]
        /\ UNCHANGED cursor

\* Callers give a new task an identifier no other live task has (sched_kinit
\* uses 0, 1 and 2); an identifier may be reused once its task has exited.
LiveIds == {tasks[i].id : i \in {j \in Slots :
                                  tasks[j].state \notin {"UNUSED", "ZOMBIE"}}}

Next ==
    \/ \E id \in Ids \ LiveIds, q \in Quanta : sched_add(id, q)
    \/ sched_pick_next
    \/ sched_on_tick
    \/ \E id \in Ids : sched_block(id) \/ sched_unblock(id) \/ sched_exit(id)

Spec == Init /\ [][Next]_vars

----------------------------------------------------------------------------
(* Properties.                                                             *)

Task == [id : Ids \cup {0}, state : States, quantum : Nat, reload : Nat]

TypeOK ==
    /\ tasks \in [Slots -> Task]
    /\ current \in Slots \cup {-1}
    /\ cursor \in Slots
    /\ waited \in [Slots -> Nat]

\* The CPU has at most one task and the table agrees with `current' about
\* which, whatever mix of block, exit and pick calls came before
\* (sched_core.c:41-42, 71, 84).
RunningIsCurrent ==
    \A i \in Slots : tasks[i].state = "RUNNING" <=> i = current

\* Round-robin fairness: no READY task is passed over by CAP picks in a row,
\* even while other tasks are added, blocked, unblocked and preempted
\* (sched_pick_next).
BoundedWait ==
    \A i \in Slots : tasks[i].state = "READY" => waited[i] < CAP
============================================================================
