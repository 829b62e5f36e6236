---------------------------- MODULE SchedProofs ----------------------------
(***************************************************************************)
(* Theorems about Sched and SchedDemo, for every table size, identifier    *)
(* and slice length, and about Coop, for every number of workers and of    *)
(* yields.                                                                 *)
(***************************************************************************)
EXTENDS Coop, TLAPS

LEMMA NextCursorValue ==
    ASSUME NEW i \in Slots
    PROVE  /\ NextCursor(i) \in Slots
           /\ NextCursor(i) = IF i = CAP - 1 THEN 0 ELSE i + 1
  <1> USE CapAssumption
  <1>1. CASE i = CAP - 1
    <2>1. CAP % CAP = 0
      OBVIOUS
    <2> QED BY <1>1, <2>1 DEF NextCursor, Slots
  <1>2. CASE i # CAP - 1
    <2>1. i + 1 \in 0 .. CAP - 1
      BY <1>2 DEF Slots
    <2>2. (i + 1) % CAP = i + 1
      BY <2>1
    <2> QED BY <1>2, <2>1, <2>2 DEF NextCursor, Slots
  <1> QED BY <1>1, <1>2

----------------------------------------------------------------------------
(* Type correctness.                                                       *)

LEMMA TypeInit == Init => TypeOK
  BY CapAssumption DEF Init, EmptyTable, TypeOK, Slots, Task, States

LEMMA TypeStep == TypeOK /\ [Next]_vars => TypeOK'
  <1> SUFFICES ASSUME TypeOK, [Next]_vars PROVE TypeOK'
    OBVIOUS
  <1> USE DEF TypeOK
  <1>1. ASSUME NEW id \in Ids, NEW q \in Quanta, sched_add(id, q)
        PROVE  TypeOK'
    <2>1. PICK i \in Slots :
            /\ tasks' = [tasks EXCEPT ![i] =
                           [id |-> id, state |-> "READY",
                            quantum |-> IF q = 0 THEN 1 ELSE q,
                            reload |-> IF q = 0 THEN 1 ELSE q]]
            /\ waited' = [waited EXCEPT ![i] = 0]
      BY <1>1 DEF sched_add
    <2>2. (IF q = 0 THEN 1 ELSE q) \in Nat
      BY QuantaAssumption
    <2> QED BY <1>1, <2>1, <2>2 DEF sched_add, Task, States
  <1>2. CASE sched_pick_next
    <2>1. CASE Eligible = {} /\ current' = -1 /\ UNCHANGED <<tasks, cursor, waited>>
      BY <2>1
    <2>2. ASSUME NEW i \in Eligible,
                 tasks' = [j \in Slots |->
                             IF j = i THEN [tasks[i] EXCEPT !.state = "RUNNING",
                                                            !.quantum = tasks[i].reload]
                             ELSE Requeued(j)],
                 current' = i, cursor' = NextCursor(i),
                 waited' = [j \in Slots |->
                              IF j # i /\ j \in Eligible THEN waited[j] + 1 ELSE 0]
          PROVE  TypeOK'
      <3>1. i \in Slots
        BY DEF Eligible
      <3>2. \A j \in Slots : Requeued(j) \in Task
        BY DEF Requeued, Task, States
      <3>3. [tasks[i] EXCEPT !.state = "RUNNING", !.quantum = tasks[i].reload] \in Task
        BY <3>1 DEF Task, States
      <3>4. tasks' \in [Slots -> Task]
        BY <2>2, <3>2, <3>3
      <3>5. waited' \in [Slots -> Nat]
        BY <2>2
      <3> QED BY <2>2, <3>1, <3>4, <3>5, NextCursorValue
    <2> QED BY <1>2, <2>1, <2>2 DEF sched_pick_next
  <1>3. CASE sched_on_tick
    <2>1. current \in Slots
      BY <1>3 DEF sched_on_tick
    <2>2. Ticked(tasks[current].quantum) \in Nat
      BY <2>1 DEF Ticked, Task
    <2> QED BY <1>3, <2>1, <2>2 DEF sched_on_tick, Task
  <1>4. ASSUME NEW id \in Ids, sched_block(id)
        PROVE  TypeOK'
    BY <1>4 DEF sched_block, Release, Task, States
  <1>5. ASSUME NEW id \in Ids, sched_unblock(id)
        PROVE  TypeOK'
    BY <1>5 DEF sched_unblock, Task, States
  <1>6. ASSUME NEW id \in Ids, sched_exit(id)
        PROVE  TypeOK'
    BY <1>6 DEF sched_exit, Release, Task, States
  <1>7. CASE UNCHANGED vars
    BY <1>7 DEF vars
  <1> QED BY <1>1, <1>2, <1>3, <1>4, <1>5, <1>6, <1>7 DEF Next

\* The task table stays well formed under every sequence of calls.
THEOREM TypeCorrect == Spec => []TypeOK
  BY TypeInit, TypeStep, PTL DEF Spec

----------------------------------------------------------------------------
(* One running task.                                                       *)

LEMMA RunningStep == TypeOK /\ RunningIsCurrent /\ [Next]_vars => RunningIsCurrent'
  <1> SUFFICES ASSUME TypeOK, RunningIsCurrent, [Next]_vars, NEW k \in Slots
               PROVE  tasks'[k].state = "RUNNING" <=> k = current'
    BY DEF RunningIsCurrent
  <1>0. /\ tasks \in [Slots -> Task]
        /\ \A j \in Slots : tasks[j].state = "RUNNING" <=> j = current
        /\ -1 \notin Slots
    BY DEF TypeOK, RunningIsCurrent, Slots
  <1>1. ASSUME NEW id \in Ids, NEW q \in Quanta, sched_add(id, q)
        PROVE  tasks'[k].state = "RUNNING" <=> k = current'
    <2>1. PICK i \in Slots :
            /\ tasks[i].state = "UNUSED" /\ tasks'[i].state = "READY"
            /\ \A j \in Slots : j # i => tasks'[j] = tasks[j]
      BY <1>0, <1>1 DEF sched_add, IsFirst
    <2>2. current' = current
      BY <1>1 DEF sched_add
    <2> QED BY <2>1, <2>2, <1>0
  <1>2. CASE sched_pick_next
    <2>1. CASE Eligible = {} /\ current' = -1 /\ UNCHANGED tasks
      BY <2>1, <1>0 DEF Eligible
    <2>2. ASSUME NEW i \in Eligible, current' = i,
                 tasks' = [j \in Slots |->
                             IF j = i THEN [tasks[i] EXCEPT !.state = "RUNNING",
                                                            !.quantum = tasks[i].reload]
                             ELSE Requeued(j)]
          PROVE  tasks'[k].state = "RUNNING" <=> k = current'
      <3>1. CASE k = i
        BY <2>2, <3>1, <1>0 DEF Task
      <3>2. CASE k # i
        <4>1. tasks'[k] = Requeued(k)
          BY <2>2, <3>2
        <4>2. Requeued(k).state # "RUNNING"
          BY <1>0 DEF Requeued, Task
        <4> QED BY <4>1, <4>2, <2>2, <3>2
      <3> QED BY <3>1, <3>2
    <2> QED BY <1>2, <2>1, <2>2 DEF sched_pick_next
  <1>3. CASE sched_on_tick
    BY <1>0, <1>3 DEF sched_on_tick, Task
  <1>4. ASSUME NEW id \in Ids, sched_block(id)
        PROVE  tasks'[k].state = "RUNNING" <=> k = current'
    BY <1>0, <1>4 DEF sched_block, Release, Task
  <1>5. ASSUME NEW id \in Ids, sched_unblock(id)
        PROVE  tasks'[k].state = "RUNNING" <=> k = current'
    BY <1>0, <1>5 DEF sched_unblock, Task
  <1>6. ASSUME NEW id \in Ids, sched_exit(id)
        PROVE  tasks'[k].state = "RUNNING" <=> k = current'
    BY <1>0, <1>6 DEF sched_exit, Release, Task
  <1>7. CASE UNCHANGED vars
    BY <1>0, <1>7 DEF vars
  <1> QED BY <1>1, <1>2, <1>3, <1>4, <1>5, <1>6, <1>7 DEF Next

\* `current' and the RUNNING state never disagree (sched_pick_next,
\* sched_block, sched_exit).
THEOREM OneRunningTask == Spec => []RunningIsCurrent
  <1>1. Init => RunningIsCurrent
    BY DEF Init, EmptyTable, RunningIsCurrent, Slots
  <1> QED BY <1>1, RunningStep, TypeCorrect, PTL DEF Spec

----------------------------------------------------------------------------
(* Round-robin fairness.  BoundedWait is not inductive: it says nothing of *)
(* how far the cursor is from a waiting slot.  What a pick preserves is    *)
(* that the picks already waited plus the steps the cursor still has to go *)
(* stay below CAP, since each pick moves the cursor past the slot it       *)
(* chose, and only forward.                                                *)

WaitInv ==
    \A i \in Slots :
        /\ waited[i] + Dist(i) < CAP
        /\ tasks[i].state # "READY" => waited[i] = 0

LEMMA DistBounds ==
    ASSUME NEW c \in Slots, NEW i \in Slots
    PROVE  DistFrom(c, i) \in 0 .. CAP - 1
  BY CapAssumption DEF Slots, DistFrom

\* The cursor comes nearer to every slot beyond the one it chose.
LEMMA PickApproaches ==
    ASSUME NEW c \in Slots, NEW i \in Slots, NEW j \in Slots, i # j,
           DistFrom(c, i) <= DistFrom(c, j)
    PROVE  DistFrom(NextCursor(i), j) <= DistFrom(c, j) - 1
  <1>1. NextCursor(i) = IF i = CAP - 1 THEN 0 ELSE i + 1
    BY NextCursorValue
  <1> QED BY <1>1, CapAssumption DEF Slots, DistFrom

LEMMA WaitStep ==
    TypeOK /\ TypeOK' /\ RunningIsCurrent /\ WaitInv /\ [Next]_vars => WaitInv'
  <1> SUFFICES ASSUME TypeOK, TypeOK', RunningIsCurrent, WaitInv, [Next]_vars,
                      NEW k \in Slots
               PROVE  /\ waited'[k] + Dist(k)' < CAP
                      /\ tasks'[k].state # "READY" => waited'[k] = 0
    BY DEF WaitInv
  <1> DEFINE Goal == /\ waited'[k] + Dist(k)' < CAP
                     /\ tasks'[k].state # "READY" => waited'[k] = 0
  <1> USE CapAssumption
  <1>0. /\ tasks \in [Slots -> Task] /\ waited \in [Slots -> Nat]
        /\ waited[k] + Dist(k) < CAP
        /\ tasks[k].state # "READY" => waited[k] = 0
        /\ Dist(k) \in 0 .. CAP - 1 /\ Dist(k)' \in 0 .. CAP - 1
    BY DistBounds DEF TypeOK, WaitInv, Dist
  <1>c. cursor' = cursor => Dist(k)' = Dist(k)
    BY DEF Dist
  <1>1. ASSUME NEW id \in Ids, NEW q \in Quanta, sched_add(id, q)
        PROVE  Goal
    BY <1>0, <1>c, <1>1 DEF sched_add
  <1>2. CASE sched_pick_next
    <2>1. CASE UNCHANGED <<tasks, cursor, waited>>
      BY <2>1, <1>0, <1>c
    <2>2. ASSUME NEW i \in Eligible,
                 \A j \in Eligible : Dist(i) <= Dist(j),
                 tasks' = [j \in Slots |->
                             IF j = i THEN [tasks[i] EXCEPT !.state = "RUNNING",
                                                            !.quantum = tasks[i].reload]
                             ELSE Requeued(j)],
                 cursor' = NextCursor(i),
                 waited' = [j \in Slots |->
                              IF j # i /\ j \in Eligible THEN waited[j] + 1 ELSE 0]
          PROVE  Goal
      <3>0. i \in Slots
        BY DEF Eligible
      <3>1. CASE k # i /\ k \in Eligible
        <4>1. Dist(k)' <= Dist(k) - 1
          BY <2>2, <3>0, <3>1, PickApproaches DEF TypeOK, Dist
        <4>2. waited'[k] = waited[k] + 1
          BY <2>2, <3>1
        <4>3. tasks'[k].state = "READY"
          BY <2>2, <3>1, <1>0 DEF Eligible, Requeued, Task
        <4> QED BY <4>1, <4>2, <4>3, <1>0
      <3>2. CASE ~(k # i /\ k \in Eligible)
        BY <2>2, <3>2, <1>0
      <3> QED BY <3>1, <3>2
    <2> QED BY <1>2, <2>1, <2>2 DEF sched_pick_next
  <1>3. CASE sched_on_tick
    BY <1>0, <1>c, <1>3 DEF sched_on_tick, Task
  <1>4. ASSUME NEW id \in Ids, sched_block(id)
        PROVE  Goal
    BY <1>0, <1>c, <1>4 DEF sched_block, Task
  <1>5. ASSUME NEW id \in Ids, sched_unblock(id)
        PROVE  Goal
    BY <1>0, <1>c, <1>5 DEF sched_unblock, Task
  <1>6. ASSUME NEW id \in Ids, sched_exit(id)
        PROVE  Goal
    BY <1>0, <1>c, <1>6 DEF sched_exit, Task
  <1>7. CASE UNCHANGED vars
    BY <1>0, <1>c, <1>7 DEF vars
  <1> QED BY <1>1, <1>2, <1>3, <1>4, <1>5, <1>6, <1>7 DEF Next

LEMMA WaitInit == Init => WaitInv
  BY CapAssumption DEF Init, EmptyTable, WaitInv, Dist, DistFrom, Slots

LEMMA WaitBounds == TypeOK /\ WaitInv => \A i \in Slots : waited[i] < CAP
  <1> SUFFICES ASSUME TypeOK, WaitInv, NEW i \in Slots
               PROVE  waited[i] < CAP
    OBVIOUS
  <1>1. Dist(i) \in 0 .. CAP - 1 /\ waited[i] \in Nat /\ waited[i] + Dist(i) < CAP
    BY DistBounds DEF TypeOK, WaitInv, Dist
  <1> QED BY <1>1, CapAssumption

\* No READY task is passed over by CAP picks in a row (sched_pick_next).
THEOREM RoundRobinFair == Spec => []BoundedWait
  <1>1. TypeOK /\ [Next]_vars => TypeOK'
    BY TypeStep
  <1>2. TypeOK /\ WaitInv => BoundedWait
    BY WaitBounds DEF BoundedWait
  <1> QED BY <1>1, <1>2, WaitInit, WaitStep, OneRunningTask, TypeCorrect,
             PTL DEF Spec

----------------------------------------------------------------------------
(* sched_kdemo.  While it runs nothing but its own picks changes who can   *)
(* run, so a slot it has not served has been passed over by all of them,   *)
(* and by BoundedWait they are fewer than CAP.                             *)

Unserved == Runnable \ kd.served

PassedOver(s, n) == tasks[s].state = "READY" /\ waited[s] >= n

KdTyped == kd \in [at : {"out", "pick", "slice"}, i : Nat, served : SUBSET Slots]

Due ==
    /\ kd.at = "slice" => \A s \in Unserved : PassedOver(s, kd.i + 1)
    /\ kd.at = "pick" /\ kd.i # 0 => \A s \in Unserved : PassedOver(s, kd.i)

TableInv == TypeOK /\ RunningIsCurrent /\ WaitInv

KdInv == TableInv /\ KdTyped /\ Due

ReturnsServed == kd.at # "out" /\ kd'.at = "out" => Runnable' \subseteq kd'.served

\* Every step of the demo is a step of the table, or leaves it alone.
LEMMA KdIsNext == KdNext => [Next]_vars
  BY DEF KdNext, kdemo_start, sched_kdemo, kdemo_pick, kdemo_tick, kdemo_done,
         Next, vars

LEMMA TableStep == TableInv /\ [Next]_vars => TableInv'
  BY TypeStep, RunningStep, WaitStep DEF TableInv

\* Where a pick leaves the slots it did not choose.
LEMMA PickPassesOver ==
    ASSUME TableInv, KdTyped, Due, kdemo_pick
    PROVE  KdTyped' /\ Due' /\ ReturnsServed
  <1>1. /\ tasks \in [Slots -> Task] /\ waited \in [Slots -> Nat]
        /\ \A s \in Slots : tasks[s].state = "RUNNING" <=> s = current
    BY DEF TableInv, TypeOK, RunningIsCurrent
  <1>2. kd.at = "pick" /\ kd.i \in Nat /\ kd.served \subseteq Slots
    BY DEF kdemo_pick, KdTyped
  <1>3. Eligible = Runnable
    BY <1>1 DEF Eligible, Runnable
  <1>4. CASE Eligible = {} /\ current' = -1 /\ tasks' = tasks
    <2>1. kd' = [kd EXCEPT !.at = "out"]
      BY <1>4 DEF kdemo_pick
    <2>2. Runnable' = {}
      BY <1>3, <1>4 DEF Runnable
    <2> QED BY <2>1, <2>2 DEF KdTyped, Due, ReturnsServed
  <1>5. ASSUME NEW i \in Eligible,
               tasks' = [j \in Slots |->
                           IF j = i THEN [tasks[i] EXCEPT !.state = "RUNNING",
                                                          !.quantum = tasks[i].reload]
                           ELSE Requeued(j)],
               current' = i,
               waited' = [j \in Slots |->
                            IF j # i /\ j \in Eligible THEN waited[j] + 1 ELSE 0]
        PROVE  KdTyped' /\ Due' /\ ReturnsServed
    <2>1. i \in Slots /\ ~(i < 0)
      BY DEF Eligible, Slots
    <2>2. kd' = [kd EXCEPT !.at = "slice", !.served = @ \cup {i}]
      BY <1>5, <2>1 DEF kdemo_pick
    <2>3. /\ KdTyped' /\ kd'.at = "slice" /\ kd'.i = kd.i
          /\ kd'.served = kd.served \cup {i}
      BY <2>1, <2>2 DEF KdTyped
    <2>4. ASSUME NEW s \in Unserved'
          PROVE  PassedOver(s, kd.i + 1)'
      <3>1. s \in Slots /\ s # i /\ s \notin kd.served
        BY <2>3 DEF Unserved, Runnable
      <3>2. tasks'[s] = Requeued(s)
        BY <1>5, <3>1
      <3>3. tasks'[s].state \in {"READY", "RUNNING"}
        BY DEF Unserved, Runnable
      <3>4. s \in Eligible /\ tasks'[s].state = "READY"
        <4>1. CASE s = current
          <5>1. tasks[s].state = "RUNNING"
            BY <1>1, <3>1, <4>1
          <5>2. tasks[s] \in Task
            BY <1>1, <3>1
          <5> QED BY <3>1, <3>2, <4>1, <5>1, <5>2 DEF Requeued, Eligible, Task
        <4>2. CASE s # current
          <5>1. tasks'[s] = tasks[s]
            BY <3>2, <4>2 DEF Requeued
          <5>2. tasks[s].state # "RUNNING"
            BY <1>1, <3>1, <4>2
          <5> QED BY <3>1, <3>3, <5>1, <5>2 DEF Eligible
        <4> QED BY <4>1, <4>2
      <3>5. waited'[s] = waited[s] + 1
        BY <1>5, <3>1, <3>4
      <3>6. waited[s] >= kd.i /\ waited[s] \in Nat
        <4>1. waited[s] \in Nat
          BY <1>1, <3>1
        <4>2. kd.i # 0 => waited[s] >= kd.i
          BY <1>2, <1>3, <3>1, <3>4 DEF Due, Unserved, PassedOver
        <4> QED BY <1>2, <4>1, <4>2
      <3>7. waited'[s] >= kd.i + 1
        BY <1>2, <3>5, <3>6
      <3>8. (kd.i + 1)' = kd.i + 1
        BY <2>3
      <3> QED BY <3>4, <3>7, <3>8 DEF PassedOver
    <2> QED BY <2>3, <2>4 DEF Due, ReturnsServed, PassedOver
  <1> QED BY <1>4, <1>5 DEF kdemo_pick, sched_pick_next

\* A tick takes nobody's turn.
LEMMA TickKeepsDue ==
    ASSUME TableInv, KdTyped, Due, kdemo_tick
    PROVE  KdTyped' /\ Due' /\ ReturnsServed
  <1>1. /\ tasks \in [Slots -> Task] /\ current \in Slots /\ waited' = waited
        /\ tasks' = [tasks EXCEPT ![current].quantum = Ticked(@)]
    BY DEF TableInv, TypeOK, kdemo_tick, sched_on_tick, Slots
  <1>2. \A s \in Slots : tasks'[s].state = tasks[s].state
    BY <1>1 DEF Task
  <1>3. Runnable' = Runnable
    BY <1>2 DEF Runnable
  <1>4. kd.at = "slice" /\ kd.i \in Nat
    BY DEF kdemo_tick, KdTyped
  <1>5. \/ kd' = kd
        \/ kd' = [at |-> "pick", i |-> kd.i + 1, served |-> kd.served]
    BY DEF kdemo_tick
  <1>6. \A s \in Unserved : PassedOver(s, kd.i + 1) /\ s \in Slots
    BY <1>4 DEF Due, Unserved, Runnable
  <1>7. CASE kd' = kd
    <2>1. Unserved' = Unserved
      BY <1>3, <1>7 DEF Unserved
    <2> QED BY <1>1, <1>2, <1>4, <1>6, <1>7, <2>1
            DEF KdTyped, Due, ReturnsServed, PassedOver
  <1>8. CASE kd' = [at |-> "pick", i |-> kd.i + 1, served |-> kd.served]
    <2>1. /\ KdTyped' /\ kd'.at = "pick" /\ kd'.i = kd.i + 1
          /\ kd'.served = kd.served
      BY <1>4, <1>8 DEF KdTyped
    <2>2. Unserved' = Unserved
      BY <1>3, <2>1 DEF Unserved
    <2> QED BY <1>1, <1>2, <1>6, <2>1, <2>2 DEF Due, ReturnsServed, PassedOver
  <1> QED BY <1>5, <1>7, <1>8

\* After PICKS picks nobody is left.
LEMMA DoneServesAll ==
    ASSUME TableInv, KdTyped, Due, kdemo_done
    PROVE  KdTyped' /\ Due' /\ ReturnsServed
  <1>1. /\ kd.at = "pick" /\ kd.i = PICKS /\ kd' = [kd EXCEPT !.at = "out"]
        /\ tasks' = tasks
    BY DEF kdemo_done, vars
  <1>2. KdTyped' /\ kd'.at = "out" /\ kd'.served = kd.served
    BY <1>1 DEF KdTyped
  <1>3. ASSUME NEW s \in Unserved PROVE FALSE
    <2>1. s \in Slots
      BY DEF Unserved, Runnable
    <2>2. waited[s] \in Nat /\ waited[s] < CAP
      BY <2>1, WaitBounds DEF TableInv, TypeOK
    <2>3. kd.i # 0 /\ PICKS >= CAP /\ PICKS \in Nat /\ CAP \in Nat
      BY <1>1, CapAssumption, PicksAssumption
    <2>4. waited[s] >= PICKS
      BY <1>1, <2>3 DEF Due, PassedOver
    <2> QED BY <2>2, <2>3, <2>4
  <1>4. Runnable' \subseteq kd'.served
    BY <1>1, <1>2, <1>3 DEF Unserved, Runnable
  <1> QED BY <1>2, <1>4 DEF Due, ReturnsServed

\* sched_kdemo leaves its loop only when every task that can run has had a
\* slice, for every table, identifiers and slice lengths, whatever was called
\* before: the safety half of KdemoServesAll.
THEOREM DemoServesAll == KdSpec => [][ReturnsServed]_kdVars
  <1>1. KdInit => KdInv
    BY TypeInit, WaitInit DEF KdInit, KdInv, TableInv, KdTyped, Due, Init,
       EmptyTable, RunningIsCurrent, Slots
  <1>2. KdInv /\ [KdNext]_kdVars => KdInv' /\ [ReturnsServed]_kdVars
    <2> SUFFICES ASSUME KdInv, [KdNext]_kdVars
                 PROVE  KdInv' /\ [ReturnsServed]_kdVars
      OBVIOUS
    <2>1. TableInv'
      BY KdIsNext, TableStep DEF KdInv, kdVars, vars
    <2>2. CASE kdemo_pick \/ kdemo_tick \/ kdemo_done
      BY <2>1, <2>2, PickPassesOver, TickKeepsDue, DoneServesAll DEF KdInv
    <2>3. CASE kd.at = "out" /\ kd' = kd
      BY <2>1, <2>3 DEF KdInv, KdTyped, Due, ReturnsServed
    <2>4. CASE kdemo_start
      BY <2>1, <2>4 DEF kdemo_start, KdInv, KdTyped, Due, ReturnsServed
    <2>5. CASE UNCHANGED kdVars
      BY <2>1, <2>5 DEF kdVars, vars, KdInv, KdTyped, Due, Unserved, Runnable,
         PassedOver
    <2> QED BY <2>2, <2>3, <2>4, <2>5 DEF KdNext, sched_kdemo
  <1> QED BY <1>1, <1>2, PTL DEF KdSpec

----------------------------------------------------------------------------
(* Context switching.  ContextsKept speaks of the contexts that wait while *)
(* a worker runs.  The inductive invariant adds how they come to be there: *)
(* which slots and stacks the loop of coop_run_demo has laid out, that the *)
(* slot of a worker is its number, that the running context's own stack    *)
(* holds no frame, and that the local i of a worker counts its ticks.      *)

Places == {"main", "add", "worker", "loop", "exited", "unreachable"}

Working == {"worker", "loop", "exited"}

CoopTask == [id : Int, state : States, quantum : Nat, reload : Nat]

AnyFrame == [at : Places, me : Int, i : Int]

AnyEsp == [of : Contexts, depth : Nat]

CoopTyped ==
    /\ tasks \in [Slots -> CoopTask]
    /\ running \in Contexts
    /\ stacks \in [Contexts -> Seq(AnyFrame)]
    /\ esp \in [Contexts -> AnyEsp]
    /\ cpu \in [on : Contexts, at : Places, me : Int, i : Int]
    /\ ticks \in [Workers -> Nat]

\* The CPU is on the running context's stack, with every frame popped.
OnOwnStack ==
    /\ cpu.on = running /\ stacks[running] = <<>>
    /\ cpu.at # "unreachable"
    /\ cpu.at \in Working <=> running \in Workers

\* A context whose esp is saved on its own stack, one frame deep.
Saved(c) == esp[c] = [of |-> c, depth |-> 1]

Laid(w) == stacks[w] = <<Frame("worker", 0, 0)>> /\ ticks[w] = 0

Waits(w) == Saved(w) /\ (Laid(w) \/ stacks[w] = <<Frame("loop", w, ticks[w])>>)

\* coop_run_demo has added the workers below cpu.i.
Adding ==
    cpu.at = "add" =>
        /\ current = -1 /\ cpu.i \in 0 .. NCOOP
        /\ \A s \in Slots : IF s < cpu.i
                            THEN tasks[s].id = s /\ tasks[s].state = "READY"
                            ELSE tasks[s].state = "UNUSED"
        /\ \A w \in Workers : ticks[w] = 0
        /\ \A w \in Workers : w < cpu.i => Laid(w) /\ Saved(w)

\* The table once every worker has been added: the last slot stays free.
WorkersTable ==
    /\ tasks[NCOOP].state = "UNUSED" /\ current \in Workers \cup {-1}
    /\ \A w \in Workers :
          /\ tasks[w].id = w /\ tasks[w].state \in {"READY", "RUNNING", "ZOMBIE"}
          /\ tasks[w].state = "RUNNING" <=> w = current

MainWaits == /\ Saved(Main) /\ Len(stacks[Main]) = 1
             /\ stacks[Main][1].at = "main"

AtWork ==
    cpu.at \in Working =>
        /\ MainWaits /\ WorkersTable
        /\ \A w \in Workers : tasks[w].state = "READY" => Waits(w)
        /\ IF cpu.at = "exited"
           THEN current = -1 /\ tasks[running].state = "ZOMBIE"
           ELSE current = running
        /\ cpu.at # "worker" => cpu.me = running
        /\ cpu.at = "worker" => ticks[running] = 0
        /\ cpu.at = "loop" => cpu.i = ticks[running]

CoopOK == CoopTyped /\ OnOwnStack /\ Adding /\ AtWork

CoopInv == user = "coop.c" => CoopOK

LEMMA CoopNumbers ==
    /\ NCOOP \in Nat /\ NCOOP \in Slots /\ Workers \subseteq Slots
    /\ Workers \subseteq Int /\ Slots \subseteq Int /\ NCOOP \notin Workers
    /\ -1 \notin Workers /\ Main = -1 /\ Main \notin Workers
    /\ Contexts = Workers \cup {-1} /\ Workers \subseteq Contexts
    /\ Main \in Contexts
    /\ Slots = Workers \cup {NCOOP}
  BY CapAssumption DEF NCOOP, Workers, Slots, Main, Contexts

\* Pushing on an empty stack and popping the only frame.
LEMMA OneFrame ==
    ASSUME NEW F, NEW f \in F
    PROVE  /\ Append(<<>>, f) = <<f>> /\ Len(<<f>>) = 1 /\ <<f>>[1] = f
           /\ SubSeq(<<f>>, 1, 0) = <<>> /\ <<f>> \in Seq(F) /\ <<>> \in Seq(F)
  OBVIOUS

\* sched_pick_next on the demo's table: nobody is left, or a worker that was
\* ready or running is chosen and the one that ran goes back to the pool.
LEMMA PickWorker ==
    ASSUME tasks \in [Slots -> CoopTask], WorkersTable, sched_pick_next
    PROVE  \/ /\ tasks' = tasks /\ current' = -1 /\ Picked = Main
              /\ \A w \in Workers : tasks[w].state = "ZOMBIE"
           \/ /\ current' \in Workers /\ Picked = current'
              /\ tasks[current'].state = "READY" \/ current' = current
              /\ tasks' \in [Slots -> CoopTask] /\ WorkersTable'
              /\ \A w \in Workers : tasks'[w].state = "READY" =>
                     tasks[w].state = "READY" \/ w = current
              /\ \A w \in Workers : tasks[w].state = "ZOMBIE" <=>
                     tasks'[w].state = "ZOMBIE"
  <1>0. /\ tasks[NCOOP].state = "UNUSED" /\ current \in Workers \cup {-1}
        /\ \A w \in Workers :
              /\ tasks[w].id = w /\ tasks[w].state \in {"READY", "RUNNING", "ZOMBIE"}
              /\ tasks[w].state = "RUNNING" <=> w = current
    BY DEF WorkersTable
  <1>e. Eligible = {w \in Workers : tasks[w].state = "READY" \/ w = current}
    BY <1>0, CoopNumbers DEF Eligible
  <1>1. CASE Eligible = {} /\ current' = -1 /\ UNCHANGED tasks
    <2>1. \A w \in Workers : tasks[w].state = "ZOMBIE"
      BY <1>0, <1>1, <1>e
    <2>2. Picked = Main
      BY <1>1 DEF Picked
    <2> QED BY <1>1, <2>1, <2>2
  <1>2. ASSUME NEW i \in Eligible, current' = i,
               tasks' = [j \in Slots |->
                           IF j = i THEN [tasks[i] EXCEPT !.state = "RUNNING",
                                                          !.quantum = tasks[i].reload]
                           ELSE Requeued(j)]
        PROVE  /\ current' \in Workers /\ Picked = current'
               /\ tasks[current'].state = "READY" \/ current' = current
               /\ tasks' \in [Slots -> CoopTask] /\ WorkersTable'
               /\ \A w \in Workers : tasks'[w].state = "READY" =>
                      tasks[w].state = "READY" \/ w = current
               /\ \A w \in Workers : tasks[w].state = "ZOMBIE" <=>
                      tasks'[w].state = "ZOMBIE"
    <2>1. i \in Workers /\ i \in Slots /\ (tasks[i].state = "READY" \/ i = current)
      BY <1>e, CoopNumbers
    <2>2. \A j \in Slots : /\ tasks[j] \in CoopTask
                           /\ Requeued(j) \in CoopTask /\ Requeued(j).id = tasks[j].id
                           /\ Requeued(j).state =
                                IF j = current /\ tasks[j].state = "RUNNING"
                                THEN "READY" ELSE tasks[j].state
      BY DEF Requeued, CoopTask, States
    <2> DEFINE t == [tasks[i] EXCEPT !.state = "RUNNING", !.quantum = tasks[i].reload]
    <2>3. t \in CoopTask /\ t.id = tasks[i].id /\ t.state = "RUNNING"
      BY <2>1, <2>2 DEF CoopTask, States
    <2>4. \A j \in Slots : tasks'[j] = IF j = i THEN t ELSE Requeued(j)
      BY <1>2
    <2> HIDE DEF t
    <2>5. tasks' \in [Slots -> CoopTask]
      <3>1. tasks' = [j \in Slots |-> IF j = i THEN t ELSE Requeued(j)]
        BY <1>2 DEF t
      <3> QED BY <2>2, <2>3, <3>1
    <2>6. \A w \in Workers :
            /\ tasks'[w].id = w
            /\ tasks'[w].state = IF w = i THEN "RUNNING"
                                 ELSE IF w = current THEN "READY"
                                 ELSE tasks[w].state
      BY <1>0, <2>2, <2>3, <2>4, CoopNumbers
    <2>7. tasks'[NCOOP].state = "UNUSED"
      BY <1>0, <2>1, <2>2, <2>4, CoopNumbers
    <2>8. WorkersTable'
      BY <1>0, <1>2, <2>1, <2>6, <2>7 DEF WorkersTable
    <2>9. Picked = current'
      <3>1. ~(current' < 0)
        BY <1>2, <2>1, CoopNumbers DEF Workers
      <3>2. tasks'[current'].id = current'
        BY <1>2, <2>1, <2>6
      <3> QED BY <3>1, <3>2 DEF Picked
    <2>10. \A w \in Workers : tasks'[w].state = "READY" =>
               tasks[w].state = "READY" \/ w = current
      BY <2>6
    <2>11. \A w \in Workers : tasks[w].state = "ZOMBIE" <=> tasks'[w].state = "ZOMBIE"
      BY <1>0, <2>1, <2>6
    <2> QED BY <1>2, <2>1, <2>5, <2>8, <2>9, <2>10, <2>11
  <1> QED BY <1>1, <1>2 DEF sched_pick_next

\* The identifier of a worker names its own slot and no other.
LEMMA OwnSlot ==
    ASSUME WorkersTable, NEW w \in Workers
    PROVE  Matching(w) = {w}
  <1>1. \A s \in Slots : s \in Workers \/ tasks[s].state = "UNUSED"
    BY CoopNumbers DEF WorkersTable
  <1>2. \A s \in Workers : tasks[s].id = s /\ tasks[s].state # "UNUSED"
    BY DEF WorkersTable
  <1>3. w \in Slots
    BY CoopNumbers
  <1> QED BY <1>1, <1>2, <1>3 DEF Matching

\* thuos_context_switch between two stacks: one frame is left on the old one,
\* the only frame of the new one is popped and execution goes on there.
LEMMA SwitchExact ==
    ASSUME CoopTyped, OnOwnStack, NEW t \in Contexts, t # running, Saved(t),
           NEW f \in AnyFrame, stacks[t] = <<f>>,
           NEW ret \in Places, NEW me \in Int, NEW i \in Int,
           context_switch(running, t, ret, me, i)
    PROVE  /\ stacks' = [stacks EXCEPT ![running] = <<Frame(ret, me, i)>>, ![t] = <<>>]
           /\ esp' = [esp EXCEPT ![running] = [of |-> running, depth |-> 1]]
           /\ cpu' = [on |-> t, at |-> f.at, me |-> f.me, i |-> f.i]
  <1> DEFINE fr == Frame(ret, me, i)
             pushed == [stacks EXCEPT ![cpu.on] = Append(@, fr)]
  <1>1. fr \in AnyFrame
    BY DEF Frame, AnyFrame
  <1>2. /\ running \in Contexts /\ cpu.on = running /\ stacks[running] = <<>>
        /\ esp[t].of = t /\ esp[t].depth = 1
        /\ stacks \in [Contexts -> Seq(AnyFrame)]
    BY DEF CoopTyped, OnOwnStack, Saved
  <1>3. /\ esp' = [esp EXCEPT ![running] = [of |-> cpu.on, depth |-> Len(pushed[cpu.on])]]
        /\ stacks' = [pushed EXCEPT ![t] = SubSeq(@, 1, 0)]
        /\ cpu' = [on |-> t, at |-> pushed[t][1].at, me |-> pushed[t][1].me,
                   i |-> pushed[t][1].i]
    BY <1>2 DEF context_switch
  <1> HIDE DEF fr
  <1>4. pushed = [stacks EXCEPT ![running] = <<fr>>]
    BY <1>1, <1>2, OneFrame
  <1>5. pushed[running] = <<fr>> /\ pushed[t] = <<f>>
    BY <1>2, <1>4
  <1>6. stacks' = [pushed EXCEPT ![t] = <<>>]
    BY <1>3, <1>5, OneFrame
  <1>7. stacks' = [stacks EXCEPT ![running] = <<fr>>, ![t] = <<>>]
    BY <1>4, <1>6
  <1>8. Len(pushed[cpu.on]) = 1 /\ pushed[t][1] = f
    BY <1>1, <1>2, <1>5, OneFrame
  <1> HIDE DEF pushed
  <1>9. esp' = [esp EXCEPT ![running] = [of |-> running, depth |-> 1]]
    BY <1>2, <1>3, <1>8
  <1> QED BY <1>3, <1>7, <1>8, <1>9 DEF fr
\* A context that waits has one frame, in its own code.
LEMMA WaitingFrame ==
    ASSUME CoopTyped, NEW w \in Workers, Waits(w)
    PROVE  \E f \in AnyFrame :
              /\ stacks[w] = <<f>>
              /\ \/ f.at = "worker" /\ ticks[w] = 0
                 \/ f.at = "loop" /\ f.me = w /\ f.i = ticks[w]
  <1>1. ticks[w] \in Nat /\ w \in Int
    BY CoopNumbers DEF CoopTyped
  <1>2. CASE Laid(w)
    <2>1. Frame("worker", 0, 0) \in AnyFrame /\ Frame("worker", 0, 0).at = "worker"
      BY DEF Frame, AnyFrame, Places
    <2> QED BY <1>2, <2>1 DEF Laid
  <1>3. CASE stacks[w] = <<Frame("loop", w, ticks[w])>>
    <2> DEFINE f == Frame("loop", w, ticks[w])
    <2>1. f \in AnyFrame /\ f.at = "loop" /\ f.me = w /\ f.i = ticks[w]
      BY <1>1 DEF Frame, AnyFrame, Places
    <2> HIDE DEF f
    <2>2. stacks[w] = <<f>>
      BY <1>3 DEF f
    <2> QED BY <2>1, <2>2
  <1> QED BY <1>2, <1>3 DEF Waits

\* The callers of coop_yield: coop_run_demo, a worker in its loop (which has
\* just printed a line) and a worker that has exited.
Yields(ret, me, i) ==
    \/ /\ running = Main /\ current = -1 /\ ret = "main"
    \/ /\ running \in Workers /\ current = running /\ cpu.at = "loop"
       /\ ret = "loop" /\ me = running /\ cpu.me = me /\ i = ticks'[running]
    \/ /\ running \in Workers /\ current = -1 /\ ret = "unreachable"
       /\ tasks[running].state = "ZOMBIE"

\* coop_yield keeps the invariant for each of its callers.
LEMMA YieldKeeps ==
    ASSUME CoopTyped, OnOwnStack, WorkersTable,
           running # Main => MainWaits,
           \A w \in Workers : tasks[w].state = "READY" => Waits(w),
           ticks' \in [Workers -> Nat],
           \A w \in Workers : w # running => ticks'[w] = ticks[w],
           NEW ret \in Places, NEW me \in Int, NEW i \in Int,
           Yields(ret, me, i), coop_yield(ret, me, i)
    PROVE  CoopOK'
  <1>0. /\ tasks \in [Slots -> CoopTask] /\ running \in Contexts
        /\ stacks \in [Contexts -> Seq(AnyFrame)] /\ esp \in [Contexts -> AnyEsp]
        /\ cpu \in [on : Contexts, at : Places, me : Int, i : Int]
        /\ cpu.on = running /\ stacks[running] = <<>>
        /\ sched_pick_next /\ running' = Picked
    BY DEF CoopTyped, OnOwnStack, coop_yield
  <1>1. \/ /\ tasks' = tasks /\ current' = -1 /\ Picked = Main
           /\ \A w \in Workers : tasks[w].state = "ZOMBIE"
        \/ /\ current' \in Workers /\ Picked = current'
           /\ tasks[current'].state = "READY" \/ current' = current
           /\ tasks' \in [Slots -> CoopTask] /\ WorkersTable'
           /\ \A w \in Workers : tasks'[w].state = "READY" =>
                  tasks[w].state = "READY" \/ w = current
           /\ \A w \in Workers : tasks[w].state = "ZOMBIE" =>
                  tasks'[w].state = "ZOMBIE"
    BY <1>0, PickWorker
  <1>2. tasks' \in [Slots -> CoopTask] /\ running' \in Contexts
    BY <1>0, <1>1, CoopNumbers
  <1> DEFINE fr == Frame(ret, me, i)
  <1>3. fr \in AnyFrame /\ fr.at = ret
    BY DEF Frame, AnyFrame
  <1>4. CASE running' = running
    <2>1. /\ cpu' = [cpu EXCEPT !.at = ret, !.i = i]
          /\ stacks' = stacks /\ esp' = esp
      BY <1>0, <1>4 DEF coop_yield
    <2>2. /\ cpu' \in [on : Contexts, at : Places, me : Int, i : Int]
          /\ cpu'.on = running /\ cpu'.at = ret /\ cpu'.me = cpu.me /\ cpu'.i = i
      BY <1>0, <2>1
    <2>3. CoopTyped'
      BY <1>0, <1>2, <2>1, <2>2 DEF CoopTyped
    <2>4. CASE running = Main
      <3>1. ret = "main"
        BY <2>4, CoopNumbers DEF Yields
      <3>2. OnOwnStack' /\ Adding' /\ AtWork'
        BY <1>0, <1>4, <2>1, <2>2, <2>4, <3>1, CoopNumbers
           DEF OnOwnStack, Adding, AtWork, Working
      <3> QED BY <2>3, <3>2 DEF CoopOK
    <2>5. CASE running \in Workers
      <3>1. Picked = current' /\ current' = running /\ WorkersTable'
        BY <1>0, <1>1, <1>4, <2>5, CoopNumbers
      <3>2. tasks[running].state # "ZOMBIE"
        BY <1>1, <2>5, <3>1, CoopNumbers DEF WorkersTable
      <3>3. /\ current = running /\ ret = "loop" /\ cpu.me = running
            /\ i = ticks'[running]
        BY <2>5, <3>2, CoopNumbers DEF Yields
      <3>4. MainWaits'
        BY <2>1, <2>5, CoopNumbers DEF MainWaits, Saved
      <3>5. ASSUME NEW w \in Workers, tasks'[w].state = "READY"
            PROVE  Waits(w)'
        <4>1. w # running
          BY <3>1, <3>5 DEF WorkersTable
        <4>2. Waits(w)
          BY <1>1, <3>1, <3>3, <3>5, <4>1, CoopNumbers
        <4> QED BY <2>1, <4>1, <4>2 DEF Waits, Saved, Laid
      <3>6. AtWork'
        BY <1>4, <2>2, <3>1, <3>3, <3>4, <3>5 DEF AtWork
      <3>7. OnOwnStack' /\ Adding'
        BY <1>0, <1>4, <2>1, <2>2, <2>5, <3>3 DEF OnOwnStack, Adding, Working
      <3> QED BY <2>3, <3>6, <3>7 DEF CoopOK
    <2> QED BY <1>0, <2>4, <2>5, CoopNumbers
  <1>5. CASE running' # running
    <2>0. context_switch(running, running', ret, me, i)
      BY <1>0, <1>5 DEF coop_yield, SavedIn
    <2>1. CASE running' = Main
      <3>1. running \in Workers /\ MainWaits
        BY <1>0, <1>5, <2>1, CoopNumbers
      <3>2. PICK f \in AnyFrame : stacks[Main] = <<f>> /\ f.at = "main"
        <4>1. stacks[Main] \in Seq(AnyFrame) /\ Len(stacks[Main]) = 1
              /\ stacks[Main][1].at = "main"
          BY <1>0, <3>1, CoopNumbers DEF MainWaits
        <4>2. stacks[Main] = <<stacks[Main][1]>> /\ stacks[Main][1] \in AnyFrame
          BY <4>1
        <4> QED BY <4>1, <4>2
      <3>3. /\ stacks' = [stacks EXCEPT ![running] = <<fr>>, ![Main] = <<>>]
            /\ esp' = [esp EXCEPT ![running] = [of |-> running, depth |-> 1]]
            /\ cpu' = [on |-> Main, at |-> f.at, me |-> f.me, i |-> f.i]
        BY <1>5, <2>0, <2>1, <3>1, <3>2, SwitchExact, CoopNumbers DEF MainWaits
      <3> HIDE DEF fr
      <3>4. /\ cpu' \in [on : Contexts, at : Places, me : Int, i : Int]
            /\ cpu'.on = Main /\ cpu'.at = "main"
        BY <3>2, <3>3, CoopNumbers DEF AnyFrame
      <3>5. [of |-> running, depth |-> 1] \in AnyEsp
        BY <1>0 DEF AnyEsp
      <3>6. esp' \in [Contexts -> AnyEsp] /\ stacks' \in [Contexts -> Seq(AnyFrame)]
            /\ stacks'[Main] = <<>>
        BY <1>0, <1>3, <3>3, <3>5, OneFrame, CoopNumbers
      <3>7. CoopTyped'
        BY <1>2, <3>4, <3>6 DEF CoopTyped
      <3>8. OnOwnStack' /\ Adding' /\ AtWork'
        BY <2>1, <3>4, <3>6, CoopNumbers DEF OnOwnStack, Adding, AtWork, Working
      <3> QED BY <3>7, <3>8 DEF CoopOK
    <2>2. CASE running' \in Workers
      <3> DEFINE t == running'
      <3>1. t \in Workers /\ t = current' /\ t \in Contexts /\ WorkersTable'
        BY <1>0, <1>1, <2>2, CoopNumbers
      <3>2. tasks[t].state = "READY" /\ Waits(t)
        <4>1. current = running \/ current = -1
          BY DEF Yields
        <4>2. current' # current
          BY <1>5, <3>1, <4>1, CoopNumbers
        <4> QED BY <1>1, <3>1, <4>2, CoopNumbers
      <3> HIDE DEF t
      <3>3. PICK f \in AnyFrame :
              /\ stacks[t] = <<f>>
              /\ \/ f.at = "worker" /\ ticks[t] = 0
                 \/ f.at = "loop" /\ f.me = t /\ f.i = ticks[t]
        BY <3>1, <3>2, WaitingFrame
      <3>4. /\ stacks' = [stacks EXCEPT ![running] = <<fr>>, ![t] = <<>>]
            /\ esp' = [esp EXCEPT ![running] = [of |-> running, depth |-> 1]]
            /\ cpu' = [on |-> t, at |-> f.at, me |-> f.me, i |-> f.i]
        <4>1. context_switch(running, t, ret, me, i) /\ t # running /\ Saved(t)
          BY <1>5, <2>0, <3>2 DEF t, Waits
        <4> QED BY <3>1, <3>3, <4>1, SwitchExact
      <3> HIDE DEF fr
      <3>5. /\ cpu' \in [on : Contexts, at : Places, me : Int, i : Int]
            /\ cpu'.on = t /\ cpu'.at = f.at /\ cpu'.me = f.me /\ cpu'.i = f.i
        BY <3>1, <3>4 DEF AnyFrame
      <3>6. [of |-> running, depth |-> 1] \in AnyEsp
        BY <1>0 DEF AnyEsp
      <3>7. /\ esp' \in [Contexts -> AnyEsp] /\ stacks' \in [Contexts -> Seq(AnyFrame)]
            /\ \A c \in Contexts : c # running => esp'[c] = esp[c]
            /\ esp'[running] = [of |-> running, depth |-> 1]
        BY <1>0, <1>3, <3>1, <3>4, <3>6, OneFrame
      <3>8. /\ stacks'[t] = <<>> /\ stacks'[running] = <<fr>>
            /\ \A c \in Contexts : c # running /\ c # t => stacks'[c] = stacks[c]
        BY <1>0, <1>5, <3>1, <3>4 DEF t
      <3>9. CoopTyped'
        BY <1>2, <3>5, <3>7 DEF CoopTyped
      <3>10. OnOwnStack'
        BY <2>2, <3>3, <3>5, <3>8 DEF OnOwnStack, Working, t
      <3>11. MainWaits'
        <4>1. CASE running = Main
          <5>1. ret = "main"
            BY <4>1, CoopNumbers DEF Yields
          <5> QED BY <1>3, <3>7, <3>8, <4>1, <5>1, OneFrame DEF MainWaits, Saved
        <4>2. CASE running # Main
          BY <3>1, <3>7, <3>8, <4>2, CoopNumbers DEF MainWaits, Saved
        <4> QED BY <4>1, <4>2
      <3>12. ASSUME NEW w \in Workers, tasks'[w].state = "READY"
             PROVE  Waits(w)'
        <4>1. w # t /\ w \in Contexts
          BY <3>1, <3>12, CoopNumbers DEF WorkersTable
        <4>2. CASE w = running
          <5>1. w = current
            <6>1. tasks[w].state = "READY" => FALSE
              BY <1>1, <3>1, <3>12, <4>2, CoopNumbers DEF Yields, WorkersTable
            <6> QED BY <1>1, <3>1, <3>12, <6>1, CoopNumbers
          <5>2. ret = "loop" /\ me = w /\ i = ticks'[w]
            BY <4>2, <5>1, CoopNumbers DEF Yields
          <5>3. stacks'[w] = <<Frame("loop", w, ticks'[w])>>
            BY <3>8, <4>2, <5>2 DEF fr
          <5> QED BY <3>7, <4>2, <5>3 DEF Waits, Saved
        <4>3. CASE w # running
          <5>1. tasks[w].state = "READY"
            BY <1>1, <3>1, <3>12, <4>3, CoopNumbers DEF Yields
          <5>2. stacks'[w] = stacks[w] /\ esp'[w] = esp[w] /\ ticks'[w] = ticks[w]
            BY <3>7, <3>8, <4>1, <4>3
          <5> QED BY <5>1, <5>2 DEF Waits, Saved, Laid
        <4> QED BY <4>2, <4>3
      <3>13. ticks'[t] = ticks[t]
        BY <1>5, <3>1 DEF t
      <3>14. AtWork'
        BY <3>1, <3>3, <3>5, <3>11, <3>12, <3>13 DEF AtWork, t
      <3>15. Adding'
        BY <3>3, <3>5 DEF Adding
      <3> QED BY <3>9, <3>10, <3>14, <3>15 DEF CoopOK
    <2> QED BY <1>2, <2>1, <2>2, CoopNumbers
  <1> QED BY <1>4, <1>5
LEMMA CoopStart == CoopInit => CoopInv
  <1> SUFFICES ASSUME CoopInit PROVE CoopOK
    BY DEF CoopInv
  <1> USE CoopNumbers DEF CoopInit, KdInit
  <1>1. CoopTyped
    <2>1. tasks \in [Slots -> CoopTask]
      BY DEF Init, EmptyTable, CoopTask, States
    <2>2. stacks \in [Contexts -> Seq(AnyFrame)] /\ esp \in [Contexts -> AnyEsp]
      BY DEF AnyEsp
    <2>3. cpu \in [on : Contexts, at : Places, me : Int, i : Int]
      BY DEF Places
    <2> QED BY <2>1, <2>2, <2>3 DEF CoopTyped
  <1>2. OnOwnStack
    BY DEF OnOwnStack, Working
  <1>3. Adding /\ AtWork
    BY DEF Adding, AtWork, Working
  <1> QED BY <1>1, <1>2, <1>3 DEF CoopOK

\* Every step of the demo keeps the invariant.
LEMMA CoopStep == CoopOK /\ CoopNext => CoopOK'
  <1> SUFFICES ASSUME CoopOK, CoopNext PROVE CoopOK'
    OBVIOUS
  <1>0. /\ tasks \in [Slots -> CoopTask] /\ running \in Contexts
        /\ stacks \in [Contexts -> Seq(AnyFrame)] /\ esp \in [Contexts -> AnyEsp]
        /\ cpu \in [on : Contexts, at : Places, me : Int, i : Int]
        /\ ticks \in [Workers -> Nat]
        /\ cpu.on = running /\ stacks[running] = <<>> /\ cpu.at # "unreachable"
        /\ cpu.at \in Working <=> running \in Workers
    BY DEF CoopOK, CoopTyped, OnOwnStack
  <1>1. CASE demo_start
    <2>1. /\ tasks' = EmptyTable /\ current' = -1 /\ running' = Main
          /\ cpu' = [cpu EXCEPT !.at = "add", !.i = 0]
          /\ ticks' = [w \in Workers |-> 0]
          /\ stacks' = stacks /\ esp' = esp /\ cpu.at = "main"
      BY <1>1 DEF demo_start
    <2>2. running = Main
      BY <1>0, <2>1, CoopNumbers DEF Working
    <2>3. /\ cpu' \in [on : Contexts, at : Places, me : Int, i : Int]
          /\ cpu'.on = Main /\ cpu'.at = "add" /\ cpu'.i = 0
      <3>1. /\ cpu \in [on : Contexts, at : Places, me : Int, i : Int]
            /\ cpu.on = Main /\ "add" \in Places /\ 0 \in Int
        BY <1>0, <2>2 DEF Places
      <3>2. cpu' = [cpu EXCEPT !.at = "add", !.i = 0]
        BY <2>1
      <3> QED BY <3>1, <3>2
    <2>4. /\ tasks' \in [Slots -> CoopTask]
          /\ \A j \in Slots : tasks'[j].state = "UNUSED"
      BY <2>1 DEF EmptyTable, CoopTask, States
    <2>5. CoopTyped'
      BY <1>0, <2>1, <2>3, <2>4, CoopNumbers DEF CoopTyped
    <2>6. OnOwnStack' /\ AtWork'
      BY <1>0, <2>1, <2>2, <2>3, CoopNumbers DEF OnOwnStack, AtWork, Working
    <2>7. Adding'
      BY <2>1, <2>3, <2>4, CoopNumbers DEF Adding, Slots, Workers
    <2> QED BY <2>5, <2>6, <2>7 DEF CoopOK
  <1>2. CASE demo_add
    <2> DEFINE n == cpu.i
    <2>1. /\ cpu.at = "add" /\ n < NCOOP /\ sched_add(n, 1)
          /\ stacks' = [stacks EXCEPT ![n] = <<Frame("worker", 0, 0)>>]
          /\ esp' = [esp EXCEPT ![n] = [of |-> n, depth |-> 1]]
          /\ cpu' = [cpu EXCEPT !.i = n + 1]
          /\ running' = running /\ ticks' = ticks
      BY <1>2 DEF demo_add
    <2>2. /\ current = -1 /\ n \in 0 .. NCOOP
          /\ \A s \in Slots : IF s < n
                              THEN tasks[s].id = s /\ tasks[s].state = "READY"
                              ELSE tasks[s].state = "UNUSED"
          /\ \A w \in Workers : ticks[w] = 0
          /\ \A w \in Workers : w < n => Laid(w) /\ Saved(w)
      BY <2>1 DEF CoopOK, Adding
    <2>3. running = Main
      BY <1>0, <2>1, CoopNumbers DEF Working
    <2>4. /\ cpu' \in [on : Contexts, at : Places, me : Int, i : Int]
          /\ cpu'.on = Main /\ cpu'.at = "add" /\ cpu'.i = n + 1
      <3>1. /\ cpu \in [on : Contexts, at : Places, me : Int, i : Int]
            /\ cpu.on = Main /\ cpu.at = "add" /\ n + 1 \in Int
        BY <1>0, <2>1, <2>2, <2>3
      <3>2. cpu' = [cpu EXCEPT !.i = n + 1]
        BY <2>1
      <3> HIDE DEF n
      <3> QED BY <3>1, <3>2
    <2> HIDE DEF n
    <2>5. n \in Workers /\ n \in Contexts /\ n \in Slots /\ n # Main /\ n \in Int
      BY <2>1, <2>2, CoopNumbers DEF Workers
    <2> DEFINE t == [id |-> n, state |-> "READY", quantum |-> 1, reload |-> 1]
    <2>6. tasks' = [tasks EXCEPT ![n] = t] /\ current' = current
      <3>1. PICK k \in Slots :
              /\ IsFirst(k, {j \in Slots : tasks[j].state = "UNUSED"})
              /\ tasks' = [tasks EXCEPT ![k] = t]
        BY <2>1 DEF sched_add
      <3>2. tasks[n].state = "UNUSED"
        BY <2>2, <2>5
      <3>3. k <= n /\ ~(k < n)
        BY <2>2, <2>5, <3>1, <3>2 DEF IsFirst
      <3>4. k = n
        BY <2>5, <3>3, CoopNumbers
      <3> QED BY <2>1, <3>1, <3>4 DEF sched_add
    <2>7. t \in CoopTask /\ t.id = n /\ t.state = "READY"
      BY <2>5 DEF CoopTask, States
    <2> HIDE DEF t
    <2>8. /\ tasks' \in [Slots -> CoopTask] /\ tasks'[n] = t
          /\ \A s \in Slots : s # n => tasks'[s] = tasks[s]
      BY <1>0, <2>5, <2>6, <2>7
    <2>9. Frame("worker", 0, 0) \in AnyFrame /\ [of |-> n, depth |-> 1] \in AnyEsp
      BY <2>5 DEF Frame, AnyFrame, AnyEsp, Places
    <2>10. /\ stacks' \in [Contexts -> Seq(AnyFrame)] /\ esp' \in [Contexts -> AnyEsp]
           /\ stacks'[n] = <<Frame("worker", 0, 0)>>
           /\ esp'[n] = [of |-> n, depth |-> 1]
           /\ \A c \in Contexts : c # n => stacks'[c] = stacks[c] /\ esp'[c] = esp[c]
      BY <1>0, <2>1, <2>5, <2>9, OneFrame
    <2>11. CoopTyped'
      BY <1>0, <2>1, <2>4, <2>8, <2>10 DEF CoopTyped
    <2>12. OnOwnStack' /\ AtWork'
      BY <1>0, <2>1, <2>3, <2>4, <2>5, <2>10, CoopNumbers
         DEF OnOwnStack, AtWork, Working
    <2>13. \A s \in Slots : IF s < n + 1
                            THEN tasks'[s].id = s /\ tasks'[s].state = "READY"
                            ELSE tasks'[s].state = "UNUSED"
      <3> SUFFICES ASSUME NEW s \in Slots
                   PROVE  IF s < n + 1
                          THEN tasks'[s].id = s /\ tasks'[s].state = "READY"
                          ELSE tasks'[s].state = "UNUSED"
        OBVIOUS
      <3>1. CASE s = n
        BY <2>5, <2>7, <2>8, <3>1
      <3>2. CASE s # n
        <4>1. s < n + 1 <=> s < n
          BY <2>5, <3>2, CoopNumbers
        <4> QED BY <2>2, <2>8, <3>2, <4>1
      <3> QED BY <3>1, <3>2
    <2>14. \A w \in Workers : w < n + 1 => Laid(w)' /\ Saved(w)'
      <3> SUFFICES ASSUME NEW w \in Workers, w < n + 1
                   PROVE  Laid(w)' /\ Saved(w)'
        OBVIOUS
      <3>1. CASE w = n
        BY <2>1, <2>2, <2>10, <3>1 DEF Laid, Saved
      <3>2. CASE w # n
        <4>1. w < n /\ w \in Contexts
          BY <2>5, <3>2, CoopNumbers
        <4> QED BY <2>1, <2>2, <2>10, <3>2, <4>1 DEF Laid, Saved
      <3> QED BY <3>1, <3>2
    <2>15. n + 1 \in 0 .. NCOOP
      BY <2>1, <2>2, CoopNumbers
    <2>16. Adding'
      BY <2>1, <2>2, <2>4, <2>6, <2>13, <2>14, <2>15 DEF Adding
    <2> QED BY <2>11, <2>12, <2>16 DEF CoopOK
  <1>3. CASE demo_yield
    <2>1. /\ cpu.at = "add" /\ cpu.i = NCOOP /\ ticks' = ticks
          /\ coop_yield("main", cpu.me, cpu.i)
          /\ current = -1
          /\ \A s \in Slots : IF s < NCOOP
                              THEN tasks[s].id = s /\ tasks[s].state = "READY"
                              ELSE tasks[s].state = "UNUSED"
          /\ \A w \in Workers : w < NCOOP => Laid(w) /\ Saved(w)
      BY <1>3 DEF demo_yield, CoopOK, Adding
    <2>2. running = Main
      BY <1>0, <2>1, CoopNumbers DEF Working
    <2>3. \A w \in Workers : w < NCOOP /\ w \in Slots
      BY CoopNumbers DEF Workers
    <2>4. WorkersTable
      BY <2>1, <2>3, CoopNumbers DEF WorkersTable
    <2>5. \A w \in Workers : Waits(w)
      BY <2>1, <2>3 DEF Waits
    <2>6. Yields("main", cpu.me, cpu.i) /\ "main" \in Places
      BY <2>1, <2>2 DEF Yields, Places
    <2>7. cpu.me \in Int /\ cpu.i \in Int
      BY <1>0
    <2> QED BY <1>0, <2>1, <2>2, <2>4, <2>5, <2>6, <2>7, YieldKeeps DEF CoopOK
  <1>4. CASE worker_enter
    <2>1. /\ cpu.at = "worker" /\ cpu' = [cpu EXCEPT !.at = "loop", !.me = running, !.i = 0]
          /\ running' = running /\ stacks' = stacks /\ esp' = esp /\ ticks' = ticks
          /\ tasks' = tasks /\ current' = current
      BY <1>4 DEF worker_enter, vars
    <2>2. running \in Workers /\ running \in Int
      BY <1>0, <2>1, CoopNumbers DEF Working
    <2>3. /\ cpu' \in [on : Contexts, at : Places, me : Int, i : Int]
          /\ cpu'.on = running /\ cpu'.at = "loop" /\ cpu'.me = running /\ cpu'.i = 0
      <3>1. /\ cpu \in [on : Contexts, at : Places, me : Int, i : Int]
            /\ cpu.on = running /\ running \in Int
            /\ "loop" \in Places /\ 0 \in Int
        BY <1>0, <2>2 DEF Places
      <3>2. cpu' = [cpu EXCEPT !.at = "loop", !.me = running, !.i = 0]
        BY <2>1
      <3> QED BY <3>1, <3>2
    <2>4. CoopTyped'
      BY <1>0, <2>1, <2>3 DEF CoopTyped
    <2>5. OnOwnStack' /\ Adding'
      BY <1>0, <2>1, <2>2, <2>3 DEF OnOwnStack, Adding, Working
    <2>6. AtWork
      BY DEF CoopOK
    <2>7. AtWork'
      BY <2>1, <2>3, <2>6
         DEF AtWork, Working, MainWaits, WorkersTable, Waits, Saved, Laid
    <2> QED BY <2>4, <2>5, <2>7 DEF CoopOK
  <1>5. CASE worker_tick
    <2>1. /\ cpu.at = "loop" /\ ticks' = [ticks EXCEPT ![cpu.me] = @ + 1]
          /\ coop_yield("loop", cpu.me, cpu.i + 1)
      BY <1>5 DEF worker_tick
    <2>2. running \in Workers /\ running # Main
      BY <1>0, <2>1, CoopNumbers DEF Working
    <2>3. /\ MainWaits /\ WorkersTable /\ current = running
          /\ \A w \in Workers : tasks[w].state = "READY" => Waits(w)
          /\ cpu.me = running /\ cpu.i = ticks[running]
      BY <2>1 DEF CoopOK, AtWork, Working
    <2>4. /\ ticks' \in [Workers -> Nat] /\ ticks'[running] = cpu.i + 1
          /\ \A w \in Workers : w # running => ticks'[w] = ticks[w]
      BY <1>0, <2>1, <2>2, <2>3
    <2>5. Yields("loop", cpu.me, cpu.i + 1) /\ "loop" \in Places
      BY <2>1, <2>2, <2>3, <2>4 DEF Yields, Places
    <2>6. cpu.me \in Int /\ cpu.i + 1 \in Int
      BY <1>0
    <2> QED BY <2>1, <2>3, <2>4, <2>5, <2>6, YieldKeeps DEF CoopOK
  <1>6. CASE worker_exit
    <2>1. /\ cpu.at = "loop" /\ sched_exit(cpu.me)
          /\ cpu' = [cpu EXCEPT !.at = "exited"]
          /\ running' = running /\ stacks' = stacks /\ esp' = esp /\ ticks' = ticks
      BY <1>6 DEF worker_exit
    <2>2. running \in Workers /\ running \in Slots
      BY <1>0, <2>1, CoopNumbers DEF Working
    <2>3. /\ MainWaits /\ WorkersTable /\ current = running
          /\ \A w \in Workers : tasks[w].state = "READY" => Waits(w)
          /\ cpu.me = running
      BY <2>1 DEF CoopOK, AtWork, Working
    <2>4. Matching(running) = {running}
      BY <2>2, <2>3, OwnSlot
    <2>5. /\ tasks' = [tasks EXCEPT ![running].state = "ZOMBIE"] /\ current' = -1
      BY <2>1, <2>3, <2>4 DEF sched_exit, find_id, IsFirst, Release
    <2>6. /\ tasks' \in [Slots -> CoopTask]
          /\ tasks'[running].id = tasks[running].id /\ tasks'[running].state = "ZOMBIE"
          /\ \A s \in Slots : s # running => tasks'[s] = tasks[s]
      BY <1>0, <2>2, <2>5 DEF CoopTask, States
    <2>7. /\ cpu' \in [on : Contexts, at : Places, me : Int, i : Int]
          /\ cpu'.on = running /\ cpu'.at = "exited" /\ cpu'.me = running
      BY <1>0, <2>1, <2>3 DEF Places
    <2>8. CoopTyped'
      BY <1>0, <2>1, <2>6, <2>7 DEF CoopTyped
    <2>9. OnOwnStack' /\ Adding'
      BY <1>0, <2>1, <2>2, <2>7 DEF OnOwnStack, Adding, Working
    <2>10. WorkersTable'
      <3>1. tasks'[NCOOP].state = "UNUSED"
        BY <2>2, <2>3, <2>6, CoopNumbers DEF WorkersTable
      <3>2. ASSUME NEW w \in Workers
            PROVE  /\ tasks'[w].id = w
                   /\ tasks'[w].state \in {"READY", "ZOMBIE"}
        BY <2>2, <2>3, <2>6, CoopNumbers DEF WorkersTable
      <3> QED BY <2>5, <3>1, <3>2, CoopNumbers DEF WorkersTable
    <2>11. ASSUME NEW w \in Workers, tasks'[w].state = "READY"
           PROVE  Waits(w)'
      <3>1. w # running /\ w \in Slots
        BY <2>6, <2>11, CoopNumbers
      <3>2. Waits(w)
        BY <2>3, <2>6, <2>11, <3>1
      <3> QED BY <2>1, <3>2 DEF Waits, Saved, Laid
    <2>12. MainWaits'
      BY <2>1, <2>3 DEF MainWaits, Saved
    <2>13. AtWork'
      BY <2>1, <2>5, <2>6, <2>7, <2>10, <2>11, <2>12 DEF AtWork
    <2> QED BY <2>8, <2>9, <2>13 DEF CoopOK
  <1>7. CASE worker_leave
    <2>1. /\ cpu.at = "exited" /\ ticks' = ticks
          /\ coop_yield("unreachable", cpu.me, cpu.i)
      BY <1>7 DEF worker_leave
    <2>2. running \in Workers
      BY <1>0, <2>1 DEF Working
    <2>3. /\ MainWaits /\ WorkersTable /\ current = -1
          /\ \A w \in Workers : tasks[w].state = "READY" => Waits(w)
          /\ tasks[running].state = "ZOMBIE"
      BY <2>1 DEF CoopOK, AtWork, Working
    <2>4. Yields("unreachable", cpu.me, cpu.i) /\ "unreachable" \in Places
      BY <2>2, <2>3 DEF Yields, Places
    <2>5. cpu.me \in Int /\ cpu.i \in Int
      BY <1>0
    <2> QED BY <1>0, <2>1, <2>3, <2>4, <2>5, YieldKeeps DEF CoopOK
  <1> QED BY <1>1, <1>2, <1>3, <1>4, <1>5, <1>6, <1>7 DEF CoopNext

LEMMA CoopAlways == TwoUsersSpec => []CoopInv
  <1>1. CoopInv /\ [TwoUsersNext]_allVars => CoopInv'
    <2> SUFFICES ASSUME CoopInv, [TwoUsersNext]_allVars, user' = "coop.c"
                 PROVE  CoopOK'
      BY DEF CoopInv
    <2>1. CASE user = "sched.c" /\ UNCHANGED coopVars
      BY <2>1 DEF coopVars
    <2>2. CASE user = "coop.c" /\ CoopNext
      BY <2>2, CoopStep DEF CoopInv
    <2>3. CASE UNCHANGED allVars
      <3>1. /\ tasks' = tasks /\ current' = current /\ user' = user
            /\ running' = running /\ stacks' = stacks /\ esp' = esp
            /\ cpu' = cpu /\ ticks' = ticks
        BY <2>3 DEF allVars, vars, coopVars
      <3> QED BY <3>1 DEF CoopInv, CoopOK, CoopTyped, OnOwnStack, Adding, AtWork,
                          MainWaits, WorkersTable, Waits, Saved, Laid
    <2> QED BY <2>1, <2>2, <2>3 DEF TwoUsersNext
  <1> QED BY <1>1, CoopStart, PTL DEF TwoUsersSpec

\* Every context switch of coop.c lands on the stack and in the code of the
\* context it names, and every waiting context can be resumed where it left,
\* for every number of workers and yields, demo after demo.
THEOREM SwitchesKeepContexts == TwoUsersSpec => []ContextsKept
  <1>1. CoopInv => ContextsKept
    <2> SUFFICES ASSUME user = "coop.c", CoopOK
                 PROVE  /\ cpu.on = running /\ cpu.at # "unreachable"
                        /\ cpu.at \in {"main", "add"} <=> running = Main
                        /\ cpu.at \in {"loop", "exited"} => cpu.me = running
                        /\ cpu.at \in {"worker", "loop"} => tasks[current].id = running
                        /\ cpu.at \notin {"main", "add"} =>
                              \A c \in Resumable \ {running} :
                                 /\ esp[c] = [of |-> c, depth |-> 1]
                                 /\ Len(stacks[c]) = 1
                                 /\ IF c = Main THEN stacks[c][1].at = "main"
                                    ELSE \/ stacks[c][1].at = "worker" /\ ticks[c] = 0
                                         \/ stacks[c][1] = Frame("loop", c, ticks[c])
      BY DEF CoopInv, ContextsKept
    <2>1. /\ cpu.on = running /\ cpu.at # "unreachable" /\ running \in Contexts
          /\ cpu.at \in Working <=> running \in Workers
          /\ cpu.at \in Places /\ ticks \in [Workers -> Nat]
      BY DEF CoopOK, OnOwnStack, CoopTyped
    <2>2. cpu.at \in {"main", "add"} <=> running = Main
      BY <2>1, CoopNumbers DEF Working, Places
    <2>3. /\ cpu.at \in {"loop", "exited"} => cpu.me = running
          /\ cpu.at \in {"worker", "loop"} => current = running /\ WorkersTable
      BY DEF CoopOK, AtWork, Working
    <2>4. cpu.at \in {"worker", "loop"} => tasks[current].id = running
      BY <2>1, <2>3 DEF Working, WorkersTable
    <2>5. ASSUME cpu.at \notin {"main", "add"}, NEW c \in Resumable \ {running}
          PROVE  /\ esp[c] = [of |-> c, depth |-> 1] /\ Len(stacks[c]) = 1
                 /\ IF c = Main THEN stacks[c][1].at = "main"
                    ELSE \/ stacks[c][1].at = "worker" /\ ticks[c] = 0
                         \/ stacks[c][1] = Frame("loop", c, ticks[c])
      <3>1. /\ MainWaits /\ WorkersTable
            /\ \A w \in Workers : tasks[w].state = "READY" => Waits(w)
            /\ current = running \/ current = -1
        BY <2>1, <2>5 DEF CoopOK, AtWork, Working, Places
      <3>2. CASE c = Main
        BY <3>1, <3>2 DEF MainWaits, Saved
      <3>3. CASE c # Main
        <4>1. PICK s \in Slots : /\ tasks[s].id = c
                                 /\ tasks[s].state \in {"READY", "RUNNING"}
          BY <2>5, <3>3 DEF Resumable
        <4>2. s \in Workers
          BY <3>1, <4>1, CoopNumbers DEF WorkersTable
        <4>3. s = c /\ tasks[c].state = "READY"
          BY <2>5, <3>1, <4>1, <4>2, CoopNumbers DEF WorkersTable
        <4>4. c \in Workers /\ Waits(c) /\ c \in Int /\ ticks[c] \in Nat
          BY <2>1, <3>1, <4>2, <4>3, CoopNumbers
        <4>5. CASE Laid(c)
          <5>1. Frame("worker", 0, 0).at = "worker"
            BY DEF Frame
          <5> QED BY <3>3, <4>4, <4>5, <5>1, OneFrame DEF Waits, Saved, Laid
        <4>6. CASE stacks[c] = <<Frame("loop", c, ticks[c])>>
          BY <3>3, <4>4, <4>6, OneFrame DEF Waits, Saved
        <4> QED BY <4>4, <4>5, <4>6 DEF Waits
      <3> QED BY <3>2, <3>3
    <2> QED BY <2>1, <2>2, <2>3, <2>4, <2>5
  <1> QED BY <1>1, CoopAlways, PTL

----------------------------------------------------------------------------
(* What the demo has done when it returns.                                 *)

\* Workers that have exited have had all their turns.
Turns ==
    cpu.at \in Working =>
        \A w \in Workers : tasks[w].state = "ZOMBIE" => ticks[w] = ITERS

TurnsInv == user = "coop.c" => Turns

ReturnsDone ==
    cpu.at # "main" /\ cpu'.at = "main" => \A w \in Workers : ticks'[w] = ITERS

\* coop_yield brings no worker back from the dead, and returns to the kernel
\* only when all of them have exited.
LEMMA YieldAmongWorkers ==
    ASSUME CoopTyped, OnOwnStack', WorkersTable, NEW ret, NEW me, NEW i, coop_yield(ret, me, i)
    PROVE  /\ \A w \in Workers : tasks'[w].state = "ZOMBIE" => tasks[w].state = "ZOMBIE"
           /\ cpu'.at = "main" => \A w \in Workers : tasks[w].state = "ZOMBIE"
  <1>1. tasks \in [Slots -> CoopTask] /\ sched_pick_next /\ running' = Picked
    BY DEF CoopTyped, coop_yield
  <1>2. \/ /\ tasks' = tasks /\ \A w \in Workers : tasks[w].state = "ZOMBIE"
        \/ /\ Picked \in Workers
           /\ \A w \in Workers : tasks[w].state = "ZOMBIE" <=> tasks'[w].state = "ZOMBIE"
    BY <1>1, PickWorker
  <1>3. cpu'.at = "main" => running' \notin Workers
    BY DEF OnOwnStack, Working
  <1> QED BY <1>1, <1>2, <1>3

LEMMA TurnsStep ==
    ASSUME CoopOK, CoopOK', Turns, CoopNext
    PROVE  Turns' /\ ReturnsDone
  <1>0. /\ CoopTyped /\ OnOwnStack /\ Adding /\ AtWork /\ OnOwnStack'
        /\ running \in Contexts /\ ticks \in [Workers -> Nat]
    BY DEF CoopOK, CoopTyped
  <1>1. CASE demo_start
    <2>1. cpu.at = "main" /\ cpu'.at = "add"
      BY <1>0, <1>1 DEF demo_start, CoopTyped
    <2> QED BY <2>1 DEF Turns, ReturnsDone, Working
  <1>2. CASE demo_add
    <2>1. cpu'.at = "add"
      BY <1>0, <1>2 DEF demo_add, CoopTyped
    <2> QED BY <2>1 DEF Turns, ReturnsDone, Working
  <1>3. CASE demo_yield
    <2>1. /\ cpu.at = "add" /\ cpu.i = NCOOP /\ ticks' = ticks
          /\ coop_yield("main", cpu.me, cpu.i)
      BY <1>3 DEF demo_yield
    <2>2. \A w \in Workers : w < NCOOP /\ w \in Slots
      BY CoopNumbers DEF Workers
    <2>3. /\ current = -1 /\ tasks[NCOOP].state = "UNUSED"
          /\ \A w \in Workers : tasks[w].id = w /\ tasks[w].state = "READY"
      BY <1>0, <2>1, <2>2, CoopNumbers DEF Adding
    <2>4. WorkersTable
      BY <2>3, CoopNumbers DEF WorkersTable
    <2>5. /\ \A w \in Workers : tasks'[w].state = "ZOMBIE" => tasks[w].state = "ZOMBIE"
          /\ cpu'.at = "main" => \A w \in Workers : tasks[w].state = "ZOMBIE"
      BY <1>0, <2>1, <2>4, YieldAmongWorkers
    <2> QED BY <2>3, <2>5 DEF Turns, ReturnsDone
  <1>4. CASE worker_enter
    <2>1. /\ cpu.at = "worker" /\ cpu'.at = "loop" /\ tasks' = tasks /\ ticks' = ticks
      BY <1>0, <1>4 DEF worker_enter, vars, CoopTyped
    <2> QED BY <2>1 DEF Turns, ReturnsDone, Working
  <1>5. CASE worker_tick
    <2>1. /\ cpu.at = "loop" /\ ticks' = [ticks EXCEPT ![cpu.me] = @ + 1]
          /\ coop_yield("loop", cpu.me, cpu.i + 1)
      BY <1>5 DEF worker_tick
    <2>2. /\ running \in Workers /\ WorkersTable /\ current = running /\ cpu.me = running
      BY <1>0, <2>1 DEF AtWork, OnOwnStack, Working
    <2>3. /\ \A w \in Workers : tasks'[w].state = "ZOMBIE" => tasks[w].state = "ZOMBIE"
          /\ cpu'.at = "main" => \A w \in Workers : tasks[w].state = "ZOMBIE"
      BY <1>0, <2>1, <2>2, YieldAmongWorkers
    <2>4. tasks[running].state = "RUNNING"
      BY <2>2 DEF WorkersTable
    <2>5. \A w \in Workers : w # running => ticks'[w] = ticks[w]
      BY <1>0, <2>1, <2>2
    <2>6. \A w \in Workers : tasks[w].state = "ZOMBIE" => ticks[w] = ITERS
      BY <2>1 DEF Turns, Working
    <2> QED BY <2>2, <2>3, <2>4, <2>5, <2>6 DEF Turns, ReturnsDone
  <1>6. CASE worker_exit
    <2>1. /\ cpu.at = "loop" /\ cpu.i = ITERS /\ sched_exit(cpu.me) /\ ticks' = ticks
          /\ cpu'.at = "exited"
      BY <1>0, <1>6 DEF worker_exit, CoopTyped
    <2>2. /\ running \in Workers /\ WorkersTable /\ cpu.me = running /\ cpu.i = ticks[running]
      BY <1>0, <2>1 DEF AtWork, OnOwnStack, Working
    <2>3. Matching(running) = {running}
      BY <2>2, OwnSlot
    <2>4. \A w \in Workers : w # running => tasks'[w] = tasks[w]
      BY <1>0, <2>1, <2>2, <2>3, CoopNumbers DEF sched_exit, find_id, IsFirst, CoopTyped
    <2>5. \A w \in Workers : tasks[w].state = "ZOMBIE" => ticks[w] = ITERS
      BY <2>1 DEF Turns, Working
    <2> QED BY <2>1, <2>2, <2>4, <2>5 DEF Turns, ReturnsDone
  <1>7. CASE worker_leave
    <2>1. cpu.at = "exited" /\ ticks' = ticks /\ coop_yield("unreachable", cpu.me, cpu.i)
      BY <1>7 DEF worker_leave
    <2>2. WorkersTable /\ \A w \in Workers : tasks[w].state = "ZOMBIE" => ticks[w] = ITERS
      BY <1>0, <2>1 DEF AtWork, Turns, Working
    <2>3. /\ \A w \in Workers : tasks'[w].state = "ZOMBIE" => tasks[w].state = "ZOMBIE"
          /\ cpu'.at = "main" => \A w \in Workers : tasks[w].state = "ZOMBIE"
      BY <1>0, <2>1, <2>2, YieldAmongWorkers
    <2> QED BY <2>1, <2>2, <2>3 DEF Turns, ReturnsDone
  <1> QED BY <1>1, <1>2, <1>3, <1>4, <1>5, <1>6, <1>7 DEF CoopNext

\* coop_run_demo returns to the kernel only after every worker has had its
\* ITERS turns and exited (coop.c:60, "returns when all exit"), for every number
\* of workers and turns, in every demo: the safety half of DemoCompletes.
THEOREM DemoReturnsDone == TwoUsersSpec => [][ReturnsDone]_allVars
  <1>1. CoopInit => TurnsInv
    BY DEF CoopInit, TurnsInv, Turns, Working
  <1>2. CoopInv /\ CoopInv' /\ TurnsInv /\ [TwoUsersNext]_allVars => TurnsInv' /\ ReturnsDone
    <2> SUFFICES ASSUME CoopInv, CoopInv', TurnsInv, [TwoUsersNext]_allVars
                 PROVE  TurnsInv' /\ ReturnsDone
      OBVIOUS
    <2>1. CASE user = "sched.c" /\ UNCHANGED coopVars
      BY <2>1 DEF coopVars, TurnsInv, ReturnsDone
    <2>2. CASE user = "coop.c" /\ CoopNext
      <3>1. user' = user
        BY <2>2 DEF CoopNext, demo_start, demo_add, demo_yield, worker_enter, worker_tick,
                    worker_exit, worker_leave
      <3> QED BY <2>2, <3>1, TurnsStep DEF CoopInv, TurnsInv
    <2>3. CASE UNCHANGED allVars
      BY <2>3 DEF allVars, vars, coopVars, TurnsInv, Turns, ReturnsDone
    <2> QED BY <2>1, <2>2, <2>3 DEF TwoUsersNext
  <1> QED BY <1>1, <1>2, CoopAlways, PTL DEF TwoUsersSpec
============================================================================
