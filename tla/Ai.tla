--------------------------------- MODULE Ai ---------------------------------
(***************************************************************************)
(* The AI layer: the task table, the permission policy and the audit ring  *)
(* of kernel/ai/ai_core.c under the shell's `ai' commands of               *)
(* kernel/ai/ai.c.                                                         *)
(*                                                                         *)
(* One action per command; a command prints and then leaves a record in    *)
(* the audit ring.  The services and models that ai_init registers never   *)
(* change.  Of the permissions only AI_PERM_NET_BRIDGE decides anything.   *)
(* `log' is a history variable: every record ever made, oldest first.      *)
(***************************************************************************)
EXTENDS Integers, Sequences

CONSTANTS
    AI_AUDIT_CAP,  \* records the ring holds (32 in the kernel)
    AI_MAX_TASKS,  \* entries of the task table (16 in the kernel)
    MaxRecords     \* bound on the records of a behaviour

ASSUME AiAssumption ==
    /\ AI_AUDIT_CAP \in Nat \ {0} /\ AI_MAX_TASKS \in Nat /\ MaxRecords \in Nat

VARIABLES tasks, next_task_id, net_bridge, audit, audit_head, audit_total, log

ring == <<audit, audit_head, audit_total, log>>
vars == <<tasks, next_task_id, net_bridge, audit, audit_head, audit_total, log>>

Slots == 0 .. AI_MAX_TASKS - 1

Cells == 0 .. AI_AUDIT_CAP - 1

\* An entry of the table that is not used, and of the ring.
NoTask == [used |-> FALSE, id |-> 0, state |-> "CREATED"]

None == [seq |-> 0, action |-> "", decision |-> "", task_id |-> 0]

\* ai_world_init: the network bridge is off by default.
Init ==
    /\ tasks = [i \in Slots |-> NoTask] /\ next_task_id = 1
    /\ net_bridge = FALSE
    /\ audit = [c \in Cells |-> None] /\ audit_head = 0 /\ audit_total = 0
    /\ log = <<>>

----------------------------------------------------------------------------
(* ai_core.c.                                                              *)

\* The sequence number is that of the record in the log.
ai_audit_record(action, decision, task_id) ==
    LET e == [seq |-> Len(log) + 1, action |-> action, decision |-> decision,
              task_id |-> task_id]
    IN /\ Len(log) < MaxRecords
       /\ audit' = [audit EXCEPT ![audit_head] = e]
       /\ audit_head' = (audit_head + 1) % AI_AUDIT_CAP
       /\ audit_total' = IF audit_total < AI_AUDIT_CAP THEN audit_total + 1
                         ELSE audit_total
       /\ log' = Append(log, e)

\* Definitions named Mut_... are faults seeded to show that a property can
\* fail; nothing else uses them.
Mut_ai_audit_recent_Oldest(back) ==
    IF back >= audit_total THEN None ELSE audit[back]

ai_audit_recent(back) ==
    IF back >= audit_total THEN None
    ELSE audit[(audit_head - 1 - back) % AI_AUDIT_CAP]

ai_task_count == {i \in Slots : tasks[i].used}

\* The table after ai_task_create, and the identifier it returns.
Created(i) ==
    [tasks EXCEPT ![i] = [used |-> TRUE, id |-> next_task_id, state |-> "CREATED"]]

Mut_valid_transition_NoDeny(from, to) ==
    <<from, to>> \in {<<"CREATED", "QUEUED">>, <<"CREATED", "FAILED">>,
                      <<"QUEUED", "DISPATCHED">>, <<"QUEUED", "DENIED">>,
                      <<"QUEUED", "FAILED">>, <<"DISPATCHED", "DONE">>,
                      <<"DISPATCHED", "FAILED">>}

valid_transition(from, to) ==
    <<from, to>> \in {<<"CREATED", "QUEUED">>, <<"CREATED", "DENIED">>,
                      <<"CREATED", "FAILED">>, <<"QUEUED", "DISPATCHED">>,
                      <<"QUEUED", "DENIED">>, <<"QUEUED", "FAILED">>,
                      <<"DISPATCHED", "DONE">>, <<"DISPATCHED", "FAILED">>}

\* ai_task_set_state on table t: nothing happens for an identifier that is not
\* in it (-1 in particular) and for a transition that is not allowed.
SetState(t, id, to) ==
    [i \in Slots |->
        IF t[i].used /\ t[i].id = id /\ valid_transition(t[i].state, to)
        THEN [t[i] EXCEPT !.state = to] ELSE t[i]]

\* Part of the core's interface; no command of the kernel uses it.
ai_policy_set(allow) ==
    /\ net_bridge' = allow
    /\ UNCHANGED <<tasks, next_task_id, ring>>

----------------------------------------------------------------------------
(* ai.c.                                                                   *)

\* `ai status', `ai models' and `ai policy' print and are recorded.
cmd_show(action) ==
    /\ ai_audit_record(action, "ALLOW", 0)
    /\ UNCHANGED <<tasks, next_task_id, net_bridge>>

\* An empty list returns before it is recorded.
cmd_tasks ==
    /\ ai_task_count # {}
    /\ ai_audit_record("ai.tasks", "ALLOW", 0)
    /\ UNCHANGED <<tasks, next_task_id, net_bridge>>

\* What cmd_bridge does with the task: denied by the policy or, as there is no
\* network, queued and failed.
Settled(t, id) ==
    IF net_bridge THEN SetState(SetState(t, id, "QUEUED"), id, "FAILED")
    ELSE SetState(t, id, "DENIED")

\* With a full table the task is -1 and the request is recorded all the same.
cmd_bridge ==
    /\ \/ /\ ai_task_count = Slots
          /\ tasks' = Settled(tasks, -1)
          /\ ai_audit_record("bridge.connect", "DENY", -1)
          /\ UNCHANGED next_task_id
       \/ \E i \in Slots \ ai_task_count :
             /\ \A j \in Slots \ ai_task_count : i <= j
             /\ tasks' = Settled(Created(i), next_task_id)
             /\ next_task_id' = next_task_id + 1
             /\ ai_audit_record("bridge.connect", "DENY", next_task_id)
    /\ UNCHANGED net_bridge

ai_command ==
    \/ \E a \in {"ai.status", "ai.models", "ai.policy"} : cmd_show(a)
    \/ cmd_tasks
    \/ cmd_bridge

Next == ai_command \/ \E allow \in BOOLEAN : ai_policy_set(allow)

Spec == Init /\ [][Next]_vars

----------------------------------------------------------------------------
(* Properties.                                                             *)

\* The audit shows the last AI_AUDIT_CAP records, newest first, and nothing
\* else, however often the ring has wrapped (ai_core.h: "back=0 -> newest").
AuditIsLog ==
    \A back \in 0 .. MaxRecords :
        ai_audit_recent(back) =
            IF back < Len(log) /\ back < AI_AUDIT_CAP THEN log[Len(log) - back]
            ELSE None

\* No attempt to use the bridge is left pending, sent or unrecorded: each task
\* is denied or failed and has one record, which says so, and a record without
\* a task is made only when the table is full (ai_core.h: "records the request,
\* applies the local-only policy, and audits the decision, but no request
\* leaves the machine").
AttemptsSettled ==
    LET Records(id) == {k \in 1 .. Len(log) : /\ log[k].action = "bridge.connect"
                                              /\ log[k].decision = "DENY"
                                              /\ log[k].task_id = id}
    IN /\ \A i \in Slots : tasks[i].used =>
              /\ tasks[i].state \in {"DENIED", "FAILED"}
              /\ \E k \in 1 .. Len(log) : Records(tasks[i].id) = {k}
       /\ Records(-1) # {} => ai_task_count = Slots
       /\ \A k \in 1 .. Len(log) : log[k].task_id > 0 =>
              \E i \in Slots : tasks[i].used /\ tasks[i].id = log[k].task_id
=============================================================================
