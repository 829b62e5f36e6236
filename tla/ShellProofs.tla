---------------------------- MODULE ShellProofs ----------------------------
(***************************************************************************)
(* Theorems about Ai and Shell, for every size of the audit ring, of the   *)
(* task table, of the history, of the kernel log, of the line and of the   *)
(* screens.                                                                *)
(***************************************************************************)
EXTENDS Shell, NaturalsInduction, SequenceTheorems, WellFoundedInduction, TLAPS

\* What a record may say, and an entry of the ring that is not used.
Actions == {"ai.status", "ai.models", "ai.policy", "ai.tasks", "bridge.connect", ""}

Decisions == {"ALLOW", "DENY", ""}

Entries == [seq : Nat, action : Actions, decision : Decisions, task_id : Int]

LEMMA AppendElements ==
    ASSUME NEW S, NEW s \in Seq(S), NEW e \in S
    PROVE  /\ Append(s, e) \in Seq(S) /\ Len(Append(s, e)) = Len(s) + 1
           /\ \A k \in 1 .. Len(s) : Append(s, e)[k] = s[k]
           /\ Append(s, e)[Len(s) + 1] = e
  <1>1. Append(s, e) \in Seq(S) /\ Len(Append(s, e)) = Len(s) + 1
    OBVIOUS
  <1>2. \A k \in 1 .. Len(s) : Append(s, e)[k] = s[k]
    OBVIOUS
  <1>3. Append(s, e)[Len(s) + 1] = e
    OBVIOUS
  <1> QED BY <1>1, <1>2, <1>3

----------------------------------------------------------------------------
(* The audit ring.                                                         *)

\* Where the record is that was made `back' records before the newest.
Place(h, back) == IF back < h THEN h - 1 - back ELSE h - 1 - back + AI_AUDIT_CAP

\* The ring holds the newest records of the log, each at its place.
RingInv ==
    /\ log \in Seq(Entries) /\ audit \in [Cells -> Entries]
    /\ audit_head \in Cells
    /\ audit_total = IF Len(log) < AI_AUDIT_CAP THEN Len(log) ELSE AI_AUDIT_CAP
    /\ \A back \in 0 .. AI_AUDIT_CAP - 1 : back < Len(log) =>
          audit[Place(audit_head, back)] = log[Len(log) - back]

LEMMA HeadMoves ==
    ASSUME NEW h \in Cells
    PROVE  (h + 1) % AI_AUDIT_CAP = IF h = AI_AUDIT_CAP - 1 THEN 0 ELSE h + 1
  <1> USE AiAssumption DEF Cells
  <1>1. CASE h = AI_AUDIT_CAP - 1
    <2>1. AI_AUDIT_CAP % AI_AUDIT_CAP = 0
      OBVIOUS
    <2> QED BY <1>1, <2>1
  <1>2. CASE h # AI_AUDIT_CAP - 1
    <2>1. h + 1 \in 0 .. AI_AUDIT_CAP - 1
      BY <1>2
    <2> QED BY <1>2, <2>1
  <1> QED BY <1>1, <1>2

LEMMA PlaceValue ==
    ASSUME NEW h \in Cells, NEW back \in Cells
    PROVE  /\ Place(h, back) \in Cells
           /\ (h - 1 - back) % AI_AUDIT_CAP = Place(h, back)
  <1> USE AiAssumption DEF Cells
  <1>1. CASE back < h
    <2>1. h - 1 - back \in 0 .. AI_AUDIT_CAP - 1
      BY <1>1
    <2> QED BY <1>1, <2>1 DEF Place
  <1>2. CASE back >= h
    <2> DEFINE r == h - 1 - back + AI_AUDIT_CAP
    <2>1. r \in 0 .. AI_AUDIT_CAP - 1
      BY <1>2
    <2>2. h - 1 - back = AI_AUDIT_CAP * (-1) + r
      OBVIOUS
    <2>3. (h - 1 - back) % AI_AUDIT_CAP = r
      BY <2>1, <2>2
    <2> QED BY <1>2, <2>1, <2>3 DEF Place
  <1> QED BY <1>1, <1>2

\* A new record takes the place of the oldest and moves every other one back.
LEMMA PlaceShifts ==
    ASSUME NEW h \in Cells, NEW back \in Cells, NEW h2, h2 = (h + 1) % AI_AUDIT_CAP
    PROVE  /\ h2 \in Cells
           /\ Place(h2, 0) = h
           /\ back > 0 => /\ Place(h2, back) = Place(h, back - 1)
                          /\ Place(h, back - 1) # h
  <1>1. h2 = IF h = AI_AUDIT_CAP - 1 THEN 0 ELSE h + 1
    BY HeadMoves
  <1> QED BY <1>1, AiAssumption DEF Cells, Place

LEMMA RecordStep ==
    ASSUME RingInv, NEW a \in Actions, NEW d \in Decisions, NEW t \in Int, ai_audit_record(a, d, t)
    PROVE  RingInv'
  <1> DEFINE e == [seq |-> Len(log) + 1, action |-> a, decision |-> d, task_id |-> t]
  <1> DEFINE n == Len(log)
  <1>1. e \in Entries /\ n \in Nat
    BY DEF Entries, RingInv
  <1>2. /\ audit' = [audit EXCEPT ![audit_head] = e]
        /\ audit_head' = (audit_head + 1) % AI_AUDIT_CAP
        /\ audit_total' = IF audit_total < AI_AUDIT_CAP THEN audit_total + 1 ELSE audit_total
        /\ log' = Append(log, e)
    BY DEF ai_audit_record
  <1> HIDE DEF e
  <1>3. /\ log' \in Seq(Entries) /\ Len(log') = n + 1
        /\ \A k \in 1 .. n : log'[k] = log[k]
        /\ log'[n + 1] = e
    BY <1>1, <1>2, AppendElements DEF RingInv
  <1>4. audit' \in [Cells -> Entries] /\ audit_head' \in Cells
    BY <1>1, <1>2, PlaceShifts DEF RingInv
  <1>5. audit_total' = IF Len(log') < AI_AUDIT_CAP THEN Len(log') ELSE AI_AUDIT_CAP
    BY <1>1, <1>2, <1>3, AiAssumption DEF RingInv
  <1>6. ASSUME NEW back \in 0 .. AI_AUDIT_CAP - 1, back < Len(log')
        PROVE  audit'[Place(audit_head', back)] = log'[Len(log') - back]
    <2>0. audit_head \in Cells /\ back \in Cells /\ audit \in [Cells -> Entries]
      BY DEF Cells, RingInv
    <2>1. CASE back = 0
      <3>1. Place(audit_head', back) = audit_head
        BY <1>2, <2>0, <2>1, PlaceShifts
      <3> QED BY <1>1, <1>2, <1>3, <2>0, <2>1, <3>1
    <2>2. CASE back # 0
      <3>1. back - 1 \in Cells /\ back - 1 \in 0 .. AI_AUDIT_CAP - 1 /\ back - 1 < n /\ back > 0
        BY <1>1, <1>3, <1>6, <2>2, AiAssumption DEF Cells
      <3>2. Place(audit_head', back) = Place(audit_head, back - 1) /\ Place(audit_head, back - 1) # audit_head
        BY <1>2, <2>0, <3>1, PlaceShifts
      <3>3. Place(audit_head, back - 1) \in Cells
        BY <2>0, <3>1, PlaceValue
      <3>4. audit'[Place(audit_head', back)] = audit[Place(audit_head, back - 1)]
        BY <1>2, <2>0, <3>2, <3>3
      <3>5. audit[Place(audit_head, back - 1)] = log[n - (back - 1)]
        BY <3>1 DEF RingInv
      <3>6. Len(log') - back = n - (back - 1) /\ n - (back - 1) \in 1 .. n
        BY <1>1, <1>3, <3>1
      <3> QED BY <1>3, <3>4, <3>5, <3>6
    <2> QED BY <2>1, <2>2
  <1> QED BY <1>3, <1>4, <1>5, <1>6 DEF RingInv

LEMMA RingRead == RingInv => AuditIsLog
  <1> SUFFICES ASSUME RingInv, NEW back \in 0 .. MaxRecords
               PROVE  ai_audit_recent(back) =
                        IF back < Len(log) /\ back < AI_AUDIT_CAP THEN log[Len(log) - back]
                        ELSE None
    BY DEF AuditIsLog
  <1>1. /\ Len(log) \in Nat /\ back \in Nat /\ AI_AUDIT_CAP \in Nat \ {0}
        /\ audit_total = IF Len(log) < AI_AUDIT_CAP THEN Len(log) ELSE AI_AUDIT_CAP
    BY AiAssumption DEF RingInv
  <1>2. CASE back < Len(log) /\ back < AI_AUDIT_CAP
    <2>1. ~(back >= audit_total) /\ back \in 0 .. AI_AUDIT_CAP - 1 /\ back \in Cells
      BY <1>1, <1>2 DEF Cells
    <2>2. (audit_head - 1 - back) % AI_AUDIT_CAP = Place(audit_head, back)
      BY <2>1, PlaceValue DEF RingInv
    <2>3. audit[Place(audit_head, back)] = log[Len(log) - back]
      BY <1>2, <2>1 DEF RingInv
    <2> QED BY <1>2, <2>1, <2>2, <2>3 DEF ai_audit_recent
  <1>3. CASE ~(back < Len(log) /\ back < AI_AUDIT_CAP)
    <2>1. back >= audit_total
      BY <1>1, <1>3
    <2> QED BY <1>3, <2>1 DEF ai_audit_recent
  <1> QED BY <1>2, <1>3

----------------------------------------------------------------------------
(* The task table and its records.                                         *)

TaskType == [used : BOOLEAN, id : Nat,
             state : {"CREATED", "QUEUED", "DISPATCHED", "DONE", "DENIED", "FAILED"}]

\* The records of the attempts made for a task, in log lg.
RecordsIn(lg, id) ==
    {k \in 1 .. Len(lg) : /\ lg[k].action = "bridge.connect"
                          /\ lg[k].decision = "DENY"
                          /\ lg[k].task_id = id}

\* Identifiers are not reused, in the table or in the log, so that the record
\* of a task is its own.
TableInv ==
    /\ tasks \in [Slots -> TaskType] /\ next_task_id \in Nat \ {0}
    /\ net_bridge \in BOOLEAN
    /\ \A i \in Slots : tasks[i].used =>
          /\ 0 < tasks[i].id /\ tasks[i].id < next_task_id
          /\ tasks[i].state \in {"DENIED", "FAILED"}

IdsInv == \A k \in 1 .. Len(log) : log[k].task_id < next_task_id

RecordedInv ==
    \A i \in Slots : tasks[i].used =>
        \E k \in 1 .. Len(log) : RecordsIn(log, tasks[i].id) = {k}

RefusedInv == RecordsIn(log, -1) # {} => \A i \in Slots : tasks[i].used

KnownInv ==
    \A k \in 1 .. Len(log) : log[k].task_id > 0 =>
        \E i \in Slots : tasks[i].used /\ tasks[i].id = log[k].task_id

AttemptInv == TableInv /\ IdsInv /\ RecordedInv /\ RefusedInv /\ KnownInv

LEMMA AttemptRead == AttemptInv => AttemptsSettled
  BY DEF AttemptInv, TableInv, RecordedInv, RefusedInv, KnownInv, AttemptsSettled, RecordsIn,
         ai_task_count

\* What a record adds to the records of each task.
LEMMA RecordsGrow ==
    ASSUME RingInv, NEW a \in Actions, NEW d \in Decisions, NEW t \in Int, ai_audit_record(a, d, t)
    PROVE  /\ Len(log) \in Nat /\ Len(log') = Len(log) + 1
           /\ \A k \in 1 .. Len(log) : log'[k] = log[k]
           /\ log'[Len(log) + 1].task_id = t
           /\ \A id : RecordsIn(log', id) =
                 RecordsIn(log, id) \cup
                 (IF a = "bridge.connect" /\ d = "DENY" /\ t = id THEN {Len(log) + 1} ELSE {})
  <1> DEFINE e == [seq |-> Len(log) + 1, action |-> a, decision |-> d, task_id |-> t]
             n == Len(log)
  <1>1. e \in Entries /\ n \in Nat /\ log' = Append(log, e)
    BY DEF Entries, RingInv, ai_audit_record
  <1>2. e.action = a /\ e.decision = d /\ e.task_id = t
    OBVIOUS
  <1> HIDE DEF e
  <1>3. /\ Len(log') = n + 1 /\ log'[n + 1] = e
        /\ \A k \in 1 .. n : log'[k] = log[k]
    BY <1>1, AppendElements DEF RingInv
  <1>4. ASSUME NEW id
        PROVE  RecordsIn(log', id) =
                 RecordsIn(log, id) \cup
                 (IF a = "bridge.connect" /\ d = "DENY" /\ t = id THEN {n + 1} ELSE {})
    <2>1. 1 .. Len(log') = (1 .. n) \cup {n + 1} /\ n + 1 \notin 1 .. n
      BY <1>1, <1>3
    <2> HIDE DEF n
    <2> QED BY <1>2, <1>3, <2>1 DEF RecordsIn, n
  <1> QED BY <1>1, <1>2, <1>3, <1>4

\* A record that is not of an attempt changes nothing here.
LEMMA ShowStep ==
    ASSUME RingInv, AttemptInv, NEW a \in Actions \ {"bridge.connect"},
           ai_audit_record(a, "ALLOW", 0), UNCHANGED <<tasks, next_task_id, net_bridge>>
    PROVE  AttemptInv'
  <1>0. a \in Actions /\ "ALLOW" \in Decisions /\ 0 \in Int /\ "ALLOW" # "DENY"
    BY DEF Decisions
  <1>1. /\ Len(log) \in Nat /\ Len(log') = Len(log) + 1
        /\ \A k \in 1 .. Len(log) : log'[k] = log[k]
        /\ log'[Len(log) + 1].task_id = 0
    BY <1>0, RecordsGrow
  <1>2. \A id : RecordsIn(log', id) = RecordsIn(log, id)
    <2> SUFFICES ASSUME NEW id PROVE RecordsIn(log', id) = RecordsIn(log, id)
      OBVIOUS
    <2>1. RecordsIn(log', id) =
            RecordsIn(log, id) \cup
            (IF a = "bridge.connect" /\ "ALLOW" = "DENY" /\ 0 = id THEN {Len(log) + 1} ELSE {})
      BY <1>0, RecordsGrow
    <2> QED BY <1>0, <2>1
  <1>3. \A k \in 1 .. Len(log') : k \in 1 .. Len(log) \/ k = Len(log) + 1
    BY <1>1
  <1>4. \A k \in 1 .. Len(log) : k \in 1 .. Len(log')
    BY <1>1
  <1>5. TableInv'
    BY DEF AttemptInv, TableInv
  <1>6. IdsInv'
    <2> SUFFICES ASSUME NEW k \in 1 .. Len(log') PROVE log'[k].task_id < next_task_id
      BY DEF IdsInv
    <2> QED BY <1>1, <1>3 DEF AttemptInv, IdsInv, TableInv
  <1>7. RecordedInv'
    BY <1>2, <1>4 DEF AttemptInv, RecordedInv
  <1>8. RefusedInv'
    BY <1>2 DEF AttemptInv, RefusedInv
  <1>9. KnownInv'
    BY <1>1, <1>3 DEF AttemptInv, KnownInv
  <1> QED BY <1>5, <1>6, <1>7, <1>8, <1>9 DEF AttemptInv

LEMMA SetStateValue ==
    ASSUME NEW t \in [Slots -> TaskType], NEW id,
           NEW to \in {"QUEUED", "DENIED", "FAILED"}
    PROVE  /\ SetState(t, id, to) \in [Slots -> TaskType]
           /\ \A j \in Slots :
                 /\ SetState(t, id, to)[j].used = t[j].used
                 /\ SetState(t, id, to)[j].id = t[j].id
                 /\ ~(t[j].used /\ t[j].id = id) => SetState(t, id, to)[j] = t[j]
                 /\ t[j].used /\ t[j].id = id /\ valid_transition(t[j].state, to) =>
                       SetState(t, id, to)[j].state = to
  BY DEF SetState, TaskType

\* The policy settles a new task, whatever it is, and touches no other.
LEMMA SettledValue ==
    ASSUME NEW t \in [Slots -> TaskType], NEW id, net_bridge \in BOOLEAN
    PROVE  /\ Settled(t, id) \in [Slots -> TaskType]
           /\ \A j \in Slots :
                 /\ Settled(t, id)[j].used = t[j].used
                 /\ Settled(t, id)[j].id = t[j].id
                 /\ ~(t[j].used /\ t[j].id = id) => Settled(t, id)[j] = t[j]
                 /\ t[j].used /\ t[j].id = id /\ t[j].state = "CREATED" =>
                       Settled(t, id)[j].state \in {"DENIED", "FAILED"}
  <1>0. /\ valid_transition("CREATED", "QUEUED") /\ valid_transition("QUEUED", "FAILED")
        /\ valid_transition("CREATED", "DENIED")
    BY DEF valid_transition
  <1>1. CASE net_bridge
    <2> DEFINE q == SetState(t, id, "QUEUED")
    <2>1. Settled(t, id) = SetState(q, id, "FAILED")
      BY <1>1 DEF Settled
    <2>2. /\ q \in [Slots -> TaskType]
          /\ \A j \in Slots :
                 /\ q[j].used = t[j].used
                 /\ q[j].id = t[j].id
                 /\ ~(t[j].used /\ t[j].id = id) => q[j] = t[j]
                 /\ t[j].used /\ t[j].id = id /\ t[j].state = "CREATED" => q[j].state = "QUEUED"
      BY <1>0, SetStateValue
    <2> HIDE DEF q
    <2>3. /\ SetState(q, id, "FAILED") \in [Slots -> TaskType]
          /\ \A j \in Slots :
                 /\ SetState(q, id, "FAILED")[j].used = q[j].used
                 /\ SetState(q, id, "FAILED")[j].id = q[j].id
                 /\ ~(q[j].used /\ q[j].id = id) => SetState(q, id, "FAILED")[j] = q[j]
                 /\ q[j].used /\ q[j].id = id /\ q[j].state = "QUEUED" =>
                       SetState(q, id, "FAILED")[j].state = "FAILED"
      BY <1>0, <2>2, SetStateValue
    <2> QED BY <2>1, <2>2, <2>3
  <1>2. CASE ~net_bridge
    <2>1. Settled(t, id) = SetState(t, id, "DENIED")
      BY <1>2 DEF Settled
    <2> QED BY <1>0, <2>1, SetStateValue
  <1> QED BY <1>1, <1>2

\* An attempt with the table full: refused, and recorded with task -1.
LEMMA RefusedStep ==
    ASSUME RingInv, AttemptInv, ai_task_count = Slots, tasks' = Settled(tasks, -1),
           ai_audit_record("bridge.connect", "DENY", -1),
           UNCHANGED <<next_task_id, net_bridge>>
    PROVE  AttemptInv'
  <1>0. "bridge.connect" \in Actions /\ "DENY" \in Decisions /\ -1 \in Int
    BY DEF Actions, Decisions
  <1>1. /\ Len(log) \in Nat /\ Len(log') = Len(log) + 1
        /\ \A k \in 1 .. Len(log) : log'[k] = log[k]
        /\ log'[Len(log) + 1].task_id = -1
    BY <1>0, RecordsGrow
  <1>2. \A id : id # -1 => RecordsIn(log', id) = RecordsIn(log, id)
    <2> SUFFICES ASSUME NEW id, id # -1 PROVE RecordsIn(log', id) = RecordsIn(log, id)
      OBVIOUS
    <2>1. RecordsIn(log', id) =
            RecordsIn(log, id) \cup
            (IF "bridge.connect" = "bridge.connect" /\ "DENY" = "DENY" /\ -1 = id
             THEN {Len(log) + 1} ELSE {})
      BY <1>0, RecordsGrow
    <2> QED BY <2>1
  <1>3. /\ tasks \in [Slots -> TaskType] /\ net_bridge \in BOOLEAN /\ next_task_id \in Nat \ {0}
        /\ \A j \in Slots : tasks[j].used => tasks[j].id \in Nat /\ tasks[j].id # -1
    BY DEF AttemptInv, TableInv, TaskType
  <1>4. tasks' = tasks
    <2>1. tasks' \in [Slots -> TaskType] /\ \A j \in Slots : tasks'[j] = tasks[j]
      BY <1>3, SettledValue
    <2> QED BY <1>3, <2>1
  <1>5. \A k \in 1 .. Len(log') : k \in 1 .. Len(log) \/ k = Len(log) + 1
    BY <1>1
  <1>6. \A k \in 1 .. Len(log) : k \in 1 .. Len(log')
    BY <1>1
  <1>7. TableInv'
    BY <1>4 DEF AttemptInv, TableInv
  <1>8. IdsInv'
    <2> SUFFICES ASSUME NEW k \in 1 .. Len(log') PROVE log'[k].task_id < next_task_id
      BY DEF IdsInv
    <2> QED BY <1>1, <1>3, <1>5 DEF AttemptInv, IdsInv
  <1>9. RecordedInv'
    BY <1>2, <1>3, <1>4, <1>6 DEF AttemptInv, RecordedInv
  <1>10. RefusedInv'
    BY <1>4 DEF RefusedInv, ai_task_count
  <1>11. KnownInv'
    BY <1>1, <1>4, <1>5 DEF AttemptInv, KnownInv
  <1> QED BY <1>7, <1>8, <1>9, <1>10, <1>11 DEF AttemptInv

\* An attempt with a free slot: the task is created, settled and recorded.
LEMMA CreatedStep ==
    ASSUME RingInv, AttemptInv, NEW i \in Slots \ ai_task_count,
           tasks' = Settled(Created(i), next_task_id),
           next_task_id' = next_task_id + 1,
           ai_audit_record("bridge.connect", "DENY", next_task_id),
           UNCHANGED net_bridge
    PROVE  AttemptInv'
  <1> DEFINE nid == next_task_id
             n == Len(log)
  <1>0. /\ "bridge.connect" \in Actions /\ "DENY" \in Decisions /\ nid \in Int
        /\ nid \in Nat \ {0} /\ i \in Slots /\ ~tasks[i].used
    BY DEF Actions, Decisions, AttemptInv, TableInv, ai_task_count
  <1>1. /\ n \in Nat /\ Len(log') = n + 1
        /\ \A k \in 1 .. n : log'[k] = log[k]
        /\ log'[n + 1].task_id = nid
    BY <1>0, RecordsGrow
  <1>2. \A id : RecordsIn(log', id) =
                 RecordsIn(log, id) \cup (IF nid = id THEN {n + 1} ELSE {})
    <2> SUFFICES ASSUME NEW id
                 PROVE  RecordsIn(log', id) =
                          RecordsIn(log, id) \cup (IF nid = id THEN {n + 1} ELSE {})
      OBVIOUS
    <2>1. RecordsIn(log', id) =
            RecordsIn(log, id) \cup
            (IF "bridge.connect" = "bridge.connect" /\ "DENY" = "DENY" /\ nid = id
             THEN {n + 1} ELSE {})
      BY <1>0, RecordsGrow
    <2> QED BY <2>1
  <1>3. /\ tasks \in [Slots -> TaskType] /\ net_bridge \in BOOLEAN
        /\ \A j \in Slots : tasks[j].used => tasks[j].id # nid
    BY DEF AttemptInv, TableInv, TaskType
  <1> DEFINE new == [used |-> TRUE, id |-> nid, state |-> "CREATED"]
  <1>4. /\ Created(i) \in [Slots -> TaskType]
        /\ Created(i)[i] = new
        /\ \A j \in Slots : j # i => Created(i)[j] = tasks[j]
    BY <1>0, <1>3 DEF Created, TaskType
  <1>5. /\ tasks' \in [Slots -> TaskType]
        /\ tasks'[i].used = TRUE /\ tasks'[i].id = nid
        /\ tasks'[i].state \in {"DENIED", "FAILED"}
        /\ \A j \in Slots : j # i => /\ tasks'[j].used = tasks[j].used
                                     /\ tasks'[j].used => tasks'[j] = tasks[j]
    <2>1. \A j \in Slots :
            /\ tasks'[j].used = Created(i)[j].used
            /\ tasks'[j].id = Created(i)[j].id
            /\ ~(Created(i)[j].used /\ Created(i)[j].id = nid) => tasks'[j] = Created(i)[j]
            /\ Created(i)[j].used /\ Created(i)[j].id = nid /\ Created(i)[j].state = "CREATED" =>
                  tasks'[j].state \in {"DENIED", "FAILED"}
      BY <1>3, <1>4, SettledValue
    <2>2. tasks' \in [Slots -> TaskType]
      BY <1>3, <1>4, SettledValue
    <2>3. /\ tasks'[i].used = TRUE /\ tasks'[i].id = nid
          /\ tasks'[i].state \in {"DENIED", "FAILED"}
      BY <1>0, <1>4, <2>1
    <2>4. ASSUME NEW j \in Slots, j # i
          PROVE  tasks'[j].used = tasks[j].used /\ (tasks'[j].used => tasks'[j] = tasks[j])
      BY <1>3, <1>4, <2>1, <2>4
    <2> QED BY <2>2, <2>3, <2>4
  <1>6. \A k \in 1 .. Len(log') : k \in 1 .. n \/ k = n + 1
    BY <1>1
  <1>7. (\A k \in 1 .. n : k \in 1 .. Len(log')) /\ n + 1 \in 1 .. Len(log')
    BY <1>1
  <1>8. TableInv'
    <2>1. ASSUME NEW j \in Slots, tasks'[j].used
          PROVE  /\ 0 < tasks'[j].id /\ tasks'[j].id < nid + 1
                 /\ tasks'[j].state \in {"DENIED", "FAILED"}
      <3>1. CASE j = i
        BY <1>0, <1>5, <3>1
      <3>2. CASE j # i
        <4>1. tasks'[j] = tasks[j] /\ tasks[j].used /\ tasks[j].id \in Nat
          BY <1>3, <1>5, <2>1, <3>2 DEF TaskType
        <4> QED BY <1>0, <4>1 DEF AttemptInv, TableInv
      <3> QED BY <3>1, <3>2
    <2> QED BY <1>0, <1>3, <1>5, <2>1 DEF TableInv
  <1>9. IdsInv'
    <2> SUFFICES ASSUME NEW k \in 1 .. Len(log') PROVE log'[k].task_id < nid + 1
      BY DEF IdsInv
    <2>1. CASE k \in 1 .. n
      <3>1. log'[k].task_id < nid /\ log'[k].task_id \in Int
        <4>1. log \in Seq(Entries) /\ log'[k] = log[k]
          BY <1>1, <2>1 DEF RingInv
        <4>2. log[k] \in Entries
          BY <2>1, <4>1
        <4>3. log[k].task_id < nid
          BY <2>1 DEF AttemptInv, IdsInv
        <4> QED BY <4>1, <4>2, <4>3 DEF Entries
      <3> QED BY <1>0, <3>1
    <2>2. CASE k = n + 1
      BY <1>0, <1>1, <2>2
    <2> QED BY <1>6, <2>1, <2>2
  <1>10. RecordedInv'
    <2> SUFFICES ASSUME NEW j \in Slots, tasks'[j].used
                 PROVE  \E k \in 1 .. Len(log') : RecordsIn(log', tasks'[j].id) = {k}
      BY DEF RecordedInv
    <2>1. CASE j = i
      <3>1. RecordsIn(log, nid) = {}
        <4>1. \A k \in 1 .. n : log[k].task_id # nid
          BY <1>0 DEF AttemptInv, IdsInv
        <4> QED BY <4>1 DEF RecordsIn
      <3>2. RecordsIn(log', nid) = {n + 1}
        BY <1>2, <3>1
      <3> QED BY <1>5, <1>7, <2>1, <3>2
    <2>2. CASE j # i
      <3>1. tasks'[j] = tasks[j] /\ tasks[j].used /\ tasks[j].id # nid
        BY <1>3, <1>5, <2>2
      <3>2. RecordsIn(log', tasks[j].id) = RecordsIn(log, tasks[j].id)
        BY <1>2, <3>1
      <3>3. PICK k \in 1 .. n : RecordsIn(log, tasks[j].id) = {k}
        BY <3>1 DEF AttemptInv, RecordedInv
      <3> QED BY <1>7, <3>1, <3>2, <3>3
    <2> QED BY <2>1, <2>2
  <1>11. RefusedInv'
    <2>1. RecordsIn(log, -1) = {}
      BY <1>0 DEF AttemptInv, RefusedInv
    <2>2. nid # -1
      BY <1>0
    <2>3. RecordsIn(log', -1) = {}
      BY <1>2, <2>1, <2>2
    <2> QED BY <2>3 DEF RefusedInv
  <1>12. KnownInv'
    <2> SUFFICES ASSUME NEW k \in 1 .. Len(log'), log'[k].task_id > 0
                 PROVE  \E j \in Slots : tasks'[j].used /\ tasks'[j].id = log'[k].task_id
      BY DEF KnownInv
    <2>1. CASE k \in 1 .. n
      <3>1. PICK j \in Slots : tasks[j].used /\ tasks[j].id = log[k].task_id
        BY <1>1, <2>1 DEF AttemptInv, KnownInv
      <3>2. j # i
        BY <1>0, <3>1
      <3> QED BY <1>1, <1>5, <2>1, <3>1, <3>2
    <2>2. CASE k = n + 1
      BY <1>0, <1>1, <1>5, <2>2
    <2> QED BY <1>6, <2>1, <2>2
  <1> QED BY <1>8, <1>9, <1>10, <1>11, <1>12 DEF AttemptInv

----------------------------------------------------------------------------
(* The AI layer.                                                           *)

AiInv == RingInv /\ AttemptInv

LEMMA AiInit == Init => AiInv
  <1> SUFFICES ASSUME Init PROVE AiInv
    OBVIOUS
  <1> USE AiAssumption
  <1>1. log = <<>> /\ log \in Seq(Entries) /\ Len(log) = 0
    BY DEF Init
  <1>2. None \in Entries
    BY DEF None, Entries, Actions, Decisions
  <1>3. RingInv
    BY <1>1, <1>2 DEF Init, RingInv, Cells
  <1>4. \A i \in Slots : tasks[i] = NoTask /\ ~tasks[i].used
    BY DEF Init, NoTask
  <1>5. NoTask \in TaskType
    BY DEF NoTask, TaskType
  <1>6. TableInv
    <2>1. tasks \in [Slots -> TaskType]
      BY <1>5 DEF Init
    <2>2. next_task_id \in Nat \ {0}
      BY DEF Init
    <2>3. net_bridge \in BOOLEAN
      BY DEF Init
    <2> QED BY <1>4, <2>1, <2>2, <2>3 DEF TableInv
  <1>7. IdsInv /\ RecordedInv /\ RefusedInv /\ KnownInv
    BY <1>1, <1>4 DEF IdsInv, RecordedInv, RefusedInv, KnownInv, RecordsIn
  <1> QED BY <1>3, <1>6, <1>7 DEF AiInv, AttemptInv

LEMMA AiStep == AiInv /\ [Next]_vars => AiInv'
  <1> SUFFICES ASSUME RingInv, AttemptInv, [Next]_vars PROVE RingInv' /\ AttemptInv'
    BY DEF AiInv
  <1>1. ASSUME NEW a \in Actions \ {"bridge.connect"}, ai_audit_record(a, "ALLOW", 0),
               UNCHANGED <<tasks, next_task_id, net_bridge>>
        PROVE  RingInv' /\ AttemptInv'
    <2>1. a \in Actions /\ "ALLOW" \in Decisions /\ 0 \in Int
      BY DEF Decisions
    <2> QED BY <1>1, <2>1, RecordStep, ShowStep
  <1>2. ASSUME NEW a \in {"ai.status", "ai.models", "ai.policy"}, cmd_show(a)
        PROVE  RingInv' /\ AttemptInv'
    BY <1>1, <1>2 DEF cmd_show, Actions
  <1>3. CASE cmd_tasks
    BY <1>1, <1>3 DEF cmd_tasks, Actions
  <1>4. CASE cmd_bridge
    <2>0. "bridge.connect" \in Actions /\ "DENY" \in Decisions /\ -1 \in Int /\ next_task_id \in Int
      BY DEF Actions, Decisions, AttemptInv, TableInv
    <2>1. CASE /\ ai_task_count = Slots /\ tasks' = Settled(tasks, -1)
               /\ ai_audit_record("bridge.connect", "DENY", -1) /\ UNCHANGED <<next_task_id, net_bridge>>
      BY <2>0, <2>1, RecordStep, RefusedStep
    <2>2. ASSUME NEW i \in Slots \ ai_task_count, tasks' = Settled(Created(i), next_task_id),
                 next_task_id' = next_task_id + 1, UNCHANGED net_bridge,
                 ai_audit_record("bridge.connect", "DENY", next_task_id)
          PROVE  RingInv' /\ AttemptInv'
      BY <2>0, <2>2, RecordStep, CreatedStep
    <2> QED BY <1>4, <2>1, <2>2 DEF cmd_bridge
  <1>5. ASSUME NEW allow \in BOOLEAN, ai_policy_set(allow)
        PROVE  RingInv' /\ AttemptInv'
    BY <1>5 DEF ai_policy_set, ring, RingInv, AttemptInv, TableInv, IdsInv, RecordedInv, RefusedInv,
                KnownInv
  <1>6. CASE UNCHANGED vars
    BY <1>6 DEF vars, RingInv, AttemptInv, TableInv, IdsInv, RecordedInv, RefusedInv, KnownInv
  <1> QED BY <1>2, <1>3, <1>4, <1>5, <1>6 DEF Next, ai_command

\* The AI layer is used by the shell alone: its steps in a session are its own.
LEMMA SessionIsAi == SessionSpec => Spec
  <1>1. SessionInit => Init
    BY DEF SessionInit
  <1>2. [SessionNext]_<<vars, shellVars, session>> => [Next]_vars
    BY DEF SessionNext
  <1> QED BY <1>1, <1>2, PTL DEF SessionSpec, Spec

\* Whatever the sizes of the rings and of the task table, `ai audit' shows the
\* newest records, newest first, however often the ring has wrapped.
THEOREM AuditShowsLog == SessionSpec => []AuditIsLog
  <1>1. AiInv => AuditIsLog
    BY RingRead DEF AiInv
  <1> QED BY <1>1, AiInit, AiStep, SessionIsAi, PTL DEF Spec

\* Every attempt to use the bridge ends denied or failed and has its one
\* record: identifiers are never reused, and a full table loses no record.
THEOREM AttemptsAlwaysSettled == SessionSpec => []AttemptsSettled
  <1>1. AiInv => AttemptsSettled
    BY AttemptRead DEF AiInv
  <1> QED BY <1>1, AiInit, AiStep, SessionIsAi, PTL DEF Spec

----------------------------------------------------------------------------
(* Rings.                                                                  *)

\* The ring r of H cells, after w elements of S, holds the sequence q of the
\* last of them, each where w counted it.
Holds(r, w, q, H, S) ==
    /\ w \in Nat /\ r \in [0 .. H - 1 -> S] /\ q \in Seq(S)
    /\ Len(q) = IF w > H THEN H ELSE w
    /\ \A k \in 1 .. Len(q) : r[(w - Len(q) + k - 1) % H] = q[k]

\* Two positions less than a lap apart are in different cells.
LEMMA ModDiffers ==
    ASSUME NEW H \in Nat \ {0}, NEW x \in Nat, NEW y \in Nat, x < y, y < x + H
    PROVE  x % H # y % H
  <1> DEFINE a == x \div H
             b == y \div H
  <1>1. a \in Int /\ x = H * a + (x % H) /\ x % H \in 0 .. H - 1
    OBVIOUS
  <1>2. b \in Int /\ y = H * b + (y % H) /\ y % H \in 0 .. H - 1
    OBVIOUS
  <1> HIDE DEF a, b
  <1> SUFFICES ASSUME x % H = y % H PROVE FALSE
    OBVIOUS
  <1>3. H * a < H * b /\ H * b < H * a + H
    BY <1>1, <1>2
  <1>4. CASE b <= a
    <2>1. H * b <= H * a
      BY <1>1, <1>2, <1>4
    <2> QED BY <1>1, <1>2, <1>3, <2>1
  <1>5. CASE b >= a + 1
    <2>1. H * b >= H * (a + 1) /\ H * (a + 1) = H * a + H
      BY <1>1, <1>2, <1>5
    <2> QED BY <1>1, <1>2, <1>3, <2>1
  <1> QED BY <1>1, <1>2, <1>4, <1>5

LEMMA LatestValue ==
    ASSUME NEW S, NEW H \in Nat \ {0}, NEW s \in Seq(S), Len(s) = H + 1
    PROVE  /\ Latest(s, H) \in Seq(S) /\ Len(Latest(s, H)) = H
           /\ \A k \in 1 .. H : Latest(s, H)[k] = s[k + 1]
  <1>1. Latest(s, H) = SubSeq(s, 2, H + 1)
    <2>1. ~(Len(s) <= H) /\ Len(s) - H + 1 = 2
      OBVIOUS
    <2> QED BY <2>1 DEF Latest
  <1>2. SubSeq(s, 2, H + 1) \in Seq(S) /\ Len(SubSeq(s, 2, H + 1)) = H
    OBVIOUS
  <1>3. \A k \in 1 .. H : SubSeq(s, 2, H + 1)[k] = s[k + 1]
    OBVIOUS
  <1> QED BY <1>1, <1>2, <1>3

\* What a ring is read as, from its oldest cell on.
LEMMA HoldsRead ==
    ASSUME NEW H \in Nat \ {0}, NEW S, NEW r, NEW w, NEW q, Holds(r, w, q, H, S)
    PROVE  LET start == IF w > H THEN w - H ELSE 0
           IN [k \in 1 .. w - start |-> r[(start + k - 1) % H]] = q
  <1> DEFINE start == IF w > H THEN w - H ELSE 0
  <1>1. w \in Nat /\ q \in Seq(S) /\ Len(q) = IF w > H THEN H ELSE w
    BY DEF Holds
  <1>2. start = w - Len(q) /\ w - start = Len(q)
    BY <1>1
  <1>3. \A k \in 1 .. Len(q) : r[(w - Len(q) + k - 1) % H] = q[k]
    BY DEF Holds
  <1>4. q = [k \in 1 .. Len(q) |-> q[k]]
    BY <1>1
  <1> HIDE DEF start
  <1>5. [k \in 1 .. w - start |-> r[(start + k - 1) % H]] = [k \in 1 .. Len(q) |-> q[k]]
    BY <1>2, <1>3
  <1>6. [k \in 1 .. w - start |-> r[(start + k - 1) % H]] = q
    BY <1>4, <1>5
  <1> QED BY <1>6 DEF start

\* A new element overwrites the oldest one, if the ring is full, and keeps the
\* others in their order.
LEMMA HoldsNext ==
    ASSUME NEW H \in Nat \ {0}, NEW S, NEW r, NEW w, NEW q, NEW e \in S,
           Holds(r, w, q, H, S)
    PROVE  Holds([r EXCEPT ![w % H] = e], w + 1, Latest(Append(q, e), H), H, S)
  <1> DEFINE n == Len(q)
             t == Append(q, e)
             c == w % H
             a == w - n
             r1 == [r EXCEPT ![c] = e]
             q1 == Latest(t, H)
  <1>0. /\ w \in Nat /\ n \in Nat /\ n <= H /\ n <= w /\ a \in Nat
        /\ n = IF w > H THEN H ELSE w
        /\ r \in [0 .. H - 1 -> S] /\ q \in Seq(S)
    BY DEF Holds
  <1>k. \A k \in 1 .. n : r[(a + k - 1) % H] = q[k]
    BY DEF Holds
  <1>2. /\ t \in Seq(S) /\ Len(t) = n + 1
        /\ \A k \in 1 .. n : t[k] = q[k]
        /\ t[n + 1] = e
    BY <1>0, AppendElements
  <1>3. c \in 0 .. H - 1
    BY <1>0
  <1>4. r1 \in [0 .. H - 1 -> S] /\ r1[c] = e
    BY <1>0, <1>3
  <1>5. ASSUME NEW k \in 1 .. n, n < H \/ k > 1
        PROVE  r1[(a + k - 1) % H] = t[k]
    <2>1. a + k - 1 \in Nat /\ a + k - 1 < w /\ w < a + k - 1 + H
      BY <1>0, <1>5
    <2> DEFINE p == a + k - 1
    <2>2. p % H # c
      BY <1>0, <2>1, ModDiffers
    <2>3. p % H \in 0 .. H - 1
      BY <2>1
    <2>4. r[p % H] = q[k]
      BY <1>k
    <2> HIDE DEF p
    <2>5. r1[p % H] = t[k]
      BY <1>0, <1>2, <2>2, <2>3, <2>4
    <2> QED BY <2>5 DEF p
  <1>6. ASSUME n < H PROVE Holds(r1, w + 1, q1, H, S)
    <2> HIDE DEF t, c, n, a, r1
    <2>1. q1 = t
      BY <1>0, <1>2, <1>6 DEF Latest
    <2> HIDE DEF q1
    <2>2. Len(t) = IF w + 1 > H THEN H ELSE w + 1
      BY <1>0, <1>2, <1>6
    <2>3. w + 1 - Len(t) = a
      BY <1>0, <1>2 DEF a
    <2>4. ASSUME NEW k \in 1 .. n + 1 PROVE r1[(a + k - 1) % H] = t[k]
      <3>1. ASSUME k \in 1 .. n PROVE r1[(a + k - 1) % H] = t[k]
        BY <1>5, <1>6, <3>1
      <3>2. ASSUME k = n + 1 PROVE r1[(a + k - 1) % H] = t[k]
        <4>1. a + k - 1 = w
          BY <1>0, <3>2 DEF a
        <4> QED BY <1>2, <1>4, <3>2, <4>1 DEF c
      <3> QED BY <1>0, <3>1, <3>2
    <2>5. /\ q1 \in Seq(S) /\ Len(q1) = IF w + 1 > H THEN H ELSE w + 1
          /\ \A k \in 1 .. Len(q1) : r1[(w + 1 - Len(q1) + k - 1) % H] = q1[k]
      BY <1>2, <2>1, <2>2, <2>3, <2>4
    <2>6. w + 1 \in Nat
      BY <1>0
    <2> QED BY <1>4, <2>5, <2>6 DEF Holds
  <1>7. ASSUME n = H PROVE Holds(r1, w + 1, q1, H, S)
    <2>1. /\ q1 \in Seq(S) /\ Len(q1) = H
          /\ \A k \in 1 .. H : q1[k] = t[k + 1]
      BY <1>2, <1>7, LatestValue
    <2> HIDE DEF t, c, n, a, r1, q1
    <2>2. Len(q1) = IF w + 1 > H THEN H ELSE w + 1
      BY <1>0, <1>7, <2>1
    <2>3. w + 1 - Len(q1) = a + 1
      BY <1>0, <1>7, <2>1 DEF a
    <2>4. ASSUME NEW k \in 1 .. H PROVE r1[(a + 1 + k - 1) % H] = q1[k]
      <3>0. a + 1 + k - 1 = a + (k + 1) - 1
        BY <1>0
      <3>1. ASSUME k < H PROVE r1[(a + 1 + k - 1) % H] = q1[k]
        <4>1. k + 1 \in 1 .. n /\ k + 1 > 1
          BY <1>0, <1>7, <3>1
        <4>2. r1[(a + (k + 1) - 1) % H] = t[k + 1]
          BY <1>5, <4>1
        <4> QED BY <2>1, <3>0, <4>2
      <3>2. ASSUME k = H PROVE r1[(a + 1 + k - 1) % H] = q1[k]
        <4>1. a + 1 + k - 1 = w
          BY <1>0, <1>7, <3>2 DEF a
        <4>2. r1[w % H] = e
          BY <1>4 DEF c
        <4> QED BY <1>2, <1>7, <2>1, <3>2, <4>1, <4>2
      <3> QED BY <3>1, <3>2
    <2>5. \A k \in 1 .. Len(q1) : r1[(w + 1 - Len(q1) + k - 1) % H] = q1[k]
      BY <2>1, <2>3, <2>4
    <2>6. w + 1 \in Nat
      BY <1>0
    <2> QED BY <1>4, <2>1, <2>2, <2>5, <2>6 DEF Holds
  <1>8. n < H \/ n = H
    BY <1>0
  <1> HIDE DEF n, t, a, r1, q1, c
  <1>9. Holds(r1, w + 1, q1, H, S)
    BY <1>6, <1>7, <1>8
  <1> QED BY <1>9 DEF r1, q1, t, c

----------------------------------------------------------------------------
(* Induction over the numbers, as sets of numbers, and folds.              *)

\* The library states induction for operators, which the provers cannot
\* instantiate; here it is for sets.
NatLess == {p \in Nat \X Nat : p[1] < p[2]}

LEMMA NatLessWF == IsWellFoundedOn(NatLess, Nat)
  <1>1. NatLess = OpToRel(<, Nat)
    BY Zenon DEF OpToRel, NatLess
  <1>2. IsWellFoundedOn(OpToRel(<, Nat), Nat)
    BY NatLessThanWellFounded, Zenon
  <1> QED BY <1>1, <1>2, Zenon

LEMMA SetInduction ==
    ASSUME NEW T, 0 \in T, \A k \in Nat : k \in T => k + 1 \in T
    PROVE  Nat \subseteq T
  <1> DEFINE U == Nat \ T
  <1> SUFFICES ASSUME U # {} PROVE FALSE
    OBVIOUS
  <1>1. PICK x \in U : \A y \in U : ~(<<y, x>> \in NatLess)
    BY NatLessWF, WFMin, Zenon
  <1>2. \A y \in U : ~(y < x)
    BY <1>1 DEF NatLess
  <1> QED BY <1>2

LEMMA MaxUpTo ==
    ASSUME NEW n \in Nat, NEW s \in SUBSET (1 .. n + 1), n + 1 \in s
    PROVE  Max(s) = n + 1
  <1>1. n + 1 \in s /\ \A y \in s : n + 1 >= y
    OBVIOUS
  <1>2. \A x \in s : (\A y \in s : x >= y) => x = n + 1
    BY <1>1
  <1> QED BY <1>1, <1>2 DEF Max

\* A fold over a sequence, as MapThenFoldSet computes it: the elements of a set
\* of positions are taken from the last one back to the first.
FoldOf(g, F, o, t, D) ==
    /\ g \in [SUBSET (1 .. Len(t)) -> D]
    /\ \A s \in SUBSET (1 .. Len(t)) :
          g[s] = IF s = {} THEN o ELSE F[<<g[s \ {Max(s)}], t[Max(s)]>>]

LEMMA FoldExists ==
    ASSUME NEW D, NEW C, NEW F \in [D \X C -> D], NEW o \in D, NEW t \in Seq(C)
    PROVE  \E g : FoldOf(g, F, o, t, D)
  <1> DEFINE N == Len(t)
             Step(g, s) == IF s = {} THEN o ELSE F[<<g[s \ {Max(s)}], t[Max(s)]>>]
             T == {n \in Nat : n <= N =>
                     \E g \in [SUBSET (1 .. n) -> D] : \A s \in SUBSET (1 .. n) : g[s] = Step(g, s)}
  <1>0. N \in Nat /\ \A k \in 1 .. N : t[k] \in C
    OBVIOUS
  <1> HIDE DEF N
  <1>2. 0 \in T
    <2> DEFINE g == [s \in SUBSET (1 .. 0) |-> o]
    <2>1. \A s \in SUBSET (1 .. 0) : s = {}
      OBVIOUS
    <2>2. \A s \in SUBSET (1 .. 0) : g[s] = Step(g, s)
      BY <2>1
    <2>3. g \in [SUBSET (1 .. 0) -> D]
      OBVIOUS
    <2> QED BY <2>2, <2>3
  <1>3. ASSUME NEW n \in Nat, n \in T PROVE n + 1 \in T
    <2>9. n + 1 \in Nat
      OBVIOUS
    <2> SUFFICES ASSUME n + 1 <= N
                 PROVE  \E h \in [SUBSET (1 .. n + 1) -> D] :
                           \A s \in SUBSET (1 .. n + 1) : h[s] = Step(h, s)
      BY <2>9
    <2>0. t[n + 1] \in C /\ n <= N
      BY <1>0
    <2>1. PICK g \in [SUBSET (1 .. n) -> D] : \A s \in SUBSET (1 .. n) : g[s] = Step(g, s)
      BY <1>3, <2>0
    <2> DEFINE P == SUBSET (1 .. n + 1)
               h == [s \in P |-> IF n + 1 \in s THEN F[<<g[s \ {n + 1}], t[n + 1]>>] ELSE g[s]]
    <2>2. ASSUME NEW s \in P PROVE h[s] = Step(h, s) /\ h[s] \in D
      <3>1. CASE n + 1 \in s
        <4>1. Max(s) = n + 1
          BY <3>1, MaxUpTo
        <4>2. /\ s \ {n + 1} \in P /\ n + 1 \notin s \ {n + 1} /\ s # {}
              /\ s \ {n + 1} \in SUBSET (1 .. n)
          BY <3>1
        <4>3. h[s] = F[<<g[s \ {n + 1}], t[n + 1]>>] /\ h[s \ {n + 1}] = g[s \ {n + 1}]
          BY <3>1, <4>2
        <4>4. h[s] \in D
          BY <2>0, <4>2, <4>3
        <4> QED BY <4>1, <4>2, <4>3, <4>4
      <3>2. CASE n + 1 \notin s
        <4>1. s \in SUBSET (1 .. n)
          BY <3>2
        <4>2. g[s] = Step(g, s) /\ g[s] \in D
          BY <2>1, <4>1
        <4>3. s \ {Max(s)} \in P /\ n + 1 \notin s \ {Max(s)}
          BY <3>2
        <4>4. h[s] = g[s] /\ h[s \ {Max(s)}] = g[s \ {Max(s)}]
          BY <3>2, <4>3
        <4> QED BY <4>2, <4>4
      <3> QED BY <3>1, <3>2
    <2>3. h \in [P -> D]
      BY <2>2
    <2> QED BY <2>2, <2>3
  <1>4. N \in T
    <2> HIDE DEF T
    <2> QED BY <1>0, <1>2, <1>3, SetInduction
  <1>5. N <= N
    BY <1>0
  <1>6. \E g \in [SUBSET (1 .. N) -> D] : \A s \in SUBSET (1 .. N) : g[s] = Step(g, s)
    BY <1>4, <1>5
  <1> QED BY <1>6 DEF N, FoldOf

\* The first k positions, of which the last is taken first.
LEMMA FirstPositions ==
    ASSUME NEW n \in Nat, NEW k \in 0 .. n - 1
    PROVE  /\ 1 .. k + 1 \in SUBSET (1 .. n) /\ 1 .. k + 1 # {}
           /\ Max(1 .. k + 1) = k + 1 /\ (1 .. k + 1) \ {k + 1} = 1 .. k
  <1>1. k \in Nat /\ k + 1 \in 1 .. k + 1
    OBVIOUS
  <1>2. 1 .. k + 1 \in SUBSET (1 .. n) /\ 1 .. k + 1 # {}
    BY <1>1
  <1>3. (1 .. k + 1) \ {k + 1} = 1 .. k
    BY <1>1
  <1>4. Max(1 .. k + 1) = k + 1
    BY <1>1, MaxUpTo
  <1> QED BY <1>2, <1>3, <1>4

LEMMA StaysIn ==
    ASSUME NEW n \in Nat, NEW D, NEW f, f[0] \in D,
           \A k \in 0 .. n - 1 : f[k] \in D => f[k + 1] \in D
    PROVE  \A k \in 0 .. n : f[k] \in D
  <1> DEFINE T == {k \in Nat : k <= n => f[k] \in D}
  <1>1. 0 \in T
    OBVIOUS
  <1>2. \A k \in Nat : k \in T => k + 1 \in T
    OBVIOUS
  <1>3. Nat \subseteq T
    <2> HIDE DEF T
    <2> QED BY <1>1, <1>2, SetInduction
  <1> QED BY <1>3

----------------------------------------------------------------------------
(* Screens, as positions counted from the first row on.                    *)

\* What is ever printed, and the empty cell of the log.
Chars == Letters \cup {NL, BS, " ", ">", "#", ""}

Matrix == [0 .. ROWS - 1 -> [0 .. COLS - 1 -> Chars]]

\* The character of the matrix m at the position p.
CellAt(m, p) == m[p \div COLS][p % COLS]

Positions == 0 .. ROWS * COLS - 1

\* The position of the cursor.
Offset(s) == s.row * COLS + s.col

ScreenType == [cells : Matrix, row : 0 .. ROWS - 1, col : 0 .. COLS - 1]

\* Nothing stands behind the cursor.
Screens == {s \in ScreenType : \A p \in Positions : p >= Offset(s) => CellAt(s.cells, p) = " "}

\* The matrix m scrolled up by a row.
Up(m) == [y \in 0 .. ROWS - 1 |-> IF y < ROWS - 1 THEN m[y + 1] ELSE Blank[y]]

LEMMA ScreenSize == ROWS \in Nat \ {0} /\ COLS \in Nat \ {0}
  BY ConsoleAssumption

LEMMA PlaceUnique ==
    ASSUME NEW y \in Int, NEW x \in 0 .. COLS - 1, NEW z \in Int, NEW v \in 0 .. COLS - 1,
           y * COLS + x = z * COLS + v
    PROVE  y = z /\ x = v
  <1>0. COLS \in Nat \ {0}
    BY ScreenSize
  <1>1. ~(y < z)
    <2> SUFFICES ASSUME y + 1 <= z PROVE FALSE
      OBVIOUS
    <2>1. (y + 1) * COLS <= z * COLS /\ (y + 1) * COLS = y * COLS + COLS
      BY <1>0
    <2>2. y * COLS \in Int /\ z * COLS \in Int
      BY <1>0
    <2> QED BY <1>0, <2>1, <2>2
  <1>2. ~(z < y)
    <2> SUFFICES ASSUME z + 1 <= y PROVE FALSE
      OBVIOUS
    <2>1. (z + 1) * COLS <= y * COLS /\ (z + 1) * COLS = z * COLS + COLS
      BY <1>0
    <2>2. y * COLS \in Int /\ z * COLS \in Int
      BY <1>0
    <2> QED BY <1>0, <2>1, <2>2
  <1>3. y = z
    BY <1>1, <1>2
  <1>4. y * COLS \in Int
    BY <1>0
  <1> QED BY <1>0, <1>3, <1>4

LEMMA PlaceSplits ==
    ASSUME NEW p \in Int
    PROVE  /\ p \div COLS \in Int /\ p % COLS \in 0 .. COLS - 1
           /\ p = (p \div COLS) * COLS + (p % COLS)
  BY ScreenSize

LEMMA PlaceOf ==
    ASSUME NEW y \in Int, NEW x \in 0 .. COLS - 1
    PROVE  /\ y * COLS + x \in Int
           /\ (y * COLS + x) \div COLS = y /\ (y * COLS + x) % COLS = x
  <1> DEFINE p == y * COLS + x
  <1>1. p \in Int
    BY ScreenSize
  <1>2. /\ p \div COLS \in Int /\ p % COLS \in 0 .. COLS - 1
        /\ p = (p \div COLS) * COLS + (p % COLS)
    BY <1>1, PlaceSplits
  <1> DEFINE z == p \div COLS
             v == p % COLS
  <1>3. z \in Int /\ v \in 0 .. COLS - 1 /\ y * COLS + x = z * COLS + v
    BY <1>2
  <1> HIDE DEF z, v
  <1>4. y = z /\ x = v
    BY <1>3, PlaceUnique
  <1> QED BY <1>1, <1>4 DEF z, v

LEMMA PlaceRow ==
    ASSUME NEW p \in Positions
    PROVE  p \div COLS \in 0 .. ROWS - 1
  <1> DEFINE z == p \div COLS
             v == p % COLS
  <1>0. ROWS \in Nat \ {0} /\ COLS \in Nat \ {0} /\ ROWS * COLS \in Nat
    BY ScreenSize
  <1>1. p \in Int /\ 0 <= p /\ p < ROWS * COLS
    BY <1>0 DEF Positions
  <1>2. z \in Int /\ v \in 0 .. COLS - 1 /\ p = z * COLS + v
    BY <1>1, PlaceSplits
  <1> HIDE DEF z, v
  <1>3. ~(z < 0)
    <2> SUFFICES ASSUME z + 1 <= 0 PROVE FALSE
      BY <1>2
    <2>1. (z + 1) * COLS <= 0 /\ (z + 1) * COLS = z * COLS + COLS /\ z * COLS \in Int
      BY <1>0, <1>2
    <2> QED BY <1>0, <1>1, <1>2, <2>1
  <1>4. ~(z >= ROWS)
    <2> SUFFICES ASSUME z >= ROWS PROVE FALSE
      OBVIOUS
    <2>1. z * COLS >= ROWS * COLS /\ z * COLS \in Int
      BY <1>0, <1>2
    <2> QED BY <1>0, <1>1, <1>2, <2>1
  <1> QED BY <1>0, <1>2, <1>3, <1>4 DEF z

\* The row above is COLS positions before.
LEMMA PlaceBelow ==
    ASSUME NEW p \in Int
    PROVE  (p + COLS) \div COLS = p \div COLS + 1 /\ (p + COLS) % COLS = p % COLS
  <1> DEFINE z == p \div COLS
             v == p % COLS
  <1>1. z \in Int /\ v \in 0 .. COLS - 1 /\ p = z * COLS + v
    BY PlaceSplits
  <1> HIDE DEF z, v
  <1>2. p + COLS = (z + 1) * COLS + v /\ z + 1 \in Int
    BY <1>1, ScreenSize
  <1>3. (p + COLS) \div COLS = z + 1 /\ (p + COLS) % COLS = v
    BY <1>1, <1>2, PlaceOf
  <1> QED BY <1>3 DEF z, v

LEMMA PlaceType ==
    ASSUME NEW y \in 0 .. ROWS - 1, NEW x \in 0 .. COLS - 1
    PROVE  y * COLS + x \in Positions
  <1>0. ROWS \in Nat \ {0} /\ COLS \in Nat \ {0} /\ ROWS * COLS \in Nat
    BY ScreenSize
  <1>1. y + 1 <= ROWS /\ (y + 1) * COLS = y * COLS + COLS
    BY <1>0
  <1>2. (y + 1) * COLS <= ROWS * COLS /\ y * COLS \in Nat
    BY <1>0, <1>1
  <1> QED BY <1>0, <1>1, <1>2 DEF Positions

LEMMA PutCell ==
    ASSUME NEW m \in Matrix, NEW y \in 0 .. ROWS - 1, NEW x \in 0 .. COLS - 1, NEW c \in Chars
    PROVE  LET n == [m EXCEPT ![y][x] = c]
           IN /\ n \in Matrix
              /\ \A p \in Positions :
                    CellAt(n, p) = IF p = y * COLS + x THEN c ELSE CellAt(m, p)
  <1> DEFINE n == [m EXCEPT ![y][x] = c]
  <1>1. n \in Matrix
    BY DEF Matrix
  <1>2. ASSUME NEW p \in Positions
        PROVE  CellAt(n, p) = IF p = y * COLS + x THEN c ELSE CellAt(m, p)
    <2>1. p \in Int /\ p \div COLS \in 0 .. ROWS - 1
      BY PlaceRow DEF Positions
    <2>2. p % COLS \in 0 .. COLS - 1 /\ p = (p \div COLS) * COLS + (p % COLS)
      BY <2>1, PlaceSplits
    <2> DEFINE z == p \div COLS
               v == p % COLS
    <2>3. z \in 0 .. ROWS - 1 /\ v \in 0 .. COLS - 1 /\ p = z * COLS + v
      BY <2>1, <2>2
    <2> HIDE DEF z, v
    <2>4. p = y * COLS + x <=> z = y /\ v = x
      BY <2>3, PlaceUnique
    <2>5. n[z][v] = IF z = y /\ v = x THEN c ELSE m[z][v]
      BY <2>3 DEF Matrix
    <2> QED BY <2>4, <2>5 DEF CellAt, z, v
  <1> QED BY <1>1, <1>2

LEMMA UpCell ==
    ASSUME NEW m \in Matrix
    PROVE  /\ Up(m) \in Matrix
           /\ \A p \in Positions :
                CellAt(Up(m), p) = IF p + COLS \in Positions THEN CellAt(m, p + COLS) ELSE " "
  <1>0. ROWS \in Nat \ {0} /\ COLS \in Nat \ {0} /\ ROWS * COLS \in Nat
    BY ScreenSize
  <1>1. Up(m) \in Matrix
    <2>1. \A y \in 0 .. ROWS - 1 : Blank[y] \in [0 .. COLS - 1 -> Chars]
      BY DEF Blank, Chars
    <2>2. \A y \in 0 .. ROWS - 1 : y < ROWS - 1 => m[y + 1] \in [0 .. COLS - 1 -> Chars]
      BY <1>0 DEF Matrix
    <2> QED BY <2>1, <2>2 DEF Up, Matrix
  <1>2. ASSUME NEW p \in Positions
        PROVE  CellAt(Up(m), p) = IF p + COLS \in Positions THEN CellAt(m, p + COLS) ELSE " "
    <2>1. p \in Int /\ p \div COLS \in 0 .. ROWS - 1
      BY PlaceRow DEF Positions
    <2>2. p % COLS \in 0 .. COLS - 1 /\ p = (p \div COLS) * COLS + (p % COLS)
      BY <2>1, PlaceSplits
    <2> DEFINE z == p \div COLS
               v == p % COLS
    <2>3. z \in 0 .. ROWS - 1 /\ v \in 0 .. COLS - 1 /\ p = z * COLS + v
      BY <2>1, <2>2
    <2>4. (p + COLS) \div COLS = z + 1 /\ (p + COLS) % COLS = v
      BY <2>1, PlaceBelow
    <2> HIDE DEF z, v
    <2>5. ASSUME z < ROWS - 1
          PROVE  CellAt(Up(m), p) = CellAt(m, p + COLS) /\ p + COLS \in Positions
      <3>1. Up(m)[z] = m[z + 1]
        BY <2>3, <2>5 DEF Up
      <3>2. p + COLS = (z + 1) * COLS + v /\ z + 1 \in 0 .. ROWS - 1
        BY <1>0, <2>3, <2>5
      <3>3. p + COLS \in Positions
        BY <2>3, <3>2, PlaceType
      <3> QED BY <2>4, <3>1, <3>3 DEF CellAt, z, v
    <2>6. ASSUME z = ROWS - 1
          PROVE  CellAt(Up(m), p) = " " /\ p + COLS \notin Positions
      <3>1. Up(m)[z] = Blank[z]
        BY <2>3, <2>6 DEF Up
      <3>2. Blank[z][v] = " "
        BY <2>3 DEF Blank
      <3>3. p + COLS >= ROWS * COLS
        <4>1. (ROWS - 1) * COLS = ROWS * COLS - COLS
          BY <1>0
        <4> QED BY <1>0, <2>3, <2>6, <4>1
      <3>4. p + COLS \notin Positions
        BY <1>0, <2>1, <3>3 DEF Positions
      <3>5. CellAt(Up(m), p) = Up(m)[z][v]
        BY DEF CellAt, z, v
      <3> QED BY <3>1, <3>2, <3>4, <3>5
    <2>7. z < ROWS - 1 \/ z = ROWS - 1
      BY <1>0, <2>3
    <2> QED BY <2>5, <2>6, <2>7
  <1> QED BY <1>1, <1>2

----------------------------------------------------------------------------
(* Putting a character, step by step.                                      *)

\* A screen between two steps: the cursor may be past the last row or column.
Passing == [cells : Matrix, row : Nat, col : Nat]

Broken(s) == [s EXCEPT !.col = 0, !.row = @ + 1]

Written(s, c) == [s EXCEPT !.cells[s.row][s.col] = c, !.col = @ + 1]

LEMMA FieldChanges ==
    ASSUME NEW s \in Passing
    PROVE  /\ \A a \in Nat : [s EXCEPT !.col = a] \in Passing
           /\ \A a \in Nat : [s EXCEPT !.row = a] \in Passing
           /\ \A a \in Matrix : [s EXCEPT !.cells = a] \in Passing
  BY DEF Passing

LEMMA BrokenValue ==
    ASSUME NEW s \in Passing
    PROVE  /\ Broken(s) \in Passing /\ Broken(s).cells = s.cells
           /\ Broken(s).row = s.row + 1 /\ Broken(s).col = 0
  <1> DEFINE e == [s EXCEPT !.col = 0]
  <1>1. s.row \in Nat
    BY DEF Passing
  <1>2. e \in Passing
    BY FieldChanges
  <1>3. Broken(s) = [e EXCEPT !.row = s.row + 1]
    BY DEF Broken
  <1>4. Broken(s).cells = s.cells /\ Broken(s).row = s.row + 1 /\ Broken(s).col = 0
    BY DEF Broken, Passing
  <1> HIDE DEF e
  <1>5. [e EXCEPT !.row = s.row + 1] \in Passing
    BY <1>1, <1>2, FieldChanges
  <1> QED BY <1>3, <1>4, <1>5

LEMMA WrittenValue ==
    ASSUME NEW s \in ScreenType, NEW c \in Chars
    PROVE  /\ Written(s, c) \in Passing /\ Written(s, c).cells = [s.cells EXCEPT ![s.row][s.col] = c]
           /\ Written(s, c).row = s.row /\ Written(s, c).col = s.col + 1
  <1> DEFINE n == [s.cells EXCEPT ![s.row][s.col] = c]
             e == [s EXCEPT !.cells = n]
  <1>1. /\ s.row \in 0 .. ROWS - 1 /\ s.col \in 0 .. COLS - 1 /\ s.cells \in Matrix
        /\ s \in Passing
    BY ScreenSize DEF ScreenType, Passing
  <1>2. n \in Matrix
    BY <1>1, PutCell
  <1>3. Written(s, c) = [e EXCEPT !.col = s.col + 1]
    BY DEF Written
  <1>4. Written(s, c).cells = n /\ Written(s, c).row = s.row /\ Written(s, c).col = s.col + 1
    BY DEF Written, ScreenType
  <1> HIDE DEF n
  <1>5. e \in Passing
    BY <1>1, <1>2, FieldChanges
  <1> HIDE DEF e
  <1>6. [e EXCEPT !.col = s.col + 1] \in Passing
    BY <1>1, <1>5, ScreenSize, FieldChanges
  <1> QED BY <1>3, <1>4, <1>6 DEF n

LEMMA ScrolledValue ==
    ASSUME NEW s \in Passing
    PROVE  /\ Scrolled(s) \in Passing /\ Scrolled(s).cells = Up(s.cells)
           /\ Scrolled(s).row = ROWS - 1 /\ Scrolled(s).col = s.col
  <1> DEFINE e == [s EXCEPT !.cells = Up(s.cells)]
  <1>1. s.cells \in Matrix
    BY DEF Passing
  <1>2. Up(s.cells) \in Matrix
    BY <1>1, UpCell
  <1>3. Scrolled(s) = [e EXCEPT !.row = ROWS - 1]
    BY DEF Scrolled, Up
  <1>4. Scrolled(s).cells = Up(s.cells) /\ Scrolled(s).row = ROWS - 1 /\ Scrolled(s).col = s.col
    BY DEF Scrolled, Up, Passing
  <1>5. e \in Passing
    BY <1>2, FieldChanges
  <1> HIDE DEF e
  <1>6. [e EXCEPT !.row = ROWS - 1] \in Passing
    BY <1>5, ScreenSize, FieldChanges
  <1> QED BY <1>3, <1>4, <1>6

LEMMA ErasedValue ==
    ASSUME NEW s \in ScreenType, s.col # 0
    PROVE  /\ Erased(s) \in Passing /\ Erased(s).cells = [s.cells EXCEPT ![s.row][s.col - 1] = " "]
           /\ Erased(s).row = s.row /\ Erased(s).col = s.col - 1
  <1> DEFINE n == [s.cells EXCEPT ![s.row][s.col - 1] = " "]
             e == [s EXCEPT !.col = s.col - 1]
  <1>1. /\ s.row \in 0 .. ROWS - 1 /\ s.col \in 0 .. COLS - 1 /\ s.cells \in Matrix
        /\ s \in Passing
    BY ScreenSize DEF ScreenType, Passing
  <1>2. n \in Matrix
    <2>1. " " \in Chars /\ s.col - 1 \in 0 .. COLS - 1
      BY <1>1, ScreenSize DEF Chars
    <2> QED BY <1>1, <2>1, PutCell
  <1>3. Erased(s) = [e EXCEPT !.cells = n]
    BY DEF Erased
  <1>4. Erased(s).cells = n /\ Erased(s).row = s.row /\ Erased(s).col = s.col - 1
    BY DEF Erased, ScreenType
  <1> HIDE DEF n
  <1>5. e \in Passing
    BY <1>1, ScreenSize, FieldChanges
  <1> HIDE DEF e
  <1>6. [e EXCEPT !.cells = n] \in Passing
    BY <1>2, <1>5, FieldChanges
  <1> QED BY <1>3, <1>4, <1>6 DEF n

Is(t, m, y, x) == t \in ScreenType /\ t.cells = m /\ t.row = y /\ t.col = x

\* To the next row, under which there may be none.
Wraps(t, m, y) ==
    IF y + 1 < ROWS THEN Is(t, m, y + 1, 0) ELSE Is(t, Up(m), ROWS - 1, 0)

\* What both consoles do with a character.
Puts(s, c, t) ==
    LET n == [s.cells EXCEPT ![s.row][s.col] = c]
    IN IF c = NL THEN Wraps(t, s.cells, s.row)
       ELSE IF c = BS THEN
            IF s.col = 0 THEN t = s
            ELSE Is(t, [s.cells EXCEPT ![s.row][s.col - 1] = " "], s.row, s.col - 1)
       ELSE IF s.col + 1 < COLS THEN Is(t, n, s.row, s.col + 1)
       ELSE Wraps(t, n, s.row)

LEMMA PassingIs ==
    ASSUME NEW t \in Passing, t.row < ROWS, t.col < COLS
    PROVE  Is(t, t.cells, t.row, t.col)
  BY ScreenSize DEF Passing, ScreenType, Is

LEMMA ScreenIsPassing ==
    ASSUME NEW s \in ScreenType
    PROVE  /\ s \in Passing /\ s.row \in 0 .. ROWS - 1 /\ s.col \in 0 .. COLS - 1
           /\ s.cells \in Matrix
  BY ScreenSize DEF ScreenType, Passing

\* A cursor that goes to the next row, on the screen that is scrolled if it is
\* the last.
LEMMA BreakWraps ==
    ASSUME NEW s \in Passing, s.row < ROWS
    PROVE  LET t == Broken(s)
           IN Wraps(IF t.row >= ROWS THEN Scrolled(t) ELSE t, s.cells, s.row)
  <1> DEFINE t == Broken(s)
  <1>0. ROWS \in Nat \ {0} /\ COLS \in Nat \ {0} /\ s.row \in Nat
    BY ScreenSize DEF Passing
  <1>1. t \in Passing /\ t.cells = s.cells /\ t.row = s.row + 1 /\ t.col = 0
    BY BrokenValue
  <1> HIDE DEF t
  <1>2. ASSUME s.row + 1 < ROWS PROVE ~(t.row >= ROWS) /\ Wraps(t, s.cells, s.row)
    <2>1. Is(t, t.cells, t.row, t.col)
      BY <1>0, <1>1, <1>2, PassingIs
    <2> QED BY <1>0, <1>1, <1>2, <2>1 DEF Wraps
  <1>3. ASSUME ~(s.row + 1 < ROWS) PROVE t.row >= ROWS /\ Wraps(Scrolled(t), s.cells, s.row)
    <2> DEFINE u == Scrolled(t)
    <2>1. u \in Passing /\ u.cells = Up(s.cells) /\ u.row = ROWS - 1 /\ u.col = 0
      BY <1>1, ScrolledValue
    <2> HIDE DEF u
    <2>2. Is(u, u.cells, u.row, u.col)
      BY <1>0, <2>1, PassingIs
    <2>3. Wraps(u, s.cells, s.row)
      BY <1>3, <2>1, <2>2 DEF Wraps
    <2>4. t.row >= ROWS
      BY <1>0, <1>1, <1>3
    <2> QED BY <2>3, <2>4 DEF u
  <1>4. Wraps(IF t.row >= ROWS THEN Scrolled(t) ELSE t, s.cells, s.row)
    BY <1>2, <1>3
  <1> QED BY <1>4 DEF t

LEMMA ErasePuts ==
    ASSUME NEW s \in ScreenType
    PROVE  Puts(s, BS, Erased(s)) /\ Erased(s).row < ROWS /\ Erased(s).col < COLS
  <1>0. NL # BS /\ ROWS \in Nat \ {0} /\ COLS \in Nat \ {0}
    BY ScreenSize DEF NL, BS
  <1>1. s.row \in 0 .. ROWS - 1 /\ s.col \in 0 .. COLS - 1
    BY ScreenIsPassing
  <1>2. CASE s.col = 0
    <2>1. Erased(s) = s
      BY <1>2 DEF Erased
    <2>2. Puts(s, BS, s)
      BY <1>0, <1>2 DEF Puts
    <2> QED BY <1>0, <1>1, <2>1, <2>2
  <1>3. CASE s.col # 0
    <2> DEFINE t == Erased(s)
    <2>1. /\ t \in Passing /\ t.cells = [s.cells EXCEPT ![s.row][s.col - 1] = " "]
          /\ t.row = s.row /\ t.col = s.col - 1
      BY <1>3, ErasedValue
    <2> HIDE DEF t
    <2>2. t.row < ROWS /\ t.col < COLS
      <3>1. t.row = s.row /\ t.col = s.col - 1
        BY <2>1
      <3> QED BY <1>0, <1>1, <3>1
    <2>3. Is(t, t.cells, t.row, t.col)
      BY <2>1, <2>2, PassingIs
    <2>4. Puts(s, BS, t)
      BY <1>0, <1>3, <2>1, <2>3 DEF Puts
    <2> QED BY <2>2, <2>4 DEF t
  <1> QED BY <1>2, <1>3

LEMMA VgaSteps ==
    ASSUME NEW s, NEW c
    PROVE  vga_putc(s, c) =
             LET t == IF c = NL THEN Broken(s) ELSE IF c = BS THEN Erased(s) ELSE Written(s, c)
                 u == IF t.col >= COLS THEN Broken(t) ELSE t
             IN IF u.row >= ROWS THEN Scrolled(u) ELSE u
  <1> DEFINE t == CASE c = NL -> Broken(s) [] c = BS -> Erased(s) [] OTHER -> Written(s, c)
             v == IF c = NL THEN Broken(s) ELSE IF c = BS THEN Erased(s) ELSE Written(s, c)
  <1>1. NL # BS
    BY DEF NL, BS
  <1>2. t = v
    BY <1>1
  <1>3. vga_putc(s, c) = LET u == IF t.col >= COLS THEN Broken(t) ELSE t
                         IN IF u.row >= ROWS THEN Scrolled(u) ELSE u
    BY DEF vga_putc, Broken, Written
  <1> HIDE DEF t, v
  <1>4. vga_putc(s, c) = LET u == IF v.col >= COLS THEN Broken(v) ELSE v
                         IN IF u.row >= ROWS THEN Scrolled(u) ELSE u
    BY <1>2, <1>3
  <1> QED BY <1>4 DEF v

LEMMA VgaPuts ==
    ASSUME NEW s \in ScreenType, NEW c \in Chars
    PROVE  Puts(s, c, vga_putc(s, c))
  <1>0. NL # BS /\ ROWS \in Nat \ {0} /\ COLS \in Nat \ {0}
    BY ScreenSize DEF NL, BS
  <1>1. /\ s \in Passing /\ s.row \in 0 .. ROWS - 1 /\ s.col \in 0 .. COLS - 1
        /\ s.cells \in Matrix
    BY ScreenIsPassing
  <1>2. CASE c = NL
    <2> DEFINE t == Broken(s)
    <2>1. Wraps(IF t.row >= ROWS THEN Scrolled(t) ELSE t, s.cells, s.row)
      <3>1. s.row < ROWS
        BY <1>0, <1>1
      <3> QED BY <1>1, <3>1, BreakWraps
    <2>2. ~(t.col >= COLS)
      BY <1>0, <1>1, BrokenValue
    <2>3. vga_putc(s, NL) = LET u == IF t.col >= COLS THEN Broken(t) ELSE t
                            IN IF u.row >= ROWS THEN Scrolled(u) ELSE u
      BY <1>0, VgaSteps
    <2> HIDE DEF t
    <2>4. vga_putc(s, NL) = IF t.row >= ROWS THEN Scrolled(t) ELSE t
      BY <2>2, <2>3
    <2> QED BY <1>2, <2>1, <2>4 DEF Puts
  <1>3. CASE c = BS
    <2> DEFINE t == Erased(s)
    <2>1. Puts(s, BS, t) /\ t.row < ROWS /\ t.col < COLS
      BY ErasePuts
    <2>2. vga_putc(s, BS) = LET u == IF t.col >= COLS THEN Broken(t) ELSE t
                            IN IF u.row >= ROWS THEN Scrolled(u) ELSE u
      BY <1>0, VgaSteps
    <2>3. ~(t.col >= COLS) /\ ~(t.row >= ROWS)
      <3>1. t.row \in Int /\ t.col \in Int
        <4>1. CASE s.col = 0
          BY <1>0, <1>1, <4>1 DEF Erased
        <4>2. CASE s.col # 0
          <5>1. t.row = s.row /\ t.col = s.col - 1
            BY <4>2, ErasedValue
          <5> HIDE DEF t
          <5> QED BY <1>0, <1>1, <5>1
        <4> QED BY <4>1, <4>2
      <3> HIDE DEF t
      <3> QED BY <1>0, <2>1, <3>1
    <2> HIDE DEF t
    <2>4. vga_putc(s, BS) = t
      BY <2>2, <2>3
    <2> QED BY <1>3, <2>1, <2>4
  <1>4. CASE c # NL /\ c # BS
    <2> DEFINE t == Written(s, c)
    <2>1. vga_putc(s, c) = LET u == IF t.col >= COLS THEN Broken(t) ELSE t
                           IN IF u.row >= ROWS THEN Scrolled(u) ELSE u
      BY <1>4, VgaSteps
    <2>2. /\ t \in Passing /\ t.cells = [s.cells EXCEPT ![s.row][s.col] = c]
          /\ t.row = s.row /\ t.col = s.col + 1
      BY WrittenValue
    <2> HIDE DEF t
    <2>3. CASE s.col + 1 < COLS
      <3>1. ~(t.col >= COLS) /\ ~(t.row >= ROWS)
        BY <1>0, <1>1, <2>2, <2>3
      <3>2. vga_putc(s, c) = t
        BY <2>1, <3>1
      <3>3. t.row < ROWS /\ t.col < COLS
        BY <1>0, <1>1, <2>2, <2>3
      <3>4. Is(t, t.cells, t.row, t.col)
        BY <2>2, <3>3, PassingIs
      <3> QED BY <1>4, <2>2, <2>3, <3>2, <3>4 DEF Puts
    <2>4. CASE ~(s.col + 1 < COLS)
      <3> DEFINE u == Broken(t)
      <3>1. t.col >= COLS /\ t.row < ROWS
        BY <1>0, <1>1, <2>2, <2>4
      <3>2. Wraps(IF u.row >= ROWS THEN Scrolled(u) ELSE u, t.cells, t.row)
        BY <2>2, <3>1, BreakWraps
      <3> HIDE DEF u
      <3>3. vga_putc(s, c) = IF u.row >= ROWS THEN Scrolled(u) ELSE u
        BY <2>1, <3>1 DEF u
      <3> QED BY <1>4, <2>2, <2>4, <3>2, <3>3 DEF Puts
    <2> QED BY <2>3, <2>4
  <1> QED BY <1>2, <1>3, <1>4

LEMMA GconPuts ==
    ASSUME NEW s \in ScreenType, NEW c \in Chars
    PROVE  Puts(s, c, gcon_putc(s, c))
  <1>0. NL # BS /\ ROWS \in Nat \ {0} /\ COLS \in Nat \ {0}
    BY ScreenSize DEF NL, BS
  <1>1. /\ s \in Passing /\ s.row \in 0 .. ROWS - 1 /\ s.col \in 0 .. COLS - 1
        /\ s.cells \in Matrix
    BY ScreenIsPassing
  <1>n. ASSUME NEW t \in Passing, t.row < ROWS PROVE Wraps(newline(t), t.cells, t.row)
    <2> DEFINE u == Broken(t)
    <2>1. newline(t) = IF u.row >= ROWS THEN Scrolled(u) ELSE u
      BY DEF newline, Broken
    <2>2. Wraps(IF u.row >= ROWS THEN Scrolled(u) ELSE u, t.cells, t.row)
      BY <1>n, BreakWraps
    <2> HIDE DEF u
    <2> QED BY <2>1, <2>2
  <1>2. CASE c = NL
    <2>1. gcon_putc(s, NL) = newline(s)
      BY <1>0 DEF gcon_putc
    <2>2. s.row < ROWS
      BY <1>0, <1>1
    <2> QED BY <1>1, <1>2, <1>n, <2>1, <2>2 DEF Puts
  <1>3. CASE c = BS
    <2>1. gcon_putc(s, BS) = Erased(s)
      BY <1>0 DEF gcon_putc
    <2> QED BY <1>3, <2>1, ErasePuts
  <1>4. CASE c # NL /\ c # BS
    <2> DEFINE n == [s.cells EXCEPT ![s.row][s.col] = c]
               t == [s EXCEPT !.cells[s.row][s.col] = c]
               w == Written(s, c)
    <2>1. gcon_putc(s, c) = IF s.col + 1 >= COLS THEN newline(t) ELSE w
      BY <1>4 DEF gcon_putc, Written, ScreenType
    <2>2. w \in Passing /\ w.cells = n /\ w.row = s.row /\ w.col = s.col + 1
      BY WrittenValue
    <2>3. t \in Passing /\ t.cells = n /\ t.row = s.row
      <3>1. n \in Matrix
        BY <1>1, PutCell
      <3>2. t = [s EXCEPT !.cells = n]
        OBVIOUS
      <3>3. t.cells = n /\ t.row = s.row
        BY DEF ScreenType
      <3> HIDE DEF n, t
      <3> QED BY <1>1, <3>1, <3>2, <3>3, FieldChanges
    <2> HIDE DEF n, t, w
    <2>4. CASE s.col + 1 < COLS
      <3>1. w.row < ROWS /\ w.col < COLS /\ ~(s.col + 1 >= COLS)
        BY <1>0, <1>1, <2>2, <2>4
      <3>2. Is(w, w.cells, w.row, w.col)
        BY <2>2, <3>1, PassingIs
      <3> QED BY <1>4, <2>1, <2>2, <2>4, <3>1, <3>2 DEF Puts, n
    <2>5. CASE ~(s.col + 1 < COLS)
      <3>1. s.col + 1 >= COLS /\ t.row < ROWS
        BY <1>0, <1>1, <2>3, <2>5
      <3>2. Wraps(newline(t), n, s.row)
        BY <1>n, <2>3, <3>1
      <3> QED BY <1>4, <2>1, <2>5, <3>1, <3>2 DEF Puts, n
    <2> QED BY <2>4, <2>5
  <1> QED BY <1>2, <1>3, <1>4

LEMMA PlaceIn ==
    ASSUME NEW s \in ScreenType
    PROVE  /\ Offset(s) \in Positions /\ Offset(s) \in Nat
           /\ s.row \in 0 .. ROWS - 1 /\ s.col \in 0 .. COLS - 1 /\ s.cells \in Matrix
  <1>1. s.row \in 0 .. ROWS - 1 /\ s.col \in 0 .. COLS - 1 /\ s.cells \in Matrix
    BY ScreenIsPassing
  <1>2. Offset(s) \in Positions
    BY <1>1, PlaceType DEF Offset
  <1> QED BY <1>1, <1>2 DEF Positions

LEMMA Area == /\ ROWS \in Nat \ {0} /\ COLS \in Nat \ {0} /\ ROWS * COLS \in Nat
              /\ (ROWS - 1) * COLS = ROWS * COLS - COLS /\ (ROWS - 1) * COLS \in Nat
  <1>1. ROWS \in Nat \ {0} /\ COLS \in Nat \ {0} /\ ROWS - 1 \in Nat
    BY ScreenSize
  <1>2. ROWS * COLS \in Nat /\ (ROWS - 1) * COLS \in Nat
    BY <1>1
  <1>3. (ROWS - 1) * COLS = ROWS * COLS - COLS
    BY <1>1
  <1> QED BY <1>1, <1>2, <1>3

\* The cells after the screen moved up by d positions.
Shifted(m, d, p) == IF p + d \in Positions THEN CellAt(m, p + d) ELSE " "

\* The first cell of the row after y: the screen has moved up by d.
LEMMA WrapEffect ==
    ASSUME NEW m \in Matrix, NEW y \in 0 .. ROWS - 1, NEW t, Wraps(t, m, y)
    PROVE  \E d \in {0, COLS} :
             /\ t \in ScreenType /\ Offset(t) + d = y * COLS + COLS
             /\ d = COLS => Offset(t) = (ROWS - 1) * COLS
             /\ \A p \in Positions : CellAt(t.cells, p) = Shifted(m, d, p)
  <1>0. /\ ROWS \in Nat \ {0} /\ COLS \in Nat \ {0} /\ ROWS * COLS \in Nat
        /\ (ROWS - 1) * COLS = ROWS * COLS - COLS /\ (ROWS - 1) * COLS \in Nat
    BY Area
  <1>1. (y + 1) * COLS = y * COLS + COLS /\ y * COLS \in Nat
    BY <1>0
  <1>2. CASE y + 1 < ROWS
    <2>1. t \in ScreenType /\ t.cells = m /\ t.row = y + 1 /\ t.col = 0
      BY <1>2 DEF Wraps, Is
    <2>2. Offset(t) = y * COLS + COLS
      BY <1>0, <1>1, <2>1 DEF Offset
    <2>3. \A p \in Positions : p + 0 = p
      BY <1>0 DEF Positions
    <2>4. \A p \in Positions : CellAt(t.cells, p) = Shifted(m, 0, p)
      BY <2>1, <2>3 DEF Shifted
    <2>5. 0 # COLS /\ Offset(t) + 0 = y * COLS + COLS
      BY <1>0, <1>1, <2>2
    <2> QED BY <2>1, <2>4, <2>5
  <1>3. CASE ~(y + 1 < ROWS)
    <2>1. t \in ScreenType /\ t.cells = Up(m) /\ t.row = ROWS - 1 /\ t.col = 0
      BY <1>3 DEF Wraps, Is
    <2>2. y = ROWS - 1
      BY <1>0, <1>3
    <2>3. Offset(t) = (ROWS - 1) * COLS
      BY <1>0, <2>1 DEF Offset
    <2>4. Offset(t) + COLS = y * COLS + COLS
      BY <1>0, <2>2, <2>3
    <2>5. \A p \in Positions : CellAt(t.cells, p) = Shifted(m, COLS, p)
      BY <2>1, UpCell DEF Shifted
    <2> QED BY <2>1, <2>3, <2>4, <2>5
  <1> QED BY <1>2, <1>3

\* A printed character stands before the cursor, the rest as it was.
LEMMA CharEffect ==
    ASSUME NEW s \in ScreenType, NEW c \in Chars \ {NL, BS}, NEW t, Puts(s, c, t)
    PROVE  \E d \in {0, COLS} :
             /\ t \in ScreenType /\ Offset(t) + d = Offset(s) + 1
             /\ d = COLS => Offset(t) = (ROWS - 1) * COLS
             /\ \A p \in Positions :
                  CellAt(t.cells, p) = IF p + d = Offset(s) THEN c ELSE Shifted(s.cells, d, p)
  <1> DEFINE n == [s.cells EXCEPT ![s.row][s.col] = c]
  <1>0. /\ ROWS \in Nat \ {0} /\ COLS \in Nat \ {0} /\ ROWS * COLS \in Nat
        /\ (ROWS - 1) * COLS = ROWS * COLS - COLS /\ (ROWS - 1) * COLS \in Nat
    BY Area
  <1>1. /\ Offset(s) \in Positions /\ Offset(s) \in Nat
        /\ s.row \in 0 .. ROWS - 1 /\ s.col \in 0 .. COLS - 1 /\ s.cells \in Matrix
    BY PlaceIn
  <1>2. /\ n \in Matrix
        /\ \A p \in Positions : CellAt(n, p) = IF p = s.row * COLS + s.col THEN c ELSE CellAt(s.cells, p)
    BY <1>1, PutCell
  <1>3. \A p \in Positions : CellAt(n, p) = IF p = Offset(s) THEN c ELSE CellAt(s.cells, p)
    BY <1>2 DEF Offset
  <1>4. s.row * COLS \in Nat
    BY <1>0, <1>1
  <1> HIDE DEF n
  <1>s. ASSUME NEW d \in {0, COLS}, NEW p \in Positions
        PROVE  Shifted(n, d, p) = IF p + d = Offset(s) THEN c ELSE Shifted(s.cells, d, p)
    BY <1>1, <1>3 DEF Shifted
  <1>5. CASE s.col + 1 < COLS
    <2>1. t \in ScreenType /\ t.cells = n /\ t.row = s.row /\ t.col = s.col + 1
      BY <1>5 DEF Puts, Is, n
    <2>2. Offset(t) + 0 = Offset(s) + 1
      BY <1>0, <1>1, <1>4, <2>1 DEF Offset
    <2>3. \A p \in Positions : p + 0 = p
      BY <1>0 DEF Positions
    <2>4. \A p \in Positions : CellAt(t.cells, p) = Shifted(n, 0, p)
      BY <2>1, <2>3 DEF Shifted
    <2>5. 0 # COLS
      BY <1>0
    <2> QED BY <1>s, <2>1, <2>2, <2>4, <2>5
  <1>6. CASE ~(s.col + 1 < COLS)
    <2>1. Wraps(t, n, s.row)
      BY <1>6 DEF Puts, n
    <2>2. PICK d \in {0, COLS} :
             /\ t \in ScreenType /\ Offset(t) + d = s.row * COLS + COLS
             /\ d = COLS => Offset(t) = (ROWS - 1) * COLS
             /\ \A p \in Positions : CellAt(t.cells, p) = Shifted(n, d, p)
      BY <1>1, <1>2, <2>1, WrapEffect
    <2>3. s.row * COLS + COLS = Offset(s) + 1
      BY <1>0, <1>1, <1>4, <1>6 DEF Offset
    <2> QED BY <1>s, <2>2, <2>3
  <1> QED BY <1>5, <1>6

LEMMA NewlineEffect ==
    ASSUME NEW s \in ScreenType, NEW t, Puts(s, NL, t)
    PROVE  \E d \in {0, COLS} :
             /\ t \in ScreenType /\ Offset(t) + d >= Offset(s) + 1
             /\ \A p \in Positions : CellAt(t.cells, p) = Shifted(s.cells, d, p)
  <1>0. COLS \in Nat \ {0}
    BY Area
  <1>1. /\ Offset(s) \in Nat
        /\ s.row \in 0 .. ROWS - 1 /\ s.col \in 0 .. COLS - 1 /\ s.cells \in Matrix
    BY PlaceIn
  <1>2. Wraps(t, s.cells, s.row)
    BY DEF Puts
  <1>3. PICK d \in {0, COLS} :
             /\ t \in ScreenType /\ Offset(t) + d = s.row * COLS + COLS
             /\ \A p \in Positions : CellAt(t.cells, p) = Shifted(s.cells, d, p)
    BY <1>1, <1>2, WrapEffect
  <1>4. s.row * COLS \in Nat
    BY <1>0, <1>1
  <1>5. s.row * COLS + COLS >= Offset(s) + 1
    BY <1>0, <1>1, <1>4 DEF Offset
  <1> QED BY <1>3, <1>5

\* '\b' takes the character before the cursor away, in its row.
LEMMA EraseEffect ==
    ASSUME NEW s \in ScreenType, s.col # 0, NEW t, Puts(s, BS, t)
    PROVE  /\ t \in ScreenType /\ Offset(t) + 1 = Offset(s)
           /\ \A p \in Positions :
                CellAt(t.cells, p) = IF p = Offset(t) THEN " " ELSE CellAt(s.cells, p)
  <1> DEFINE n == [s.cells EXCEPT ![s.row][s.col - 1] = " "]
  <1>0. COLS \in Nat \ {0}
    BY Area
  <1>b. NL # BS /\ " " \in Chars
    BY DEF NL, BS, Chars
  <1>1. /\ Offset(s) \in Nat
        /\ s.row \in 0 .. ROWS - 1 /\ s.col \in 0 .. COLS - 1 /\ s.cells \in Matrix
    BY PlaceIn
  <1>2. t \in ScreenType /\ t.cells = n /\ t.row = s.row /\ t.col = s.col - 1
    BY <1>b DEF Puts, Is
  <1> DEFINE x == s.col - 1
  <1>a. x \in 0 .. COLS - 1
    BY <1>0, <1>1
  <1>3. s.row * COLS \in Nat
    BY <1>0, <1>1
  <1>4. \A p \in Positions : CellAt(n, p) = IF p = s.row * COLS + x THEN " " ELSE CellAt(s.cells, p)
    <2> DEFINE c == " "
    <2>0. c \in Chars
      BY <1>b
    <2> HIDE DEF x, c
    <2>1. /\ [s.cells EXCEPT ![s.row][x] = c] \in Matrix
          /\ \A p \in Positions : CellAt([s.cells EXCEPT ![s.row][x] = c], p)
                                = IF p = s.row * COLS + x THEN c ELSE CellAt(s.cells, p)
      BY <1>1, <1>a, <2>0, PutCell
    <2> QED BY <2>1 DEF x, c
  <1>5. Offset(t) = s.row * COLS + x
    BY <1>2 DEF Offset
  <1>6. Offset(t) + 1 = Offset(s)
    BY <1>1, <1>3, <1>5 DEF Offset
  <1> HIDE DEF n, x
  <1> QED BY <1>2, <1>4, <1>5, <1>6

\* Whatever is put on it, nothing stands behind the cursor of a screen.
LEMMA PutsClean ==
    ASSUME NEW s \in Screens, NEW c \in Chars, NEW t, Puts(s, c, t)
    PROVE  t \in Screens
  <1>0. COLS \in Nat \ {0} /\ ROWS * COLS \in Nat
    BY Area
  <1>1. s \in ScreenType /\ \A p \in Positions : p >= Offset(s) => CellAt(s.cells, p) = " "
    BY DEF Screens
  <1>2. Offset(s) \in Nat
    BY <1>1, PlaceIn
  <1>3. ASSUME NEW d \in {0, COLS}, t \in ScreenType, Offset(t) + d >= Offset(s) + 1,
               NEW p \in Positions, p >= Offset(t)
        PROVE  Shifted(s.cells, d, p) = " " /\ p + d # Offset(s)
    <2>1. Offset(t) \in Nat /\ p \in Int /\ d \in Nat
      BY <1>0, <1>3, PlaceIn DEF Positions
    <2>2. p + d > Offset(s)
      BY <1>2, <1>3, <2>1
    <2>3. p + d # Offset(s) /\ p + d >= Offset(s)
      BY <1>2, <2>1, <2>2
    <2> QED BY <1>1, <2>3 DEF Shifted
  <1>4. CASE c = NL
    <2>1. PICK d \in {0, COLS} :
             /\ t \in ScreenType /\ Offset(t) + d >= Offset(s) + 1
             /\ \A p \in Positions : CellAt(t.cells, p) = Shifted(s.cells, d, p)
      BY <1>1, <1>4, NewlineEffect
    <2> QED BY <1>3, <2>1 DEF Screens
  <1>5. CASE c = BS
    <2>1. CASE s.col = 0
      BY <1>5, <2>1 DEF Puts, NL, BS
    <2>2. CASE s.col # 0
      <3>1. /\ t \in ScreenType /\ Offset(t) + 1 = Offset(s)
            /\ \A p \in Positions :
                CellAt(t.cells, p) = IF p = Offset(t) THEN " " ELSE CellAt(s.cells, p)
        BY <1>1, <1>5, <2>2, EraseEffect
      <3>2. Offset(t) \in Nat
        BY <3>1, PlaceIn
      <3>3. ASSUME NEW p \in Positions, p >= Offset(t) PROVE CellAt(t.cells, p) = " "
        <4>2. Offset(t) + 1 = Offset(s)
          BY <3>1
        <4>0. p \in Int
          BY <1>0 DEF Positions
        <4>1. p = Offset(t) \/ p >= Offset(s)
          BY <1>2, <3>2, <3>3, <4>0, <4>2
        <4> QED BY <1>1, <3>1, <4>1
      <3> QED BY <3>1, <3>3 DEF Screens
    <2> QED BY <2>1, <2>2
  <1>6. CASE c # NL /\ c # BS
    <2>1. c \in Chars \ {NL, BS}
      BY <1>6
    <2>2. PICK d \in {0, COLS} :
             /\ t \in ScreenType /\ Offset(t) + d = Offset(s) + 1
             /\ \A p \in Positions :
                  CellAt(t.cells, p) = IF p + d = Offset(s) THEN c ELSE Shifted(s.cells, d, p)
      BY <1>1, <2>1, CharEffect
    <2>3. Offset(t) + d >= Offset(s) + 1
      BY <1>2, <2>2
    <2> QED BY <1>3, <2>2, <2>3 DEF Screens
  <1> QED BY <1>4, <1>5, <1>6

----------------------------------------------------------------------------
(* What stands before the cursor.                                          *)

Shows(s, text) ==
    /\ Len(text) <= Offset(s)
    /\ \A k \in 1 .. Len(text) : CellAt(s.cells, Offset(s) - Len(text) + k - 1) = text[k]

LEMMA ShowsNext ==
    ASSUME NEW s \in ScreenType, NEW c \in Chars \ {NL, BS}, NEW t, Puts(s, c, t),
           NEW S, NEW text \in Seq(S), c \in S, Shows(s, text), Len(text) + 1 <= (ROWS - 1) * COLS
    PROVE  Shows(t, Append(text, c))
  <1> DEFINE N == Len(text)
             new == Append(text, c)
  <1>0. COLS \in Nat \ {0} /\ ROWS * COLS \in Nat /\ (ROWS - 1) * COLS \in Nat
    BY Area
  <1>1. Offset(s) \in Nat /\ Offset(s) < ROWS * COLS
    BY <1>0, PlaceIn DEF Positions
  <1>2. PICK d \in {0, COLS} :
             /\ t \in ScreenType /\ Offset(t) + d = Offset(s) + 1
             /\ d = COLS => Offset(t) = (ROWS - 1) * COLS
             /\ \A p \in Positions :
                  CellAt(t.cells, p) = IF p + d = Offset(s) THEN c ELSE Shifted(s.cells, d, p)
    BY CharEffect
  <1>3. /\ N \in Nat /\ Len(new) = N + 1 /\ new[N + 1] = c
        /\ \A k \in 1 .. N : new[k] = text[k]
    OBVIOUS
  <1>4. /\ N <= Offset(s) /\ N + 1 <= (ROWS - 1) * COLS
        /\ \A k \in 1 .. N : CellAt(s.cells, Offset(s) - N + k - 1) = text[k]
    BY DEF Shows
  <1>5. Offset(t) \in Nat /\ d \in Nat /\ Offset(t) = Offset(s) + 1 - d /\ Offset(t) < ROWS * COLS
    <2>1. Offset(t) \in Positions /\ Offset(t) \in Nat
      BY <1>2, PlaceIn
    <2> QED BY <1>0, <1>1, <1>2, <2>1 DEF Positions
  <1> HIDE DEF N, new
  <1>6. N + 1 <= Offset(t)
    <2>1. CASE d = 0
      BY <1>1, <1>3, <1>4, <1>5, <2>1
    <2>2. CASE d = COLS
      BY <1>2, <1>4, <2>2
    <2> QED BY <2>1, <2>2
  <1>7. ASSUME NEW k \in 1 .. N + 1
        PROVE  CellAt(t.cells, Offset(t) - (N + 1) + k - 1) = new[k]
    <2> DEFINE p == Offset(t) - (N + 1) + k - 1
               q == Offset(s) - N + k - 1
    <2>1. p \in Int /\ 0 <= p /\ p < ROWS * COLS
      BY <1>0, <1>3, <1>5, <1>6
    <2>0. N \in Nat /\ N <= Offset(s)
      BY <1>3, <1>4
    <2>2. p + d = q /\ q \in Int /\ q <= Offset(s) /\ 0 <= q
      BY <1>1, <1>5, <2>0
    <2>3. p \in Positions /\ q \in Positions
      BY <1>0, <1>1, <2>1, <2>2 DEF Positions
    <2>4. CASE k = N + 1
      <3>1. q = Offset(s)
        BY <1>1, <1>3, <2>4
      <3> HIDE DEF p, q
      <3>2. CellAt(t.cells, p) = c
        BY <1>2, <2>2, <2>3, <3>1
      <3> QED BY <1>3, <2>4, <3>2 DEF p
    <2>5. CASE k \in 1 .. N
      <3>1. q # Offset(s)
        BY <1>1, <1>3, <2>5
      <3>2. CellAt(s.cells, q) = text[k]
        BY <1>4, <2>5
      <3> HIDE DEF p, q
      <3>3. CellAt(t.cells, p) = CellAt(s.cells, q)
        BY <1>2, <2>2, <2>3, <3>1 DEF Shifted
      <3> QED BY <1>3, <2>5, <3>2, <3>3 DEF p
    <2> QED BY <1>3, <2>4, <2>5
  <1>8. Shows(t, new)
    BY <1>3, <1>6, <1>7 DEF Shows
  <1> QED BY <1>8 DEF new

LEMMA ShowsBefore ==
    ASSUME NEW s \in ScreenType, s.col # 0, NEW t, Puts(s, BS, t),
           NEW S, NEW text \in Seq(S), text # <<>>, Shows(s, text)
    PROVE  Shows(t, Front(text))
  <1> DEFINE N == Len(text)
             old == Front(text)
  <1>0. COLS \in Nat \ {0} /\ ROWS * COLS \in Nat
    BY Area
  <1>1. Offset(s) \in Nat /\ Offset(s) < ROWS * COLS
    BY <1>0, PlaceIn DEF Positions
  <1>2. /\ t \in ScreenType /\ Offset(t) + 1 = Offset(s)
        /\ \A p \in Positions :
             CellAt(t.cells, p) = IF p = Offset(t) THEN " " ELSE CellAt(s.cells, p)
    BY EraseEffect
  <1>3. N \in Nat /\ N > 0
    OBVIOUS
  <1>9. Len(old) = N - 1 /\ \A k \in 1 .. N - 1 : old[k] = text[k]
    <2>1. old = SubSeq(text, 1, N - 1)
      BY DEF Front
    <2>2. Len(SubSeq(text, 1, N - 1)) = N - 1
      <3>1. CASE N = 1
        BY <1>3, <3>1
      <3>2. CASE N > 1
        BY <1>3, <3>2
      <3>3. N = 1 \/ N > 1
        <4> HIDE DEF N
        <4> QED BY <1>3
      <3> QED BY <3>1, <3>2, <3>3
    <2>3. \A k \in 1 .. N - 1 : SubSeq(text, 1, N - 1)[k] = text[k]
      BY <1>3
    <2> QED BY <2>1, <2>2, <2>3
  <1>4. /\ N <= Offset(s)
        /\ \A k \in 1 .. N : CellAt(s.cells, Offset(s) - N + k - 1) = text[k]
    BY DEF Shows
  <1>5. Offset(t) \in Nat
    BY <1>2, PlaceIn
  <1> HIDE DEF N, old
  <1>a. N <= Offset(s) /\ Offset(t) + 1 = Offset(s)
    BY <1>2, <1>4
  <1>6. N - 1 <= Offset(t)
    BY <1>1, <1>3, <1>5, <1>a
  <1>7. ASSUME NEW k \in 1 .. N - 1
        PROVE  CellAt(t.cells, Offset(t) - (N - 1) + k - 1) = old[k]
    <2> DEFINE p == Offset(s) - N + k - 1
    <2>1. p \in Int /\ 0 <= p /\ p < ROWS * COLS /\ p # Offset(t) /\ k \in 1 .. N
      BY <1>0, <1>1, <1>3, <1>5, <1>a
    <2>2. Offset(t) - (N - 1) + k - 1 = p
      BY <1>1, <1>3, <1>5, <1>a
    <2>3. CellAt(s.cells, p) = text[k]
      BY <1>4, <2>1
    <2>4. p \in Positions
      BY <1>0, <2>1 DEF Positions
    <2> HIDE DEF p
    <2>5. CellAt(t.cells, p) = text[k]
      BY <1>2, <2>1, <2>3, <2>4
    <2> QED BY <1>9, <2>2, <2>5
  <1>8. Shows(t, old)
    BY <1>9, <1>6, <1>7 DEF Shows
  <1> QED BY <1>8 DEF old

----------------------------------------------------------------------------
(* The output: the screens and the log.                                    *)

OutType == [vga : Screens, gcon : Screens, active : BOOLEAN,
            klog : [0 .. KLOG_CAP - 1 -> Chars], klog_w : Nat, recent : Seq(Chars)]

Outputs == {o \in OutType : Holds(o.klog, o.klog_w, o.recent, KLOG_CAP, Chars)}

\* The screen in use.
Current(o) == IF o.active THEN o.gcon ELSE o.vga

LEMMA OutChanges ==
    ASSUME NEW o \in OutType
    PROVE  /\ \A a \in Screens : [o EXCEPT !.vga = a] \in OutType
           /\ \A a \in Screens : [o EXCEPT !.gcon = a] \in OutType
           /\ \A a \in BOOLEAN : [o EXCEPT !.active = a] \in OutType
           /\ \A a \in [0 .. KLOG_CAP - 1 -> Chars] : [o EXCEPT !.klog = a] \in OutType
           /\ \A a \in Nat : [o EXCEPT !.klog_w = a] \in OutType
           /\ \A a \in Seq(Chars) : [o EXCEPT !.recent = a] \in OutType
  BY DEF OutType

LEMMA OutFields ==
    ASSUME NEW o \in OutType
    PROVE  /\ o.vga \in Screens /\ o.gcon \in Screens /\ o.active \in BOOLEAN
           /\ o.klog \in [0 .. KLOG_CAP - 1 -> Chars] /\ o.klog_w \in Nat /\ o.recent \in Seq(Chars)
           /\ Current(o) \in Screens
  BY DEF OutType, Current

\* raw_putc puts the character on the screen in use, and nothing else.
LEMMA RawPuts ==
    ASSUME NEW o \in OutType, NEW c \in Chars
    PROVE  /\ raw_putc(o, c) \in OutType /\ Puts(Current(o), c, Current(raw_putc(o, c)))
           /\ raw_putc(o, c).active = o.active /\ raw_putc(o, c).klog = o.klog
           /\ raw_putc(o, c).klog_w = o.klog_w /\ raw_putc(o, c).recent = o.recent
  <1> DEFINE q == raw_putc(o, c)
  <1>0. o.vga \in Screens /\ o.gcon \in Screens /\ o.active \in BOOLEAN
    BY OutFields
  <1>1. CASE o.active
    <2> DEFINE t == gcon_putc(o.gcon, c)
    <2>1. q = [o EXCEPT !.gcon = t]
      BY <1>1 DEF raw_putc
    <2>2. Puts(o.gcon, c, t)
      BY <1>0, GconPuts DEF Screens
    <2>3. t \in Screens
      BY <1>0, <2>2, PutsClean
    <2> HIDE DEF t
    <2>4. [o EXCEPT !.gcon = t] \in OutType
      BY <2>3, OutChanges
    <2>5. /\ q.gcon = t /\ q.active = o.active /\ q.klog = o.klog
          /\ q.klog_w = o.klog_w /\ q.recent = o.recent
      BY <2>1 DEF OutType
    <2> HIDE DEF q
    <2>6. Current(q) = t /\ Current(o) = o.gcon
      BY <1>1, <2>5 DEF Current
    <2> QED BY <2>1, <2>2, <2>4, <2>5, <2>6 DEF q
  <1>2. CASE ~o.active
    <2> DEFINE t == vga_putc(o.vga, c)
    <2>1. q = [o EXCEPT !.vga = t]
      BY <1>2 DEF raw_putc
    <2>2. Puts(o.vga, c, t)
      BY <1>0, VgaPuts DEF Screens
    <2>3. t \in Screens
      BY <1>0, <2>2, PutsClean
    <2> HIDE DEF t
    <2>4. [o EXCEPT !.vga = t] \in OutType
      BY <2>3, OutChanges
    <2>5. /\ q.vga = t /\ q.active = o.active /\ q.klog = o.klog
          /\ q.klog_w = o.klog_w /\ q.recent = o.recent
      BY <2>1 DEF OutType
    <2> HIDE DEF q
    <2>6. Current(q) = t /\ Current(o) = o.vga
      BY <1>2, <2>5 DEF Current
    <2> QED BY <2>1, <2>2, <2>4, <2>5, <2>6 DEF q
  <1> QED BY <1>1, <1>2

\* kputc also logs it.
LEMMA KputcPuts ==
    ASSUME NEW o \in Outputs, NEW c \in Chars
    PROVE  /\ kputc(o, c) \in Outputs /\ Puts(Current(o), c, Current(kputc(o, c)))
           /\ kputc(o, c).active = o.active
  <1> DEFINE q == raw_putc(o, c)
             k == [o.klog EXCEPT ![o.klog_w % KLOG_CAP] = c]
             r == Latest(Append(o.recent, c), KLOG_CAP)
             w == o.klog_w + 1
             e == [q EXCEPT !.klog = k]
             f == [e EXCEPT !.klog_w = w]
             z == kputc(o, c)
  <1>0. KLOG_CAP \in Nat \ {0}
    BY ConsoleAssumption
  <1>1. o \in OutType /\ Holds(o.klog, o.klog_w, o.recent, KLOG_CAP, Chars)
    BY DEF Outputs
  <1>2. /\ q \in OutType /\ Puts(Current(o), c, Current(q))
        /\ q.active = o.active /\ q.klog = o.klog /\ q.klog_w = o.klog_w /\ q.recent = o.recent
    BY <1>1, RawPuts
  <1>3. Holds(k, w, r, KLOG_CAP, Chars)
    BY <1>0, <1>1, HoldsNext
  <1>4. k \in [0 .. KLOG_CAP - 1 -> Chars] /\ w \in Nat /\ r \in Seq(Chars)
    BY <1>3 DEF Holds
  <1> HIDE DEF q
  <1>5. z = [q EXCEPT !.klog[o.klog_w % KLOG_CAP] = c, !.klog_w = @ + 1,
                      !.recent = Latest(Append(@, c), KLOG_CAP)]
    BY DEF kputc, q
  <1>6. z = [f EXCEPT !.recent = r]
    BY <1>2, <1>5 DEF OutType
  <1> HIDE DEF k, w, r, z
  <1>7. e \in OutType
    BY <1>2, <1>4, OutChanges
  <1>8. f \in OutType
    <2> HIDE DEF e
    <2> QED BY <1>4, <1>7, OutChanges
  <1>9. z \in OutType
    <2> HIDE DEF f
    <2> QED BY <1>4, <1>6, <1>8, OutChanges
  <1>10. /\ z.klog = k /\ z.klog_w = w /\ z.recent = r
         /\ z.vga = q.vga /\ z.gcon = q.gcon /\ z.active = q.active
    BY <1>2, <1>6 DEF OutType
  <1>11. Current(z) = Current(q)
    BY <1>10 DEF Current
  <1>12. z \in Outputs
    BY <1>3, <1>9, <1>10 DEF Outputs
  <1> QED BY <1>2, <1>10, <1>11, <1>12 DEF z

LEMMA MaxIn ==
    ASSUME NEW n \in Nat, NEW s \in SUBSET (1 .. n), s # {}
    PROVE  Max(s) \in s
  <1> DEFINE T == {m \in Nat : \A u \in SUBSET (1 .. m) : u # {} => Max(u) \in u}
  <1>1. 0 \in T
    <2>1. \A u \in SUBSET (1 .. 0) : u = {}
      OBVIOUS
    <2> QED BY <2>1
  <1>2. ASSUME NEW m \in Nat, m \in T PROVE m + 1 \in T
    <2> SUFFICES ASSUME NEW u \in SUBSET (1 .. m + 1), u # {} PROVE Max(u) \in u
      OBVIOUS
    <2>1. CASE m + 1 \in u
      BY <2>1, MaxUpTo
    <2>2. CASE m + 1 \notin u
      <3>1. u \in SUBSET (1 .. m)
        BY <2>2
      <3> QED BY <1>2, <3>1
    <2> QED BY <2>1, <2>2
  <1>3. Nat \subseteq T
    <2> HIDE DEF T
    <2> QED BY <1>1, <1>2, SetInduction
  <1> QED BY <1>3

\* g is the fold of F over t from o on, as long as it stays in D.
RunOf(g, F, o, t, D) ==
    /\ g[{}] = o
    /\ \A k \in 0 .. Len(t) - 1 : g[1 .. k] \in D => g[1 .. k + 1] = F[<<g[1 .. k], t[k + 1]>>]

\* v is o, or the last turn of the fold.
EndOf(v, F, o, t, D) ==
    IF t = <<>> THEN v = o ELSE \E p \in D : v = F[<<p, t[Len(t)]>>]

\* The states of a fold stay in D, and the last is one more turn of one of them.
LEMMA FoldLast ==
    ASSUME NEW D, NEW C, NEW F \in [D \X C -> D], NEW o \in D, NEW t \in Seq(C), NEW g,
           RunOf(g, F, o, t, D)
    PROVE  EndOf(g[1 .. Len(t)], F, o, t, D)
  <1> DEFINE N == Len(t)
             f == [k \in 0 .. N |-> g[1 .. k]]
  <1>0. N \in Nat /\ \A k \in 1 .. N : t[k] \in C
    OBVIOUS
  <1>1. \A k \in 0 .. N - 1 : g[1 .. k] \in D => g[1 .. k + 1] = F[<<g[1 .. k], t[k + 1]>>]
    BY DEF RunOf
  <1> HIDE DEF N
  <1>2. f[0] = o
    <2>1. 1 .. 0 = {} /\ 0 \in 0 .. N
      BY <1>0
    <2> QED BY <2>1 DEF RunOf
  <1>3. ASSUME NEW k \in 0 .. N - 1, f[k] \in D PROVE f[k + 1] = F[<<f[k], t[k + 1]>>] /\ f[k + 1] \in D
    <2>1. k \in 0 .. N /\ k + 1 \in 0 .. N /\ t[k + 1] \in C
      BY <1>0
    <2>2. f[k + 1] = F[<<f[k], t[k + 1]>>]
      BY <1>1, <1>3, <2>1
    <2> HIDE DEF f
    <2> QED BY <1>3, <2>1, <2>2
  <1>4. f[N] = g[1 .. N]
    BY <1>0
  <1> HIDE DEF f
  <1>5. \A k \in 0 .. N : f[k] \in D
    BY <1>0, <1>2, <1>3, StaysIn
  <1>6. CASE t = <<>>
    <2>1. N = 0
      BY <1>6 DEF N
    <2> QED BY <1>2, <1>4, <1>6, <2>1 DEF N, EndOf
  <1>7. CASE t # <<>>
    <2>1. N > 0
      BY <1>7 DEF N
    <2>2. N - 1 \in 0 .. N - 1 /\ N - 1 \in 0 .. N /\ N - 1 + 1 = N
      BY <1>0, <2>1
    <2>3. f[N - 1] \in D /\ f[N] = F[<<f[N - 1], t[N]>>]
      BY <1>3, <1>5, <2>2
    <2> QED BY <1>4, <1>7, <2>3 DEF N, EndOf
  <1> QED BY <1>6, <1>7

\* kputs prints the characters one by one, the last of them last.
LEMMA KputsTurns ==
    ASSUME NEW o \in Outputs, NEW t \in Seq(Chars)
    PROVE  IF t = <<>> THEN kputs(o, t) = o
           ELSE \E p \in Outputs : kputs(o, t) = kputc(p, t[Len(t)])
  <1> DEFINE N == Len(t)
             F == [q \in Outputs \X Chars |-> kputc(q[1], q[2])]
             Turn(g, s) == IF s = {} THEN o ELSE kputc(g[s \ {Max(s)}], t[Max(s)])
             Folds(g) == g = [s \in SUBSET (1 .. N) |-> Turn(g, s)]
  <1>0. N \in Nat /\ DOMAIN t = 1 .. N /\ \A k \in 1 .. N : t[k] \in Chars
    OBVIOUS
  <1>1. kputs(o, t) = (CHOOSE g : Folds(g))[1 .. N]
    BY <1>0 DEF kputs, FoldLeft, MapThenFoldSet
  <1>2. \A p \in Outputs, c \in Chars : kputc(p, c) \in Outputs
    BY KputcPuts
  <1>3. F \in [Outputs \X Chars -> Outputs]
    BY <1>2
  <1>4. PICK h : FoldOf(h, F, o, t, Outputs)
    <2> HIDE DEF F
    <2> QED BY <1>3, FoldExists
  <1>5. /\ h \in [SUBSET (1 .. N) -> Outputs]
        /\ \A s \in SUBSET (1 .. N) : h[s] = IF s = {} THEN o ELSE F[<<h[s \ {Max(s)}], t[Max(s)]>>]
    BY <1>4 DEF FoldOf
  <1> HIDE DEF N
  <1>6. ASSUME NEW s \in SUBSET (1 .. N) PROVE h[s] = Turn(h, s)
    <2>1. CASE s = {}
      BY <1>5, <2>1
    <2>2. CASE s # {}
      <3>1. Max(s) \in s
        BY <1>0, <2>2, MaxIn
      <3>2. s \ {Max(s)} \in SUBSET (1 .. N) /\ t[Max(s)] \in Chars
        BY <1>0, <3>1
      <3>3. h[s \ {Max(s)}] \in Outputs
        BY <1>5, <3>2
      <3> QED BY <1>5, <2>2, <3>2, <3>3
    <2> QED BY <2>1, <2>2
  <1>7. h = [s \in SUBSET (1 .. N) |-> Turn(h, s)]
    BY <1>5, <1>6
  <1>8. PICK g : Folds(g) /\ kputs(o, t) = g[1 .. N]
    BY <1>1, <1>7
  <1>9. g[{}] = o
    <2>1. {} \in SUBSET (1 .. N)
      OBVIOUS
    <2> QED BY <1>8, <2>1
  <1>10. ASSUME NEW k \in 0 .. N - 1, g[1 .. k] \in Outputs
         PROVE  g[1 .. k + 1] = F[<<g[1 .. k], t[k + 1]>>]
    <2>1. /\ 1 .. k + 1 \in SUBSET (1 .. N) /\ 1 .. k + 1 # {}
          /\ Max(1 .. k + 1) = k + 1 /\ (1 .. k + 1) \ {k + 1} = 1 .. k
      BY <1>0, FirstPositions
    <2>2. g[1 .. k + 1] = kputc(g[1 .. k], t[k + 1])
      BY <1>8, <2>1
    <2>3. t[k + 1] \in Chars
      BY <1>0
    <2> QED BY <1>10, <2>2, <2>3
  <1>11. EndOf(g[1 .. N], F, o, t, Outputs)
    <2> HIDE DEF F
    <2>1. RunOf(g, F, o, t, Outputs)
      BY <1>9, <1>10 DEF N, RunOf
    <2> QED BY <1>3, <2>1, FoldLast DEF N
  <1>12. t # <<>> => t[N] \in Chars
    <2>1. t # <<>> => N > 0
      BY DEF N
    <2> QED BY <1>0, <2>1
  <1> QED BY <1>8, <1>11, <1>12 DEF N, EndOf

LEMMA KputsIn ==
    ASSUME NEW o \in Outputs, NEW t \in Seq(Chars)
    PROVE  kputs(o, t) \in Outputs
  <1>1. CASE t = <<>>
    BY <1>1, KputsTurns
  <1>2. CASE t # <<>>
    <2>1. t[Len(t)] \in Chars
      BY <1>2
    <2> QED BY <1>2, <2>1, KputsTurns, KputcPuts
  <1> QED BY <1>1, <1>2

\* What klog_dump does with the characters t.
RawAll(o, t) == FoldLeft(raw_putc, o, t)

LEMMA RawIn ==
    ASSUME NEW o \in Outputs, NEW c \in Chars
    PROVE  raw_putc(o, c) \in Outputs
  BY RawPuts DEF Outputs

\* klog_dump replays likewise.
LEMMA RawTurns ==
    ASSUME NEW o \in Outputs, NEW t \in Seq(Chars)
    PROVE  IF t = <<>> THEN RawAll(o, t) = o
           ELSE \E p \in Outputs : RawAll(o, t) = raw_putc(p, t[Len(t)])
  <1> DEFINE N == Len(t)
             F == [q \in Outputs \X Chars |-> raw_putc(q[1], q[2])]
             Turn(g, s) == IF s = {} THEN o ELSE raw_putc(g[s \ {Max(s)}], t[Max(s)])
             Folds(g) == g = [s \in SUBSET (1 .. N) |-> Turn(g, s)]
  <1>0. N \in Nat /\ DOMAIN t = 1 .. N /\ \A k \in 1 .. N : t[k] \in Chars
    OBVIOUS
  <1>1. RawAll(o, t) = (CHOOSE g : Folds(g))[1 .. N]
    BY <1>0 DEF RawAll, FoldLeft, MapThenFoldSet
  <1>2. \A p \in Outputs, c \in Chars : raw_putc(p, c) \in Outputs
    BY RawIn
  <1>3. F \in [Outputs \X Chars -> Outputs]
    BY <1>2
  <1>4. PICK h : FoldOf(h, F, o, t, Outputs)
    <2> HIDE DEF F
    <2> QED BY <1>3, FoldExists
  <1>5. /\ h \in [SUBSET (1 .. N) -> Outputs]
        /\ \A s \in SUBSET (1 .. N) : h[s] = IF s = {} THEN o ELSE F[<<h[s \ {Max(s)}], t[Max(s)]>>]
    BY <1>4 DEF FoldOf
  <1> HIDE DEF N
  <1>6. ASSUME NEW s \in SUBSET (1 .. N) PROVE h[s] = Turn(h, s)
    <2>1. CASE s = {}
      BY <1>5, <2>1
    <2>2. CASE s # {}
      <3>1. Max(s) \in s
        BY <1>0, <2>2, MaxIn
      <3>2. s \ {Max(s)} \in SUBSET (1 .. N) /\ t[Max(s)] \in Chars
        BY <1>0, <3>1
      <3>3. h[s \ {Max(s)}] \in Outputs
        BY <1>5, <3>2
      <3> QED BY <1>5, <2>2, <3>2, <3>3
    <2> QED BY <2>1, <2>2
  <1>7. h = [s \in SUBSET (1 .. N) |-> Turn(h, s)]
    BY <1>5, <1>6
  <1>8. PICK g : Folds(g) /\ RawAll(o, t) = g[1 .. N]
    BY <1>1, <1>7
  <1>9. g[{}] = o
    <2>1. {} \in SUBSET (1 .. N)
      OBVIOUS
    <2> QED BY <1>8, <2>1
  <1>10. ASSUME NEW k \in 0 .. N - 1, g[1 .. k] \in Outputs
         PROVE  g[1 .. k + 1] = F[<<g[1 .. k], t[k + 1]>>]
    <2>1. /\ 1 .. k + 1 \in SUBSET (1 .. N) /\ 1 .. k + 1 # {}
          /\ Max(1 .. k + 1) = k + 1 /\ (1 .. k + 1) \ {k + 1} = 1 .. k
      BY <1>0, FirstPositions
    <2>2. g[1 .. k + 1] = raw_putc(g[1 .. k], t[k + 1])
      BY <1>8, <2>1
    <2>3. t[k + 1] \in Chars
      BY <1>0
    <2> QED BY <1>10, <2>2, <2>3
  <1>11. EndOf(g[1 .. N], F, o, t, Outputs)
    <2> HIDE DEF F
    <2>1. RunOf(g, F, o, t, Outputs)
      BY <1>9, <1>10 DEF N, RunOf
    <2> QED BY <1>3, <2>1, FoldLast DEF N
  <1>12. t # <<>> => t[N] \in Chars
    <2>1. t # <<>> => N > 0
      BY DEF N
    <2> QED BY <1>0, <2>1
  <1> QED BY <1>8, <1>11, <1>12 DEF N, EndOf

\* The lines that can be typed.
Lines == Seq(Letters)

\* What cmd_history does with the lines t.
PrintAll(o, t) == FoldLeft(LAMBDA p, line : kputs(p, line \o <<NL>>), o, t)

LEMMA LineIn ==
    ASSUME NEW o \in Outputs, NEW line \in Lines
    PROVE  kputs(o, line \o <<NL>>) \in Outputs
  <1>0. Letters \subseteq Chars /\ NL \in Chars
    BY DEF Chars
  <1>1. line \in Seq(Chars) /\ <<NL>> \in Seq(Chars)
    BY <1>0, SeqMonotonic DEF Lines
  <1>2. line \o <<NL>> \in Seq(Chars)
    BY <1>1
  <1> QED BY <1>2, KputsIn

\* So does cmd_history, line by line.
LEMMA PrintTurns ==
    ASSUME NEW o \in Outputs, NEW t \in Seq(Lines)
    PROVE  IF t = <<>> THEN PrintAll(o, t) = o
           ELSE \E p \in Outputs : PrintAll(o, t) = kputs(p, t[Len(t)] \o <<NL>>)
  <1> DEFINE N == Len(t)
             F == [q \in Outputs \X Lines |-> kputs(q[1], q[2] \o <<NL>>)]
             Turn(g, s) == IF s = {} THEN o ELSE kputs(g[s \ {Max(s)}], t[Max(s)] \o <<NL>>)
             Folds(g) == g = [s \in SUBSET (1 .. N) |-> Turn(g, s)]
  <1>0. N \in Nat /\ DOMAIN t = 1 .. N /\ \A k \in 1 .. N : t[k] \in Lines
    OBVIOUS
  <1>1. PrintAll(o, t) = (CHOOSE g : Folds(g))[1 .. N]
    BY <1>0 DEF PrintAll, FoldLeft, MapThenFoldSet
  <1>2. \A p \in Outputs, c \in Lines : kputs(p, c \o <<NL>>) \in Outputs
    BY LineIn
  <1>3. F \in [Outputs \X Lines -> Outputs]
    BY <1>2
  <1>4. PICK h : FoldOf(h, F, o, t, Outputs)
    <2> HIDE DEF F
    <2> QED BY <1>3, FoldExists
  <1>5. /\ h \in [SUBSET (1 .. N) -> Outputs]
        /\ \A s \in SUBSET (1 .. N) : h[s] = IF s = {} THEN o ELSE F[<<h[s \ {Max(s)}], t[Max(s)]>>]
    BY <1>4 DEF FoldOf
  <1> HIDE DEF N
  <1>6. ASSUME NEW s \in SUBSET (1 .. N) PROVE h[s] = Turn(h, s)
    <2>1. CASE s = {}
      BY <1>5, <2>1
    <2>2. CASE s # {}
      <3>1. Max(s) \in s
        BY <1>0, <2>2, MaxIn
      <3>2. s \ {Max(s)} \in SUBSET (1 .. N) /\ t[Max(s)] \in Lines
        BY <1>0, <3>1
      <3>3. h[s \ {Max(s)}] \in Outputs
        BY <1>5, <3>2
      <3> QED BY <1>5, <2>2, <3>2, <3>3
    <2> QED BY <2>1, <2>2
  <1>7. h = [s \in SUBSET (1 .. N) |-> Turn(h, s)]
    BY <1>5, <1>6
  <1>8. PICK g : Folds(g) /\ PrintAll(o, t) = g[1 .. N]
    BY <1>1, <1>7
  <1>9. g[{}] = o
    <2>1. {} \in SUBSET (1 .. N)
      OBVIOUS
    <2> QED BY <1>8, <2>1
  <1>10. ASSUME NEW k \in 0 .. N - 1, g[1 .. k] \in Outputs
         PROVE  g[1 .. k + 1] = F[<<g[1 .. k], t[k + 1]>>]
    <2>1. /\ 1 .. k + 1 \in SUBSET (1 .. N) /\ 1 .. k + 1 # {}
          /\ Max(1 .. k + 1) = k + 1 /\ (1 .. k + 1) \ {k + 1} = 1 .. k
      BY <1>0, FirstPositions
    <2>2. g[1 .. k + 1] = kputs(g[1 .. k], t[k + 1] \o <<NL>>)
      BY <1>8, <2>1
    <2>3. t[k + 1] \in Lines
      BY <1>0
    <2> QED BY <1>10, <2>2, <2>3
  <1>11. EndOf(g[1 .. N], F, o, t, Outputs)
    <2> HIDE DEF F
    <2>1. RunOf(g, F, o, t, Outputs)
      BY <1>9, <1>10 DEF N, RunOf
    <2> QED BY <1>3, <2>1, FoldLast DEF N
  <1>12. t # <<>> => t[N] \in Lines
    <2>1. t # <<>> => N > 0
      BY DEF N
    <2> QED BY <1>0, <2>1
  <1> QED BY <1>8, <1>11, <1>12 DEF N, EndOf

----------------------------------------------------------------------------
(* The shell.                                                              *)

\* The prompt and the line stand before the cursor unless a letter is torn off
\* from the line; the rings hold what was printed and entered last.
ShellInv ==
    /\ s_line \in Lines /\ Len(s_line) < LINE_MAX
    /\ Holds(hist, hist_n, typed, HIST_MAX, Lines)
    /\ out \in Outputs
    /\ (mode = "text" \/ g_app = "terminal") /\ ~torn => Shows(Current(out), Prompt \o s_line)

LEMMA ShellSize ==
    /\ HIST_MAX \in Nat \ {0} /\ KLOG_CAP \in Nat \ {0} /\ LINE_MAX \in Nat \ {0}
    /\ LINE_MAX <= (ROWS - 1) * COLS /\ (ROWS - 1) * COLS \in Nat
  BY ShellAssumption, ConsoleAssumption, Area

LEMMA EchoRead == ShellInv => EchoIsLine
  <1> SUFFICES ASSUME ShellInv PROVE EchoIsLine
    OBVIOUS
  <1> DEFINE s == Current(out)
             text == Prompt \o s_line
             visible == mode = "text" \/ g_app = "terminal"
  <1>1. s \in Screens
    BY OutFields DEF ShellInv, Outputs
  <1>2. s \in ScreenType /\ \A p \in Positions : p >= Offset(s) => CellAt(s.cells, p) = " "
    BY <1>1 DEF Screens
  <1>3. Offset(s) \in Nat
    BY <1>2, PlaceIn
  <1>4. ASSUME NEW p \in Offset(s) .. ROWS * COLS - 1 PROVE CellAt(s.cells, p) = " "
    <2> HIDE DEF s
    <2>1. p \in Positions /\ p >= Offset(s)
      BY <1>3, Area DEF Positions
    <2> QED BY <1>2, <2>1
  <1>5. ASSUME visible, ~torn
        PROVE  /\ Offset(s) >= Len(text)
               /\ \A k \in 1 .. Len(text) : CellAt(s.cells, Offset(s) - Len(text) + k - 1) = text[k]
    <2>1. Shows(s, text)
      BY <1>5 DEF ShellInv
    <2>2. Len(text) \in Nat
      BY DEF ShellInv, Lines, Prompt
    <2> HIDE DEF s, text
    <2> QED BY <1>3, <2>1, <2>2 DEF Shows
  <1> QED BY <1>4, <1>5 DEF EchoIsLine, Current, Offset, CellAt

LEMMA LogsRead == ShellInv => LogsAreRecent
  <1> SUFFICES ASSUME ShellInv PROVE LogsAreRecent
    OBVIOUS
  <1>1. Holds(hist, hist_n, typed, HIST_MAX, Lines)
    BY DEF ShellInv
  <1>2. Holds(out.klog, out.klog_w, out.recent, KLOG_CAP, Chars)
    BY DEF ShellInv, Outputs
  <1>3. Listed(hist, hist_n) = typed
    BY <1>1, ShellSize, HoldsRead DEF Listed
  <1>4. Captured(out) = out.recent
    BY <1>2, ShellSize, HoldsRead DEF Captured
  <1> QED BY <1>3, <1>4 DEF LogsAreRecent

\* After a string that ends with the prompt, the prompt stands before the
\* cursor.
LEMMA PromptShows ==
    ASSUME NEW o \in Outputs, NEW t \in Seq(Chars), t # <<>>, t[Len(t)] = ">"
    PROVE  kputs(o, t) \in Outputs /\ Shows(Current(kputs(o, t)), Prompt \o <<>>)
  <1>0. ">" \in Chars \ {NL, BS} /\ ">" \in Chars
    BY DEF Chars, NL, BS
  <1>1. PICK p \in Outputs : kputs(o, t) = kputc(p, ">")
    BY KputsTurns
  <1>2. /\ kputc(p, ">") \in Outputs
        /\ Puts(Current(p), ">", Current(kputc(p, ">")))
    BY <1>0, KputcPuts
  <1>3. Current(p) \in ScreenType
    BY OutFields DEF Outputs, Screens
  <1>4. Shows(Current(p), <<>>)
    <2>1. Offset(Current(p)) \in Nat
      BY <1>3, PlaceIn
    <2>2. Len(<<>>) = 0 /\ 1 .. 0 = {}
      OBVIOUS
    <2> QED BY <2>1, <2>2 DEF Shows
  <1>5. <<>> \in Seq(Chars) /\ Len(<<>>) + 1 <= (ROWS - 1) * COLS
    BY ShellSize
  <1>6. Shows(Current(kputc(p, ">")), Append(<<>>, ">"))
    BY <1>0, <1>2, <1>3, <1>4, <1>5, ShowsNext
  <1>7. Append(<<>>, ">") = Prompt \o <<>>
    BY DEF Prompt
  <1> QED BY <1>1, <1>2, <1>6, <1>7

LEMMA ClearedScreen == Cleared \in Screens
  <1>1. Blank \in Matrix
    BY DEF Blank, Matrix, Chars
  <1>2. Cleared \in ScreenType /\ Cleared.cells = Blank
    BY <1>1, ScreenSize DEF Cleared, ScreenType
  <1>3. ASSUME NEW p \in Positions PROVE CellAt(Blank, p) = " "
    <2>1. p \in Int /\ p \div COLS \in 0 .. ROWS - 1
      BY PlaceRow DEF Positions
    <2>2. p % COLS \in 0 .. COLS - 1
      BY <2>1, PlaceSplits
    <2> QED BY <2>1, <2>2 DEF CellAt, Blank
  <1> QED BY <1>2, <1>3 DEF Screens

LEMMA NoOutputIn == NoOutput \in Outputs
  <1> DEFINE k == [i \in 0 .. KLOG_CAP - 1 |-> ""]
  <1>1. k \in [0 .. KLOG_CAP - 1 -> Chars]
    BY DEF Chars
  <1>2. Holds(k, 0, <<>>, KLOG_CAP, Chars)
    <2>1. Len(<<>>) = 0 /\ <<>> \in Seq(Chars) /\ 1 .. 0 = {} /\ ~(0 > KLOG_CAP)
      BY ShellSize
    <2> HIDE DEF k
    <2> QED BY <1>1, <2>1 DEF Holds
  <1>3. NoOutput \in OutType
    <2>1. NoOutput = [vga |-> Cleared, gcon |-> Cleared, active |-> FALSE,
                      klog |-> k, klog_w |-> 0, recent |-> <<>>]
      BY DEF NoOutput
    <2>2. <<>> \in Seq(Chars) /\ 0 \in Nat /\ FALSE \in BOOLEAN
      OBVIOUS
    <2> HIDE DEF k
    <2> QED BY <1>1, <2>1, <2>2, ClearedScreen DEF OutType
  <1>4. NoOutput.klog = k /\ NoOutput.klog_w = 0 /\ NoOutput.recent = <<>>
    BY DEF NoOutput
  <1> QED BY <1>2, <1>3, <1>4 DEF Outputs

LEMMA StartShows ==
    ASSUME NEW o \in Outputs
    PROVE  shell_start(o) \in Outputs /\ Shows(Current(shell_start(o)), Prompt \o <<>>)
  <1> DEFINE a == <<"#", NL, NL>>
             t == a \o Prompt
  <1>1. a \in Seq(Chars) /\ Prompt \in Seq(Chars) /\ Len(a) = 3 /\ Len(Prompt) = 1 /\ Prompt[1] = ">"
    BY DEF Chars, Prompt
  <1> HIDE DEF a
  <1>2. t \in Seq(Chars) /\ Len(t) = 4 /\ t[4] = ">"
    <2>1. t \in Seq(Chars) /\ Len(t) = Len(a) + Len(Prompt)
      BY <1>1, ConcatProperties
    <2>2. \A i \in 1 .. Len(a) + Len(Prompt) :
            t[i] = IF i <= Len(a) THEN a[i] ELSE Prompt[i - Len(a)]
      BY <1>1, ConcatProperties
    <2>3. Len(a) + Len(Prompt) = 4 /\ 4 \in 1 .. 4 /\ ~(4 <= Len(a)) /\ 4 - Len(a) = 1
      BY <1>1
    <2> HIDE DEF t
    <2> QED BY <1>1, <2>1, <2>2, <2>3
  <1>3. t # <<>> /\ t[Len(t)] = ">"
    BY <1>2
  <1>4. shell_start(o) = kputs(o, t)
    BY DEF shell_start, a
  <1> HIDE DEF t
  <1> QED BY <1>2, <1>3, <1>4, PromptShows

LEMMA OpenShows ==
    ASSUME NEW o \in Outputs
    PROVE  OpenTerminal(o) \in Outputs /\ Shows(Current(OpenTerminal(o)), Prompt \o <<>>)
  <1> DEFINE e == [o EXCEPT !.gcon = Cleared]
             f == [e EXCEPT !.active = TRUE]
  <1>1. o \in OutType /\ Holds(o.klog, o.klog_w, o.recent, KLOG_CAP, Chars)
    BY DEF Outputs
  <1>2. e \in OutType
    BY <1>1, ClearedScreen, OutChanges
  <1>3. f \in OutType
    <2> HIDE DEF e
    <2> QED BY <1>2, OutChanges
  <1>4. f.klog = o.klog /\ f.klog_w = o.klog_w /\ f.recent = o.recent
    BY <1>1 DEF OutType
  <1>5. f \in Outputs
    <2> HIDE DEF f
    <2> QED BY <1>1, <1>3, <1>4 DEF Outputs
  <1>6. [o EXCEPT !.gcon = Cleared, !.active = TRUE] = f
    OBVIOUS
  <1>7. OpenTerminal(o) = shell_start(kputs(f, <<"#", NL>>))
    BY <1>6 DEF OpenTerminal
  <1>8. <<"#", NL>> \in Seq(Chars)
    BY DEF Chars
  <1> HIDE DEF f
  <1> QED BY <1>5, <1>7, <1>8, KputsIn, StartShows

LEMMA OutputKept ==
    ASSUME NEW o \in Outputs
    PROVE  /\ [o EXCEPT !.active = FALSE] \in Outputs
           /\ [o EXCEPT !.gcon = Cleared] \in Outputs
           /\ [o EXCEPT !.vga = Cleared] \in Outputs
  <1>1. o \in OutType /\ Holds(o.klog, o.klog_w, o.recent, KLOG_CAP, Chars)
    BY DEF Outputs
  <1>2. ASSUME NEW q \in OutType, q.klog = o.klog, q.klog_w = o.klog_w, q.recent = o.recent
        PROVE  q \in Outputs
    BY <1>1, <1>2 DEF Outputs
  <1>3. /\ [o EXCEPT !.active = FALSE] \in OutType
        /\ [o EXCEPT !.gcon = Cleared] \in OutType
        /\ [o EXCEPT !.vga = Cleared] \in OutType
    BY <1>1, ClearedScreen, OutChanges
  <1>4. [o EXCEPT !.active = FALSE] \in Outputs
    BY <1>1, <1>2, <1>3 DEF OutType
  <1>5. [o EXCEPT !.gcon = Cleared] \in Outputs
    BY <1>1, <1>2, <1>3 DEF OutType
  <1>6. [o EXCEPT !.vga = Cleared] \in Outputs
    BY <1>1, <1>2, <1>3 DEF OutType
  <1> QED BY <1>4, <1>5, <1>6

\* What a command prints leaves the screens and the log in order.
LEMMA PrintedIn ==
    ASSUME NEW o \in Outputs, NEW line, Holds(hist', hist_n', typed', HIST_MAX, Lines)
    PROVE  Printed(o, line) \in Outputs
  <1>1. cmd_history(o, hist', hist_n') \in Outputs
    <2>0. Listed(hist', hist_n') = typed'
      BY ShellSize, HoldsRead DEF Listed
    <2>1. Listed(hist', hist_n') = typed' /\ typed' \in Seq(Lines)
      BY <2>0 DEF Holds
    <2>2. cmd_history(o, hist', hist_n') = PrintAll(o, typed')
      BY <2>1 DEF cmd_history, PrintAll
    <2>3. typed' # <<>> => typed'[Len(typed')] \in Lines
      BY <2>1
    <2> QED BY <2>1, <2>2, <2>3, PrintTurns, LineIn
  <1>2. klog_dump(o) \in Outputs
    <2>a. Holds(o.klog, o.klog_w, o.recent, KLOG_CAP, Chars)
      BY DEF Outputs
    <2>b. Captured(o) = o.recent
      BY <2>a, ShellSize, HoldsRead DEF Captured
    <2>1. Captured(o) = o.recent /\ o.recent \in Seq(Chars)
      BY <2>a, <2>b DEF Holds
    <2>2. klog_dump(o) = RawAll(o, o.recent)
      BY <2>1 DEF klog_dump, RawAll
    <2>3. o.recent # <<>> => o.recent[Len(o.recent)] \in Chars
      BY <2>1
    <2> QED BY <2>1, <2>2, <2>3, RawTurns, RawIn
  <1>3. kputs(o, <<"#", NL>>) \in Outputs
    <2>1. <<"#", NL>> \in Seq(Chars)
      BY DEF Chars
    <2> QED BY <2>1, KputsIn
  <1>4. OpenTerminal(o) \in Outputs
    BY OpenShows
  <1> QED BY <1>1, <1>2, <1>3, <1>4, OutputKept DEF Printed

LEMMA ShellInvInit == SessionInit => ShellInv
  <1> SUFFICES ASSUME SessionInit PROVE ShellInv
    OBVIOUS
  <1>0. ShellInit
    BY DEF SessionInit
  <1>1. s_line = <<>> /\ <<>> \in Lines /\ Len(<<>>) < LINE_MAX
    BY <1>0, ShellSize DEF ShellInit, Lines
  <1>2. Holds(hist, hist_n, typed, HIST_MAX, Lines)
    <2>1. hist \in [0 .. HIST_MAX - 1 -> Lines] /\ hist_n = 0 /\ typed = <<>>
      BY <1>0 DEF ShellInit, Lines
    <2>2. Len(<<>>) = 0 /\ <<>> \in Seq(Lines) /\ 1 .. 0 = {} /\ ~(0 > HIST_MAX)
      BY ShellSize
    <2> QED BY <2>1, <2>2 DEF Holds
  <1>3. <<"#", NL, NL>> \in Seq(Chars)
    BY DEF Chars
  <1>4. out \in Outputs /\ Shows(Current(out), Prompt \o <<>>)
    <2>1. CASE mode = "text"
      <3>1. out = shell_start(kputs(NoOutput, <<"#", NL, NL>>))
        BY <1>0, <2>1 DEF ShellInit
      <3> QED BY <1>3, <3>1, NoOutputIn, KputsIn, StartShows
    <2>2. CASE mode # "text"
      <3>1. out = OpenTerminal(NoOutput)
        BY <1>0, <2>2 DEF ShellInit
      <3> QED BY <3>1, NoOutputIn, OpenShows
    <2> QED BY <2>1, <2>2
  <1> QED BY <1>1, <1>2, <1>4 DEF ShellInv

LEMMA RecordHolds ==
    ASSUME ShellInv, hist_record(s_line)
    PROVE  Holds(hist', hist_n', typed', HIST_MAX, Lines)
  <1>1. Holds(hist, hist_n, typed, HIST_MAX, Lines) /\ s_line \in Lines
    BY DEF ShellInv
  <1>2. CASE s_line = <<>>
    BY <1>1, <1>2 DEF hist_record
  <1>3. CASE s_line # <<>>
    <2>1. /\ hist' = [hist EXCEPT ![hist_n % HIST_MAX] = s_line]
          /\ hist_n' = hist_n + 1 /\ typed' = Latest(Append(typed, s_line), HIST_MAX)
      BY <1>3 DEF hist_record
    <2> QED BY <1>1, <2>1, ShellSize, HoldsNext
  <1> QED BY <1>2, <1>3

LEMMA ExecuteKeeps == ShellInv /\ execute => ShellInv'
  <1> SUFFICES ASSUME ShellInv, execute PROVE ShellInv'
    OBVIOUS
  <1>1. Holds(hist', hist_n', typed', HIST_MAX, Lines)
    BY RecordHolds DEF execute
  <1>2. s_line' = <<>> /\ <<>> \in Lines /\ Len(<<>>) < LINE_MAX
    BY ShellSize DEF execute, Lines
  <1> DEFINE o == Printed(kputc(out, NL), s_line)
  <1>3. o \in Outputs
    <2>1. NL \in Chars /\ out \in Outputs
      BY DEF Chars, ShellInv
    <2> QED BY <1>1, <2>1, KputcPuts, PrintedIn
  <1>4. out' = kputs(o, Prompt)
    BY DEF execute
  <1>5. Prompt \in Seq(Chars) /\ Len(Prompt) = 1 /\ Prompt[1] = ">"
    BY DEF Prompt, Chars
  <1>6. Prompt # <<>> /\ Prompt[Len(Prompt)] = ">"
    BY <1>5
  <1> HIDE DEF o
  <1>7. out' \in Outputs /\ Shows(Current(out'), Prompt \o <<>>)
    BY <1>3, <1>4, <1>5, <1>6, PromptShows
  <1>8. Shows(Current(out)', Prompt \o s_line')
    BY <1>2, <1>7 DEF Current
  <1> QED BY <1>1, <1>2, <1>7, <1>8 DEF ShellInv

\* The prompt and the line, with a letter more and with a letter less.
LEMMA TextSteps ==
    ASSUME NEW line \in Lines
    PROVE  /\ Prompt \o line \in Seq(Chars) /\ Len(Prompt \o line) = Len(line) + 1
           /\ \A c \in Letters : Append(Prompt \o line, c) = Prompt \o Append(line, c)
           /\ line # <<>> => Front(Prompt \o line) = Prompt \o Front(line)
  <1>0. Letters \subseteq Chars /\ ">" \in Chars
    BY DEF Chars
  <1>1. line \in Seq(Chars) /\ Prompt \in Seq(Chars) /\ Len(Prompt) = 1
    BY <1>0, SeqMonotonic DEF Lines, Prompt
  <1>2. Prompt \o line \in Seq(Chars) /\ Len(Prompt \o line) = Len(line) + 1
    <2>1. Prompt \o line \in Seq(Chars) /\ Len(Prompt \o line) = Len(Prompt) + Len(line)
      BY <1>1, ConcatProperties
    <2>2. Len(line) \in Nat
      BY <1>1
    <2> QED BY <1>1, <2>1, <2>2
  <1>3. ASSUME NEW c \in Chars PROVE Append(Prompt \o line, c) = Prompt \o Append(line, c)
    BY <1>1
  <1>4. ASSUME line # <<>> PROVE Front(Prompt \o line) = Prompt \o Front(line)
    <2>1. Len(line) \in Nat \ {0}
      BY <1>1, <1>4
    <2> DEFINE n == Len(line)
               b == SubSeq(line, 1, n - 1)
    <2>2. Front(line) = b /\ Front(Prompt \o line) = SubSeq(Prompt \o line, 1, n)
      BY <1>2, <2>1 DEF Front
    <2>3. /\ b \in Seq(Chars) /\ Len(b) = n - 1
          /\ \A k \in 1 .. n - 1 : b[k] = line[k]
      BY <1>1, <2>1
    <2> HIDE DEF b, n
    <2>4. n \in Nat \ {0} /\ n = Len(line)
      BY <2>1 DEF n
    <2>5. SubSeq(Prompt \o line, 1, n) \in Seq(Chars) /\ Prompt \o b \in Seq(Chars)
      BY <1>1, <1>2, <2>3, <2>4
    <2>6. Len(SubSeq(Prompt \o line, 1, n)) = n /\ Len(Prompt \o b) = n
      BY <1>1, <1>2, <2>3, <2>4
    <2>7. ASSUME NEW k \in 1 .. n PROVE SubSeq(Prompt \o line, 1, n)[k] = (Prompt \o b)[k]
      <3>1. SubSeq(Prompt \o line, 1, n)[k] = (Prompt \o line)[k]
        BY <1>1, <1>2, <2>4
      <3>2. (Prompt \o line)[k] = IF k = 1 THEN Prompt[1] ELSE line[k - 1]
        <4>1. k \in 1 .. Len(Prompt) + Len(line) /\ (k <= Len(Prompt) <=> k = 1)
          BY <1>1, <2>4
        <4>2. \A i \in 1 .. Len(Prompt) + Len(line) :
                (Prompt \o line)[i] = IF i <= Len(Prompt) THEN Prompt[i] ELSE line[i - Len(Prompt)]
          BY <1>1, ConcatProperties
        <4> QED BY <1>1, <4>1, <4>2
      <3>3. (Prompt \o b)[k] = IF k = 1 THEN Prompt[1] ELSE b[k - 1]
        <4>1. k \in 1 .. Len(Prompt) + Len(b) /\ (k <= Len(Prompt) <=> k = 1)
          BY <1>1, <2>3, <2>4
        <4>2. \A i \in 1 .. Len(Prompt) + Len(b) :
                (Prompt \o b)[i] = IF i <= Len(Prompt) THEN Prompt[i] ELSE b[i - Len(Prompt)]
          BY <1>1, <2>3, ConcatProperties
        <4> QED BY <1>1, <4>1, <4>2
      <3>4. k # 1 => k - 1 \in 1 .. n - 1
        BY <2>4
      <3> QED BY <2>3, <3>1, <3>2, <3>3, <3>4
    <2> QED BY <2>2, <2>5, <2>6, <2>7, SeqEqual
  <1> QED BY <1>0, <1>2, <1>3, <1>4

LEMMA RuboutKeeps ==
    ASSUME ShellInv, rubout, UNCHANGED mode
    PROVE  ShellInv'
  <1>0. /\ s_line \in Lines /\ Len(s_line) < LINE_MAX /\ s_line # <<>>
        /\ out \in Outputs /\ BS \in Chars /\ Lines = Seq(Letters)
        /\ Holds(hist, hist_n, typed, HIST_MAX, Lines)
    BY DEF ShellInv, rubout, Chars, Lines
  <1>1. s_line' = Front(s_line) /\ s_line' \in Lines /\ Len(s_line') < LINE_MAX
    <2>1. s_line' = SubSeq(s_line, 1, Len(s_line) - 1)
      BY DEF rubout, Front
    <2>2. Len(s_line) \in Nat \ {0}
      BY <1>0
    <2> DEFINE n == Len(s_line)
    <2>3. \A i \in 1 .. n - 1 : s_line[i] \in Letters
      BY <1>0
    <2>4. SubSeq(s_line, 1, n - 1) \in Seq(Letters) /\ Len(SubSeq(s_line, 1, n - 1)) = n - 1
      <3> HIDE DEF n
      <3>1. n \in Nat \ {0}
        BY <2>2 DEF n
      <3> QED BY <2>3, <3>1, SubSeqProperties
    <2> QED BY <1>0, <2>1, <2>2, <2>4, ShellSize DEF Front
  <1>2. out' = kputc(out, BS)
    BY DEF rubout
  <1>3. out' \in Outputs /\ Puts(Current(out), BS, Current(out'))
    BY <1>0, <1>2, KputcPuts
  <1>4. Current(out) \in ScreenType
    BY <1>0, OutFields DEF Outputs, Screens
  <1>5. ASSUME mode = "text" \/ g_app = "terminal", ~torn'
        PROVE  Shows(Current(out'), Prompt \o s_line')
    <2>1. ~torn /\ Current(out).col # 0
      BY <1>5 DEF rubout, Current
    <2>2. Shows(Current(out), Prompt \o s_line)
      BY <1>5, <2>1 DEF ShellInv
    <2>3. Prompt \o s_line \in Seq(Chars) /\ Prompt \o s_line # <<>>
      <3>1. Prompt \o s_line \in Seq(Chars) /\ Len(Prompt \o s_line) = Len(s_line) + 1
        BY <1>0, TextSteps
      <3>2. Len(s_line) \in Nat
        BY <1>0
      <3>3. Prompt \o s_line = <<>> => Len(Prompt \o s_line) = 0
        OBVIOUS
      <3> QED BY <3>1, <3>2, <3>3
    <2>4. Shows(Current(out'), Front(Prompt \o s_line))
      BY <1>3, <1>4, <2>1, <2>2, <2>3, ShowsBefore
    <2> QED BY <1>0, <1>1, <2>4, TextSteps
  <1>6. UNCHANGED <<g_app, hist, hist_n, typed>>
    BY DEF rubout
  <1>7. Current(out)' = Current(out')
    BY DEF Current
  <1> QED BY <1>0, <1>1, <1>3, <1>5, <1>6, <1>7 DEF ShellInv

LEMMA InsertKeeps ==
    ASSUME ShellInv, NEW c \in Letters, insert(c), UNCHANGED mode
    PROVE  ShellInv'
  <1>0. /\ s_line \in Lines /\ Len(s_line) < LINE_MAX - 1
        /\ out \in Outputs /\ Lines = Seq(Letters)
        /\ Holds(hist, hist_n, typed, HIST_MAX, Lines)
    BY DEF ShellInv, insert, Lines
  <1>1. c \in Chars /\ c \in Chars \ {NL, BS}
    BY ShellAssumption DEF Chars
  <1>2. s_line' = Append(s_line, c) /\ s_line' \in Lines /\ Len(s_line') < LINE_MAX
    <2>1. s_line' = Append(s_line, c)
      BY DEF insert
    <2>2. s_line' \in Seq(Letters) /\ Len(s_line') = Len(s_line) + 1
      BY <1>0, <2>1
    <2>3. Len(s_line) \in Nat
      BY <1>0
    <2> QED BY <1>0, <2>1, <2>2, <2>3, ShellSize
  <1>3. out' = kputc(out, c)
    BY DEF insert
  <1>4. out' \in Outputs /\ Puts(Current(out), c, Current(out'))
    BY <1>0, <1>1, <1>3, KputcPuts
  <1>5. Current(out) \in ScreenType
    BY <1>0, OutFields DEF Outputs, Screens
  <1>6. UNCHANGED <<g_app, hist, hist_n, torn, typed>>
    BY DEF insert
  <1>7. ASSUME mode = "text" \/ g_app = "terminal", ~torn
        PROVE  Shows(Current(out'), Prompt \o s_line')
    <2>1. Shows(Current(out), Prompt \o s_line)
      BY <1>7 DEF ShellInv
    <2>2. Prompt \o s_line \in Seq(Chars) /\ Len(Prompt \o s_line) + 1 <= (ROWS - 1) * COLS
      <3>1. Prompt \o s_line \in Seq(Chars) /\ Len(Prompt \o s_line) = Len(s_line) + 1
        BY <1>0, TextSteps
      <3>2. Len(s_line) \in Nat
        BY <1>0
      <3>3. LINE_MAX \in Nat /\ LINE_MAX <= (ROWS - 1) * COLS /\ (ROWS - 1) * COLS \in Nat
        BY ShellSize
      <3> QED BY <1>0, <3>1, <3>2, <3>3
    <2>3. Shows(Current(out'), Append(Prompt \o s_line, c))
      BY <1>1, <1>4, <1>5, <2>1, <2>2, ShowsNext
    <2> QED BY <1>0, <1>2, <2>3, TextSteps
  <1>8. Current(out)' = Current(out')
    BY DEF Current
  <1> QED BY <1>0, <1>2, <1>4, <1>6, <1>7, <1>8 DEF ShellInv

LEMMA OpenAppKeeps ==
    ASSUME ShellInv, NEW app \in {"terminal", "other"}, desktop_open_app(app), UNCHANGED mode
    PROVE  ShellInv'
  <1>0. /\ out \in Outputs /\ Holds(hist, hist_n, typed, HIST_MAX, Lines)
        /\ s_line \in Lines /\ Len(s_line) < LINE_MAX
    BY DEF ShellInv
  <1>1. UNCHANGED <<hist, hist_n, typed>> /\ mode = "desktop" /\ g_app' = app
    BY DEF desktop_open_app
  <1>2. CASE app = "terminal"
    <2>1. out' = OpenTerminal(out) /\ s_line' = <<>>
      BY <1>2 DEF desktop_open_app
    <2>2. out' \in Outputs /\ Shows(Current(out'), Prompt \o <<>>)
      BY <1>0, <2>1, OpenShows
    <2>3. Shows(Current(out)', Prompt \o s_line')
      BY <2>1, <2>2 DEF Current
    <2>4. <<>> \in Lines /\ Len(<<>>) < LINE_MAX
      BY ShellSize DEF Lines
    <2> QED BY <1>0, <1>1, <2>1, <2>2, <2>3, <2>4 DEF ShellInv
  <1>3. CASE app = "other"
    <2>1. out' = [out EXCEPT !.active = FALSE] /\ UNCHANGED s_line
      BY <1>3 DEF desktop_open_app
    <2>2. out' \in Outputs
      BY <1>0, <2>1, OutputKept
    <2>3. ~(mode' = "text" \/ g_app' = "terminal")
      BY <1>1, <1>3
    <2> QED BY <1>0, <1>1, <2>1, <2>2, <2>3 DEF ShellInv
  <1> QED BY <1>2, <1>3

LEMMA ShellInvStep ==
    ShellInv /\ [SessionNext]_<<vars, shellVars, session>> => ShellInv'
  <1> SUFFICES ASSUME ShellInv, [SessionNext]_<<vars, shellVars, session>> PROVE ShellInv'
    OBVIOUS
  <1>1. ASSUME UNCHANGED shellVars PROVE ShellInv'
    BY <1>1 DEF shellVars, ShellInv, Current
  <1>2. ASSUME ShellNext PROVE ShellInv'
    <2>0. UNCHANGED mode
      BY <1>2 DEF ShellNext
    <2>1. CASE execute
      BY <2>1, ExecuteKeeps
    <2>2. CASE rubout
      BY <2>0, <2>2, RuboutKeeps
    <2>3. CASE \E c \in Letters : insert(c)
      BY <2>0, <2>3, InsertKeeps
    <2>4. CASE ignore
      BY <1>1, <2>0, <2>4 DEF ignore, shellVars
    <2>5. CASE \E app \in {"terminal", "other"} : desktop_open_app(app)
      BY <2>0, <2>5, OpenAppKeeps
    <2> QED BY <1>2, <2>1, <2>2, <2>3, <2>4, <2>5 DEF ShellNext, shell_feed_char
  <1> QED BY <1>1, <1>2 DEF SessionNext

LEMMA ShellInvHolds == SessionSpec => []ShellInv
  <1>1. SessionInit => ShellInv
    BY ShellInvInit
  <1>2. ShellInv /\ [SessionNext]_<<vars, shellVars, session>> => ShellInv'
    BY ShellInvStep
  <1> QED BY <1>1, <1>2, PTL DEF SessionSpec

\* `history' lists exactly the last HIST_MAX lines that were not empty and
\* `dmesg' replays exactly the last KLOG_CAP characters printed, oldest first,
\* for rings of every size (hist_record and cmd_history of shell.c, kputc and
\* klog_dump of kprintf.c).
THEOREM LogsListLatest == SessionSpec => []LogsAreRecent
  BY ShellInvHolds, LogsRead, PTL

\* What the user sees before the cursor is the prompt and the line that Enter
\* will run, on a screen of every size that can hold a line, whatever was
\* printed, scrolled, cleared or opened before (shell_feed_char of shell.c above
\* vga_putc and gcon_putc).
THEOREM EchoShowsLine == SessionSpec => []EchoIsLine
  BY ShellInvHolds, EchoRead, PTL

\* The cursors are on their screens, and the line leaves room for its zero.
InBounds ==
    /\ Len(s_line) < LINE_MAX
    /\ \A s \in {out.vga, out.gcon} : s.row \in 0 .. ROWS - 1 /\ s.col \in 0 .. COLS - 1

\* Whatever is typed and printed, the line editor stays in its buffer and both
\* consoles on their screens, also where a character ends the last row
\* (shell_feed_char of shell.c, vga_putc and vga_scroll of vga.c, gcon_putc and
\* newline of gconsole.c).
THEOREM EditingStaysInBounds == SessionSpec => []InBounds
  <1>1. ShellInv => InBounds
    <2> SUFFICES ASSUME ShellInv PROVE InBounds
      OBVIOUS
    <2>1. Len(s_line) < LINE_MAX /\ out.vga \in ScreenType /\ out.gcon \in ScreenType
      BY OutFields DEF ShellInv, Outputs, Screens
    <2> QED BY <2>1, PlaceIn DEF InBounds
  <1> QED BY <1>1, ShellInvHolds, PTL
============================================================================
