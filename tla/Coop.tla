-------------------------------- MODULE Coop --------------------------------
(***************************************************************************)
(* Cooperative multitasking, kernel/sched/coop.c: the demo run at boot and *)
(* by the shell's `tasks' command.  Each worker has a stack of its own and *)
(* hands the CPU over in coop_yield, which asks the policy of Sched who is *)
(* next and calls thuos_context_switch.                                    *)
(*                                                                         *)
(* A context is a worker 0 .. NCOOP-1 or the kernel's own, -1.  What a     *)
(* switch pushes, the callee-saved registers (they and the stack hold the  *)
(* locals me and i) and the return address, is one frame.  A saved esp is  *)
(* a stack and the number of frames on it.  Printing is left out, except   *)
(* that `ticks' counts the lines each worker prints.                       *)
(*                                                                         *)
(* csched is one of the two tables kept with sched_core, the other being   *)
(* that of sched.c (SchedDemo).  They share nothing: a behaviour follows   *)
(* one.                                                                    *)
(***************************************************************************)
EXTENDS SchedDemo, Sequences

CONSTANT ITERS   \* yields of a worker before it exits

ASSUME ItersAssumption == ITERS \in Nat

NCOOP == CAP - 1

Workers == 0 .. NCOOP - 1

Main == -1

Contexts == Workers \cup {Main}

VARIABLES
    user,     \* the client of sched_core this behaviour follows
    running,  \* `current' of coop.c
    stacks,   \* the frames on each context's stack
    esp,      \* cmain.esp and ctask[].esp
    cpu,      \* the stack esp is on, the place in the code, the locals
    ticks     \* history: lines printed by each worker in this demo

coopVars == <<user, running, stacks, esp, cpu, ticks>>

allVars == <<vars, kd, coopVars>>

CoopInit ==
    /\ KdInit
    /\ user \in {"sched.c", "coop.c"}
    /\ running = Main
    /\ stacks = [c \in Contexts |-> <<>>]
    /\ esp = [c \in Contexts |-> [of |-> c, depth |-> 0]]
    /\ cpu = [on |-> Main, at |-> "main", me |-> 0, i |-> 0]
    /\ ticks = [w \in Workers |-> 0]

Frame(at, me, i) == [at |-> at, me |-> me, i |-> i]

\* coop_run_demo up to its loop: the table is cleared and `current' is main.
demo_start ==
    /\ cpu.at = "main"
    /\ tasks' = EmptyTable /\ current' = -1 /\ cursor' = 0
    /\ waited' = [s \in Slots |-> 0]
    /\ running' = Main
    /\ cpu' = [cpu EXCEPT !.at = "add", !.i = 0]
    /\ ticks' = [w \in Workers |-> 0]
    /\ UNCHANGED <<user, stacks, esp>>

\* One turn of the loop: sched_add, then task_init lays out the frame that
\* makes the first switch return into coop_worker.
demo_add ==
    /\ cpu.at = "add" /\ cpu.i < NCOOP
    /\ sched_add(cpu.i, 1)
    /\ stacks' = [stacks EXCEPT ![cpu.i] = <<Frame("worker", 0, 0)>>]
    /\ esp' = [esp EXCEPT ![cpu.i] = [of |-> cpu.i, depth |-> 1]]
    /\ cpu' = [cpu EXCEPT !.i = @ + 1]
    /\ UNCHANGED <<user, running, ticks>>

\* The identifier sched_pick_next returned.
Picked == IF current' < 0 THEN Main ELSE tasks'[current'].id

\* Definitions named Mut_... are faults seeded to show that a property can
\* fail; nothing else uses them.
Mut_SavedIn_Next(prev, next) == next

\* The context whose esp field the switch writes.
SavedIn(prev, next) == prev

\* thuos_context_switch(save, esp[next]), called so that the caller goes on at
\* `ret' with locals me and i: push, store esp, load the new esp, pop, return.
context_switch(save, next, ret, me, i) ==
    LET pushed == [stacks EXCEPT ![cpu.on] = Append(@, Frame(ret, me, i))]
        nsp    == esp[next]
        top    == pushed[nsp.of][nsp.depth]
    IN /\ nsp.depth \in DOMAIN pushed[nsp.of]
       /\ esp' = [esp EXCEPT ![save] = [of |-> cpu.on, depth |-> Len(pushed[cpu.on])]]
       /\ stacks' = [pushed EXCEPT ![nsp.of] = SubSeq(@, 1, nsp.depth - 1)]
       /\ cpu' = [on |-> nsp.of, at |-> top.at, me |-> top.me, i |-> top.i]

coop_yield(ret, me, i) ==
    /\ sched_pick_next
    /\ running' = Picked
    /\ IF Picked = running
       THEN /\ cpu' = [cpu EXCEPT !.at = ret, !.i = i]
            /\ UNCHANGED <<stacks, esp>>
       ELSE context_switch(SavedIn(running, Picked), Picked, ret, me, i)

Mut_demo_yield_Returns ==
    /\ cpu.at = "add" /\ cpu.i = NCOOP
    /\ cpu' = [cpu EXCEPT !.at = "main"]
    /\ UNCHANGED <<vars, user, running, stacks, esp, ticks>>

\* The call of coop_yield in coop_run_demo; it returns when no task is left.
demo_yield ==
    /\ cpu.at = "add" /\ cpu.i = NCOOP
    /\ coop_yield("main", cpu.me, cpu.i)
    /\ UNCHANGED <<user, ticks>>

\* coop_worker: the first thing it does on its own stack.
worker_enter ==
    /\ cpu.at = "worker"
    /\ cpu' = [cpu EXCEPT !.at = "loop", !.me = running, !.i = 0]
    /\ UNCHANGED <<vars, user, running, stacks, esp, ticks>>

worker_tick ==
    /\ cpu.at = "loop" /\ cpu.i < ITERS
    /\ ticks' = [ticks EXCEPT ![cpu.me] = @ + 1]
    /\ coop_yield("loop", cpu.me, cpu.i + 1)
    /\ UNCHANGED user

worker_exit ==
    /\ cpu.at = "loop" /\ cpu.i = ITERS
    /\ sched_exit(cpu.me)
    /\ cpu' = [cpu EXCEPT !.at = "exited"]
    /\ UNCHANGED <<user, running, stacks, esp, ticks>>

\* The last yield; should it return, the worker spins for ever.
worker_leave ==
    /\ cpu.at = "exited"
    /\ coop_yield("unreachable", cpu.me, cpu.i)
    /\ UNCHANGED <<user, ticks>>

CoopNext == demo_start \/ demo_add \/ demo_yield
            \/ worker_enter \/ worker_tick \/ worker_exit \/ worker_leave

TwoUsersNext ==
    \/ user = "sched.c" /\ KdNext /\ UNCHANGED coopVars
    \/ user = "coop.c" /\ CoopNext /\ UNCHANGED kd

\* The CPU goes on executing the demo that runs.
TwoUsersSpec ==
    /\ CoopInit /\ [][TwoUsersNext]_allVars
    /\ WF_allVars(user = "coop.c" /\ CoopNext /\ UNCHANGED kd)
    /\ WF_allVars(user = "sched.c" /\ sched_kdemo /\ UNCHANGED coopVars)

----------------------------------------------------------------------------
(* Properties.                                                             *)

\* Contexts that will be switched to again: main, and workers not yet exited.
Resumable == {Main} \cup {tasks[s].id : s \in {t \in Slots :
                              tasks[t].state \in {"READY", "RUNNING"}}}

\* Every switch leaves the CPU on the stack of the context coop.c calls
\* current, in the code of that context, and every context that waits can be
\* resumed: its saved esp is the top of its own stack and the frame there is
\* its own; the spin after the last yield is never reached (coop.c:27-50).
ContextsKept ==
    user = "coop.c" =>
        /\ cpu.on = running /\ cpu.at # "unreachable"
        /\ cpu.at \in {"main", "add"} <=> running = Main
        /\ cpu.at \in {"loop", "exited"} => cpu.me = running
        /\ cpu.at \in {"worker", "loop"} => tasks[current].id = running
        /\ cpu.at \notin {"main", "add"} =>
              \A c \in Resumable \ {running} :
                 LET s == stacks[c]
                 IN /\ esp[c] = [of |-> c, depth |-> 1] /\ Len(s) = 1
                    /\ IF c = Main THEN s[1].at = "main"
                       ELSE \/ s[1].at = "worker" /\ ticks[c] = 0
                            \/ s[1] = Frame("loop", c, ticks[c])

\* A demo that starts gets back to the kernel, and by then every worker has
\* had its ITERS turns: coop_yield "returns when all exit" (coop.c:60), the
\* second time as well as the first.
DemoCompletes ==
    user = "coop.c" /\ cpu.at = "add"
        ~> cpu.at = "main" /\ \A w \in Workers : ticks[w] = ITERS
============================================================================
