-------------------------------- MODULE Traps --------------------------------
(***************************************************************************)
(* Interrupts, system calls and the round trip to ring 3: irq.c, isr.c,    *)
(* pic.c, isr_stubs.S, syscall.c, syscall_stub.S, usermode.c,              *)
(* usermode_entry.S and tss.c of kernel/arch/x86, with the two places that *)
(* start a ring-3 program: the boot self-test and the shell's `user'.      *)
(*                                                                         *)
(* A trap pushes a frame (registers_t) on the stack in use or, when it     *)
(* comes from ring 3, at esp0 of the TSS, and the stub's epilogue pops it. *)
(* What a frame holds is reduced to where to return, the ring, IF, the     *)
(* data segment and the vector.  What the drivers' handlers do is left out *)
(* here; Keyboard has the effect of IRQ 0 and IRQ 1.                       *)
(***************************************************************************)
EXTENDS Integers, Sequences

CONSTANTS
    Irqs,        \* interrupt lines in use
    Scenarios,   \* machines considered, see Scenario
    MaxIrqs,     \* bound on the requests of each line (see raise)
    MaxCommands  \* bound on the shell commands of a behaviour

\* desktop: desktop_run, else shell_run; user: the `user' command is used.
Scenario == [desktop : BOOLEAN, user : BOOLEAN]

ASSUME TrapsAssumption ==
    /\ Irqs \subseteq 0 .. 15 /\ 0 \in Irqs
    /\ Scenarios \subseteq Scenario
    /\ MaxIrqs \in Nat /\ MaxCommands \in Nat

VARIABLES
    scenario,    \* (never changes)
    at,          \* what the CPU executes next, see MainCode, UserCode, ...
    cpl, IF_, ds,
    on,          \* the stack esp points into
    boot, tss,   \* frames on the boot stack and on tss_kstack
    g_um_kresume_esp,
    eax,         \* number of the system call being made
    last_cs,     \* ring of the last int 0x80
    irr,         \* interrupt requests pending at the PICs
    isr1, isr2,  \* lines in service at the master and at the slave
    raised,      \* history: requests per line
    commands     \* history: shell commands so far

regs == <<cpl, IF_, ds, on, boot, tss>>
pics == <<irr, isr1, isr2, raised>>
vars == <<scenario, at, cpl, IF_, ds, on, boot, tss, g_um_kresume_esp, eax,
          last_cs, irr, isr1, isr2, raised, commands>>

(* Where the CPU may stand.                                                *)

\* kernel_main from syscall_selftest on, and the input loop.
MainCode == {"syscall_selftest", "usermode_selftest", "sti", "loop", "halt"}

\* usermode_enter before and after it has loaded the user segments.
EnterCode == {"usermode_enter", "iret"}

\* The calls of user_entry.
UserCode == {"write", "getpid", "exit", "again"}

\* The dispatchers, the epilogue of the stubs, and usermode_resume_kernel.
TrapCode == {"syscall", "irq", "isr", "return", "resume"}

SYS_UPTIME == 0
SYS_WRITE == 1
SYS_GETPID == 2
SYS_VERSION == 3
SYS_EXIT == 4

Frame(ret, vec) ==
    [at |-> ret, cpl |-> cpl, intr |-> IF_, ds |-> ds, vec |-> vec]

Init ==
    /\ scenario \in Scenarios
    /\ at = "syscall_selftest"
    /\ cpl = 0 /\ IF_ = FALSE /\ ds = "kernel" /\ on = "boot"
    /\ boot = <<>> /\ tss = <<>>
    /\ g_um_kresume_esp = 0 /\ eax = 0 /\ last_cs = 0
    /\ irr = {} /\ isr1 = {} /\ isr2 = {}
    /\ raised = [i \in Irqs |-> 0]
    /\ commands = 0

----------------------------------------------------------------------------
(* The 8259 PICs: the slave hangs on line 2 of the master.                 *)

\* Place of a line in the order of priority, first to last.
Rank(i) == IF i < 8 THEN 8 * i ELSE 16 + (i - 8)

\* A request waits while a line of the same or higher priority is in service.
Ready(i) ==
    /\ i \in irr
    /\ \A j \in isr1 : j > (IF i < 8 THEN i ELSE 2)
    /\ i >= 8 => \A j \in isr2 : j > i

\* The CPU takes a ready request before its next instruction.
Interrupted == IF_ /\ \E i \in Irqs : Ready(i)

\* What an EOI clears: the line of highest priority in service.
Top(S) == {j \in S : \A k \in S : j <= k}

\* IRQ 12 is unmasked by mouse_init, which only the desktop calls.
Unmasked(i) == i = 12 => scenario.desktop /\ at \in {"loop", "halt"}

\* A device raises its line.  Past the bound the timer still ends a hlt.
raise(i) ==
    /\ i \notin irr /\ Unmasked(i)
    /\ \/ raised[i] < MaxIrqs /\ raised' = [raised EXCEPT ![i] = @ + 1]
       \/ i = 0 /\ at = "halt" /\ ~Interrupted /\ UNCHANGED raised
    /\ irr' = irr \cup {i}
    /\ UNCHANGED <<scenario, at, regs, g_um_kresume_esp, eax, last_cs, isr1,
                   isr2, commands>>

\* Definitions named Mut_... are faults seeded to show that a property can
\* fail; nothing else uses them.
Mut_pic_send_eoi_MasterOnly(irq) ==
    /\ isr1' = isr1 \ Top(isr1)
    /\ UNCHANGED isr2

pic_send_eoi(irq) ==
    /\ isr2' = IF irq >= 8 THEN isr2 \ Top(isr2) ELSE isr2
    /\ isr1' = isr1 \ Top(isr1)

----------------------------------------------------------------------------
(* Entering and leaving the kernel.                                        *)

\* 0x8E and 0xEE are interrupt gates: IF is clear before the stub's own cli.
GateFlag == FALSE

Mut_Push_NoTss(f) == boot' = <<f>> /\ on' = "boot" /\ UNCHANGED tss

\* From ring 3 the CPU starts over at esp0, the top of tss_kstack.
Push(f) ==
    \/ cpl = 3 /\ tss' = <<f>> /\ on' = "tss" /\ UNCHANGED boot
    \/ cpl = 0 /\ on = "tss" /\ tss' = Append(tss, f) /\ UNCHANGED <<boot, on>>
    \/ cpl = 0 /\ on = "boot" /\ boot' = Append(boot, f) /\ UNCHANGED <<tss, on>>

\* The gate and the stub's prologue, up to the call of the dispatcher.
Enter(vec, handler, ret) ==
    /\ Push(Frame(ret, vec))
    /\ cpl' = 0 /\ IF_' = GateFlag /\ ds' = "kernel"
    /\ at' = handler

InUse == IF on = "tss" THEN tss ELSE boot

Last(s) == s[Len(s)]

Front(s) == SubSeq(s, 1, Len(s) - 1)

\* The stub's epilogue: the segment, popa, sti and iret.  sti takes effect
\* after iret, which has then loaded the IF of the frame.
stub_return ==
    /\ at = "return" /\ ~Interrupted
    /\ LET f == Last(InUse)
       IN /\ at' = f.at /\ cpl' = f.cpl /\ IF_' = f.intr /\ ds' = f.ds
          /\ IF on = "tss" THEN tss' = Front(tss) /\ UNCHANGED boot
             ELSE boot' = Front(boot) /\ UNCHANGED tss
          /\ on' = IF f.cpl = 3 THEN "user" ELSE on
    /\ UNCHANGED <<scenario, g_um_kresume_esp, eax, last_cs, pics, commands>>

\* The CPU acknowledges line i; a request on line 7 that has gone away by then
\* is spurious and not in service.  hlt is over when the handler returns.
deliver(i) ==
    /\ IF_ /\ Ready(i)
    /\ \A j \in Irqs : Ready(j) => Rank(i) <= Rank(j)
    /\ irr' = irr \ {i}
    /\ \/ /\ isr1' = isr1 \cup {IF i < 8 THEN i ELSE 2}
          /\ isr2' = IF i < 8 THEN isr2 ELSE isr2 \cup {i}
       \/ i = 7 /\ UNCHANGED <<isr1, isr2>>
    /\ Enter(32 + i, "irq", IF at = "halt" THEN "loop" ELSE at)
    /\ UNCHANGED <<scenario, g_um_kresume_esp, eax, last_cs, raised, commands>>

\* The driver's handler, if any, then the acknowledgement in every case.
irq_handler ==
    /\ at = "irq" /\ ~Interrupted
    /\ pic_send_eoi(Last(InUse).vec - 32)
    /\ at' = "return"
    /\ UNCHANGED <<scenario, regs, g_um_kresume_esp, eax, last_cs, irr, raised,
                   commands>>

\* No handler is ever registered for an exception, so it is reported and the
\* machine halts for good with interrupts off.  Apps can cause one.
isr_handler ==
    \/ /\ at = "loop" /\ ~Interrupted
       /\ Enter(0, "isr", at)
       /\ UNCHANGED <<scenario, g_um_kresume_esp, eax, last_cs, pics, commands>>
    \/ /\ at = "isr"
       /\ UNCHANGED vars

----------------------------------------------------------------------------
(* System calls.                                                           *)

\* syscall_init and usermode_init fill the table before anything uses it.
Registered == SYS_UPTIME .. SYS_EXIT

int80(n, ret) ==
    /\ eax' = n
    /\ Enter(128, "syscall", ret)
    /\ UNCHANGED <<scenario, g_um_kresume_esp, last_cs, pics>>

\* Every handler but sys_exit returns to the stub, and so does SYS_ENOSYS.
syscall_call(n) == IF n \in Registered /\ n = SYS_EXIT THEN "resume" ELSE "return"

syscall_dispatch ==
    /\ at = "syscall" /\ ~Interrupted
    /\ last_cs' = Last(InUse).cpl
    /\ at' = syscall_call(eax)
    /\ UNCHANGED <<scenario, regs, g_um_kresume_esp, eax, pics, commands>>

----------------------------------------------------------------------------
(* The round trip to ring 3.                                               *)

\* usermode_run and usermode_enter up to the saved esp: the return address and
\* the registers a function must preserve are on the boot stack.
usermode_enter(ret) ==
    /\ boot' = Append(boot, Frame(ret, 0))
    /\ g_um_kresume_esp' = Len(boot')
    /\ at' = "usermode_enter"
    /\ UNCHANGED <<scenario, cpl, IF_, ds, on, tss, eax, last_cs, pics>>

\* The kernel runs with the user segments until iret.
load_user_segments ==
    /\ at = "usermode_enter" /\ ~Interrupted
    /\ ds' = "user"
    /\ at' = "iret"
    /\ UNCHANGED <<scenario, cpl, IF_, on, boot, tss, g_um_kresume_esp, eax,
                   last_cs, pics, commands>>

iret_to_user ==
    /\ at = "iret" /\ ~Interrupted
    /\ cpl' = 3 /\ IF_' = TRUE /\ on' = "user"
    /\ at' = "write"
    /\ UNCHANGED <<scenario, ds, boot, tss, g_um_kresume_esp, eax, last_cs, pics,
                   commands>>

NextCall ==
    [write |-> "getpid", getpid |-> "exit", exit |-> "again", again |-> "again"]

CallNumber == [write |-> SYS_WRITE, getpid |-> SYS_GETPID, exit |-> SYS_EXIT,
               again |-> SYS_GETPID]

user_entry ==
    /\ at \in UserCode /\ ~Interrupted
    /\ int80(CallNumber[at], NextCall[at])
    /\ UNCHANGED commands

\* Nothing points into tss_kstack any more, so its frame is dropped.
usermode_resume_kernel ==
    /\ at = "resume"
    /\ IF_' = FALSE /\ ds' = "kernel" /\ on' = "boot" /\ cpl' = 0
    /\ at' = boot[g_um_kresume_esp].at
    /\ boot' = SubSeq(boot, 1, g_um_kresume_esp - 1)
    /\ tss' = <<>>
    /\ UNCHANGED <<scenario, g_um_kresume_esp, eax, last_cs, pics, commands>>

----------------------------------------------------------------------------
(* The kernel's main context.                                              *)

kernel_main ==
    /\ ~Interrupted
    /\ \/ at = "syscall_selftest" /\ int80(SYS_WRITE, "usermode_selftest")
       \/ at = "usermode_selftest" /\ usermode_enter("sti")
       \/ /\ at = "sti"
          /\ IF_' = TRUE /\ at' = "loop"
          /\ UNCHANGED <<scenario, cpl, ds, on, boot, tss, g_um_kresume_esp, eax,
                         last_cs, pics>>
    /\ UNCHANGED commands

\* A line of input runs a command that traps.
command ==
    /\ at = "loop" /\ ~Interrupted
    /\ commands < MaxCommands
    /\ commands' = commands + 1
    /\ \/ \E n \in {SYS_WRITE, SYS_UPTIME, SYS_GETPID, SYS_VERSION} : int80(n, "loop")
       \/ scenario.user /\ usermode_enter("loop")

\* keyboard_getchar executes `sti; hlt', desktop_run only `hlt'.
SleepFlag == IF_ \/ ~scenario.desktop

hlt ==
    /\ at = "loop" /\ ~Interrupted
    /\ IF_' = SleepFlag
    /\ at' = "halt"
    /\ UNCHANGED <<scenario, cpl, ds, on, boot, tss, g_um_kresume_esp, eax,
                   last_cs, pics, commands>>

Cpu == \/ kernel_main \/ command \/ hlt
       \/ load_user_segments \/ iret_to_user \/ user_entry
       \/ syscall_dispatch \/ usermode_resume_kernel
       \/ irq_handler \/ stub_return \/ isr_handler
       \/ \E i \in Irqs : deliver(i)

Next == Cpu \/ \E i \in Irqs : raise(i)

Spec == Init /\ [][Next]_vars

\* The CPU goes on executing; devices may fall silent.
FairSpec == Spec /\ WF_vars(Cpu)

----------------------------------------------------------------------------
(* Properties.                                                             *)

\* Wherever an interrupt strikes, be it in ring 3 or in usermode_enter with
\* the user segments loaded, the code it returns to finds its own ring,
\* segments and stack, and usermode_enter returns to its caller on the boot
\* stack as it was (tss.c: "a ring-3 syscall/IRQ cannot corrupt the kernel
\* context that issued the user-mode entry").  The stacks hold at most the
\* record of usermode_enter and one trap: no handler is interrupted, so traps
\* do not nest on the 8 KiB of either.
ContextsIntact ==
    /\ Len(boot) <= 2 /\ Len(tss) <= 1
    /\ at \in MainCode => /\ cpl = 0 /\ ds = "kernel"
                          /\ on = "boot" /\ boot = <<>>
    /\ at \in UserCode => /\ cpl = 3 /\ ds = "user" /\ on = "user" /\ IF_
                          /\ Len(boot) = g_um_kresume_esp
    /\ at \in TrapCode => cpl = 0 /\ ds = "kernel" /\ InUse # <<>>

\* The input loop never sleeps where nothing can wake it (usermode_entry.S:
\* SYS_EXIT "returns as if usermode_enter() had returned normally to its
\* caller", who had interrupts on).
SleepIsWakeable == at = "halt" => IF_

\* Nothing a trap starts is left unfinished: every request is served, also
\* after spurious interrupts and those no driver handles (irq.c is "always
\* acknowledging with an EOI"), and a ring-3 program comes back to the kernel
\* however often it is interrupted.  After a CPU exception the machine stands
\* still.
TrapsComplete ==
    /\ \A i \in Irqs : i \in irr ~> i \notin irr \/ at = "isr"
    /\ at \in UserCode ~> at \in MainCode
==============================================================================
