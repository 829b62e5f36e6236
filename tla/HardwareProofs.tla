--------------------------- MODULE HardwareProofs ---------------------------
(***************************************************************************)
(* Theorems about Traps, for every set of lines, number of requests and    *)
(* number of commands, and about Xhci, for every number of ports, slots,   *)
(* table entries and reports.  The two share no variable.                  *)
(***************************************************************************)
EXTENDS Traps, Xhci, FiniteSetTheorems, WellFoundedInduction, TLAPS


Code == MainCode \cup EnterCode \cup UserCode \cup TrapCode

Frames == [at : Code, cpl : {0, 3}, intr : BOOLEAN, ds : {"kernel", "user"}, vec : Int]

----------------------------------------------------------------------------
(* The stacks.                                                             *)

LEMMA Pushed ==
    ASSUME NEW s \in Seq(Frames), NEW f \in Frames
    PROVE  /\ Append(s, f) \in Seq(Frames) /\ Len(Append(s, f)) = Len(s) + 1
           /\ \A k \in 1 .. Len(s) : Append(s, f)[k] = s[k]
           /\ Append(s, f)[Len(s) + 1] = f
  <1>1. Append(s, f) \in Seq(Frames) /\ Len(Append(s, f)) = Len(s) + 1
    OBVIOUS
  <1>2. \A k \in 1 .. Len(s) : Append(s, f)[k] = s[k]
    OBVIOUS
  <1>3. Append(s, f)[Len(s) + 1] = f
    OBVIOUS
  <1> QED BY <1>1, <1>2, <1>3

LEMMA Cut ==
    ASSUME NEW s \in Seq(Frames), NEW n \in 0 .. Len(s)
    PROVE  /\ SubSeq(s, 1, n) \in Seq(Frames) /\ Len(SubSeq(s, 1, n)) = n
           /\ \A k \in 1 .. n : SubSeq(s, 1, n)[k] = s[k]
  <1>1. SubSeq(s, 1, n) \in Seq(Frames) /\ Len(SubSeq(s, 1, n)) = n
    OBVIOUS
  <1>2. \A k \in 1 .. n : SubSeq(s, 1, n)[k] = s[k]
    OBVIOUS
  <1> QED BY <1>1, <1>2

LEMMA Single ==
    ASSUME NEW f \in Frames
    PROVE  <<f>> \in Seq(Frames) /\ Len(<<f>>) = 1 /\ <<f>>[1] = f
  OBVIOUS

LEMMA Empty ==
    /\ <<>> \in Seq(Frames) /\ Len(<<>>) = 0
    /\ \A s \in Seq(Frames) : Len(s) = 0 => s = <<>>
  OBVIOUS

----------------------------------------------------------------------------
(* The contexts a trap can return to.                                      *)

MainFrame(f) == f.at \in MainCode \ {"halt"} /\ f.cpl = 0 /\ f.ds = "kernel"

EnterFrame(f) ==
    /\ f.at \in EnterCode /\ f.cpl = 0
    /\ f.ds = IF f.at = "iret" THEN "user" ELSE "kernel"

UserFrame(f) == f.at \in UserCode /\ f.cpl = 3 /\ f.ds = "user" /\ f.intr = TRUE

TypeInv ==
    /\ boot \in Seq(Frames) /\ tss \in Seq(Frames)
    /\ IF_ \in BOOLEAN /\ scenario \in Scenario

\* usermode_enter has been called and its record is at the bottom of the boot
\* stack, where g_um_kresume_esp says.
Called == Len(boot) >= 1 /\ g_um_kresume_esp = 1 /\ MainFrame(boot[1])

InMain ==
    /\ at \in MainCode /\ cpl = 0 /\ ds = "kernel" /\ on = "boot"
    /\ Len(boot) = 0 /\ Len(tss) = 0

Entering ==
    /\ at \in EnterCode /\ cpl = 0 /\ on = "boot"
    /\ ds = IF at = "iret" THEN "user" ELSE "kernel"
    /\ Called /\ Len(boot) = 1 /\ Len(tss) = 0

InUser ==
    /\ at \in UserCode /\ cpl = 3 /\ ds = "user" /\ on = "user" /\ IF_ = TRUE
    /\ Called /\ Len(boot) = 1 /\ Len(tss) = 0

\* In the kernel for a trap out of the main context, of usermode_enter, of
\* ring 3.  Only ring 3 makes the call that resumes the kernel.
TrapOfMain == on = "boot" /\ Len(boot) = 1 /\ MainFrame(boot[1]) /\ Len(tss) = 0

TrapOfEnter ==
    /\ on = "boot" /\ Called /\ Len(boot) = 2 /\ EnterFrame(boot[2]) /\ Len(tss) = 0

TrapOfUser == on = "tss" /\ Called /\ Len(boot) = 1 /\ Len(tss) = 1 /\ UserFrame(tss[1])

InTrap ==
    /\ at \in TrapCode /\ cpl = 0 /\ ds = "kernel" /\ IF_ = FALSE
    /\ TrapOfMain \/ TrapOfEnter \/ TrapOfUser
    /\ at = "resume" \/ (at = "syscall" /\ eax = SYS_EXIT) => on = "tss"

TrapInv == TypeInv /\ (InMain \/ Entering \/ InUser \/ InTrap)

LEMMA Disjoint ==
    /\ MainCode \cap EnterCode = {} /\ MainCode \cap UserCode = {} /\ MainCode \cap TrapCode = {}
    /\ EnterCode \cap UserCode = {} /\ EnterCode \cap TrapCode = {}
    /\ UserCode \cap TrapCode = {}
  BY DEF MainCode, EnterCode, UserCode, TrapCode

LEMMA FrameType ==
    ASSUME TrapInv, NEW ret \in Code, NEW vec \in Int
    PROVE  Frame(ret, vec) \in Frames
  BY DEF TrapInv, TypeInv, InMain, Entering, InUser, InTrap, Frame, Frames

\* A trap taken in a context in which it may be: vector, dispatcher and the
\* place it returns to.
TrapEntry(vec, h, ret) ==
    /\ ~InTrap /\ h \in TrapCode \ {"resume"} /\ vec \in Int /\ ret \in Code
    /\ Enter(vec, h, ret)
    /\ UNCHANGED <<scenario, g_um_kresume_esp>>
    /\ h = "syscall" /\ eax' = SYS_EXIT => InUser
    /\ InMain => /\ ret \in MainCode \ {"halt"}
                 /\ ret = "loop" => at \in {"loop", "halt"}
    /\ Entering => ret = at
    /\ InUser => ret \in UserCode

\* The steps that take a trap.
Trapping ==
    \/ \E i \in Irqs : deliver(i)
    \/ user_entry
    \/ at = "loop" /\ Enter(0, "isr", at) /\ UNCHANGED <<scenario, g_um_kresume_esp>>
    \/ at = "syscall_selftest" /\ int80(SYS_WRITE, "usermode_selftest")
    \/ at = "loop" /\ \E n \in {SYS_WRITE, SYS_UPTIME, SYS_GETPID, SYS_VERSION} : int80(n, "loop")

LEMMA WhereItStands ==
    ASSUME TrapInv
    PROVE  /\ at \in MainCode => InMain /\ ~Entering /\ ~InUser /\ ~InTrap
           /\ at \in EnterCode => Entering /\ ~InMain /\ ~InUser /\ ~InTrap
           /\ at \in UserCode => InUser /\ ~InMain /\ ~Entering /\ ~InTrap
           /\ at \in TrapCode => InTrap /\ ~InMain /\ ~Entering /\ ~InUser
  BY Disjoint DEF TrapInv, InMain, Entering, InUser, InTrap

LEMMA TrapsEnter ==
    ASSUME TrapInv, Trapping
    PROVE  \E vec, h, ret : TrapEntry(vec, h, ret)
  <1> USE DEF SYS_UPTIME, SYS_WRITE, SYS_GETPID, SYS_VERSION, SYS_EXIT
  <1>1. ASSUME NEW i \in Irqs, deliver(i)
        PROVE  \E vec, h, ret : TrapEntry(vec, h, ret)
    <2> DEFINE ret == IF at = "halt" THEN "loop" ELSE at
    <2>1. Enter(32 + i, "irq", ret) /\ UNCHANGED <<scenario, g_um_kresume_esp>> /\ IF_ = TRUE
      BY <1>1 DEF deliver, TrapInv, TypeInv
    <2>2. ~InTrap
      BY <2>1 DEF InTrap
    <2>3. /\ InMain => ret \in MainCode \ {"halt"} /\ (ret = "loop" => at \in {"loop", "halt"})
          /\ Entering => ret = at
          /\ InUser => ret \in UserCode
          /\ ret \in Code
      BY <2>2 DEF TrapInv, InMain, Entering, InUser, MainCode, EnterCode, UserCode, Code
    <2>4. 32 + i \in Int /\ "irq" \in TrapCode \ {"resume"} /\ "irq" # "syscall"
      BY TrapsAssumption DEF TrapCode
    <2> HIDE DEF ret
    <2>5. TrapEntry(32 + i, "irq", ret)
      BY <2>1, <2>2, <2>3, <2>4 DEF TrapEntry
    <2> QED BY <2>5
  <1>2. CASE user_entry
    <2>1. at \in UserCode /\ int80(CallNumber[at], NextCall[at])
      BY <1>2 DEF user_entry
    <2>2. NextCall[at] \in UserCode /\ NextCall[at] \in Code
      BY <2>1 DEF UserCode, NextCall, Code
    <2>3. TrapEntry(128, "syscall", NextCall[at])
      BY <2>1, <2>2, WhereItStands DEF int80, TrapCode, TrapEntry
    <2> QED BY <2>3
  <1>3. CASE at = "loop" /\ Enter(0, "isr", at) /\ UNCHANGED <<scenario, g_um_kresume_esp>>
    <2>1. TrapEntry(0, "isr", at)
      BY <1>3, WhereItStands DEF TrapCode, MainCode, Code, TrapEntry
    <2> QED BY <2>1
  <1>4. CASE at = "syscall_selftest" /\ int80(SYS_WRITE, "usermode_selftest")
    <2>1. TrapEntry(128, "syscall", "usermode_selftest")
      BY <1>4, WhereItStands DEF int80, TrapCode, MainCode, Code, TrapEntry
    <2> QED BY <2>1
  <1>5. ASSUME at = "loop", NEW n \in {SYS_WRITE, SYS_UPTIME, SYS_GETPID, SYS_VERSION},
               int80(n, "loop")
        PROVE  \E vec, h, ret : TrapEntry(vec, h, ret)
    <2>1. TrapEntry(128, "syscall", "loop")
      BY <1>5, WhereItStands DEF int80, TrapCode, MainCode, Code, TrapEntry
    <2> QED BY <2>1
  <1> QED BY <1>1, <1>2, <1>3, <1>4, <1>5 DEF Trapping

\* What the gate and the stub's prologue do in each context.
LEMMA EnterStep ==
    ASSUME TrapInv, NEW vec, NEW h, NEW ret, TrapEntry(vec, h, ret)
    PROVE  /\ TrapInv' /\ InTrap'
           /\ InMain => Len(boot') = 1 /\ on' = "boot" /\ boot'[1] = Frame(ret, vec)
           /\ ~InMain => boot'[1] = boot[1]
  <1> USE DEF TrapEntry
  <1> DEFINE f == Frame(ret, vec)
  <1>1. f \in Frames
    BY FrameType
  <1>2. /\ f.at = ret /\ f.cpl = cpl /\ f.intr = IF_ /\ f.ds = ds
    BY DEF Frame
  <1> HIDE DEF f
  <1>3. /\ Push(f)
        /\ cpl' = 0 /\ IF_' = FALSE /\ ds' = "kernel" /\ at' = h
    BY DEF Enter, GateFlag, f
  <1>4. /\ boot \in Seq(Frames) /\ tss \in Seq(Frames)
        /\ scenario' \in Scenario /\ g_um_kresume_esp' = g_um_kresume_esp
        /\ h \in TrapCode \ {"resume"} /\ (h = "syscall" /\ eax' = SYS_EXIT => InUser)
    BY DEF TrapInv, TypeInv
  <1>5. CASE InMain
    <2>1. boot' = Append(boot, f) /\ UNCHANGED <<tss, on>>
      BY <1>3, <1>5 DEF InMain, Push
    <2>2. boot' \in Seq(Frames) /\ Len(boot') = 1 /\ boot'[1] = f
      BY <1>1, <1>4, <1>5, <2>1, Pushed DEF InMain
    <2>3. MainFrame(f) /\ ~InUser
      BY <1>2, <1>5, Disjoint DEF InMain, InUser, MainFrame
    <2>4. TrapOfMain'
      BY <1>5, <2>1, <2>2, <2>3 DEF InMain, TrapOfMain
    <2>5. TrapInv' /\ InTrap'
      BY <1>3, <1>4, <2>1, <2>2, <2>3, <2>4 DEF TrapInv, TypeInv, InTrap
    <2> QED BY <1>5, <2>1, <2>2, <2>5 DEF f, InMain
  <1>6. CASE Entering
    <2>1. boot' = Append(boot, f) /\ UNCHANGED <<tss, on>>
      BY <1>3, <1>6 DEF Entering, Push
    <2>2. /\ boot' \in Seq(Frames) /\ Len(boot') = 2 /\ boot'[2] = f
          /\ boot'[1] = boot[1]
      <3>1. Len(boot) = 1 /\ 1 \in 1 .. 1
        BY <1>6 DEF Entering
      <3>2. /\ boot' \in Seq(Frames) /\ Len(boot') = Len(boot) + 1
            /\ \A k \in 1 .. Len(boot) : boot'[k] = boot[k]
            /\ boot'[Len(boot) + 1] = f
        BY <1>1, <1>4, <2>1, Pushed
      <3> QED BY <3>1, <3>2
    <2>3. EnterFrame(f) /\ ~InUser
      BY <1>2, <1>6, Disjoint DEF Entering, InUser, EnterFrame
    <2>4. TrapOfEnter'
      BY <1>6, <2>1, <2>2, <2>3 DEF Entering, TrapOfEnter, Called
    <2>5. TrapInv' /\ InTrap'
      BY <1>3, <1>4, <2>1, <2>2, <2>3, <2>4 DEF TrapInv, TypeInv, InTrap
    <2>6. ~InMain
      BY <1>6 DEF InMain, Entering
    <2> QED BY <2>2, <2>5, <2>6
  <1>7. CASE InUser
    <2>1. tss' = <<f>> /\ on' = "tss" /\ UNCHANGED boot
      BY <1>3, <1>7 DEF InUser, Push
    <2>2. tss' \in Seq(Frames) /\ Len(tss') = 1 /\ tss'[1] = f
      BY <1>1, <2>1, Single
    <2>3. UserFrame(f)
      BY <1>2, <1>7 DEF InUser, UserFrame
    <2>4. TrapOfUser'
      BY <1>7, <2>1, <2>2, <2>3 DEF InUser, TrapOfUser, Called
    <2>5. TrapInv' /\ InTrap'
      BY <1>3, <1>4, <2>1, <2>2, <2>4 DEF TrapInv, TypeInv, InTrap
    <2>6. ~InMain
      BY <1>7 DEF InMain, InUser
    <2> QED BY <2>1, <2>5, <2>6
  <1> QED BY <1>5, <1>6, <1>7 DEF TrapInv

\* The epilogue finds the context the trap came from.
LEMMA ReturnStep ==
    ASSUME TrapInv, stub_return
    PROVE  /\ TrapInv'
           /\ TrapOfMain => at' = boot[1].at /\ IF_' = boot[1].intr /\ Len(boot') = 0 /\ on' = "boot"
           /\ ~TrapOfMain => boot'[1] = boot[1] /\ Len(boot') = 1 /\ at' \notin MainCode
  <1>0. /\ InTrap /\ boot \in Seq(Frames) /\ tss \in Seq(Frames) /\ scenario \in Scenario
        /\ UNCHANGED <<scenario, g_um_kresume_esp>>
    BY Disjoint DEF TrapInv, TypeInv, stub_return, InMain, Entering, InUser, TrapCode
  <1>1. CASE TrapOfMain
    <2>1. /\ at' = boot[1].at /\ cpl' = boot[1].cpl /\ IF_' = boot[1].intr /\ ds' = boot[1].ds
          /\ boot' = SubSeq(boot, 1, 0) /\ UNCHANGED tss
          /\ on' = IF boot[1].cpl = 3 THEN "user" ELSE on
      <3>1. InUse = boot /\ on # "tss" /\ Len(boot) = 1
        BY <1>1 DEF TrapOfMain, InUse
      <3>2. Last(InUse) = boot[1] /\ Front(boot) = SubSeq(boot, 1, 0)
        <4>1. Len(boot) - 1 = 0
          BY <3>1
        <4> QED BY <3>1, <4>1, Zenon DEF Last, Front
      <3> QED BY <3>1, <3>2 DEF stub_return
    <2>2. boot' \in Seq(Frames) /\ Len(boot') = 0
      BY <1>0, <1>1, <2>1, Cut DEF TrapOfMain
    <2>3. boot[1] \in Frames
      BY <1>0, <1>1 DEF TrapOfMain
    <2>4. TrapInv'
      BY <1>0, <1>1, <2>1, <2>2, <2>3 DEF TrapOfMain, MainFrame, Frames, TrapInv, TypeInv, InMain
    <2> QED BY <1>1, <2>1, <2>2, <2>4 DEF TrapOfMain, MainFrame
  <1>2. CASE TrapOfEnter
    <2>1. /\ at' = boot[2].at /\ cpl' = boot[2].cpl /\ IF_' = boot[2].intr /\ ds' = boot[2].ds
          /\ boot' = SubSeq(boot, 1, 1) /\ UNCHANGED tss
          /\ on' = IF boot[2].cpl = 3 THEN "user" ELSE on
      <3>1. on # "tss" /\ Len(boot) = 2
        BY <1>2 DEF TrapOfEnter
      <3>2. InUse = boot
        BY <3>1 DEF InUse
      <3>3. Last(InUse) = boot[2] /\ Front(boot) = SubSeq(boot, 1, 1)
        <4>1. Len(boot) - 1 = 1
          BY <3>1
        <4> QED BY <3>1, <3>2, <4>1, Zenon DEF Last, Front
      <3> QED BY <3>1, <3>3 DEF stub_return
    <2>2. boot' \in Seq(Frames) /\ Len(boot') = 1 /\ boot'[1] = boot[1]
      <3>1. Len(boot) = 2 /\ 1 \in 0 .. Len(boot) /\ 1 \in 1 .. 1
        BY <1>2 DEF TrapOfEnter
      <3>2. /\ boot' \in Seq(Frames) /\ Len(boot') = 1
            /\ \A k \in 1 .. 1 : boot'[k] = boot[k]
        BY <1>0, <2>1, <3>1, Cut
      <3> QED BY <3>1, <3>2
    <2>3. boot[2] \in Frames
      BY <1>0, <1>2 DEF TrapOfEnter
    <2>4. Called'
      BY <1>0, <1>2, <2>2 DEF TrapOfEnter, Called
    <2>5. TrapInv'
      BY <1>0, <1>2, <2>1, <2>2, <2>3, <2>4
      DEF TrapOfEnter, EnterFrame, Frames, TrapInv, TypeInv, Entering
    <2>6. ~TrapOfMain /\ at' \notin MainCode
      BY <1>2, <2>1, Disjoint DEF TrapOfMain, TrapOfEnter, EnterFrame
    <2> QED BY <2>2, <2>5, <2>6
  <1>3. CASE TrapOfUser
    <2>1. /\ at' = tss[1].at /\ cpl' = tss[1].cpl /\ IF_' = tss[1].intr /\ ds' = tss[1].ds
          /\ tss' = SubSeq(tss, 1, 0) /\ UNCHANGED boot
          /\ on' = IF tss[1].cpl = 3 THEN "user" ELSE on
      <3>1. on = "tss" /\ Len(tss) = 1
        BY <1>3 DEF TrapOfUser
      <3>2. InUse = tss
        BY <3>1 DEF InUse
      <3>3. Last(InUse) = tss[1] /\ Front(tss) = SubSeq(tss, 1, 0)
        <4>1. Len(tss) - 1 = 0
          BY <3>1
        <4> QED BY <3>1, <3>2, <4>1, Zenon DEF Last, Front
      <3> QED BY <3>1, <3>3 DEF stub_return
    <2>2. tss' \in Seq(Frames) /\ Len(tss') = 0
      BY <1>0, <1>3, <2>1, Cut DEF TrapOfUser
    <2>3. Called'
      BY <1>0, <1>3, <2>1 DEF TrapOfUser, Called
    <2>4. TrapInv'
      BY <1>0, <1>3, <2>1, <2>2, <2>3 DEF TrapOfUser, UserFrame, TrapInv, TypeInv, InUser
    <2>5. ~TrapOfMain /\ at' \notin MainCode
      BY <1>3, <2>1, Disjoint DEF TrapOfMain, TrapOfUser, UserFrame
    <2>6. boot'[1] = boot[1] /\ Len(boot') = 1
      BY <1>3, <2>1 DEF TrapOfUser
    <2> QED BY <2>4, <2>5, <2>6
  <1> QED BY <1>0, <1>1, <1>2, <1>3 DEF InTrap

\* usermode_resume_kernel continues after the call of usermode_enter.
LEMMA ResumeStep ==
    ASSUME TrapInv, usermode_resume_kernel
    PROVE  /\ TrapInv' /\ InMain' /\ UNCHANGED scenario
           /\ ~TrapOfMain /\ InTrap /\ at' = boot[1].at /\ at' # "halt"
  <1>1. /\ at = "resume" /\ IF_' = FALSE /\ ds' = "kernel" /\ on' = "boot" /\ cpl' = 0
        /\ at' = boot[g_um_kresume_esp].at
        /\ boot' = SubSeq(boot, 1, g_um_kresume_esp - 1) /\ tss' = <<>>
        /\ UNCHANGED scenario
    BY DEF usermode_resume_kernel
  <1>2. InTrap /\ on = "tss" /\ boot \in Seq(Frames) /\ scenario \in Scenario
    BY <1>1, WhereItStands DEF TrapCode, InTrap, TrapInv, TypeInv
  <1>3. TrapOfUser /\ ~TrapOfMain
    BY <1>2 DEF InTrap, TrapOfMain, TrapOfEnter
  <1>4. g_um_kresume_esp = 1 /\ MainFrame(boot[1]) /\ Len(boot) = 1
    BY <1>3 DEF TrapOfUser, Called
  <1>5. 1 - 1 = 0 /\ 0 \in 0 .. Len(boot)
    BY <1>4
  <1>6. boot' = SubSeq(boot, 1, 0)
    BY <1>1, <1>4, <1>5, Zenon
  <1>7. boot' \in Seq(Frames) /\ Len(boot') = 0
    BY <1>2, <1>5, <1>6, Cut
  <1>8. tss' \in Seq(Frames) /\ Len(tss') = 0
    BY <1>1, Empty
  <1>9. at' = boot[1].at /\ at' \in MainCode \ {"halt"}
    BY <1>1, <1>4 DEF MainFrame
  <1>10. InMain' /\ TypeInv'
    BY <1>1, <1>2, <1>7, <1>8, <1>9 DEF InMain, TypeInv
  <1> QED BY <1>1, <1>2, <1>3, <1>9, <1>10 DEF TrapInv

\* usermode_enter leaves its record on the empty boot stack.
LEMMA CallStep ==
    ASSUME TrapInv, at \in MainCode, NEW ret \in MainCode \ {"halt"}, usermode_enter(ret)
    PROVE  TrapInv' /\ Entering' /\ UNCHANGED scenario /\ boot'[1].at = ret
  <1>1. InMain /\ TypeInv
    BY WhereItStands DEF TrapInv
  <1> DEFINE f == Frame(ret, 0)
  <1>2. f \in Frames /\ MainFrame(f) /\ f.at = ret
    BY <1>1, FrameType DEF Frame, MainFrame, InMain, Code
  <1> HIDE DEF f
  <1>3. /\ boot' = Append(boot, f) /\ g_um_kresume_esp' = Len(boot') /\ at' = "usermode_enter"
        /\ UNCHANGED <<scenario, cpl, IF_, ds, on, tss>>
    BY DEF usermode_enter, f
  <1>4. boot' \in Seq(Frames) /\ Len(boot') = 1 /\ boot'[1] = f
    BY <1>1, <1>2, <1>3, Pushed DEF TypeInv, InMain
  <1>5. Called'
    BY <1>2, <1>3, <1>4 DEF Called
  <1>6. Entering' /\ TypeInv'
    BY <1>1, <1>3, <1>4, <1>5 DEF TypeInv, Entering, InMain, EnterCode
  <1> QED BY <1>2, <1>3, <1>4, <1>6 DEF TrapInv

LEMMA TrapStep == TrapInv /\ [Next]_vars => TrapInv'
  <1> SUFFICES ASSUME TrapInv, [Next]_vars PROVE TrapInv'
    OBVIOUS
  <1> USE DEF SYS_UPTIME, SYS_WRITE, SYS_GETPID, SYS_VERSION, SYS_EXIT
  <1>0. TypeInv
    BY DEF TrapInv
  <1>1. CASE Trapping
    BY <1>1, TrapsEnter, EnterStep
  <1>2. CASE irq_handler
    <2>1. at = "irq" /\ at' = "return" /\ UNCHANGED <<scenario, regs, g_um_kresume_esp, eax>>
      BY <1>2 DEF irq_handler
    <2> QED BY <2>1, WhereItStands, <1>0 DEF regs, TrapCode, TrapInv, TypeInv, InTrap, TrapOfMain, TrapOfEnter, TrapOfUser, Called
  <1>3. CASE isr_handler
    <2>1. CASE at = "isr" /\ UNCHANGED vars
      BY <2>1 DEF vars, TrapInv, TypeInv, InMain, Entering, InUser, InTrap, TrapOfMain, TrapOfEnter,
                  TrapOfUser, Called
    <2> QED BY <1>1, <1>3, <2>1 DEF isr_handler, Trapping
  <1>4. CASE stub_return
    BY <1>4, ReturnStep
  <1>5. CASE syscall_dispatch
    <2>1. /\ at = "syscall" /\ at' \in {"resume", "return"} /\ (at' = "resume" => eax = SYS_EXIT)
          /\ UNCHANGED <<scenario, regs, g_um_kresume_esp, eax>>
      BY <1>5 DEF syscall_dispatch, syscall_call
    <2> QED BY <2>1, WhereItStands, <1>0 DEF regs, TrapCode, TrapInv, TypeInv, InTrap, TrapOfMain, TrapOfEnter, TrapOfUser, Called
  <1>6. CASE load_user_segments
    BY <1>6, WhereItStands, <1>0 DEF load_user_segments, EnterCode, Entering, TrapInv, TypeInv, Called
  <1>7. CASE iret_to_user
    BY <1>7, WhereItStands, <1>0 DEF iret_to_user, EnterCode, UserCode, Entering, InUser, TrapInv, TypeInv, Called
  <1>8. CASE usermode_resume_kernel
    BY <1>8, ResumeStep
  <1>9. CASE kernel_main
    <2>1. CASE at = "sti" /\ at' = "loop" /\ IF_' = TRUE /\ UNCHANGED <<scenario, cpl, ds, on, boot, tss>>
      BY <2>1, WhereItStands, <1>0 DEF MainCode, InMain, TrapInv, TypeInv
    <2>2. CASE at = "syscall_selftest" /\ int80(SYS_WRITE, "usermode_selftest")
      BY <1>1, <2>2 DEF Trapping
    <2>3. CASE at = "usermode_selftest" /\ usermode_enter("sti")
      BY <2>3, CallStep DEF MainCode
    <2> QED BY <1>9, <2>1, <2>2, <2>3 DEF kernel_main
  <1>10. CASE command
    <2>1. at = "loop" /\ at \in MainCode /\ "loop" \in MainCode \ {"halt"}
      BY <1>10 DEF command, MainCode
    <2> QED BY <1>1, <1>10, <2>1, CallStep DEF command, Trapping
  <1>11. CASE hlt
    <2>1. IF_' \in BOOLEAN
      BY <1>11, <1>0 DEF hlt, SleepFlag, TypeInv, Scenario
    <2> QED BY <1>11, <2>1, WhereItStands, <1>0 DEF hlt, MainCode, InMain, TrapInv, TypeInv
  <1>12. ASSUME NEW i \in Irqs, raise(i) PROVE TrapInv'
    BY <1>12 DEF raise, regs, TrapInv, TypeInv, InMain, Entering, InUser, InTrap, TrapOfMain,
                 TrapOfEnter, TrapOfUser, Called
  <1>13. CASE UNCHANGED vars
    BY <1>13 DEF vars, TrapInv, TypeInv, InMain, Entering, InUser, InTrap, TrapOfMain, TrapOfEnter,
                 TrapOfUser, Called
  <1> QED BY <1>1, <1>2, <1>3, <1>4, <1>5, <1>6, <1>7, <1>8, <1>9, <1>10, <1>11, <1>12, <1>13
          DEF Next, Cpu, Trapping

LEMMA TrapInductive == Spec => []TrapInv
  <1>1. Init => TrapInv
    <2> SUFFICES ASSUME Init PROVE TrapInv
      OBVIOUS
    <2>1. TypeInv
      BY Empty, TrapsAssumption DEF Init, TypeInv
    <2>2. InMain
      BY Empty DEF Init, InMain, MainCode
    <2> QED BY <2>1, <2>2 DEF TrapInv
  <1> QED BY <1>1, TrapStep, PTL DEF Spec

\* Every trap returns to the ring, segments and stack it found, wherever it
\* struck, and no trap nests in another: for every set of lines and any number
\* of requests and commands.
THEOREM TrapsKeepContexts == Spec => []ContextsIntact
  <1>1. TrapInv => ContextsIntact
    <2> SUFFICES ASSUME TrapInv PROVE ContextsIntact
      OBVIOUS
    <2>1. CASE InMain
      BY <2>1, Empty, Disjoint DEF InMain, ContextsIntact, TrapInv, TypeInv
    <2>2. CASE Entering
      BY <2>2, Disjoint DEF Entering, ContextsIntact
    <2>3. CASE InUser
      BY <2>3, Disjoint DEF InUser, Called, ContextsIntact
    <2>4. CASE InTrap
      <3>1. Len(InUse) # 0 /\ Len(boot) <= 2 /\ Len(tss) <= 1
        <4>1. CASE TrapOfMain
          BY <4>1 DEF TrapOfMain, InUse
        <4>2. CASE TrapOfEnter
          <5>1. InUse = boot
            BY <4>2 DEF TrapOfEnter, InUse
          <5> QED BY <4>2, <5>1 DEF TrapOfEnter
        <4>3. CASE TrapOfUser
          <5>1. InUse = tss
            BY <4>3 DEF TrapOfUser, InUse
          <5> QED BY <4>3, <5>1 DEF TrapOfUser
        <4> QED BY <2>4, <4>1, <4>2, <4>3 DEF InTrap
      <3>2. InUse # <<>>
        BY <3>1, Empty
      <3> QED BY <2>4, <3>1, <3>2, Disjoint DEF InTrap, ContextsIntact
    <2> QED BY <2>1, <2>2, <2>3, <2>4 DEF TrapInv
  <1> QED BY <1>1, TrapInductive, PTL

----------------------------------------------------------------------------
(* Sleeping with interrupts on.                                            *)

\* The machines on which the input loop cannot lose its interrupts: the text
\* shell, whose loop enables them itself, and a desktop without `user'.
NoUserOnDesktop == ~(scenario.desktop /\ scenario.user)

\* On such a desktop the loop has interrupts on, a trap out of it returns with
\* them on, and ring 3 is entered only by the boot self-test.
WakeInv ==
    /\ NoUserOnDesktop /\ at = "halt" => IF_ = TRUE
    /\ scenario.desktop /\ NoUserOnDesktop =>
          /\ at = "loop" => IF_ = TRUE
          /\ InTrap /\ TrapOfMain /\ boot[1].at = "loop" => boot[1].intr = TRUE
          /\ ~InMain /\ ~(InTrap /\ TrapOfMain) => boot[1].at = "sti"

LEMMA EnterWake ==
    ASSUME TrapInv, TrapInv', WakeInv, ~InTrap, NEW h \in TrapCode, at' = h, UNCHANGED scenario,
           NEW ret, NEW vec,
           InMain /\ ret = "loop" => at \in {"loop", "halt"},
           InMain => Len(boot') = 1 /\ on' = "boot" /\ boot'[1] = Frame(ret, vec),
           ~InMain => boot'[1] = boot[1]
    PROVE  WakeInv'
  <1>1. at' \notin {"loop", "halt"} /\ InTrap' /\ ~InMain'
    BY Disjoint DEF TrapInv, MainCode, InMain, Entering, InUser, InTrap
  <1>2. NoUserOnDesktop' = NoUserOnDesktop
    BY DEF NoUserOnDesktop
  <1>3. CASE InMain
    <2>1. (InTrap /\ TrapOfMain)'
      <3>1. ~TrapOfEnter' /\ ~TrapOfUser'
        BY <1>3 DEF TrapOfEnter, TrapOfUser
      <3> QED BY <1>1, <3>1 DEF InTrap
    <2>2. scenario.desktop /\ NoUserOnDesktop /\ ret = "loop" => IF_ = TRUE
      BY <1>3 DEF WakeInv
    <2>3. boot'[1].at = ret /\ boot'[1].intr = IF_
      BY <1>3 DEF Frame
    <2> QED BY <1>1, <1>2, <2>1, <2>2, <2>3 DEF WakeInv
  <1>4. CASE ~InMain
    <2>1. scenario.desktop /\ NoUserOnDesktop => boot'[1].at = "sti"
      BY <1>4 DEF WakeInv
    <2> QED BY <1>1, <1>2, <2>1 DEF WakeInv
  <1> QED BY <1>3, <1>4

LEMMA WakeStep == TrapInv /\ TrapInv' /\ WakeInv /\ [Next]_vars => WakeInv'
  <1> SUFFICES ASSUME TrapInv, TrapInv', WakeInv, [Next]_vars PROVE WakeInv'
    OBVIOUS
  <1>0. /\ at' \in MainCode => InMain' /\ ~Entering' /\ ~InUser' /\ ~InTrap'
        /\ at' \in EnterCode => Entering' /\ ~InMain' /\ ~InUser' /\ ~InTrap'
        /\ at' \in UserCode => InUser' /\ ~InMain' /\ ~Entering' /\ ~InTrap'
        /\ at' \in TrapCode => InTrap' /\ ~InMain' /\ ~Entering' /\ ~InUser'
    BY Disjoint DEF TrapInv, InMain, Entering, InUser, InTrap
  <1>1. CASE Trapping
    <2>1. PICK vec, h, ret : TrapEntry(vec, h, ret)
      BY <1>1, TrapsEnter
    <2>2. /\ InMain => Len(boot') = 1 /\ on' = "boot" /\ boot'[1] = Frame(ret, vec)
          /\ ~InMain => boot'[1] = boot[1]
      BY <2>1, EnterStep
    <2>3. /\ ~InTrap /\ at' = h /\ h \in TrapCode /\ UNCHANGED scenario
          /\ InMain /\ ret = "loop" => at \in {"loop", "halt"}
      BY <2>1 DEF TrapEntry, Enter
    <2> QED BY <2>2, <2>3, EnterWake
  <1>2. CASE irq_handler \/ syscall_dispatch
    <2>1. /\ at \in TrapCode /\ at' \in TrapCode /\ UNCHANGED <<scenario, regs>>
      BY <1>2 DEF irq_handler, syscall_dispatch, syscall_call, TrapCode
    <2>2. at' # "halt" /\ at' # "loop"
      BY <2>1 DEF TrapCode
    <2> QED BY <1>0, <2>1, <2>2, WhereItStands DEF WakeInv, NoUserOnDesktop, regs, TrapOfMain
  <1>3. CASE stub_return
    <2>1. InTrap /\ UNCHANGED scenario
      BY <1>3, WhereItStands DEF stub_return, TrapCode
    <2>2. CASE TrapOfMain
      <3>1. /\ at' = boot[1].at /\ IF_' = boot[1].intr /\ MainFrame(boot[1])
        BY <1>3, <2>2, ReturnStep DEF TrapOfMain
      <3> QED BY <1>0, <2>1, <2>2, <3>1 DEF MainFrame, WakeInv, NoUserOnDesktop
    <2>3. CASE ~TrapOfMain
      <3>1. boot'[1] = boot[1] /\ at' \notin MainCode
        BY <1>3, <2>3, ReturnStep
      <3>2. ~InMain
        BY <2>1, Disjoint DEF InTrap, InMain
      <3> QED BY <2>1, <2>3, <3>1, <3>2 DEF WakeInv, NoUserOnDesktop, MainCode, InTrap, TrapOfMain
    <2> QED BY <2>2, <2>3
  <1>4. CASE load_user_segments \/ iret_to_user
    <2>1. /\ at \in EnterCode /\ at' \in EnterCode \cup UserCode /\ UNCHANGED <<scenario, boot>>
      BY <1>4 DEF load_user_segments, iret_to_user, EnterCode, UserCode
    <2>2. at' # "halt" /\ at' # "loop"
      BY <2>1 DEF EnterCode, UserCode
    <2> QED BY <1>0, <2>1, <2>2, WhereItStands DEF WakeInv, NoUserOnDesktop
  <1>5. CASE usermode_resume_kernel
    <2>1. ~InMain /\ ~InTrap'
      <3>1. InTrap /\ InMain'
        BY <1>5, ResumeStep
      <3> QED BY <3>1, Disjoint DEF InTrap, InMain
    <2> QED BY <1>5, <2>1, ResumeStep DEF WakeInv, NoUserOnDesktop
  <1>6. CASE kernel_main
    <2>1. CASE at = "sti" /\ at' = "loop" /\ IF_' = TRUE /\ UNCHANGED scenario
      BY <1>0, <2>1 DEF MainCode, WakeInv, NoUserOnDesktop
    <2>2. CASE at = "syscall_selftest" /\ int80(SYS_WRITE, "usermode_selftest")
      BY <1>1, <2>2 DEF Trapping
    <2>3. CASE at = "usermode_selftest" /\ usermode_enter("sti")
      <3>1. Entering' /\ UNCHANGED scenario /\ boot'[1].at = "sti"
        BY <2>3, CallStep DEF MainCode
      <3>2. at' # "halt" /\ at' # "loop" /\ ~InTrap'
        BY <3>1 DEF Entering, EnterCode, InTrap, TrapCode
      <3> QED BY <3>1, <3>2 DEF WakeInv, NoUserOnDesktop
    <2> QED BY <1>6, <2>1, <2>2, <2>3 DEF kernel_main
  <1>7. CASE command
    <2>1. CASE scenario.user /\ usermode_enter("loop")
      <3>1. Entering' /\ UNCHANGED scenario
        BY <1>7, <2>1, CallStep DEF command, MainCode
      <3>2. at' # "halt"
        BY <3>1 DEF Entering, EnterCode
      <3> QED BY <2>1, <3>1, <3>2 DEF WakeInv, NoUserOnDesktop
    <2> QED BY <1>1, <1>7, <2>1 DEF command, Trapping
  <1>8. CASE hlt
    <2>1. at = "loop" /\ at' = "halt" /\ IF_' = SleepFlag /\ UNCHANGED scenario
      BY <1>8 DEF hlt
    <2>2. NoUserOnDesktop => SleepFlag = TRUE
      <3>1. IF_ \in BOOLEAN /\ scenario.desktop \in BOOLEAN
        BY DEF TrapInv, TypeInv, Scenario
      <3> QED BY <2>1, <3>1 DEF WakeInv, SleepFlag
    <2> QED BY <1>0, <2>1, <2>2 DEF WakeInv, NoUserOnDesktop, MainCode
  <1>9. CASE \/ \E i \in Irqs : raise(i)
             \/ UNCHANGED vars
             \/ isr_handler /\ UNCHANGED vars
    <2>1. UNCHANGED <<scenario, at, regs, g_um_kresume_esp, eax>>
      BY <1>9 DEF raise, vars, regs
    <2> QED BY <2>1 DEF regs, WakeInv, NoUserOnDesktop, InMain, InTrap, TrapOfMain, TrapOfEnter, TrapOfUser, Called
  <1>10. CASE isr_handler
    BY <1>1, <1>9, <1>10 DEF isr_handler, Trapping
  <1> QED BY <1>1, <1>2, <1>3, <1>4, <1>5, <1>6, <1>7, <1>8, <1>9, <1>10
          DEF Next, Cpu, Trapping

\* The input loop never sleeps with interrupts off, except on a desktop that
\* has run `user': usermode_resume_kernel is the only step that returns to the
\* loop without the interrupt flag it left with.
THEOREM SleepWakeableWithoutUser == Spec => [](NoUserOnDesktop => SleepIsWakeable)
  <1>1. Init => WakeInv
    <2> SUFFICES ASSUME Init PROVE WakeInv
      OBVIOUS
    <2>1. InMain /\ at = "syscall_selftest" /\ ~InTrap
      BY Empty DEF Init, InMain, MainCode, InTrap, TrapCode
    <2> QED BY <2>1 DEF WakeInv
  <1>2. WakeInv => (NoUserOnDesktop => SleepIsWakeable)
    BY DEF WakeInv, SleepIsWakeable
  <1> QED BY <1>1, <1>2, TrapInductive, WakeStep, PTL DEF Spec

----------------------------------------------------------------------------
(* The USB driver.  Slots and requests.                                    *)

Requests == [ticket : Nat, step : Steps, slot : 0 .. SLOTS]
Events == [type : {"port", "cmd", "xfer"}, ok : BOOLEAN, slot : 0 .. SLOTS, ticket : Nat]

\* Slots that an entry, a request or an event may name.
Known == enabled \cup {0}

\* A request is about to be made or has been made.
Asking == pc \in {"send", "wait"}

SlotsInv ==
    /\ \A k \in 1 .. Len(cmdq) : /\ cmdq[k].slot \in Known
                                 /\ cmdq[k].step = ConfigEp => cmdq[k].slot # 0
    /\ \A r \in ctlq : r.slot \in Known
    /\ \A k \in 1 .. Len(evq) : evq[k].slot \in Known
    /\ \A i \in Devs : devs[i].slot \in Known
    /\ Asking /\ step > EnableSlot => devs[idx].slot # 0

PortInv ==
    /\ pc = "reset" \/ (Asking /\ step # NoOp) => port \in 1 .. PORTS
    /\ pc = "init" => step = NoOp

QueuesTyped == cmdq \in Seq(Requests) /\ ctlq \subseteq Requests /\ evq \in Seq(Events)

UsbTypeInv == XhciTypeOK /\ QueuesTyped /\ SlotsInv /\ PortInv

----------------------------------------------------------------------------
(* Numbers and sequences.                                                  *)

Before == {ss \in Nat \X Nat : ss[1] < ss[2]}

\* Every nonempty set of naturals has a least member.
LEMMA LeastOf ==
    ASSUME NEW T \in SUBSET Nat, T # {}
    PROVE  \E x \in T : \A y \in T : x <= y
  <1>1. Before = OpToRel(<, Nat)
    BY Zenon DEF OpToRel, Before
  <1>2. IsWellFoundedOn(Before, Nat)
    BY <1>1, NatLessThanWellFounded, Zenon
  <1>3. T \subseteq Nat
    OBVIOUS
  <1>4. PICK x \in T : \A y \in T : ~(<<y, x>> \in Before)
    BY <1>2, <1>3, WFMin, Zenon
  <1>5. \A y \in T : ~(y < x)
    BY <1>4 DEF Before
  <1> QED BY <1>5

LEMMA Between ==
    ASSUME NEW a \in Int, NEW b \in Int, NEW c \in a + 1 .. b, NEW q \in a + 1 .. c - 1
    PROVE  q \in a + 1 .. b /\ q < c
  <1>1. a + 1 \in Int
    OBVIOUS
  <1>2. c \in Int /\ c <= b
    BY <1>1
  <1> QED BY <1>2

LEMMA Within ==
    ASSUME NEW b \in Int, NEW c \in Int, b < c
    PROVE  \A s \in 1 .. b : s \in 1 .. c - 1
  OBVIOUS

LEMMA SlotNumbers ==
    /\ 0 \in Devs /\ NoOp \in Steps /\ EnableSlot \in Steps
    /\ \A i \in Devs : i \in Nat
    /\ Steps \subseteq Nat /\ \A s \in Steps : s <= 8
    /\ Commands \subseteq Steps
  BY XhciAssumption DEF Devs, Steps, Commands, NoOp, EnableSlot, AddressDev, ConfigEp

LEMMA QueuePut ==
    ASSUME NEW S, NEW q \in Seq(S), NEW e \in S
    PROVE  /\ Append(q, e) \in Seq(S) /\ Len(Append(q, e)) = Len(q) + 1
           /\ \A k \in 1 .. Len(q) : Append(q, e)[k] = q[k]
           /\ Append(q, e)[Len(q) + 1] = e
  <1>1. Append(q, e) \in Seq(S) /\ Len(Append(q, e)) = Len(q) + 1
    OBVIOUS
  <1>2. \A k \in 1 .. Len(q) : Append(q, e)[k] = q[k]
    OBVIOUS
  <1>3. Append(q, e)[Len(q) + 1] = e
    OBVIOUS
  <1> QED BY <1>1, <1>2, <1>3

LEMMA QueueTake ==
    ASSUME NEW S, NEW q \in Seq(S), q # <<>>
    PROVE  /\ Len(q) \in Nat /\ Len(q) > 0 /\ Head(q) = q[1] /\ q[1] \in S
           /\ Tail(q) \in Seq(S) /\ Len(Tail(q)) = Len(q) - 1
           /\ \A k \in 1 .. Len(q) - 1 : Tail(q)[k] = q[k + 1]
  <1>1. Len(q) \in Nat /\ Len(q) > 0
    OBVIOUS
  <1>2. Head(q) = q[1] /\ q[1] \in S
    BY <1>1
  <1>3. Tail(q) \in Seq(S) /\ Len(Tail(q)) = Len(q) - 1
    BY <1>1
  <1>4. \A k \in 1 .. Len(q) - 1 : Tail(q)[k] = q[k + 1]
    BY <1>1
  <1> QED BY <1>1, <1>2, <1>3, <1>4

----------------------------------------------------------------------------
(* Ports.                                                                  *)

\* next_port stops at the first connected port after p, if there is one.
LEMMA PortsInOrder ==
    ASSUME machine \in Machine, NEW p \in 0 .. PORTS, next_port(p)
    PROVE  \/ /\ pc' = "poll" /\ port' = PORTS + 1
              /\ \A q \in p + 1 .. PORTS : machine.attached[q] = "none"
           \/ /\ pc' = "reset" /\ port' \in p + 1 .. PORTS
              /\ machine.attached[port'] # "none"
              /\ \A q \in p + 1 .. port' - 1 : machine.attached[q] = "none"
  <1> DEFINE rest == {q \in p + 1 .. PORTS : machine.attached[q] # "none"}
  <1>1. CASE rest = {}
    BY <1>1 DEF next_port
  <1>2. CASE rest # {}
    <2>1. rest \in SUBSET Nat
      BY XhciAssumption
    <2>2. \E q \in rest : \A r \in rest : q <= r
      BY <1>2, <2>1, LeastOf
    <2>3. port' \in rest /\ \A r \in rest : port' <= r
      BY <1>2, <2>2 DEF next_port
    <2>4. pc' = "reset"
      BY <1>2 DEF next_port
    <2>5. \A q \in p + 1 .. port' - 1 : machine.attached[q] = "none"
      <3> SUFFICES ASSUME NEW q \in p + 1 .. port' - 1 PROVE q \notin rest /\ q \in p + 1 .. PORTS
        OBVIOUS
      <3>1. port' \in p + 1 .. PORTS
        BY <2>3
      <3>0. p \in Int /\ PORTS \in Int
        BY XhciAssumption
      <3>2. q \in p + 1 .. PORTS /\ q < port'
        BY <3>0, <3>1, Between
      <3>3. port' \in Int /\ q \in Int
        BY <3>1, <3>2, XhciAssumption
      <3>4. q \notin rest
        BY <2>3, <3>2, <3>3
      <3> QED BY <3>2, <3>4
    <2> QED BY <2>3, <2>4, <2>5
  <1> QED BY <1>1, <1>2

----------------------------------------------------------------------------
(* Types.                                                                  *)

Entry == [used : BOOLEAN, slot : 0 .. SLOTS, port : 0 .. PORTS, hid : BOOLEAN, kbd : BOOLEAN]

\* An entry changed by enumerate is an entry, with the slot it had or was given.
LEMMA EntryChanges ==
    ASSUME NEW d \in Entry, NEW s \in 0 .. SLOTS, NEW p \in 0 .. PORTS, NEW h \in BOOLEAN,
           NEW b \in BOOLEAN
    PROVE  /\ Dropped(d) \in Entry /\ Dropped(d).slot = d.slot
           /\ [Dropped(d) EXCEPT !.hid = FALSE, !.kbd = FALSE] \in Entry
           /\ [Dropped(d) EXCEPT !.hid = FALSE, !.kbd = FALSE].slot = d.slot
           /\ [d EXCEPT !.hid = h, !.kbd = b] \in Entry
           /\ [d EXCEPT !.hid = h, !.kbd = b].slot = d.slot
           /\ [d EXCEPT !.used = TRUE, !.slot = s, !.port = p] \in Entry
           /\ [d EXCEPT !.used = TRUE, !.slot = s, !.port = p].slot = s
  BY DEF Entry, Dropped

\* What an answer does to the driver, told apart by what becomes of the entry.
Kept(ok, slot, own) ==
    /\ devs' = devs
    /\ \/ step = NoOp /\ ok /\ next_port(0) /\ UNCHANGED <<step, armed>>
       \/ step = NoOp /\ ~ok /\ pc' = "off" /\ UNCHANGED <<port, step, armed>>
       \/ step = EnableSlot /\ ~SlotGranted(ok, slot) /\ next_port(port) /\ UNCHANGED <<step, armed>>
       \/ step = ConfigEp /\ ok /\ armed' = Armed(idx) /\ next_port(port) /\ UNCHANGED step
       \/ step \in {AddressDev, GetDevice, GetConfigHead, SetConfig} /\ ok /\ proceed /\ UNCHANGED armed
       \/ step = SetProtocol /\ proceed /\ UNCHANGED armed

Taken(ok, slot, own) ==
    /\ step = EnableSlot /\ SlotGranted(ok, slot)
    /\ devs' = [devs EXCEPT ![idx] = [@ EXCEPT !.used = TRUE, !.slot = slot, !.port = port]]
    /\ proceed /\ UNCHANGED armed

Described(ok, slot, own) ==
    /\ step = GetConfig /\ ok
    /\ \E d \in Descriptors(own) :
          d.hid /\ devs' = [devs EXCEPT ![idx] = [@ EXCEPT !.hid = TRUE, !.kbd = d.kbd]]
    /\ proceed /\ UNCHANGED armed

GivenUp(ok, slot, own) ==
    /\ \/ /\ step \in Steps \ {NoOp, EnableSlot, SetProtocol} /\ ~ok
          /\ devs' = [devs EXCEPT ![idx] = Dropped(@)]
       \/ /\ step = GetConfig /\ ok /\ \E d \in Descriptors(own) : ~d.hid
          /\ devs' = [devs EXCEPT ![idx] = [Dropped(@) EXCEPT !.hid = FALSE, !.kbd = FALSE]]
    /\ next_port(port) /\ UNCHANGED <<step, armed>>

LEMMA AnswerCases ==
    ASSUME NEW ok \in BOOLEAN, NEW slot, NEW own, devs \in [Devs -> Entry], idx \in Devs,
           answered(ok, slot, own)
    PROVE  \/ Kept(ok, slot, own) \/ Taken(ok, slot, own)
           \/ Described(ok, slot, own) \/ GivenUp(ok, slot, own)
  BY DEF answered, Kept, Taken, Described, GivenUp, abandon

\* Types and slots after an answer, own or not.
LEMMA AnswerTyped ==
    ASSUME UsbTypeInv, pc = "wait", NEW ok \in BOOLEAN, NEW slot \in Known, NEW own \in BOOLEAN,
           answered(ok, slot, own), UNCHANGED <<machine, idx, enabled>>
    PROVE  /\ pc' \in {"reset", "send", "poll", "off"}
           /\ port' \in 0 .. PORTS + 1 /\ step' \in Steps
           /\ devs' \in [Devs -> Entry] /\ armed' \in [Devs -> Nat]
           /\ \A i \in Devs : devs'[i].slot \in Known
           /\ pc' = "send" /\ step' > EnableSlot => devs'[idx].slot # 0
           /\ pc' = "reset" \/ pc' = "send" => port' \in 1 .. PORTS
  <1> DEFINE d == devs[idx]
  <1>1. /\ machine \in Machine /\ idx \in Devs /\ devs \in [Devs -> Entry] /\ step \in Steps
        /\ port \in 0 .. PORTS + 1 /\ armed \in [Devs -> Nat] /\ enabled \subseteq 1 .. SLOTS
        /\ (step # NoOp => port \in 1 .. PORTS) /\ (step > EnableSlot => d.slot # 0)
        /\ \A i \in Devs : devs[i].slot \in Known
    BY XhciAssumption DEF UsbTypeInv, XhciTypeOK, Entry, SlotsInv, PortInv, Asking
  <1>2. slot \in 0 .. SLOTS /\ d \in Entry
    BY <1>1, XhciAssumption DEF Known
  <1>3. PORTS \in Nat /\ port \in Int /\ step \in Int /\ 0 \in 0 .. PORTS
    BY <1>1, XhciAssumption, SlotNumbers
  <1>4. ASSUME next_port(0) \/ (step # NoOp /\ next_port(port))
        PROVE  /\ pc' \in {"reset", "poll"} /\ port' \in 0 .. PORTS + 1
               /\ pc' = "reset" => port' \in 1 .. PORTS
    <2>1. PICK p \in 0 .. PORTS : next_port(p)
      BY <1>1, <1>3, <1>4
    <2> QED BY <1>1, <1>3, <2>1, PortsInOrder
  <1>5. ASSUME proceed, step # NoOp, step # ConfigEp
        PROVE  /\ pc' = "send" /\ port' \in 1 .. PORTS /\ step' \in Steps /\ step' > EnableSlot
               /\ step # EnableSlot => step > EnableSlot
    BY <1>1, <1>3, <1>5 DEF proceed, Steps, NoOp, ConfigEp, EnableSlot
  <1>6. Armed(idx) \in [Devs -> Nat]
    BY <1>1 DEF Armed
  <1>7. CASE Kept(ok, slot, own)
    <2>1. devs' = devs
      BY <1>7 DEF Kept
    <2>2. CASE step = NoOp /\ ok /\ next_port(0) /\ UNCHANGED <<step, armed>>
      BY <1>1, <1>3, <1>4, <2>1, <2>2
    <2>3. CASE step = NoOp /\ ~ok /\ pc' = "off" /\ UNCHANGED <<port, step, armed>>
      BY <1>1, <1>3, <2>1, <2>3
    <2>4. CASE step = EnableSlot /\ ~SlotGranted(ok, slot) /\ next_port(port) /\ UNCHANGED <<step, armed>>
      BY <1>1, <1>3, <1>4, <2>1, <2>4 DEF EnableSlot, NoOp
    <2>5. CASE step = ConfigEp /\ ok /\ armed' = Armed(idx) /\ next_port(port) /\ UNCHANGED step
      BY <1>1, <1>3, <1>4, <1>6, <2>1, <2>5 DEF ConfigEp, NoOp
    <2>6. CASE /\ step \in {AddressDev, GetDevice, GetConfigHead, SetConfig} \/ step = SetProtocol
               /\ proceed /\ UNCHANGED armed
      <3>1. step # NoOp /\ step # ConfigEp /\ step # EnableSlot
        BY <2>6 DEF AddressDev, GetDevice, GetConfigHead, SetConfig, SetProtocol, NoOp, ConfigEp, EnableSlot
      <3> QED BY <1>1, <1>3, <1>5, <2>1, <2>6, <3>1
    <2> QED BY <1>7, <2>2, <2>3, <2>4, <2>5, <2>6 DEF Kept
  <1>8. CASE Taken(ok, slot, own)
    <2> DEFINE e == [d EXCEPT !.used = TRUE, !.slot = slot, !.port = port]
    <2>1. step # NoOp /\ step # ConfigEp /\ slot # 0 /\ proceed /\ UNCHANGED armed
          /\ devs' = [devs EXCEPT ![idx] = e]
      BY <1>8 DEF Taken, NoOp, ConfigEp, EnableSlot, SlotGranted
    <2>2. port \in 0 .. PORTS
      BY <1>1, <1>3, <2>1
    <2>3. e \in Entry /\ e.slot = slot
      BY <1>2, <2>2 DEF Entry
    <2> HIDE DEF e
    <2> QED BY <1>1, <1>3, <1>5, <2>1, <2>3
  <1>9. CASE Described(ok, slot, own)
    <2>0. PICK c \in Descriptors(own) : devs' = [devs EXCEPT ![idx] = [d EXCEPT !.hid = TRUE, !.kbd = c.kbd]]
      BY <1>9 DEF Described
    <2>1. PICK b \in BOOLEAN : devs' = [devs EXCEPT ![idx] = [d EXCEPT !.hid = TRUE, !.kbd = b]]
      <3>1. CASE own
        <4>1. c.kbd = (machine.attached[port] = "kbd")
          BY <3>1 DEF Descriptors
        <4>2. (machine.attached[port] = "kbd") \in BOOLEAN
          OBVIOUS
        <4>3. c.kbd \in BOOLEAN
          BY <4>1, <4>2, Zenon
        <4> QED BY <2>0, <4>3, Zenon
      <3>2. CASE ~own
        BY <2>0, <3>2 DEF Descriptors
      <3> QED BY <3>1, <3>2
    <2> DEFINE e == [d EXCEPT !.hid = TRUE, !.kbd = b]
    <2>2. e \in Entry /\ e.slot = d.slot
      BY <1>2, <2>1 DEF Entry
    <2>3. step # NoOp /\ step # ConfigEp /\ step # EnableSlot /\ proceed /\ UNCHANGED armed
      BY <1>9 DEF Described, GetConfig, NoOp, ConfigEp, EnableSlot
    <2>4. devs' = [devs EXCEPT ![idx] = e]
      BY <2>1
    <2> HIDE DEF e
    <2> QED BY <1>1, <1>3, <1>5, <2>2, <2>3, <2>4
  <1>10. CASE GivenUp(ok, slot, own)
    <2>1. PICK e \in Entry : e.slot = d.slot /\ devs' = [devs EXCEPT ![idx] = e]
      BY <1>2, <1>10, EntryChanges, <1>3 DEF GivenUp
    <2>2. step # NoOp /\ next_port(port) /\ UNCHANGED <<step, armed>>
      BY <1>10 DEF GivenUp, GetConfig, NoOp
    <2> QED BY <1>1, <1>3, <1>4, <2>1, <2>2
  <1> QED BY <1>1, <1>7, <1>8, <1>9, <1>10, AnswerCases

\* An event put into or taken out of the ring.
LEMMA EventPut ==
    ASSUME QueuesTyped, NEW e \in Events, evq' = Append(evq, e)
    PROVE  /\ evq' \in Seq(Events) /\ Len(evq') = Len(evq) + 1 /\ Len(evq) \in Nat
           /\ \A k \in 1 .. Len(evq) : evq'[k] = evq[k]
           /\ evq'[Len(evq) + 1] = e
           /\ \A k \in 1 .. Len(evq') : k \in 1 .. Len(evq) \/ k = Len(evq) + 1
  <1>1. evq \in Seq(Events)
    BY DEF QueuesTyped
  <1> QED BY <1>1, QueuePut

LEMMA EventTaken ==
    ASSUME QueuesTyped, evq # <<>>, evq' = Tail(evq)
    PROVE  /\ Len(evq) \in Nat /\ Len(evq) > 0 /\ Head(evq) = evq[1] /\ evq[1] \in Events
           /\ evq' \in Seq(Events) /\ Len(evq') = Len(evq) - 1
           /\ \A k \in 1 .. Len(evq') : evq'[k] = evq[k + 1] /\ k + 1 \in 1 .. Len(evq)
  <1>1. evq \in Seq(Events)
    BY DEF QueuesTyped
  <1> QED BY <1>1, QueueTake

LEMMA EventMade ==
    ASSUME NEW t \in {"port", "cmd", "xfer"}, NEW ok \in BOOLEAN, NEW slot \in 0 .. SLOTS,
           NEW n \in Nat
    PROVE  /\ Event(t, ok, slot, n) \in Events
           /\ Event(t, ok, slot, n).type = t /\ Event(t, ok, slot, n).slot = slot
           /\ Event(t, ok, slot, n).ok = ok /\ Event(t, ok, slot, n).ticket = n
  BY DEF Event, Events

LEMMA OutcomesTyped ==
    ASSUME machine \in Machines
    PROVE  /\ Outcomes \subseteq BOOLEAN /\ TRUE \in Outcomes
           /\ ~machine.faulty => Outcomes = {TRUE}
  <1>1. machine \in Machine /\ machine.faulty \in BOOLEAN
    BY XhciAssumption DEF Machine
  <1> QED BY <1>1 DEF Outcomes

\* The smallest spare slot, if there is one.
LEMMA SlotChosen ==
    ASSUME NEW spare \in SUBSET (1 .. SLOTS), spare # {}
    PROVE  LET s == CHOOSE s \in spare : \A t \in spare : s <= t
           IN s \in spare /\ \A t \in spare : s <= t
  <1>1. spare \in SUBSET Nat
    BY XhciAssumption
  <1>2. \E s \in spare : \A t \in spare : s <= t
    BY <1>1, LeastOf
  <1> QED BY <1>2

\* What the controller does with a command, told apart by its outcome.
LEMMA CommandCases ==
    ASSUME UsbTypeInv, hc_command
    PROVE  /\ cmdq # <<>> /\ cmdq' = Tail(cmdq)
           /\ UNCHANGED <<machine, pc, port, idx, step, ticket, table, ctlq, armed, user>>
           /\ \E ok \in BOOLEAN, slot \in 0 .. SLOTS :
                 /\ evq' = Append(evq, Event("cmd", ok, slot, cmdq[1].ticket))
                 /\ ~machine.faulty /\ ~ok => cmdq[1].step = EnableSlot /\ (1 .. SLOTS) \ enabled = {}
                 /\ \/ /\ cmdq[1].step = EnableSlot /\ ok /\ slot \in (1 .. SLOTS) \ enabled
                       /\ \A s \in (1 .. SLOTS) \ enabled : slot <= s
                       /\ enabled' = enabled \cup {slot} /\ UNCHANGED configured
                    \/ /\ cmdq[1].step = EnableSlot /\ ~ok /\ slot = 0
                       /\ UNCHANGED <<enabled, configured>>
                    \/ /\ cmdq[1].step # EnableSlot /\ slot = cmdq[1].slot /\ UNCHANGED enabled
                       /\ configured' = IF cmdq[1].step = ConfigEp /\ ok THEN configured \cup {slot}
                                        ELSE configured
  <1> DEFINE c == cmdq[1]
             spare == (1 .. SLOTS) \ enabled
             first == CHOOSE s \in spare : \A t \in spare : s <= t
  <1>1. cmdq \in Seq(Requests) /\ cmdq # <<>> /\ machine \in Machines
    BY DEF hc_command, UsbTypeInv, QueuesTyped, XhciTypeOK
  <1>2. Head(cmdq) = c /\ c \in Requests
    BY <1>1, QueueTake
  <1>3. c.slot \in 0 .. SLOTS
    BY <1>2 DEF Requests
  <1>4. Outcomes \subseteq BOOLEAN /\ (~machine.faulty => Outcomes = {TRUE})
    BY <1>1, OutcomesTyped
  <1>5. spare # {} => first \in spare /\ \A t \in spare : first <= t
    BY SlotChosen
  <1> HIDE DEF c, first
  <1>6. PICK ok0 \in Outcomes :
           LET done == ok0 /\ (c.step = EnableSlot => spare # {})
               slot == IF c.step = EnableSlot /\ done THEN first
                       ELSE IF c.step = EnableSlot THEN 0 ELSE c.slot
           IN /\ enabled' = enabled \cup (IF c.step = EnableSlot /\ done THEN {slot} ELSE {})
              /\ configured' = configured \cup (IF c.step = ConfigEp /\ done THEN {slot} ELSE {})
              /\ evq' = Append(evq, Event("cmd", done, slot, c.ticket))
    BY <1>2 DEF hc_command, first
  <1> DEFINE done == ok0 /\ (c.step = EnableSlot => spare # {})
             slot == IF c.step = EnableSlot /\ done THEN first
                     ELSE IF c.step = EnableSlot THEN 0 ELSE c.slot
  <1>7. done \in BOOLEAN /\ (~machine.faulty /\ ~done => c.step = EnableSlot /\ spare = {})
    BY <1>4
  <1>8. slot \in 0 .. SLOTS
    <2>1. CASE c.step = EnableSlot /\ done
      <3>1. slot = first /\ first \in 1 .. SLOTS
        BY <1>5, <2>1
      <3> QED BY <3>1, XhciAssumption
    <2>2. CASE ~(c.step = EnableSlot /\ done)
      BY <1>3, <2>2, XhciAssumption
    <2> QED BY <2>1, <2>2
  <1>9. \/ /\ c.step = EnableSlot /\ done /\ slot \in spare
           /\ \A s \in spare : slot <= s
           /\ enabled' = enabled \cup {slot} /\ UNCHANGED configured
        \/ /\ c.step = EnableSlot /\ ~done /\ slot = 0 /\ UNCHANGED <<enabled, configured>>
        \/ /\ c.step # EnableSlot /\ slot = c.slot /\ UNCHANGED enabled
           /\ configured' = IF c.step = ConfigEp /\ done THEN configured \cup {slot} ELSE configured
    <2>1. CASE c.step = EnableSlot /\ done
      <3>1. slot = first /\ spare # {} /\ c.step # ConfigEp
        BY <2>1 DEF EnableSlot, ConfigEp
      <3> QED BY <1>5, <1>6, <2>1, <3>1
    <2>2. CASE c.step = EnableSlot /\ ~done
      BY <1>6, <2>2 DEF EnableSlot, ConfigEp
    <2>3. CASE c.step # EnableSlot
      BY <1>6, <2>3
    <2> QED BY <2>1, <2>2, <2>3
  <1>10. evq' = Append(evq, Event("cmd", done, slot, c.ticket))
    BY <1>6
  <1>11. /\ cmdq' = Tail(cmdq)
         /\ UNCHANGED <<machine, pc, port, idx, step, ticket, table, ctlq, armed, user>>
    BY DEF hc_command
  <1> HIDE DEF done, slot
  <1> USE DEF c
  <1> QED BY <1>1, <1>7, <1>8, <1>9, <1>10, <1>11

\* The parts of the typing that most steps leave alone.
DriverTyped ==
    /\ pc \in {"init", "reset", "send", "wait", "poll", "off"}
    /\ port \in 0 .. PORTS + 1 /\ idx \in Devs /\ step \in Steps
    /\ devs \in [Devs -> Entry] /\ armed \in [Devs -> Nat]

UserTyped ==
    /\ machine \in Machines /\ ticket \in Nat
    /\ hid_buf \in [Devs -> BOOLEAN] /\ prev \in [Devs -> BOOLEAN]
    /\ down \in [Devs -> BOOLEAN] /\ owed \in [Devs -> Int]
    /\ reports \in 0 .. MaxReports

SlotsTyped == enabled \subseteq 1 .. SLOTS /\ configured \subseteq enabled

LEMMA TypedParts ==
    UsbTypeInv <=> DriverTyped /\ UserTyped /\ SlotsTyped /\ QueuesTyped /\ SlotsInv /\ PortInv
  BY DEF UsbTypeInv, XhciTypeOK, DriverTyped, UserTyped, SlotsTyped, Entry

LEMMA UsbTypeStart == XhciInit => UsbTypeInv
  <1> SUFFICES ASSUME XhciInit PROVE UsbTypeInv
    OBVIOUS
  <1>0. 0 \in Devs /\ 0 \in Steps /\ 0 \in 0 .. PORTS + 1 /\ 0 \in 0 .. PORTS /\ 0 \in 0 .. SLOTS
        /\ 0 \in 0 .. MaxReports
    BY SlotNumbers, XhciAssumption DEF NoOp
  <1>1. [used |-> FALSE, slot |-> 0, port |-> 0, hid |-> FALSE, kbd |-> FALSE] \in Entry
    BY <1>0 DEF Entry
  <1>2. DriverTyped
    BY <1>0, <1>1 DEF XhciInit, DriverTyped, NoOp
  <1>3. UserTyped /\ SlotsTyped
    BY <1>0 DEF XhciInit, UserTyped, SlotsTyped
  <1>4. QueuesTyped
    BY DEF XhciInit, QueuesTyped
  <1>5. SlotsInv
    BY <1>1 DEF XhciInit, SlotsInv, Known, Asking
  <1>6. PortInv
    BY DEF XhciInit, PortInv, Asking
  <1> QED BY <1>2, <1>3, <1>4, <1>5, <1>6, TypedParts

LEMMA UsbTypeStep == UsbTypeInv /\ [XhciNext]_xhciVars => UsbTypeInv'
  <1> SUFFICES ASSUME UsbTypeInv, [XhciNext]_xhciVars PROVE UsbTypeInv'
    OBVIOUS
  <1>0. DriverTyped /\ UserTyped /\ SlotsTyped /\ QueuesTyped /\ SlotsInv /\ PortInv
    BY TypedParts
  <1>n. PORTS \in Nat /\ SLOTS \in Nat /\ 0 \in 0 .. SLOTS /\ 0 \in Nat
    BY XhciAssumption
  <1>m. machine \in Machine
    BY <1>0, XhciAssumption DEF UserTyped
  <1>g. SUFFICES DriverTyped' /\ UserTyped' /\ SlotsTyped' /\ QueuesTyped' /\ SlotsInv' /\ PortInv'
    BY DEF UsbTypeInv, XhciTypeOK, DriverTyped, UserTyped, SlotsTyped, Entry
  <1>1. CASE xhci_init
    <2>1. /\ pc = "init" /\ pc' \in {"send", "off"} /\ step = NoOp /\ ~(step > EnableSlot)
          /\ UNCHANGED <<machine, port, idx, step, ticket, table, ctrl, armed, evq, user>>
      BY <1>0, <1>1 DEF xhci_init, PortInv, NoOp, EnableSlot
    <2>2. DriverTyped' /\ UserTyped' /\ SlotsTyped' /\ QueuesTyped'
      BY <1>0, <2>1 DEF table, ctrl, user, DriverTyped, UserTyped, SlotsTyped, QueuesTyped
    <2>3. SlotsInv' /\ PortInv'
      BY <1>0, <2>1 DEF table, ctrl, user, SlotsInv, PortInv, Known, Asking
    <2> QED BY <2>2, <2>3
  <1>2. CASE port_reset
    <2>1. UNCHANGED <<machine, ticket, table, ctrl, armed, user>> /\ pc = "reset"
      BY <1>2 DEF port_reset
    <2>2. port \in 1 .. PORTS /\ port \in 0 .. PORTS
      BY <1>0, <1>n, <2>1 DEF PortInv
    <2>3. ASSUME next_port(port)
          PROVE  /\ pc' \in {"reset", "poll"} /\ port' \in 0 .. PORTS + 1
                 /\ pc' = "reset" => port' \in 1 .. PORTS
      BY <1>m, <1>n, <2>2, <2>3, PortsInOrder
    <2>4. CASE FreeDevs = {} /\ next_port(port) /\ UNCHANGED <<idx, step, evq>>
      BY <1>0, <2>1, <2>3, <2>4 DEF table, ctrl, user, DriverTyped, UserTyped, SlotsTyped,
           QueuesTyped, SlotsInv, PortInv, Known, Asking
    <2>5. ASSUME NEW i \in Devs, idx' = i, step' = EnableSlot,
                 evq' = Append(evq, Event("port", TRUE, 0, 0)),
                 (pc' = "send" /\ UNCHANGED port) \/ next_port(port)
          PROVE  DriverTyped' /\ UserTyped' /\ SlotsTyped' /\ QueuesTyped' /\ SlotsInv' /\ PortInv'
      <3>1. Event("port", TRUE, 0, 0) \in Events /\ Event("port", TRUE, 0, 0).slot = 0
        BY <1>n DEF Event, Events
      <3>2. /\ evq' \in Seq(Events) /\ Len(evq) \in Nat /\ Len(evq') = Len(evq) + 1
            /\ \A k \in 1 .. Len(evq') : evq'[k].slot \in Known
        BY <1>0, <2>5, <3>1, EventPut DEF SlotsInv, Known
      <3>3. /\ pc' \in {"send", "reset", "poll"} /\ port' \in 0 .. PORTS + 1
            /\ pc' = "send" \/ pc' = "reset" => port' \in 1 .. PORTS
        BY <1>n, <2>2, <2>3, <2>5
      <3>4. EnableSlot \in Steps /\ ~(EnableSlot > EnableSlot)
        BY SlotNumbers DEF EnableSlot
      <3>5. DriverTyped' /\ UserTyped' /\ SlotsTyped' /\ QueuesTyped'
        BY <1>0, <2>1, <2>5, <3>2, <3>3, <3>4 DEF table, ctrl, user, DriverTyped, UserTyped, SlotsTyped, QueuesTyped
      <3>6. SlotsInv' /\ PortInv'
        BY <1>0, <2>1, <2>5, <3>2, <3>3, <3>4 DEF table, ctrl, user, SlotsInv, PortInv, Known, Asking
      <3> QED BY <3>5, <3>6
    <2> QED BY <1>2, <2>4, <2>5 DEF port_reset, FreeDevs
  <1>3. CASE send
    <2> DEFINE r == [ticket |-> ticket', step |-> step, slot |-> devs[idx].slot]
    <2>1. /\ pc = "send" /\ pc' = "wait" /\ ticket' = ticket + 1
          /\ UNCHANGED <<machine, port, idx, step, table, enabled, configured, armed, evq, user>>
          /\ \/ cmdq' = Append(cmdq, r) /\ UNCHANGED ctlq
             \/ ctlq' = ctlq \cup {r} /\ UNCHANGED cmdq
      BY <1>3 DEF send
    <2>2. /\ r \in Requests /\ r.slot \in Known /\ r.step = step /\ r.slot = devs[idx].slot
      BY <1>0, <2>1 DEF Requests, DriverTyped, UserTyped, SlotsInv, Entry
    <2>3. r.step = ConfigEp => r.slot # 0
      BY <1>0, <2>1, <2>2 DEF SlotsInv, Asking, ConfigEp, EnableSlot
    <2> HIDE DEF r
    <2>4. /\ cmdq' \in Seq(Requests) /\ ctlq' \subseteq Requests
          /\ \A k \in 1 .. Len(cmdq') : /\ cmdq'[k].slot \in Known
                                        /\ cmdq'[k].step = ConfigEp => cmdq'[k].slot # 0
          /\ \A q \in ctlq' : q.slot \in Known
      <3>1. CASE cmdq' = Append(cmdq, r) /\ UNCHANGED ctlq
        <4>1. cmdq \in Seq(Requests) /\ Len(cmdq) \in Nat
          BY <1>0 DEF QueuesTyped
        <4>2. /\ cmdq' \in Seq(Requests) /\ Len(cmdq') = Len(cmdq) + 1
              /\ \A k \in 1 .. Len(cmdq) : cmdq'[k] = cmdq[k]
              /\ cmdq'[Len(cmdq) + 1] = r
          BY <2>2, <3>1, <4>1, QueuePut
        <4> QED BY <1>0, <2>2, <2>3, <3>1, <4>1, <4>2 DEF SlotsInv, QueuesTyped
      <3>2. CASE ctlq' = ctlq \cup {r} /\ UNCHANGED cmdq
        BY <1>0, <2>2, <3>2 DEF SlotsInv, QueuesTyped
      <3> QED BY <2>1, <3>1, <3>2
    <2>5. DriverTyped' /\ UserTyped' /\ SlotsTyped' /\ QueuesTyped'
      BY <1>0, <2>1, <2>4 DEF table, user, DriverTyped, UserTyped, SlotsTyped, QueuesTyped
    <2>6. SlotsInv' /\ PortInv'
      BY <1>0, <2>1, <2>4 DEF table, user, SlotsInv, PortInv, Known, Asking
    <2> QED BY <2>5, <2>6
  <1>4. CASE wait_event
    <2>1. /\ pc = "wait" /\ evq # <<>> /\ evq' = Tail(evq)
          /\ UNCHANGED <<machine, idx, ticket, hid_buf, prev, ctrl, user>>
      BY <1>4 DEF wait_event
    <2>2. /\ Len(evq) \in Nat /\ Len(evq) > 0 /\ Head(evq) = evq[1] /\ evq[1] \in Events
          /\ evq' \in Seq(Events) /\ Len(evq') = Len(evq) - 1
          /\ \A k \in 1 .. Len(evq') : evq'[k] = evq[k + 1] /\ k + 1 \in 1 .. Len(evq)
      BY <1>0, <2>1, EventTaken
    <2>3. \A k \in 1 .. Len(evq') : evq'[k].slot \in Known
      BY <1>0, <2>2 DEF SlotsInv
    <2>4. Head(evq).ok \in BOOLEAN /\ Head(evq).slot \in Known
      BY <1>0, <2>2 DEF SlotsInv, Events
    <2>5. \/ UNCHANGED <<pc, port, step, devs, armed>>
          \/ \E own \in BOOLEAN : answered(Head(evq).ok, Head(evq).slot, own)
      BY <1>4 DEF wait_event
    <2>6. CASE UNCHANGED <<pc, port, step, devs, armed>>
      BY <1>0, <2>1, <2>2, <2>3, <2>6 DEF ctrl, user, DriverTyped, UserTyped, SlotsTyped,
           QueuesTyped, SlotsInv, PortInv, Known, Asking
    <2>7. ASSUME NEW own \in BOOLEAN, answered(Head(evq).ok, Head(evq).slot, own)
          PROVE  DriverTyped' /\ UserTyped' /\ SlotsTyped' /\ QueuesTyped' /\ SlotsInv' /\ PortInv'
      <3>1. UNCHANGED <<machine, idx, enabled>>
        BY <2>1 DEF ctrl
      <3>2. /\ pc' \in {"reset", "send", "poll", "off"}
            /\ port' \in 0 .. PORTS + 1 /\ step' \in Steps
            /\ devs' \in [Devs -> Entry] /\ armed' \in [Devs -> Nat]
            /\ \A i \in Devs : devs'[i].slot \in Known
            /\ pc' = "send" /\ step' > EnableSlot => devs'[idx].slot # 0
            /\ pc' = "reset" \/ pc' = "send" => port' \in 1 .. PORTS
        BY <2>1, <2>4, <2>7, <3>1, AnswerTyped
      <3>3. DriverTyped' /\ UserTyped' /\ SlotsTyped' /\ QueuesTyped'
        BY <1>0, <2>1, <2>2, <3>2 DEF ctrl, user, DriverTyped, UserTyped, SlotsTyped, QueuesTyped
      <3>4. SlotsInv' /\ PortInv'
        BY <1>0, <2>1, <2>2, <2>3, <3>2 DEF ctrl, user, SlotsInv, PortInv, Known, Asking
      <3> QED BY <3>3, <3>4
    <2> QED BY <2>5, <2>6, <2>7
  <1>5. CASE wait_timeout
    <2>1. /\ pc = "wait" /\ answered(FALSE, 0, FALSE)
          /\ UNCHANGED <<machine, idx, ticket, hid_buf, prev, ctrl, evq, user>>
      BY <1>5 DEF wait_timeout
    <2>2. 0 \in Known /\ UNCHANGED <<machine, idx, enabled>>
      BY <2>1 DEF Known, ctrl
    <2>3. /\ pc' \in {"reset", "send", "poll", "off"}
          /\ port' \in 0 .. PORTS + 1 /\ step' \in Steps
          /\ devs' \in [Devs -> Entry] /\ armed' \in [Devs -> Nat]
          /\ \A i \in Devs : devs'[i].slot \in Known
          /\ pc' = "send" /\ step' > EnableSlot => devs'[idx].slot # 0
          /\ pc' = "reset" \/ pc' = "send" => port' \in 1 .. PORTS
      BY <2>1, <2>2, AnswerTyped
    <2>4. DriverTyped' /\ UserTyped' /\ SlotsTyped' /\ QueuesTyped'
      BY <1>0, <2>1, <2>3 DEF ctrl, user, DriverTyped, UserTyped, SlotsTyped, QueuesTyped
    <2>5. SlotsInv' /\ PortInv'
      BY <1>0, <2>1, <2>3 DEF ctrl, user, SlotsInv, PortInv, Known, Asking
    <2> QED BY <2>4, <2>5
  <1>6. CASE usb_poll
    <2>1. /\ pc = "poll" /\ evq # <<>> /\ evq' = Tail(evq)
          /\ UNCHANGED <<machine, pc, port, idx, step, ticket, devs, hid_buf, ctrl, down, reports>>
      BY <1>6 DEF usb_poll
    <2>2. /\ evq' \in Seq(Events)
          /\ \A k \in 1 .. Len(evq') : evq'[k] = evq[k + 1] /\ k + 1 \in 1 .. Len(evq)
      BY <1>0, <2>1, EventTaken
    <2>3. armed' \in [Devs -> Nat] /\ prev' \in [Devs -> BOOLEAN] /\ owed' \in [Devs -> Int]
      <3>1. /\ armed \in [Devs -> Nat] /\ prev \in [Devs -> BOOLEAN] /\ owed \in [Devs -> Int]
            /\ hid_buf \in [Devs -> BOOLEAN]
        BY <1>0 DEF DriverTyped, UserTyped
      <3>2. CASE UNCHANGED <<armed, prev, owed>>
        BY <3>1, <3>2
      <3>3. ASSUME NEW i \in Devs, hid_handle(i), armed' = Rearmed(i)
            PROVE  armed' \in [Devs -> Nat] /\ prev' \in [Devs -> BOOLEAN] /\ owed' \in [Devs -> Int]
        <4>1. armed' \in [Devs -> Nat]
          BY <3>1, <3>3 DEF Rearmed, Armed
        <4>2. owed' \in [Devs -> Int]
          BY <3>1, <3>3 DEF hid_handle
        <4>3. prev' \in [Devs -> BOOLEAN]
          BY <3>1, <3>3 DEF hid_handle
        <4> QED BY <4>1, <4>2, <4>3
      <3> QED BY <1>6, <3>2, <3>3 DEF usb_poll, Sources
    <2>4. DriverTyped' /\ UserTyped' /\ SlotsTyped' /\ QueuesTyped'
      BY <1>0, <2>1, <2>2, <2>3 DEF ctrl, DriverTyped, UserTyped, SlotsTyped, QueuesTyped
    <2>5. SlotsInv' /\ PortInv'
      BY <1>0, <2>1, <2>2 DEF ctrl, SlotsInv, PortInv, Known, Asking
    <2> QED BY <2>4, <2>5
  <1>7. CASE hc_command
    <2> DEFINE c == cmdq[1]
    <2>1. /\ cmdq # <<>> /\ cmdq' = Tail(cmdq)
          /\ UNCHANGED <<machine, pc, port, idx, step, ticket, table, ctlq, armed, user>>
      BY <1>7, CommandCases
    <2>2. PICK ok \in BOOLEAN, slot \in 0 .. SLOTS :
             /\ evq' = Append(evq, Event("cmd", ok, slot, c.ticket))
             /\ \/ /\ c.step = EnableSlot /\ slot \in (1 .. SLOTS) \ enabled
                   /\ enabled' = enabled \cup {slot} /\ UNCHANGED configured
                \/ /\ slot = 0 /\ UNCHANGED <<enabled, configured>>
                \/ /\ c.step # EnableSlot /\ slot = c.slot /\ UNCHANGED enabled
                   /\ configured' = IF c.step = ConfigEp /\ ok THEN configured \cup {slot}
                                    ELSE configured
      BY <1>7, CommandCases
    <2>3. cmdq \in Seq(Requests)
      BY <1>0 DEF QueuesTyped
    <2>4. /\ cmdq' \in Seq(Requests) /\ c \in Requests /\ 1 \in 1 .. Len(cmdq)
          /\ \A k \in 1 .. Len(cmdq') : cmdq'[k] = cmdq[k + 1] /\ k + 1 \in 1 .. Len(cmdq)
      BY <2>1, <2>3, QueueTake
    <2>5. c.ticket \in Nat /\ c.slot \in Known /\ (c.step = ConfigEp => c.slot # 0)
      BY <1>0, <2>4 DEF SlotsInv, Requests
    <2> HIDE DEF c
    <2>6. enabled \subseteq enabled' /\ SlotsTyped' /\ slot \in enabled' \cup {0}
      BY <1>0, <1>n, <2>2, <2>5 DEF SlotsTyped, Known
    <2>7. Event("cmd", ok, slot, c.ticket) \in Events /\ Event("cmd", ok, slot, c.ticket).slot = slot
      BY <2>5, EventMade
    <2>8. /\ evq' \in Seq(Events)
          /\ \A k \in 1 .. Len(evq') : evq'[k].slot \in enabled' \cup {0}
      BY <1>0, <2>2, <2>6, <2>7, EventPut DEF SlotsInv, Known
    <2>9. DriverTyped' /\ UserTyped' /\ QueuesTyped'
      BY <1>0, <2>1, <2>4, <2>8 DEF table, user, DriverTyped, UserTyped, QueuesTyped
    <2>10. SlotsInv' /\ PortInv'
      BY <1>0, <2>1, <2>4, <2>6, <2>8 DEF table, user, SlotsInv, PortInv, Known, Asking
    <2> QED BY <2>6, <2>9, <2>10
  <1>8. CASE hc_control
    <2>1. PICK r \in ctlq, ok \in Outcomes :
             /\ ctlq' = ctlq \ {r} /\ evq' = Append(evq, Event("xfer", ok, r.slot, r.ticket))
             /\ UNCHANGED <<machine, pc, port, idx, step, ticket, table, cmdq, enabled,
                            configured, armed, user>>
      BY <1>8 DEF hc_control
    <2>2. ok \in BOOLEAN
      BY <1>0, OutcomesTyped DEF UserTyped
    <2>3. r \in Requests /\ r.slot \in 0 .. SLOTS /\ r.ticket \in Nat /\ r.slot \in Known
      BY <1>0 DEF QueuesTyped, Requests, SlotsInv
    <2>4. /\ Event("xfer", ok, r.slot, r.ticket) \in Events
          /\ Event("xfer", ok, r.slot, r.ticket).slot = r.slot
      BY <2>2, <2>3, EventMade
    <2>5. /\ evq' \in Seq(Events)
          /\ \A k \in 1 .. Len(evq') : evq'[k].slot \in Known
      BY <1>0, <2>1, <2>3, <2>4, EventPut DEF SlotsInv
    <2>6. DriverTyped' /\ UserTyped' /\ SlotsTyped' /\ QueuesTyped'
      BY <1>0, <2>1, <2>5 DEF table, user, DriverTyped, UserTyped, SlotsTyped, QueuesTyped
    <2>7. SlotsInv' /\ PortInv'
      BY <1>0, <2>1, <2>5 DEF table, user, SlotsInv, PortInv, Known, Asking
    <2> QED BY <2>6, <2>7
  <1>9. ASSUME NEW i \in Devs, NEW d \in BOOLEAN, usb_report(i, d)
        PROVE  DriverTyped' /\ UserTyped' /\ SlotsTyped' /\ QueuesTyped' /\ SlotsInv' /\ PortInv'
    <2>1. /\ armed[i] > 0 /\ reports < MaxReports
          /\ armed' = [armed EXCEPT ![i] = @ - 1]
          /\ hid_buf' = [hid_buf EXCEPT ![i] = d] /\ down' = [down EXCEPT ![i] = d]
          /\ owed' = [owed EXCEPT ![i] = IF devs[i].kbd /\ d /\ ~down[i] THEN @ + 1 ELSE @]
          /\ reports' = reports + 1
          /\ evq' = Append(evq, Event("xfer", TRUE, devs[i].slot, 0))
          /\ UNCHANGED <<machine, pc, port, idx, step, ticket, devs, prev, ctrl>>
      BY <1>9 DEF usb_report
    <2>2. devs[i].slot \in 0 .. SLOTS /\ devs[i].slot \in Known
      BY <1>0 DEF DriverTyped, Entry, SlotsInv
    <2>3. /\ Event("xfer", TRUE, devs[i].slot, 0) \in Events
          /\ Event("xfer", TRUE, devs[i].slot, 0).slot = devs[i].slot
      BY <2>2, <1>n DEF Event, Events
    <2>4. /\ evq' \in Seq(Events)
          /\ \A k \in 1 .. Len(evq') : evq'[k].slot \in Known
      <3> DEFINE e == Event("xfer", TRUE, devs[i].slot, 0)
      <3>1. e \in Events /\ e.slot \in Known /\ evq' = Append(evq, e)
        BY <2>1, <2>2, <2>3
      <3>2. \A k \in 1 .. Len(evq) : evq[k].slot \in Known
        BY <1>0 DEF SlotsInv
      <3> HIDE DEF e
      <3>3. /\ evq' \in Seq(Events) /\ evq'[Len(evq) + 1] = e
            /\ \A k \in 1 .. Len(evq) : evq'[k] = evq[k]
            /\ \A k \in 1 .. Len(evq') : k \in 1 .. Len(evq) \/ k = Len(evq) + 1
        BY <1>0, <3>1, EventPut
      <3> QED BY <3>1, <3>2, <3>3
    <2>5. armed' \in [Devs -> Nat]
      BY <1>0, <2>1 DEF DriverTyped
    <2>6. hid_buf' \in [Devs -> BOOLEAN] /\ down' \in [Devs -> BOOLEAN]
      BY <1>0, <2>1 DEF UserTyped
    <2>7. owed' \in [Devs -> Int] /\ reports' \in 0 .. MaxReports
      BY <1>0, <2>1, XhciAssumption DEF UserTyped
    <2>8. DriverTyped' /\ UserTyped' /\ SlotsTyped' /\ QueuesTyped'
      BY <1>0, <2>1, <2>4, <2>5, <2>6, <2>7 DEF ctrl, DriverTyped, UserTyped, SlotsTyped, QueuesTyped
    <2>9. SlotsInv' /\ PortInv'
      BY <1>0, <2>1, <2>4 DEF ctrl, SlotsInv, PortInv, Known, Asking
    <2> QED BY <2>8, <2>9
  <1>10. CASE UNCHANGED xhciVars
    BY <1>0, <1>10 DEF xhciVars, DriverTyped, UserTyped, SlotsTyped, QueuesTyped, SlotsInv, PortInv,
                       Known, Asking
  <1> QED BY <1>1, <1>2, <1>3, <1>4, <1>5, <1>6, <1>7, <1>8, <1>9, <1>10
          DEF XhciNext, Controller, Driver, idle

\* Types, and that slots in use are slots the controller has enabled: for every
\* number of ports, slots and entries, whatever is late or fails.
THEOREM UsbTyped == XhciSpec => []XhciTypeOK
  <1>1. UsbTypeInv => XhciTypeOK
    BY DEF UsbTypeInv
  <1> QED BY <1>1, UsbTypeStart, UsbTypeStep, PTL DEF XhciSpec

----------------------------------------------------------------------------
(* Bring-up goes forward.                                                  *)

BringUpOver == pc \in {"poll", "off"}

\* How far xhci_init has got: the port it is at, the request of that port, and
\* whether that has been made.  Each port has 20 stages at most.
AtPort == IF pc = "init" \/ (Asking /\ step = NoOp) THEN 0 ELSE port
Stage == IF pc = "init" THEN 0 ELSE IF pc = "reset" THEN 1
         ELSE IF pc = "send" THEN 2 * step + 2 ELSE 2 * step + 3
Reached == IF BringUpOver THEN 20 * (PORTS + 1) ELSE 20 * AtPort + Stage

WithinPorts == Reached \in 0 .. 20 * (PORTS + 1)

\* A step of the driver gets it further, or takes an event out of the ring; no
\* step of the controller or of a device takes it back.
Advances ==
    /\ WithinPorts'
    /\ \/ Reached' > Reached
       \/ Reached' = Reached /\ (Driver => evq # <<>> /\ evq' = Tail(evq))

LEMMA ReachedBounds ==
    ASSUME UsbTypeInv
    PROVE  /\ Reached \in 0 .. 20 * (PORTS + 1)
           /\ ~BringUpOver => /\ AtPort \in 0 .. PORTS /\ Stage \in 0 .. 19
                              /\ Reached = 20 * AtPort + Stage
  <1>1. /\ PORTS \in Nat /\ step \in 0 .. 8 /\ port \in 0 .. PORTS + 1
        /\ pc \in {"init", "reset", "send", "wait", "poll", "off"}
        /\ pc = "reset" \/ (Asking /\ step # NoOp) => port \in 1 .. PORTS
    BY XhciAssumption DEF UsbTypeInv, XhciTypeOK, Steps, NoOp, ConfigEp, PortInv
  <1>2. CASE BringUpOver
    BY <1>1, <1>2 DEF Reached
  <1>3. CASE ~BringUpOver
    <2>1. AtPort \in 0 .. PORTS
      <3>1. CASE pc = "init" \/ (Asking /\ step = NoOp)
        BY <1>1, <3>1 DEF AtPort
      <3>2. CASE ~(pc = "init" \/ (Asking /\ step = NoOp))
        <4>1. pc = "reset" \/ (Asking /\ step # NoOp)
          BY <1>1, <1>3, <3>2 DEF BringUpOver, Asking
        <4> QED BY <1>1, <3>2, <4>1 DEF AtPort
      <3> QED BY <3>1, <3>2
    <2>2. Stage \in 0 .. 19
      BY <1>1 DEF Stage
    <2>3. Reached = 20 * AtPort + Stage
      BY <1>3 DEF Reached
    <2>4. PICK a \in 0 .. PORTS, s \in 0 .. 19 : AtPort = a /\ Stage = s
      BY <2>1, <2>2
    <2>5. 20 * a + s \in 0 .. 20 * (PORTS + 1)
      BY <1>1
    <2> QED BY <2>1, <2>2, <2>3, <2>4, <2>5
  <1> QED BY <1>2, <1>3

\* On to a later port, or to the end.
LEMMA NextPortAdvances ==
    ASSUME UsbTypeInv, UsbTypeInv', ~BringUpOver, NEW p \in 0 .. PORTS, p = AtPort, next_port(p)
    PROVE  Reached' > Reached
  <1>1. machine \in Machine /\ PORTS \in Nat
    BY XhciAssumption DEF UsbTypeInv, XhciTypeOK
  <1>2. Reached = 20 * p + Stage /\ Stage \in 0 .. 19
    BY ReachedBounds
  <1>3. PICK s \in 0 .. 19 : Reached = 20 * p + s
    BY <1>2
  <1>4. CASE pc' = "poll"
    <2>1. Reached' = 20 * (PORTS + 1)
      BY <1>4 DEF Reached, BringUpOver
    <2> QED BY <1>1, <1>3, <2>1
  <1>5. CASE pc' = "reset" /\ port' \in p + 1 .. PORTS
    <2>1. Reached' = 20 * port' + 1
      BY <1>5 DEF Reached, BringUpOver, AtPort, Asking, Stage
    <2>2. PICK q \in p + 1 .. PORTS : port' = q
      BY <1>5
    <2>3. 20 * q + 1 > 20 * p + s
      BY <1>1
    <2> QED BY <1>3, <2>1, <2>2, <2>3
  <1> QED BY <1>1, <1>4, <1>5, PortsInOrder

\* An answer, own or not, early or never, gets the driver further.
LEMMA AnswerAdvances ==
    ASSUME UsbTypeInv, UsbTypeInv', pc = "wait", NEW ok \in BOOLEAN, NEW slot, NEW own,
           answered(ok, slot, own)
    PROVE  Reached' > Reached
  <1>1. /\ PORTS \in Nat /\ step \in Steps /\ step \in 0 .. 8 /\ ~BringUpOver
        /\ idx \in Devs /\ devs \in [Devs -> Entry] /\ 0 \in 0 .. PORTS
        /\ step # NoOp => port \in 1 .. PORTS /\ port \in 0 .. PORTS
    BY XhciAssumption DEF UsbTypeInv, XhciTypeOK, Entry, Steps, NoOp, ConfigEp, PortInv, Asking, BringUpOver
  <1>2. AtPort = IF step = NoOp THEN 0 ELSE port
    BY DEF AtPort, Asking
  <1>3. AtPort \in 0 .. PORTS /\ Stage = 2 * step + 3 /\ Reached = 20 * AtPort + Stage
    <2>1. Stage = 2 * step + 3
      BY DEF Stage
    <2> QED BY <1>1, <2>1, ReachedBounds
  <1>4. CASE (step = NoOp /\ next_port(0)) \/ (step # NoOp /\ next_port(port))
    <2>1. CASE step = NoOp /\ next_port(0)
      BY <1>1, <1>2, <2>1, NextPortAdvances
    <2>2. CASE step # NoOp /\ next_port(port)
      BY <1>1, <1>2, <2>2, NextPortAdvances
    <2> QED BY <1>4, <2>1, <2>2
  <1>5. CASE pc' = "off"
    <2>1. Reached' = 20 * (PORTS + 1)
      BY <1>5 DEF Reached, BringUpOver
    <2>2. PICK a \in 0 .. PORTS, s \in 0 .. 8 : Reached = 20 * a + (2 * s + 3)
      BY <1>1, <1>3
    <2> QED BY <1>1, <2>1, <2>2
  <1>6. CASE step # NoOp /\ proceed
    <2>1. pc' = "send" /\ step' = step + 1 /\ port' = port
      BY <1>6 DEF proceed
    <2>2. step' # NoOp
      BY <1>1, <2>1 DEF NoOp
    <2>3. Reached' = 20 * port + (2 * step' + 2)
      BY <2>1, <2>2 DEF Reached, BringUpOver, AtPort, Asking, Stage
    <2>4. Reached = 20 * port + (2 * step + 3)
      BY <1>2, <1>3, <1>6
    <2>5. PICK a \in 0 .. PORTS, s \in 0 .. 8 : port = a /\ step = s
      BY <1>1, <1>6
    <2>6. 20 * a + (2 * (s + 1) + 2) > 20 * a + (2 * s + 3)
      BY <1>1
    <2> QED BY <2>1, <2>3, <2>4, <2>5, <2>6
  <1>7. CASE Kept(ok, slot, own)
    BY <1>4, <1>5, <1>6, <1>7 DEF Kept, NoOp, EnableSlot, AddressDev, GetDevice, GetConfigHead,
                                  SetConfig, SetProtocol, ConfigEp
  <1>8. CASE Taken(ok, slot, own)
    BY <1>6, <1>8 DEF Taken, NoOp, EnableSlot
  <1>9. CASE Described(ok, slot, own)
    BY <1>6, <1>9 DEF Described, NoOp, GetConfig
  <1>10. CASE GivenUp(ok, slot, own)
    BY <1>4, <1>10 DEF GivenUp, NoOp, GetConfig
  <1> QED BY <1>1, <1>7, <1>8, <1>9, <1>10, AnswerCases

\* A step that leaves the driver where it is.
LEMMA StaysReached ==
    ASSUME UNCHANGED <<pc, port, step>>
    PROVE  Reached' = Reached
  BY DEF Reached, BringUpOver, AtPort, Stage, Asking

LEMMA AdvancesStep ==
    ASSUME UsbTypeInv, UsbTypeInv', XhciNext
    PROVE  \/ Reached' > Reached
           \/ Reached' = Reached /\ ~Driver
           \/ Reached' = Reached /\ evq # <<>> /\ evq' = Tail(evq)
           \/ UNCHANGED xhciVars
  <1>1. /\ PORTS \in Nat /\ step \in Steps /\ step \in 0 .. 8
        /\ pc \in {"init", "reset", "send", "wait", "poll", "off"}
        /\ pc = "reset" \/ (Asking /\ step # NoOp) => port \in 1 .. PORTS /\ port \in 0 .. PORTS
        /\ pc = "init" => step = NoOp
    BY XhciAssumption DEF UsbTypeInv, XhciTypeOK, Steps, NoOp, ConfigEp, PortInv
  <1>2. CASE xhci_init
    <2>1. pc = "init" /\ step = NoOp /\ step' = step /\ (pc' = "send" \/ pc' = "off")
      BY <1>1, <1>2 DEF xhci_init
    <2>2. Reached = 0
      BY <2>1 DEF Reached, BringUpOver, AtPort, Stage
    <2>3. CASE pc' = "send"
      <3>1. Reached' = 2
        BY <2>1, <2>3 DEF Reached, BringUpOver, AtPort, Stage, Asking, NoOp
      <3> QED BY <2>2, <3>1
    <2>4. CASE pc' = "off"
      <3>1. Reached' = 20 * (PORTS + 1)
        BY <2>4 DEF Reached, BringUpOver
      <3> QED BY <1>1, <2>2, <3>1
    <2> QED BY <2>1, <2>3, <2>4
  <1>3. CASE port_reset
    <2>1. /\ pc = "reset" /\ port \in 0 .. PORTS /\ ~BringUpOver /\ AtPort = port
          /\ Reached = 20 * port + 1
      BY <1>1, <1>3 DEF port_reset, BringUpOver, AtPort, Asking, Reached, Stage
    <2>2. CASE next_port(port)
      BY <2>1, <2>2, NextPortAdvances
    <2>3. CASE pc' = "send" /\ step' = EnableSlot /\ port' = port
      <3>1. Reached' = 20 * port + 4
        BY <2>3 DEF Reached, BringUpOver, AtPort, Stage, Asking, NoOp, EnableSlot
      <3>2. PICK a \in 0 .. PORTS : port = a
        BY <2>1
      <3>3. 20 * a + 4 > 20 * a + 1
        BY <1>1
      <3> QED BY <2>1, <3>1, <3>2, <3>3
    <2> QED BY <1>3, <2>2, <2>3 DEF port_reset
  <1>4. CASE send
    <2>1. pc = "send" /\ pc' = "wait" /\ step' = step /\ port' = port
      BY <1>4 DEF send
    <2>2. ~BringUpOver
      BY <2>1 DEF BringUpOver
    <2>3. AtPort \in 0 .. PORTS /\ Reached = 20 * AtPort + (2 * step + 2)
      BY <2>1, <2>2, ReachedBounds DEF Stage
    <2>4. Reached' = 20 * AtPort + (2 * step + 3)
      BY <2>1 DEF Reached, BringUpOver, AtPort, Stage, Asking
    <2>5. PICK a \in 0 .. PORTS, s \in 0 .. 8 : AtPort = a /\ step = s
      BY <1>1, <2>3
    <2>6. 20 * a + (2 * s + 3) > 20 * a + (2 * s + 2)
      BY <1>1
    <2> QED BY <2>3, <2>4, <2>5, <2>6
  <1>5. CASE wait_event
    <2>1. pc = "wait" /\ evq # <<>> /\ evq' = Tail(evq)
      BY <1>5 DEF wait_event
    <2>2. Head(evq).ok \in BOOLEAN
      <3>1. QueuesTyped
        BY DEF UsbTypeInv
      <3> QED BY <2>1, <3>1, EventTaken DEF Events
    <2>3. CASE UNCHANGED <<pc, port, step, devs, armed>>
      BY <2>1, <2>3, StaysReached
    <2>4. CASE answered(Head(evq).ok, Head(evq).slot, Head(evq).ticket = ticket)
      BY <2>1, <2>2, <2>4, AnswerAdvances
    <2> QED BY <1>5, <2>3, <2>4 DEF wait_event
  <1>6. CASE wait_timeout
    BY <1>6, AnswerAdvances DEF wait_timeout
  <1>7. CASE usb_poll
    BY <1>7, StaysReached DEF usb_poll
  <1>8. CASE (hc_command \/ hc_control \/ \E i \in Devs, d \in BOOLEAN : usb_report(i, d)) /\ ~Driver
    BY <1>8, StaysReached DEF hc_command, hc_control, usb_report
  <1>9. CASE idle
    BY <1>9 DEF idle
  <1> QED BY <1>2, <1>3, <1>4, <1>5, <1>6, <1>7, <1>8, <1>9 DEF XhciNext, Controller, Driver

\* xhci_init cannot go round in circles: for every number of ports, whatever
\* fails, is late or is answered by the wrong event, each step of the driver
\* brings it nearer to the input loops or uses up an event.  With fairness,
\* this is why BringUpEnds holds.
THEOREM BringUpAdvances == XhciSpec => [][Advances]_xhciVars
  <1>1. UsbTypeInv => WithinPorts
    BY ReachedBounds DEF WithinPorts
  <1>2. ASSUME UsbTypeInv, UsbTypeInv', WithinPorts', XhciNext PROVE Advances \/ UNCHANGED xhciVars
    BY <1>2, AdvancesStep DEF Advances
  <1>3. UsbTypeInv /\ UsbTypeInv' /\ WithinPorts' /\ [XhciNext]_xhciVars => [Advances]_xhciVars
    BY <1>2
  <1> QED BY <1>1, <1>3, UsbTypeStart, UsbTypeStep, PTL DEF XhciSpec

----------------------------------------------------------------------------
(* An orderly machine: one request at a time, and its own answer.          *)

Request == [ticket |-> ticket, step |-> step, slot |-> devs[idx].slot]

\* The first n events are port changes, which nobody waits for.
Ports(n) == \A k \in 1 .. n : evq[k].type = "port"

Asked ==
    /\ IF step \in Commands THEN cmdq = <<Request>> /\ ctlq = {}
       ELSE cmdq = <<>> /\ ctlq = {Request}
    /\ Ports(Len(evq))

Answer == evq[Len(evq)]

Answered ==
    /\ cmdq = <<>> /\ ctlq = {} /\ Len(evq) > 0
    /\ Ports(Len(evq) - 1)
    /\ Wanted(Answer) /\ Answer.ticket = ticket
    /\ step = EnableSlot /\ Answer.ok =>
          Answer.slot # 0 /\ \A i \in Devs : devs[i].used => devs[i].slot # Answer.slot
    /\ step = ConfigEp /\ Answer.ok => devs[idx].slot \in configured

\* While the driver waits, its request is with the controller or its answer is
\* the last event; at other times nothing is outstanding but reports.
QueueInv ==
    /\ pc = "wait" => Asked \/ Answered
    /\ pc = "wait" => ticket > 0
    /\ pc # "wait" => cmdq = <<>> /\ ctlq = {}
    /\ pc \notin {"wait", "poll"} => Ports(Len(evq))
    /\ pc = "poll" => \A k \in 1 .. Len(evq) : \/ evq[k].type = "port"
                                               \/ (evq[k].type = "xfer" /\ evq[k].ticket = 0)

\* Devices whose enumeration has succeeded, the last one included.
Done == {i \in Devs : devs[i].used /\ (i # idx \/ pc \in {"reset", "poll"})}

TableInv ==
    /\ step = NoOp => \A i \in Devs : ~devs[i].used
    /\ Asking /\ step = EnableSlot => ~devs[idx].used
    /\ Asking /\ step > EnableSlot => devs[idx].used
    /\ Asking /\ step > GetConfig => devs[idx].hid
    /\ \A i, j \in Devs : devs[i].used /\ devs[j].used /\ i # j => devs[i].slot # devs[j].slot
    /\ \A i \in Devs : devs[i].used => devs[i].slot # 0
    /\ \A i \in Done : devs[i].hid /\ devs[i].slot \in configured

\* What wait_event takes: a port change, or the answer, which is the last event.
LEMMA WaitCases ==
    ASSUME UsbTypeInv, QueueInv, wait_event
    PROVE  /\ pc = "wait" /\ evq # <<>> /\ evq' = Tail(evq)
           /\ UNCHANGED <<machine, idx, ticket, hid_buf, prev, ctrl, user>>
           /\ \/ evq[1].type = "port" /\ UNCHANGED <<pc, port, step, devs, armed>>
              \/ /\ Answered /\ Len(evq) = 1 /\ evq' = <<>> /\ Head(evq) = Answer
                 /\ Answer \in Events /\ answered(Answer.ok, Answer.slot, TRUE)
  <1>1. /\ pc = "wait" /\ evq # <<>> /\ evq' = Tail(evq)
        /\ UNCHANGED <<machine, idx, ticket, hid_buf, prev, ctrl, user>>
    BY DEF wait_event
  <1>2. evq \in Seq(Events)
    BY DEF UsbTypeInv, QueuesTyped
  <1>3. Len(evq) \in Nat /\ Len(evq) > 0 /\ Head(evq) = evq[1] /\ evq[1] \in Events
        /\ Tail(evq) \in Seq(Events) /\ Len(Tail(evq)) = Len(evq) - 1
    BY <1>1, <1>2, QueueTake
  <1>4. CASE ~Wanted(Head(evq))
    <2>1. UNCHANGED <<pc, port, step, devs, armed>>
      BY <1>4 DEF wait_event
    <2>2. evq[1].type = "port"
      <3>1. CASE Asked
        BY <1>3, <3>1 DEF Asked, Ports
      <3>2. CASE Answered
        BY <1>3, <1>4, <3>2 DEF Answered, Ports, Answer
      <3> QED BY <1>1, <3>1, <3>2 DEF QueueInv
    <2> QED BY <1>1, <2>1, <2>2
  <1>5. CASE Wanted(Head(evq))
    <2>1. evq[1].type # "port"
      BY <1>3, <1>5 DEF Wanted
    <2>2. Answered
      BY <1>1, <1>3, <2>1 DEF QueueInv, Asked, Ports
    <2>3. Len(evq) = 1
      BY <1>3, <2>1, <2>2 DEF Answered, Ports
    <2>4. evq' = <<>> /\ Head(evq) = Answer
      BY <1>1, <1>3, <2>3 DEF Answer
    <2>5. answered(Answer.ok, Answer.slot, TRUE)
      <3>1. (Head(evq).ticket = ticket) = TRUE
        BY <2>2, <2>4 DEF Answered
      <3>2. answered(Head(evq).ok, Head(evq).slot, Head(evq).ticket = ticket)
        BY <1>5 DEF wait_event
      <3> QED BY <2>4, <3>1, <3>2
    <2> QED BY <1>1, <1>3, <2>2, <2>3, <2>4, <2>5
  <1> QED BY <1>4, <1>5

\* The driver after an answer.
LEMMA AfterAnswer ==
    ASSUME UsbTypeInv, pc = "wait", answered(Answer.ok, Answer.slot, TRUE), Answer \in Events,
           Answer.slot \in Known, UNCHANGED <<machine, idx, enabled>>
    PROVE  pc' \in {"reset", "send", "poll", "off"}
  <1>1. Answer.ok \in BOOLEAN
    BY DEF Events
  <1> QED BY <1>1, AnswerTyped

LEMMA AnswerKnown ==
    ASSUME UsbTypeInv, Len(evq) > 0
    PROVE  Answer \in Events /\ Answer.slot \in Known /\ Answer.ok \in BOOLEAN
  <1>1. evq \in Seq(Events) /\ Len(evq) \in 1 .. Len(evq)
    BY DEF UsbTypeInv, QueuesTyped
  <1>2. Answer \in Events
    BY <1>1 DEF Answer
  <1>3. Answer.slot \in Known
    BY <1>1 DEF UsbTypeInv, SlotsInv, Answer
  <1>4. Answer.ok \in BOOLEAN
    BY <1>2 DEF Events
  <1> QED BY <1>2, <1>3, <1>4

\* A request is with the controller only while the driver waits for it.
LEMMA OneRequest ==
    ASSUME QueueInv
    PROVE  /\ cmdq # <<>> => /\ pc = "wait" /\ Asked /\ step \in Commands /\ ctlq = {}
                             /\ cmdq = <<Request>>
           /\ ctlq # {} => /\ pc = "wait" /\ Asked /\ step \notin Commands /\ cmdq = <<>>
                           /\ ctlq = {Request}
  BY DEF QueueInv, Asked, Answered

LEMMA QueueStep ==
    ASSUME UsbTypeInv, Orderly, QueueInv, TableInv, XhciNext
    PROVE  QueueInv'
  <1>0. DriverTyped /\ UserTyped /\ SlotsTyped /\ QueuesTyped /\ SlotsInv /\ PortInv
    BY TypedParts
  <1>e. evq \in Seq(Events) /\ Len(evq) \in Nat
    BY <1>0 DEF QueuesTyped
  <1>1. CASE xhci_init
    BY <1>1 DEF xhci_init, ctrl, QueueInv, Ports
  <1>2. CASE port_reset
    <2>1. /\ pc = "reset" /\ UNCHANGED <<cmdq, ctlq, ticket>> /\ pc' # "wait"
          /\ UNCHANGED evq \/ evq' = Append(evq, Event("port", TRUE, 0, 0))
      <3>1. ASSUME next_port(port) PROVE pc' # "wait"
        BY <3>1 DEF next_port
      <3> QED BY <1>2, <3>1 DEF port_reset, ctrl
    <2>2. Ports(Len(evq))'
      <3>1. CASE UNCHANGED evq
        BY <2>1, <3>1 DEF QueueInv, Ports
      <3>2. CASE evq' = Append(evq, Event("port", TRUE, 0, 0))
        <4>1. Event("port", TRUE, 0, 0) \in Events /\ Event("port", TRUE, 0, 0).type = "port"
          BY XhciAssumption DEF Event, Events
        <4> QED BY <1>0, <2>1, <3>2, <4>1, EventPut DEF QueueInv, Ports
      <3> QED BY <2>1, <3>1, <3>2
    <2> QED BY <2>1, <2>2 DEF QueueInv, Ports
  <1>3. CASE send
    <2> DEFINE r == [ticket |-> ticket', step |-> step, slot |-> devs[idx].slot]
    <2>1. /\ pc = "send" /\ pc' = "wait" /\ ticket' = ticket + 1
          /\ UNCHANGED <<idx, step, devs, evq>>
          /\ IF step \in Commands THEN cmdq' = Append(cmdq, r) /\ UNCHANGED ctlq
             ELSE ctlq' = ctlq \cup {r} /\ UNCHANGED cmdq
      BY <1>3 DEF send, table
    <2>2. cmdq = <<>> /\ ctlq = {} /\ Ports(Len(evq))
      BY <2>1 DEF QueueInv
    <2>3. r = Request'
      BY <2>1 DEF Request
    <2> HIDE DEF r
    <2>4. Append(<<>>, r) = <<r>>
      OBVIOUS
    <2>5. Asked'
      BY <2>1, <2>2, <2>3, <2>4 DEF Asked, Ports
    <2>6. ticket' > 0
      BY <1>0, <2>1 DEF UserTyped
    <2> QED BY <2>1, <2>5, <2>6 DEF QueueInv
  <1>4. CASE wait_event
    <2>1. CASE evq[1].type = "port" /\ UNCHANGED <<pc, port, step, devs, armed>>
      <3>1. /\ pc = "wait" /\ evq # <<>> /\ evq' = Tail(evq)
            /\ UNCHANGED <<machine, idx, ticket, cmdq, ctlq, configured>>
        BY <1>4, WaitCases DEF ctrl
      <3>2. /\ Len(evq') = Len(evq) - 1
            /\ \A k \in 1 .. Len(evq') : evq'[k] = evq[k + 1] /\ k + 1 \in 1 .. Len(evq)
        BY <1>0, <3>1, EventTaken
      <3>3. CASE Asked
        <4>1. Ports(Len(evq))'
          BY <3>2, <3>3 DEF Asked, Ports
        <4>2. Asked'
          BY <2>1, <3>1, <3>3, <4>1 DEF Asked, Request
        <4> QED BY <2>1, <3>1, <4>2 DEF QueueInv
      <3>4. CASE Answered
        <4>1. Len(evq) # 1
          BY <2>1, <3>4 DEF Answered, Wanted, Answer
        <4>2. Answer' = Answer /\ Len(evq') > 0
          <5>1. Len(evq') \in 1 .. Len(evq') /\ Len(evq') + 1 = Len(evq)
            BY <1>e, <3>2, <3>4, <4>1 DEF Answered
          <5> QED BY <3>2, <5>1 DEF Answer
        <4>3. Ports(Len(evq) - 1)'
          BY <1>e, <3>2, <3>4 DEF Answered, Ports
        <4>4. Wanted(Answer)' /\ Answer'.ticket = ticket'
          BY <2>1, <3>1, <3>4, <4>2 DEF Answered, Wanted
        <4>5. Answered'
          BY <2>1, <3>1, <3>4, <4>2, <4>3, <4>4 DEF Answered
        <4> QED BY <2>1, <3>1, <4>5 DEF QueueInv
      <3> QED BY <3>1, <3>3, <3>4 DEF QueueInv
    <2>2. CASE /\ Answered /\ Len(evq) = 1 /\ evq' = <<>> /\ Head(evq) = Answer
               /\ Answer \in Events /\ answered(Answer.ok, Answer.slot, TRUE)
      <3>1. /\ pc = "wait" /\ UNCHANGED <<machine, idx, ticket, cmdq, ctlq, enabled>>
        BY <1>4, WaitCases DEF ctrl
      <3>2. Answer.slot \in Known
        BY <2>2, AnswerKnown
      <3>3. pc' \in {"reset", "send", "poll", "off"}
        BY <2>2, <3>1, <3>2, AfterAnswer
      <3>4. cmdq' = <<>> /\ ctlq' = {}
        BY <2>2, <3>1 DEF Answered
      <3> QED BY <2>2, <3>3, <3>4 DEF QueueInv, Ports
    <2> QED BY <1>4, <2>1, <2>2, WaitCases
  <1>5. CASE wait_timeout
    BY <1>5 DEF wait_timeout, Orderly
  <1>6. CASE usb_poll
    <2>1. /\ pc = "poll" /\ pc' = "poll" /\ evq # <<>> /\ evq' = Tail(evq)
          /\ UNCHANGED <<cmdq, ctlq>>
      BY <1>6 DEF usb_poll, ctrl
    <2>2. \A k \in 1 .. Len(evq') : evq'[k] = evq[k + 1] /\ k + 1 \in 1 .. Len(evq)
      BY <1>0, <2>1, EventTaken
    <2> QED BY <2>1, <2>2 DEF QueueInv
  <1>7. CASE hc_command
    <2>1. /\ cmdq # <<>> /\ cmdq' = Tail(cmdq)
          /\ UNCHANGED <<pc, idx, step, ticket, devs, ctlq>>
      BY <1>7, CommandCases DEF table
    <2>2. pc = "wait" /\ Asked /\ step \in Commands /\ ctlq = {} /\ cmdq = <<Request>>
      BY <2>1, OneRequest
    <2>3. cmdq' = <<>> /\ cmdq[1] = Request
      BY <2>1, <2>2
    <2>4. /\ cmdq[1].step = step /\ cmdq[1].ticket = ticket /\ cmdq[1].slot = devs[idx].slot
      BY <2>3 DEF Request
    <2>5. PICK ok \in BOOLEAN, slot \in 0 .. SLOTS :
             /\ evq' = Append(evq, Event("cmd", ok, slot, ticket))
             /\ \/ /\ step = EnableSlot /\ ok /\ slot \in (1 .. SLOTS) \ enabled
                   /\ UNCHANGED configured
                \/ /\ step = EnableSlot /\ ~ok
                \/ /\ step # EnableSlot /\ slot = devs[idx].slot
                   /\ configured' = IF step = ConfigEp /\ ok THEN configured \cup {slot}
                                    ELSE configured
      <3> HIDE DEF Request
      <3> QED BY <1>7, <2>4, CommandCases
    <2> DEFINE e == Event("cmd", ok, slot, ticket)
    <2>6. e \in Events /\ e.type = "cmd" /\ e.slot = slot /\ e.ok = ok /\ e.ticket = ticket
      <3>1. ticket \in Nat
        BY <1>0 DEF UserTyped
      <3> QED BY <3>1, EventMade
    <2>7. evq' = Append(evq, e)
      BY <2>5
    <2> HIDE DEF e
    <2>8. /\ Len(evq') = Len(evq) + 1 /\ evq'[Len(evq) + 1] = e
          /\ \A k \in 1 .. Len(evq) : evq'[k] = evq[k]
      BY <1>0, <2>6, <2>7, EventPut
    <2>9. Answer' = e /\ Len(evq') > 0 /\ Len(evq') - 1 = Len(evq)
      BY <1>e, <2>8 DEF Answer
    <2>10. Ports(Len(evq) - 1)'
      BY <2>2, <2>8, <2>9 DEF Asked, Ports
    <2>11. Wanted(Answer)' /\ Answer'.ticket = ticket'
      BY <2>1, <2>2, <2>6, <2>9 DEF Wanted
    <2>12. step' = EnableSlot /\ Answer'.ok =>
             Answer'.slot # 0 /\ \A i \in Devs : devs'[i].used => devs'[i].slot # Answer'.slot
      <3>1. CASE step = EnableSlot /\ ok
        <4>1. slot \in (1 .. SLOTS) \ enabled
          BY <2>5, <3>1
        <4>2. slot # 0 /\ slot \notin Known
          BY <4>1, XhciAssumption DEF Known
        <4> QED BY <1>0, <2>1, <2>6, <2>9, <4>2 DEF SlotsInv
      <3>2. CASE ~(step = EnableSlot /\ ok)
        BY <2>1, <2>6, <2>9, <3>2
      <3> QED BY <3>1, <3>2
    <2>13. step' = ConfigEp /\ Answer'.ok => devs'[idx'].slot \in configured'
      <3>1. CASE step = ConfigEp /\ ok
        <4>1. step # EnableSlot
          BY <3>1 DEF ConfigEp, EnableSlot
        <4>2. configured' = configured \cup {devs[idx].slot}
          BY <2>5, <3>1, <4>1
        <4> QED BY <2>1, <4>2
      <3>2. CASE ~(step = ConfigEp /\ ok)
        BY <2>1, <2>6, <2>9, <3>2
      <3> QED BY <3>1, <3>2
    <2>14. Answered'
      BY <2>1, <2>2, <2>3, <2>9, <2>10, <2>11, <2>12, <2>13 DEF Answered
    <2> QED BY <2>1, <2>2, <2>14 DEF QueueInv
  <1>8. CASE hc_control
    <2>1. PICK r \in ctlq, ok \in Outcomes :
             /\ ctlq' = ctlq \ {r} /\ evq' = Append(evq, Event("xfer", ok, r.slot, r.ticket))
             /\ UNCHANGED <<pc, idx, step, ticket, devs, cmdq, configured>>
      BY <1>8 DEF hc_control, table
    <2>2. pc = "wait" /\ Asked /\ step \notin Commands /\ cmdq = <<>> /\ ctlq = {Request}
      BY <2>1, OneRequest
    <2>3. r = Request /\ ctlq' = {}
      BY <2>1, <2>2
    <2>4. r.ticket = ticket /\ ok \in BOOLEAN /\ r.slot \in 0 .. SLOTS /\ ticket \in Nat
      BY <1>0, <2>3, OutcomesTyped DEF Request, UserTyped, QueuesTyped, Requests
    <2> DEFINE e == Event("xfer", ok, r.slot, r.ticket)
    <2>6. e \in Events /\ e.type = "xfer" /\ e.ticket = ticket
      BY <2>4, EventMade
    <2>7. evq' = Append(evq, e)
      BY <2>1
    <2> HIDE DEF e
    <2>8. /\ Len(evq') = Len(evq) + 1 /\ evq'[Len(evq) + 1] = e
          /\ \A k \in 1 .. Len(evq) : evq'[k] = evq[k]
      BY <1>0, <2>6, <2>7, EventPut
    <2>9. Answer' = e /\ Len(evq') > 0 /\ Len(evq') - 1 = Len(evq)
      BY <1>e, <2>8 DEF Answer
    <2>10. Ports(Len(evq) - 1)'
      BY <2>2, <2>8, <2>9 DEF Asked, Ports
    <2>11. Wanted(Answer)' /\ Answer'.ticket = ticket'
      BY <2>1, <2>2, <2>6, <2>9 DEF Wanted
    <2>12. step' # EnableSlot /\ step' # ConfigEp
      BY <2>1, <2>2 DEF Commands
    <2>13. Answered'
      BY <2>1, <2>2, <2>3, <2>9, <2>10, <2>11, <2>12 DEF Answered
    <2> QED BY <2>1, <2>2, <2>13 DEF QueueInv
  <1>9. ASSUME NEW i \in Devs, NEW d \in BOOLEAN, usb_report(i, d)
        PROVE  QueueInv'
    <2>1. /\ pc = "poll" /\ pc' = "poll" /\ UNCHANGED <<cmdq, ctlq>>
          /\ evq' = Append(evq, Event("xfer", TRUE, devs[i].slot, 0))
      BY <1>9 DEF usb_report, ctrl, Orderly
    <2> DEFINE e == Event("xfer", TRUE, devs[i].slot, 0)
    <2>2. e \in Events /\ e.type = "xfer" /\ e.ticket = 0
      <3>1. devs[i].slot \in 0 .. SLOTS
        BY <1>0 DEF DriverTyped, Entry
      <3> QED BY <3>1 DEF Event, Events
    <2>3. evq' = Append(evq, e)
      BY <2>1
    <2> HIDE DEF e
    <2>4. \A k \in 1 .. Len(evq') : \/ evq'[k].type = "port"
                                    \/ (evq'[k].type = "xfer" /\ evq'[k].ticket = 0)
      BY <1>0, <2>1, <2>2, <2>3, EventPut DEF QueueInv
    <2> QED BY <2>1, <2>4 DEF QueueInv
  <1>10. CASE idle
    BY <1>10 DEF idle, xhciVars, QueueInv, Ports, Asked, Answered, Answer, Request, Wanted
  <1> QED BY <1>1, <1>2, <1>3, <1>4, <1>5, <1>6, <1>7, <1>8, <1>9, <1>10
          DEF XhciNext, Controller, Driver

\* What an own answer does to the table: one of five things.
Refused ==
    /\ step \in {NoOp, EnableSlot} /\ devs' = devs /\ armed' = armed /\ step' = step
    /\ \/ step = NoOp /\ Answer.ok /\ next_port(0)
       \/ step = NoOp /\ ~Answer.ok /\ pc' = "off"
       \/ step = EnableSlot /\ ~(Answer.ok /\ Answer.slot # 0) /\ next_port(port)

Granted ==
    /\ step = EnableSlot /\ Answer.ok /\ Answer.slot # 0
    /\ devs' = [devs EXCEPT ![idx] = [@ EXCEPT !.used = TRUE, !.slot = Answer.slot, !.port = port]]
    /\ pc' = "send" /\ step' = AddressDev /\ port' = port /\ armed' = armed

Advanced ==
    /\ step \in AddressDev .. SetProtocol /\ step' = step + 1
    /\ pc' = "send" /\ port' = port /\ armed' = armed
    /\ \/ step # GetConfig /\ devs' = devs
       \/ /\ step = GetConfig /\ machine.attached[port] # "other"
          /\ devs' = [devs EXCEPT ![idx] = [@ EXCEPT !.hid = TRUE,
                                                    !.kbd = (machine.attached[port] = "kbd")]]

Completed ==
    /\ step = ConfigEp /\ Answer.ok /\ devs' = devs /\ step' = step
    /\ armed' = Armed(idx) /\ next_port(port)

GaveUp ==
    /\ step \in AddressDev .. ConfigEp /\ step' = step /\ armed' = armed
    /\ ~Answer.ok \/ (step = GetConfig /\ machine.attached[port] = "other")
    /\ \E e \in Entry : ~e.used /\ e.slot = devs[idx].slot /\ devs' = [devs EXCEPT ![idx] = e]
    /\ next_port(port)

LEMMA AnswerEffects ==
    ASSUME UsbTypeInv, pc = "wait", Len(evq) > 0, answered(Answer.ok, Answer.slot, TRUE)
    PROVE  Refused \/ Granted \/ Advanced \/ Completed \/ GaveUp
  <1> DEFINE ok == Answer.ok
             slot == Answer.slot
             d == devs[idx]
  <1>1. DriverTyped /\ ok \in BOOLEAN /\ slot \in Known
    BY AnswerKnown, TypedParts
  <1>2. devs \in [Devs -> Entry] /\ idx \in Devs /\ d \in Entry /\ step \in Steps
    BY <1>1 DEF DriverTyped
  <1> USE DEF NoOp, EnableSlot, AddressDev, GetDevice, GetConfigHead, GetConfig, SetConfig,
              SetProtocol, ConfigEp
  <1> HIDE DEF ok, slot
  <1>3. CASE Kept(ok, slot, TRUE)
    BY <1>3 DEF Kept, Refused, Completed, Advanced, proceed, SlotGranted, ok, slot
  <1>4. CASE Taken(ok, slot, TRUE)
    BY <1>4 DEF Taken, Granted, proceed, SlotGranted, ok, slot
  <1>5. CASE Described(ok, slot, TRUE)
    <2>1. PICK c \in Descriptors(TRUE) :
             c.hid /\ devs' = [devs EXCEPT ![idx] = [d EXCEPT !.hid = TRUE, !.kbd = c.kbd]]
      BY <1>5 DEF Described
    <2>2. /\ c.hid = (machine.attached[port] # "other") /\ c.kbd = (machine.attached[port] = "kbd")
      BY DEF Descriptors
    <2>3. machine.attached[port] # "other"
      BY <2>1, <2>2, Zenon
    <2>4. devs' = [devs EXCEPT ![idx] = [d EXCEPT !.hid = TRUE,
                                                  !.kbd = (machine.attached[port] = "kbd")]]
      BY <2>1, <2>2, Zenon
    <2>5. step = GetConfig /\ proceed /\ armed' = armed
      BY <1>5 DEF Described
    <2> QED BY <2>3, <2>4, <2>5 DEF Advanced, proceed
  <1>6. CASE GivenUp(ok, slot, TRUE)
    <2>1. next_port(port) /\ step' = step /\ armed' = armed
      BY <1>6 DEF GivenUp
    <2>2. CASE /\ step \in Steps \ {NoOp, EnableSlot, SetProtocol} /\ ~ok
               /\ devs' = [devs EXCEPT ![idx] = Dropped(d)]
      <3>1. Dropped(d) \in Entry /\ Dropped(d).slot = d.slot /\ ~Dropped(d).used
        BY <1>2 DEF Entry, Dropped
      <3>2. step \in AddressDev .. ConfigEp
        BY <2>2 DEF Steps
      <3> QED BY <2>1, <2>2, <3>1, <3>2 DEF GaveUp, ok
    <2>3. CASE /\ step = GetConfig /\ \E c \in Descriptors(TRUE) : ~c.hid
               /\ devs' = [devs EXCEPT ![idx] = [Dropped(d) EXCEPT !.hid = FALSE, !.kbd = FALSE]]
      <3> DEFINE e == [Dropped(d) EXCEPT !.hid = FALSE, !.kbd = FALSE]
      <3>1. e \in Entry /\ e.slot = d.slot /\ ~e.used
        BY <1>2 DEF Entry, Dropped
      <3>2. machine.attached[port] = "other"
        <4>1. PICK c \in Descriptors(TRUE) : ~c.hid
          BY <2>3
        <4>2. c.hid = (machine.attached[port] # "other")
          BY DEF Descriptors
        <4> QED BY <4>1, <4>2, Zenon
      <3>3. devs' = [devs EXCEPT ![idx] = e]
        BY <2>3
      <3> HIDE DEF e
      <3>4. \E x \in Entry : ~x.used /\ x.slot = d.slot /\ devs' = [devs EXCEPT ![idx] = x]
        BY <3>1, <3>3
      <3>5. step = GetConfig /\ step \in AddressDev .. ConfigEp
        BY <2>3
      <3> QED BY <2>1, <3>2, <3>4, <3>5 DEF GaveUp
    <2> QED BY <1>6, <2>2, <2>3 DEF GivenUp
  <1>7. answered(ok, slot, TRUE)
    BY DEF ok, slot
  <1> QED BY <1>1, <1>2, <1>3, <1>4, <1>5, <1>6, <1>7, AnswerCases

\* The step that makes a device ready.
Finishes ==
    /\ pc = "wait" /\ Answered /\ Completed /\ evq' = <<>>
    /\ idx \in Devs \ Done /\ Done' = Done \cup {idx}

\* The table after an own answer.
LEMMA AnswerTable ==
    ASSUME UsbTypeInv, TableInv, pc = "wait", Answered, evq' = <<>>,
           answered(Answer.ok, Answer.slot, TRUE), UNCHANGED <<machine, idx, ctrl>>
    PROVE  /\ TableInv' /\ \A i \in Done : devs'[i] = devs[i]
           /\ Done' = Done \/ Finishes
  <1>0. /\ devs \in [Devs -> Entry] /\ idx \in Devs /\ step \in Steps /\ port \in 0 .. PORTS + 1
        /\ machine \in Machine /\ (step # NoOp => port \in 1 .. PORTS)
    BY TypedParts, XhciAssumption DEF DriverTyped, UserTyped, PortInv, Asking
  <1>1. idx \notin Done /\ Len(evq) > 0
    BY DEF Done, Answered
  <1>2. UNCHANGED <<configured, enabled>> /\ Answer \in Events /\ Answer.slot \in Known
    BY <1>1, AnswerKnown DEF ctrl
  <1>3. pc' \in {"reset", "send", "poll", "off"}
    BY <1>2, AfterAnswer
  <1>4. PORTS \in Nat /\ 0 \in 0 .. PORTS /\ (step # NoOp => port \in 0 .. PORTS)
    BY <1>0, XhciAssumption
  <1>5. ASSUME NEW p \in 0 .. PORTS, next_port(p) PROVE pc' \in {"reset", "poll"}
    BY <1>0, <1>5, PortsInOrder
  <1> USE DEF NoOp, EnableSlot, AddressDev, GetConfig, SetProtocol, ConfigEp
  <1>6. CASE Refused
    <2>1. devs' = devs /\ step' = step /\ ~devs[idx].used
      BY <1>0, <1>6 DEF Refused, TableInv, Asking
    <2>2. pc' # "send"
      BY <1>4, <1>5, <1>6 DEF Refused
    <2>3. Done' = Done
      BY <2>1 DEF Done
    <2> QED BY <1>2, <1>3, <2>1, <2>2, <2>3 DEF TableInv, Asking
  <1>7. CASE Granted
    <2> DEFINE e == [devs[idx] EXCEPT !.used = TRUE, !.slot = Answer.slot, !.port = port]
    <2>1. /\ devs' = [devs EXCEPT ![idx] = e] /\ pc' = "send" /\ step' = 2 /\ step = 1
          /\ Answer.ok /\ Answer.slot # 0
      BY <1>7 DEF Granted
    <2>2. e.used /\ e.slot = Answer.slot
      BY <1>0 DEF Entry
    <2> HIDE DEF e
    <2>3. \A i \in Devs : devs[i].used => devs[i].slot # Answer.slot
      BY <2>1 DEF Answered
    <2>4. devs'[idx] = e /\ \A i \in Devs : i # idx => devs'[i] = devs[i]
      BY <1>0, <2>1
    <2>5. Done' = Done /\ \A i \in Done : devs'[i] = devs[i]
      BY <1>1, <2>1, <2>4 DEF Done
    <2>6. \A i, j \in Devs : devs'[i].used /\ devs'[j].used /\ i # j => devs'[i].slot # devs'[j].slot
      BY <2>2, <2>3, <2>4 DEF TableInv
    <2>7. \A i \in Devs : devs'[i].used => devs'[i].slot # 0
      BY <2>1, <2>2, <2>4 DEF TableInv
    <2>8. \A i \in Done' : devs'[i].hid /\ devs'[i].slot \in configured'
      BY <1>2, <2>5 DEF TableInv
    <2> QED BY <2>1, <2>2, <2>4, <2>5, <2>6, <2>7, <2>8 DEF TableInv
  <1>8. CASE Advanced
    <2>1. /\ pc' = "send" /\ step \in 2 .. 7 /\ step' = step + 1
      BY <1>8 DEF Advanced
    <2>2. devs[idx].used
      BY <2>1 DEF TableInv, Asking
    <2>3. /\ \A i \in Devs : devs'[i].used = devs[i].used /\ devs'[i].slot = devs[i].slot
          /\ \A i \in Devs : i # idx => devs'[i] = devs[i]
          /\ step' > 5 => devs'[idx].hid
      <3>1. CASE step # GetConfig /\ devs' = devs
        <4>1. step' > 5 => step > 5
          BY <2>1, <3>1
        <4> QED BY <3>1, <4>1 DEF TableInv, Asking
      <3>2. CASE step = GetConfig
        <4> DEFINE b == (machine.attached[port] = "kbd")
                   e == [devs[idx] EXCEPT !.hid = TRUE, !.kbd = b]
        <4>1. devs' = [devs EXCEPT ![idx] = e]
          BY <1>8, <3>2 DEF Advanced
        <4>2. e.used = devs[idx].used /\ e.slot = devs[idx].slot /\ e.hid
          <5> HIDE DEF b
          <5> QED BY <1>0 DEF Entry
        <4> HIDE DEF e
        <4> QED BY <1>0, <4>1, <4>2
      <3> QED BY <1>8, <3>1, <3>2 DEF Advanced
    <2>4. Done' = Done /\ \A i \in Done : devs'[i] = devs[i]
      BY <1>1, <2>1, <2>3 DEF Done
    <2>5. \A i \in Done' : devs'[i].hid /\ devs'[i].slot \in configured'
      BY <1>2, <2>4 DEF TableInv
    <2> QED BY <1>0, <2>1, <2>2, <2>3, <2>4, <2>5 DEF TableInv
  <1>9. CASE Completed
    <2>1. devs' = devs /\ step' = step /\ step = 8 /\ Answer.ok /\ next_port(port)
      BY <1>9 DEF Completed
    <2>2. pc' \in {"reset", "poll"}
      BY <1>4, <1>5, <2>1
    <2>3. devs[idx].used /\ devs[idx].hid /\ devs[idx].slot \in configured
      BY <2>1 DEF TableInv, Asking, Answered
    <2>4. Done' = Done \cup {idx}
      BY <1>0, <2>1, <2>2, <2>3 DEF Done
    <2>5. \A i \in Done' : devs'[i].hid /\ devs'[i].slot \in configured'
      BY <1>2, <2>1, <2>3, <2>4 DEF TableInv
    <2>6. Finishes
      BY <1>0, <1>1, <1>9, <2>4 DEF Finishes
    <2> QED BY <2>1, <2>2, <2>5, <2>6 DEF TableInv, Asking
  <1>10. CASE GaveUp
    <2>1. PICK e \in Entry : ~e.used /\ devs' = [devs EXCEPT ![idx] = e]
      BY <1>10 DEF GaveUp
    <2>2. step \in 2 .. 8 /\ step' = step /\ next_port(port)
      BY <1>10 DEF GaveUp
    <2>3. pc' \in {"reset", "poll"}
      BY <1>4, <1>5, <2>2
    <2>4. devs'[idx] = e /\ \A i \in Devs : i # idx => devs'[i] = devs[i]
      BY <1>0, <2>1
    <2>5. Done' = Done /\ \A i \in Done : devs'[i] = devs[i]
      BY <1>1, <2>1, <2>4 DEF Done
    <2>6. \A i \in Done' : devs'[i].hid /\ devs'[i].slot \in configured'
      BY <1>2, <2>5 DEF TableInv
    <2>7. step' # NoOp /\ ~Asking'
      BY <2>2, <2>3 DEF Asking
    <2>8. \A i, j \in Devs : devs'[i].used /\ devs'[j].used /\ i # j => devs'[i].slot # devs'[j].slot
      BY <2>1, <2>4 DEF TableInv
    <2>9. \A i \in Devs : devs'[i].used => devs'[i].slot # 0
      BY <2>1, <2>4 DEF TableInv
    <2> QED BY <2>5, <2>6, <2>7, <2>8, <2>9 DEF TableInv
  <1> QED BY <1>1, <1>6, <1>7, <1>8, <1>9, <1>10, AnswerEffects

LEMMA TableStep ==
    ASSUME UsbTypeInv, Orderly, QueueInv, TableInv, XhciNext
    PROVE  /\ TableInv' /\ \A i \in Done : devs'[i] = devs[i]
           /\ Done' = Done \/ Finishes
  <1>0. DriverTyped /\ PortInv
    BY TypedParts
  <1>1. CASE xhci_init
    <2>1. /\ pc = "init" /\ pc' \in {"send", "off"} /\ step = NoOp
          /\ UNCHANGED <<idx, step, devs, configured>>
      BY <1>0, <1>1 DEF xhci_init, PortInv, table, ctrl
    <2>2. \A i \in Devs : ~devs[i].used
      BY <2>1 DEF TableInv
    <2>3. Done = {} /\ Done' = {}
      BY <2>1, <2>2 DEF Done
    <2>4. ~(step > EnableSlot) /\ step # EnableSlot /\ ~(step > GetConfig)
      BY <2>1 DEF NoOp, EnableSlot, GetConfig
    <2> QED BY <2>1, <2>2, <2>3, <2>4 DEF TableInv
  <1>2. CASE port_reset
    <2>1. pc = "reset" /\ UNCHANGED <<devs, configured>>
      BY <1>2 DEF port_reset, table, ctrl
    <2>2. ASSUME next_port(port) PROVE pc' \in {"reset", "poll"}
      BY <2>2 DEF next_port
    <2>3. CASE FreeDevs = {} /\ next_port(port) /\ UNCHANGED <<idx, step, evq>>
      <3>1. Done' = Done
        BY <2>1, <2>2, <2>3 DEF Done
      <3> QED BY <2>1, <2>2, <2>3, <3>1 DEF TableInv, Asking
    <2>4. ASSUME NEW i \in Devs, ~devs[i].used, idx' = i, step' = EnableSlot,
                 pc' \in {"send", "reset", "poll"}
          PROVE  /\ TableInv' /\ \A j \in Done : devs'[j] = devs[j]
                 /\ Done' = Done \/ Finishes
      <3>1. Done' = Done
        BY <2>1, <2>4 DEF Done
      <3>2. ~(EnableSlot > EnableSlot) /\ ~(EnableSlot > GetConfig) /\ EnableSlot # NoOp
        BY DEF EnableSlot, GetConfig, NoOp
      <3> QED BY <2>1, <2>4, <3>1, <3>2 DEF TableInv
    <2> QED BY <1>2, <2>2, <2>3, <2>4 DEF port_reset, FreeDevs
  <1>3. CASE send
    <2>1. pc = "send" /\ pc' = "wait" /\ UNCHANGED <<idx, step, devs, configured>>
      BY <1>3 DEF send, table
    <2>2. Done' = Done
      BY <2>1 DEF Done
    <2> QED BY <2>1, <2>2 DEF TableInv, Asking
  <1>4. CASE wait_event
    <2>1. UNCHANGED <<machine, idx, ctrl>> /\ pc = "wait"
      BY <1>4, WaitCases
    <2>2. CASE UNCHANGED <<pc, port, step, devs, armed>>
      <3>1. Done' = Done /\ configured' = configured
        BY <2>1, <2>2 DEF Done, ctrl
      <3> QED BY <2>1, <2>2, <3>1 DEF TableInv, Asking
    <2>3. CASE Answered /\ evq' = <<>> /\ answered(Answer.ok, Answer.slot, TRUE)
      BY <2>1, <2>3, AnswerTable
    <2> QED BY <1>4, <2>2, <2>3, WaitCases
  <1>5. CASE wait_timeout
    BY <1>5 DEF wait_timeout, Orderly
  <1>6. CASE usb_poll \/ hc_control \/ idle \/ \E i \in Devs, d \in BOOLEAN : usb_report(i, d)
    <2>1. UNCHANGED <<pc, idx, step, devs, configured>>
      BY <1>6 DEF usb_poll, hc_control, idle, usb_report, table, ctrl, xhciVars
    <2>2. Done' = Done
      BY <2>1 DEF Done
    <2> QED BY <2>1, <2>2 DEF TableInv, Asking
  <1>7. CASE hc_command
    <2>1. UNCHANGED <<pc, idx, step, devs>>
      BY <1>7, CommandCases DEF table
    <2>2. configured \subseteq configured'
      BY <1>7, CommandCases
    <2>3. Done' = Done
      BY <2>1 DEF Done
    <2> QED BY <2>1, <2>2, <2>3 DEF TableInv, Asking
  <1> QED BY <1>1, <1>2, <1>3, <1>4, <1>5, <1>6, <1>7 DEF XhciNext, Controller, Driver

----------------------------------------------------------------------------
(* Transfers and reports of an orderly machine.                            *)

\* A ready device has one transfer armed, or one report waiting.
One(i) == \/ armed[i] = 1 /\ Waiting(i) = {}
          \/ armed[i] = 0 /\ \E k \in 1 .. Len(evq) : Waiting(i) = {k}

ArmedInv ==
    /\ \A i \in Done : One(i)
    /\ \A i \in Devs \ Done : armed[i] = 0

\* What is owed for a device: nothing, or the press in its waiting report.
Settled(i) ==
    IF ~devs[i].kbd THEN owed[i] = 0
    ELSE IF Waiting(i) = {} THEN prev[i] = down[i] /\ owed[i] = 0
    ELSE /\ hid_buf[i] = down[i]
         /\ owed[i] = IF down[i] /\ ~prev[i] THEN 1 ELSE 0

KeysInv ==
    /\ pc # "poll" => \A i \in Devs : ~prev[i] /\ ~down[i] /\ owed[i] = 0
    /\ pc = "poll" => \A i \in Done : Settled(i)

IsReport(e, s) == e.type = "xfer" /\ e.ticket = 0 /\ e.slot = s

LEMMA WaitingPut ==
    ASSUME QueuesTyped, NEW e \in Events, evq' = Append(evq, e), NEW i \in Devs,
           devs'[i].slot = devs[i].slot
    PROVE  /\ IsReport(e, devs[i].slot) => Waiting(i)' = Waiting(i) \cup {Len(evq) + 1}
           /\ ~IsReport(e, devs[i].slot) => Waiting(i)' = Waiting(i)
           /\ 1 .. Len(evq) \subseteq 1 .. Len(evq') /\ Len(evq) + 1 \in 1 .. Len(evq')
  <1>1. /\ Len(evq') = Len(evq) + 1 /\ Len(evq) \in Nat
        /\ \A k \in 1 .. Len(evq) : evq'[k] = evq[k]
        /\ evq'[Len(evq) + 1] = e
        /\ \A k \in 1 .. Len(evq') : k \in 1 .. Len(evq) \/ k = Len(evq) + 1
    BY EventPut
  <1>2. 1 .. Len(evq) \subseteq 1 .. Len(evq') /\ Len(evq) + 1 \in 1 .. Len(evq')
    BY <1>1
  <1>3. Waiting(i)' = {k \in 1 .. Len(evq') : IsReport(evq'[k], devs[i].slot)}
    BY DEF Waiting, IsReport
  <1>4. Waiting(i) = {k \in 1 .. Len(evq) : IsReport(evq[k], devs[i].slot)}
    BY DEF Waiting, IsReport
  <1>5. CASE IsReport(e, devs[i].slot)
    BY <1>1, <1>2, <1>3, <1>4, <1>5
  <1>6. CASE ~IsReport(e, devs[i].slot)
    BY <1>1, <1>2, <1>3, <1>4, <1>6
  <1> QED BY <1>2, <1>5, <1>6

LEMMA WaitingTaken ==
    ASSUME QueuesTyped, evq # <<>>, evq' = Tail(evq), NEW i \in Devs, devs'[i].slot = devs[i].slot
    PROVE  /\ Waiting(i) = {} => Waiting(i)' = {}
           /\ Waiting(i) = {1} => Waiting(i)' = {}
           /\ \A k \in 1 .. Len(evq) : Waiting(i) = {k} /\ k # 1 =>
                 k - 1 \in 1 .. Len(evq') /\ Waiting(i)' = {k - 1}
           /\ 1 \in Waiting(i) <=> IsReport(Head(evq), devs[i].slot)
  <1>1. /\ Len(evq) \in Nat /\ Len(evq) > 0 /\ Head(evq) = evq[1]
        /\ Len(evq') = Len(evq) - 1
        /\ \A k \in 1 .. Len(evq') : evq'[k] = evq[k + 1] /\ k + 1 \in 1 .. Len(evq)
    BY EventTaken
  <1>2. \A k \in 1 .. Len(evq') : k \in Waiting(i)' <=> k + 1 \in Waiting(i)
    BY <1>1 DEF Waiting
  <1>3. Waiting(i)' \subseteq 1 .. Len(evq') /\ Waiting(i) \subseteq 1 .. Len(evq)
    BY DEF Waiting
  <1>4. 1 \in Waiting(i) <=> IsReport(Head(evq), devs[i].slot)
    BY <1>1 DEF Waiting, IsReport
  <1> HIDE DEF Waiting
  <1>5. Waiting(i) = {} => Waiting(i)' = {}
    BY <1>2, <1>3
  <1>6. Waiting(i) = {1} => Waiting(i)' = {}
    BY <1>1, <1>2, <1>3
  <1>7. ASSUME NEW k \in 1 .. Len(evq), Waiting(i) = {k}, k # 1
        PROVE  k - 1 \in 1 .. Len(evq') /\ Waiting(i)' = {k - 1}
    <2>1. k - 1 \in 1 .. Len(evq') /\ (k - 1) + 1 = k
      BY <1>1, <1>7
    <2>2. \A n \in 1 .. Len(evq') : n + 1 = k => n = k - 1
      BY <1>1
    <2> QED BY <1>2, <1>3, <1>7, <2>1, <2>2
  <1> QED BY <1>4, <1>5, <1>6, <1>7

\* No report reaches the ring before the input loops run.
LEMMA NoReports ==
    ASSUME UsbTypeInv, Orderly, QueueInv, XhciNext, pc # "poll", NEW i \in Devs
    PROVE  Waiting(i) = {} /\ Waiting(i)' = {}
  <1>0. QueuesTyped /\ ticket \in Nat
    BY TypedParts DEF UserTyped
  <1>e. evq \in Seq(Events) /\ Len(evq) \in Nat
    BY <1>0 DEF QueuesTyped
  <1>1. ASSUME NEW k \in 1 .. Len(evq) PROVE evq[k].type = "port" \/ evq[k].ticket # 0
    <2>1. CASE pc # "wait" \/ Asked
      BY <2>1, <1>1 DEF QueueInv, Ports, Asked
    <2>2. CASE pc = "wait" /\ Answered
      <3>1. k \in 1 .. Len(evq) - 1 \/ k = Len(evq)
        BY <1>e
      <3>2. Answer.ticket # 0
        BY <1>0, <2>2 DEF Answered, QueueInv
      <3> QED BY <2>2, <3>1, <3>2 DEF Answered, Ports, Answer
    <2> QED BY <2>1, <2>2 DEF QueueInv
  <1>2. Waiting(i) = {}
    BY <1>1 DEF Waiting
  <1>3. ASSUME NEW e \in Events, evq' = Append(evq, e), e.type = "port" \/ e.ticket # 0
        PROVE  Waiting(i)' = {}
    <2>1. /\ \A k \in 1 .. Len(evq) : evq'[k] = evq[k]
          /\ evq'[Len(evq) + 1] = e
          /\ \A k \in 1 .. Len(evq') : k \in 1 .. Len(evq) \/ k = Len(evq) + 1
      BY <1>0, <1>3, EventPut
    <2>2. \A k \in 1 .. Len(evq') : evq'[k].type = "port" \/ evq'[k].ticket # 0
      BY <1>1, <1>3, <2>1
    <2> QED BY <2>2 DEF Waiting
  <1>4. CASE evq' = evq
    BY <1>1, <1>4 DEF Waiting
  <1>5. CASE xhci_init \/ send \/ idle
    BY <1>4, <1>5 DEF xhci_init, send, idle, xhciVars
  <1>6. CASE port_reset
    <2>1. evq' = evq \/ evq' = Append(evq, Event("port", TRUE, 0, 0))
      BY <1>6 DEF port_reset
    <2>2. Event("port", TRUE, 0, 0) \in Events /\ Event("port", TRUE, 0, 0).type = "port"
      BY XhciAssumption DEF Event, Events
    <2> QED BY <1>2, <1>3, <1>4, <2>1, <2>2
  <1>7. CASE wait_event
    <2>1. evq # <<>> /\ evq' = Tail(evq)
      BY <1>7 DEF wait_event
    <2>2. \A k \in 1 .. Len(evq') : evq'[k] = evq[k + 1] /\ k + 1 \in 1 .. Len(evq)
      BY <1>0, <2>1, EventTaken
    <2> QED BY <1>1, <2>2 DEF Waiting
  <1>8. CASE hc_command
    <2>1. cmdq # <<>>
      BY <1>8 DEF hc_command
    <2>2. cmdq = <<Request>> /\ pc = "wait"
      BY <2>1, OneRequest
    <2>3. cmdq[1].ticket = ticket /\ ticket # 0
      BY <1>0, <2>2 DEF Request, QueueInv
    <2>4. PICK ok \in BOOLEAN, slot \in 0 .. SLOTS : evq' = Append(evq, Event("cmd", ok, slot, ticket))
      <3> HIDE DEF Request
      <3> QED BY <1>8, <2>3, CommandCases
    <2>5. Event("cmd", ok, slot, ticket) \in Events /\ Event("cmd", ok, slot, ticket).ticket = ticket
      BY <1>0, EventMade
    <2> QED BY <1>2, <1>3, <2>3, <2>4, <2>5
  <1>9. CASE hc_control
    <2>1. PICK r \in ctlq, ok \in Outcomes : evq' = Append(evq, Event("xfer", ok, r.slot, r.ticket))
      BY <1>9 DEF hc_control
    <2>2. r = Request /\ pc = "wait"
      BY <2>1, OneRequest
    <2>3. r.ticket = ticket /\ ticket # 0
      BY <1>0, <2>2 DEF Request, QueueInv
    <2>4. r.slot \in 0 .. SLOTS /\ ok \in BOOLEAN
      BY <1>0, TypedParts, OutcomesTyped DEF UserTyped, QueuesTyped, Requests
    <2>5. /\ Event("xfer", ok, r.slot, r.ticket) \in Events
          /\ Event("xfer", ok, r.slot, r.ticket).ticket = ticket
      BY <1>0, <2>3, <2>4, EventMade
    <2> QED BY <1>2, <1>3, <2>1, <2>3, <2>5
  <1>10. CASE wait_timeout \/ usb_poll \/ \E j \in Devs, d \in BOOLEAN : usb_report(j, d)
    BY <1>10 DEF wait_timeout, usb_poll, usb_report, Orderly
  <1> QED BY <1>2, <1>5, <1>6, <1>7, <1>8, <1>9, <1>10 DEF XhciNext, Controller, Driver

LEMMA DoneSlots ==
    ASSUME UsbTypeInv, TableInv
    PROVE  /\ Done \subseteq Devs
           /\ \A i \in Done : devs[i].used /\ devs[i].hid /\ devs[i].slot \in configured
           /\ \A i, j \in Done : i # j => devs[i].slot # devs[j].slot
  BY DEF Done, TableInv

\* An event taken by usb_poll is the report of one ready device, or of none;
\* the reports of the others stay in the ring, one place further on.
LEMMA PollCases ==
    ASSUME UsbTypeInv, QueueInv, TableInv, ArmedInv, usb_poll
    PROVE  /\ \A j \in Done : 1 \notin Waiting(j) =>
                 \/ Waiting(j) = {} /\ Waiting(j)' = {}
                 \/ \E k \in 1 .. Len(evq') : Waiting(j) # {} /\ Waiting(j)' = {k}
           /\ \/ /\ UNCHANGED <<armed, prev, owed>>
                 /\ \A j \in Done : 1 \notin Waiting(j)
              \/ \E i \in Done :
                    /\ armed[i] = 0 /\ armed' = [armed EXCEPT ![i] = @ + 1] /\ hid_handle(i)
                    /\ Waiting(i) # {} /\ Waiting(i)' = {}
                    /\ \A j \in Done \ {i} : 1 \notin Waiting(j)
  <1>0. QueuesTyped
    BY TypedParts
  <1>1. /\ Done \subseteq Devs
        /\ \A i \in Done : devs[i].used /\ devs[i].hid /\ devs[i].slot \in configured
        /\ \A i, j \in Done : i # j => devs[i].slot # devs[j].slot
    BY DoneSlots
  <1>2. /\ pc = "poll" /\ evq # <<>> /\ evq' = Tail(evq) /\ UNCHANGED devs
    BY DEF usb_poll
  <1>3. \A i \in Devs :
          /\ Waiting(i) = {} => Waiting(i)' = {}
          /\ Waiting(i) = {1} => Waiting(i)' = {}
          /\ \A k \in 1 .. Len(evq) : Waiting(i) = {k} /\ k # 1 =>
                k - 1 \in 1 .. Len(evq') /\ Waiting(i)' = {k - 1}
          /\ 1 \in Waiting(i) <=> IsReport(Head(evq), devs[i].slot)
    BY <1>0, <1>2, WaitingTaken
  <1> HIDE DEF Waiting
  <1>4. ASSUME NEW j \in Done, 1 \notin Waiting(j)
        PROVE  \/ Waiting(j) = {} /\ Waiting(j)' = {}
               \/ \E k \in 1 .. Len(evq') : Waiting(j) # {} /\ Waiting(j)' = {k}
    <2>1. CASE Waiting(j) = {}
      BY <1>1, <1>3, <2>1
    <2>2. ASSUME NEW k \in 1 .. Len(evq), Waiting(j) = {k}
          PROVE  \E n \in 1 .. Len(evq') : Waiting(j) # {} /\ Waiting(j)' = {n}
      BY <1>1, <1>3, <1>4, <2>2
    <2> QED BY <2>1, <2>2 DEF ArmedInv, One
  <1>5. CASE Sources(Head(evq)) = {} /\ UNCHANGED <<armed, prev, owed>>
    <2>1. \A j \in Done : ~IsReport(Head(evq), devs[j].slot)
      BY <1>1, <1>5 DEF Sources, IsReport
    <2> QED BY <1>1, <1>3, <1>4, <1>5, <2>1
  <1>6. ASSUME NEW i \in Sources(Head(evq)), armed' = Rearmed(i), hid_handle(i)
        PROVE  /\ i \in Done /\ armed[i] = 0 /\ armed' = [armed EXCEPT ![i] = @ + 1]
               /\ Waiting(i) # {} /\ Waiting(i)' = {}
               /\ \A j \in Done \ {i} : 1 \notin Waiting(j)
    <2>1. i \in Done /\ Head(evq).type = "xfer" /\ Head(evq).slot = devs[i].slot
      BY <1>2, <1>6 DEF Sources, Done
    <2>2. Head(evq).ticket = 0
      <3>1. evq[1] = Head(evq) /\ 1 \in 1 .. Len(evq)
        BY <1>0, <1>2, EventTaken
      <3> QED BY <1>2, <2>1, <3>1 DEF QueueInv
    <2>3. 1 \in Waiting(i)
      BY <1>1, <1>3, <2>1, <2>2 DEF IsReport
    <2>4. armed[i] = 0 /\ Waiting(i) = {1}
      BY <2>1, <2>3 DEF ArmedInv, One
    <2>5. armed' = [armed EXCEPT ![i] = @ + 1]
      BY <1>1, <1>6, <2>1 DEF Rearmed, Armed
    <2>6. \A j \in Done \ {i} : 1 \notin Waiting(j)
      BY <1>1, <1>3, <2>1 DEF IsReport
    <2> QED BY <1>1, <1>3, <2>1, <2>4, <2>5, <2>6
  <1>7. \/ Sources(Head(evq)) = {} /\ UNCHANGED <<armed, prev, owed>>
        \/ \E i \in Sources(Head(evq)) : armed' = Rearmed(i) /\ hid_handle(i)
    BY DEF usb_poll
  <1> QED BY <1>4, <1>5, <1>6, <1>7

\* A report comes from a ready device whose transfer is armed.
LEMMA ReportCases ==
    ASSUME UsbTypeInv, Orderly, QueueInv, TableInv, ArmedInv, NEW i \in Devs, NEW d \in BOOLEAN,
           usb_report(i, d)
    PROVE  /\ pc = "poll" /\ i \in Done /\ armed[i] = 1 /\ Waiting(i) = {}
           /\ \E k \in 1 .. Len(evq') : Waiting(i)' = {k}
           /\ \A j \in Done \ {i} : Waiting(j)' = Waiting(j)
           /\ 1 .. Len(evq) \subseteq 1 .. Len(evq')
  <1> DEFINE e == Event("xfer", TRUE, devs[i].slot, 0)
  <1>0. QueuesTyped /\ DriverTyped
    BY TypedParts
  <1>1. /\ pc = "poll" /\ armed[i] > 0 /\ armed' = [armed EXCEPT ![i] = @ - 1]
        /\ evq' = Append(evq, e) /\ UNCHANGED devs
    BY DEF usb_report, Orderly
  <1>2. e \in Events /\ e.type = "xfer" /\ e.ticket = 0 /\ e.slot = devs[i].slot
    <2>1. devs[i].slot \in 0 .. SLOTS
      BY <1>0 DEF DriverTyped, Entry
    <2> QED BY <2>1 DEF Event, Events
  <1> HIDE DEF e
  <1>3. /\ Done \subseteq Devs /\ \A k, j \in Done : k # j => devs[k].slot # devs[j].slot
    BY DoneSlots
  <1>4. i \in Done /\ armed[i] \in Nat
    BY <1>0, <1>1 DEF ArmedInv, DriverTyped
  <1>5. armed[i] = 1 /\ Waiting(i) = {}
    BY <1>1, <1>4 DEF ArmedInv, One
  <1>6. \A j \in Devs :
           /\ IsReport(e, devs[j].slot) => Waiting(j)' = Waiting(j) \cup {Len(evq) + 1}
           /\ ~IsReport(e, devs[j].slot) => Waiting(j)' = Waiting(j)
           /\ 1 .. Len(evq) \subseteq 1 .. Len(evq') /\ Len(evq) + 1 \in 1 .. Len(evq')
    BY <1>0, <1>1, <1>2, WaitingPut
  <1> HIDE DEF Waiting
  <1>7. Waiting(i)' = {Len(evq) + 1} /\ Len(evq) + 1 \in 1 .. Len(evq')
    BY <1>2, <1>5, <1>6 DEF IsReport
  <1>8. \A j \in Done \ {i} : Waiting(j)' = Waiting(j)
    BY <1>2, <1>3, <1>4, <1>6 DEF IsReport
  <1> QED BY <1>1, <1>4, <1>5, <1>6, <1>7, <1>8

LEMMA ArmedStep ==
    ASSUME UsbTypeInv, Orderly, QueueInv, TableInv, ArmedInv, XhciNext
    PROVE  ArmedInv'
  <1>0. DriverTyped /\ UserTyped /\ SlotsTyped /\ QueuesTyped /\ SlotsInv /\ PortInv
    BY TypedParts
  <1>1. /\ armed \in [Devs -> Nat] /\ idx \in Devs /\ Done \subseteq Devs
    BY <1>0 DEF DriverTyped, Done
  <1>2. /\ \A i \in Done : devs'[i] = devs[i]
        /\ Done' = Done \/ Finishes
    BY TableStep
  <1>3. CASE pc # "poll"
    <2>1. \A i \in Devs : Waiting(i) = {} /\ Waiting(i)' = {}
      BY <1>3, NoReports
    <2>2. \A i \in Done : armed[i] = 1
      BY <1>1, <2>1 DEF ArmedInv, One
    <2>3. CASE Finishes
      <3>1. armed' = [armed EXCEPT ![idx] = @ + 1]
        BY <2>3 DEF Finishes, Completed, Armed, Answered
      <3>2. idx \notin Done /\ Done' = Done \cup {idx}
        BY <2>3 DEF Finishes
      <3>3. armed'[idx] = 1 /\ \A i \in Devs : i # idx => armed'[i] = armed[i]
        BY <1>1, <3>1, <3>2 DEF ArmedInv
      <3> QED BY <1>1, <2>1, <2>2, <3>2, <3>3 DEF ArmedInv, One
    <2>4. CASE armed' = armed /\ Done' = Done
      BY <1>1, <2>1, <2>2, <2>4 DEF ArmedInv, One
    <2>5. CASE ~Finishes
      <3>1. armed' = armed
        <4>1. CASE wait_event
          <5>1. CASE UNCHANGED <<pc, port, step, devs, armed>>
            BY <5>1
          <5>2. CASE Answered /\ answered(Answer.ok, Answer.slot, TRUE) /\ evq' = <<>>
            <6>1. /\ pc = "wait" /\ Len(evq) > 0 /\ UNCHANGED <<machine, idx, ctrl>>
              BY <4>1, <5>2, WaitCases DEF Answered
            <6>2. ~Completed
              <7> SUFFICES ASSUME Completed PROVE Finishes
                BY <2>5
              <7>1. devs[idx].used /\ devs' = devs
                BY <6>1 DEF Completed, TableInv, Asking, ConfigEp, EnableSlot
              <7>2. pc' \in {"reset", "poll"}
                BY DEF Completed, next_port
              <7> QED BY <1>1, <5>2, <6>1, <7>1, <7>2 DEF Finishes, Done
            <6> QED BY <5>2, <6>1, <6>2, AnswerEffects DEF Refused, Granted, Advanced, GaveUp
          <5> QED BY <4>1, <5>1, <5>2, WaitCases
        <4>2. CASE ~wait_event
          <5>1. CASE hc_command
            BY <5>1, CommandCases
          <5>2. CASE wait_timeout \/ usb_poll \/ \E j \in Devs, d \in BOOLEAN : usb_report(j, d)
            BY <1>3, <5>2 DEF wait_timeout, usb_poll, usb_report, Orderly
          <5>3. CASE xhci_init \/ send \/ idle \/ port_reset \/ hc_control
            BY <5>3 DEF xhci_init, send, idle, port_reset, hc_control, xhciVars
          <5> QED BY <4>2, <5>1, <5>2, <5>3 DEF XhciNext, Controller, Driver
        <4> QED BY <4>1, <4>2
      <3> QED BY <1>2, <2>4, <2>5, <3>1
    <2> QED BY <2>3, <2>5
  <1>4. CASE pc = "poll"
    <2>1. Done' = Done
      BY <1>2, <1>4 DEF Finishes
    <2>4. CASE usb_poll
      <3>1. ASSUME NEW j \in Done, 1 \notin Waiting(j), armed'[j] = armed[j] PROVE One(j)'
        <4> HIDE DEF Waiting
        <4>1. \/ Waiting(j) = {} /\ Waiting(j)' = {}
              \/ \E k \in 1 .. Len(evq') : Waiting(j) # {} /\ Waiting(j)' = {k}
          BY <2>4, <3>1, PollCases
        <4> QED BY <3>1, <4>1 DEF ArmedInv, One
      <3>2. CASE UNCHANGED armed /\ \A j \in Done : 1 \notin Waiting(j)
        BY <2>1, <3>1, <3>2 DEF ArmedInv
      <3>3. ASSUME NEW i \in Done, armed[i] = 0, armed' = [armed EXCEPT ![i] = @ + 1],
                   Waiting(i)' = {}, \A j \in Done \ {i} : 1 \notin Waiting(j)
            PROVE  ArmedInv'
        <4>1. armed'[i] = 1 /\ \A j \in Devs : j # i => armed'[j] = armed[j]
          BY <1>1, <3>3
        <4>2. One(i)'
          BY <3>3, <4>1 DEF One
        <4>3. \A j \in Done : j # i => One(j)'
          BY <1>1, <3>1, <3>3, <4>1
        <4> QED BY <1>1, <2>1, <4>1, <4>2, <4>3 DEF ArmedInv
      <3> QED BY <2>4, <3>2, <3>3, PollCases
    <2>5. ASSUME NEW i \in Devs, NEW d \in BOOLEAN, usb_report(i, d)
          PROVE  ArmedInv'
      <3>1. armed' = [armed EXCEPT ![i] = @ - 1]
        BY <2>5 DEF usb_report
      <3>2. /\ i \in Done /\ armed[i] = 1
            /\ \E k \in 1 .. Len(evq') : Waiting(i)' = {k}
            /\ \A j \in Done \ {i} : Waiting(j)' = Waiting(j)
            /\ 1 .. Len(evq) \subseteq 1 .. Len(evq')
        BY <2>5, ReportCases
      <3> HIDE DEF Waiting
      <3>3. armed'[i] = 0 /\ \A j \in Devs : j # i => armed'[j] = armed[j]
        BY <1>1, <3>1, <3>2
      <3>4. One(i)'
        BY <3>2, <3>3 DEF One
      <3>5. \A j \in Done : j # i => One(j)'
        BY <1>1, <3>2, <3>3 DEF ArmedInv, One
      <3> QED BY <1>1, <2>1, <3>2, <3>3, <3>4, <3>5 DEF ArmedInv
    <2>6. CASE idle
      BY <2>6 DEF idle, xhciVars, ArmedInv, One, Waiting, Done
    <2>7. CASE hc_command \/ hc_control
      <3>1. cmdq # <<>> \/ ctlq # {}
        BY <2>7 DEF hc_command, hc_control
      <3> QED BY <1>4, <3>1 DEF QueueInv
    <2>8. CASE xhci_init \/ send \/ port_reset \/ wait_event \/ wait_timeout
      BY <1>4, <2>8 DEF xhci_init, send, port_reset, wait_event, wait_timeout
    <2> QED BY <2>4, <2>5, <2>6, <2>7, <2>8 DEF XhciNext, Controller, Driver
  <1> QED BY <1>3, <1>4

LEMMA KeysStep ==
    ASSUME UsbTypeInv, Orderly, QueueInv, TableInv, ArmedInv, KeysInv, XhciNext
    PROVE  KeysInv'
  <1>0. DriverTyped /\ UserTyped
    BY TypedParts
  <1>1. /\ Done \subseteq Devs /\ prev \in [Devs -> BOOLEAN] /\ down \in [Devs -> BOOLEAN]
        /\ hid_buf \in [Devs -> BOOLEAN] /\ owed \in [Devs -> Int]
    BY <1>0 DEF DriverTyped, UserTyped, Done
  <1>2. /\ \A i \in Done : devs'[i] = devs[i]
        /\ Done' = Done \/ Finishes
    BY TableStep
  <1>3. CASE pc # "poll"
    <2>1. UNCHANGED <<prev, down, owed>>
      <3>1. CASE hc_command
        BY <3>1, CommandCases DEF table, user
      <3>2. CASE usb_poll \/ \E i \in Devs, d \in BOOLEAN : usb_report(i, d)
        BY <1>3, <3>2 DEF usb_poll, usb_report, Orderly
      <3>3. CASE xhci_init \/ port_reset \/ send \/ wait_event \/ wait_timeout \/ hc_control \/ idle
        BY <3>3 DEF xhci_init, port_reset, send, wait_event, wait_timeout, hc_control, idle, table,
                    user, xhciVars
      <3> QED BY <3>1, <3>2, <3>3 DEF XhciNext, Controller, Driver
    <2>2. \A i \in Devs : Waiting(i)' = {}
      BY <1>3, NoReports
    <2>3. \A i \in Devs : ~prev[i] /\ ~down[i] /\ owed[i] = 0
      BY <1>3 DEF KeysInv
    <2>4. \A i \in Devs : Settled(i)'
      <3> SUFFICES ASSUME NEW i \in Devs PROVE Settled(i)'
        OBVIOUS
      <3>1. prev[i] \in BOOLEAN /\ down[i] \in BOOLEAN
        BY <1>1
      <3>2. prev'[i] = down'[i] /\ owed'[i] = 0
        BY <2>1, <2>3, <3>1, Zenon
      <3> QED BY <2>2, <3>2 DEF Settled
    <2>5. Done' \subseteq Devs
      BY DEF Done
    <2> QED BY <2>1, <2>3, <2>4, <2>5 DEF KeysInv
  <1>4. CASE pc = "poll"
    <2>0. \A i \in Done : Settled(i)
      BY <1>4 DEF KeysInv
    <2>1. Done' = Done
      BY <1>2, <1>4 DEF Finishes
    <2>4. CASE usb_poll
      <3>1. pc' = "poll" /\ UNCHANGED <<devs, hid_buf, down>>
        BY <1>4, <2>4 DEF usb_poll
      <3>2. ASSUME NEW j \in Done, 1 \notin Waiting(j), owed'[j] = owed[j], prev'[j] = prev[j]
            PROVE  Settled(j)'
        <4>1. (Waiting(j) = {}) <=> (Waiting(j)' = {})
          BY <2>4, <3>2, PollCases
        <4>2. Settled(j)
          BY <2>0
        <4> HIDE DEF Waiting
        <4> QED BY <3>1, <3>2, <4>1, <4>2 DEF Settled
      <3>3. CASE UNCHANGED <<prev, owed>> /\ \A j \in Done : 1 \notin Waiting(j)
        BY <2>1, <3>1, <3>2, <3>3 DEF KeysInv
      <3>4. ASSUME NEW i \in Done, hid_handle(i), Waiting(i) # {}, Waiting(i)' = {},
                   \A j \in Done \ {i} : 1 \notin Waiting(j)
            PROVE  KeysInv'
        <4>1. \A j \in Devs : j # i => owed'[j] = owed[j] /\ prev'[j] = prev[j]
          BY <1>1, <3>4 DEF hid_handle
        <4>2. Settled(i)'
          <5>1. CASE ~devs[i].kbd
            BY <2>0, <3>1, <3>4, <5>1 DEF hid_handle, Settled
          <5>2. CASE devs[i].kbd
            <6>1. hid_buf[i] = down[i] /\ owed[i] = IF down[i] /\ ~prev[i] THEN 1 ELSE 0
              BY <2>0, <3>4, <5>2 DEF Settled
            <6>2. /\ owed' = [owed EXCEPT ![i] = IF hid_buf[i] /\ ~prev[i] THEN @ - 1 ELSE @]
                  /\ prev' = [prev EXCEPT ![i] = hid_buf[i]]
              BY <3>4, <5>2 DEF hid_handle
            <6>3. prev'[i] = hid_buf[i]
              BY <1>1, <6>2
            <6>4. owed'[i] = 0
              BY <1>1, <6>1, <6>2
            <6> QED BY <3>1, <3>4, <6>1, <6>3, <6>4 DEF Settled
          <5> QED BY <5>1, <5>2
        <4>3. \A j \in Done : j # i => Settled(j)'
          BY <1>1, <3>2, <3>4, <4>1
        <4> QED BY <2>1, <3>1, <4>2, <4>3 DEF KeysInv
      <3> QED BY <2>4, <3>3, <3>4, PollCases
    <2>5. ASSUME NEW i \in Devs, NEW d \in BOOLEAN, usb_report(i, d)
          PROVE  KeysInv'
      <3>1. /\ hid_buf' = [hid_buf EXCEPT ![i] = d] /\ down' = [down EXCEPT ![i] = d]
            /\ owed' = [owed EXCEPT ![i] = IF devs[i].kbd /\ d /\ ~down[i] THEN @ + 1 ELSE @]
            /\ pc' = "poll" /\ UNCHANGED <<devs, prev>>
        BY <1>4, <2>5 DEF usb_report
      <3>2. /\ i \in Done /\ Waiting(i) = {}
            /\ Waiting(i)' # {}
            /\ \A j \in Done \ {i} : Waiting(j)' = Waiting(j)
        <4>1. \E k \in 1 .. Len(evq') : Waiting(i)' = {k}
          BY <2>5, ReportCases
        <4> QED BY <2>5, <4>1, ReportCases
      <3> HIDE DEF Waiting
      <3>3. hid_buf'[i] = d /\ down'[i] = d
        BY <1>1, <3>1
      <3>4. owed'[i] = IF devs[i].kbd /\ d /\ ~down[i] THEN owed[i] + 1 ELSE owed[i]
        BY <1>1, <3>1
      <3>5. \A j \in Devs : j # i => hid_buf'[j] = hid_buf[j] /\ down'[j] = down[j] /\ owed'[j] = owed[j]
        BY <1>1, <3>1
      <3>6. Settled(i)'
        <4>1. CASE ~devs[i].kbd
          BY <2>0, <3>1, <3>2, <3>4, <4>1 DEF Settled
        <4>2. CASE devs[i].kbd
          <5>1. prev[i] = down[i] /\ owed[i] = 0
            BY <2>0, <3>2, <4>2 DEF Settled
          <5>2. owed'[i] = IF d /\ ~prev[i] THEN 1 ELSE 0
            BY <3>4, <4>2, <5>1
          <5>3. hid_buf'[i] = down'[i] /\ owed'[i] = IF down'[i] /\ ~prev'[i] THEN 1 ELSE 0
            BY <3>1, <3>3, <5>2
          <5>4. devs'[i].kbd /\ Waiting(i)' # {}
            BY <3>1, <3>2, <4>2
          <5> QED BY <5>3, <5>4 DEF Settled
        <4> QED BY <4>1, <4>2
      <3>7. \A j \in Done : j # i => Settled(j)'
        <4> SUFFICES ASSUME NEW j \in Done, j # i PROVE Settled(j)'
          OBVIOUS
        <4>1. Settled(j) /\ Waiting(j)' = Waiting(j)
          BY <2>0, <3>2
        <4> QED BY <1>1, <3>1, <3>5, <4>1 DEF Settled
      <3> QED BY <2>1, <3>1, <3>6, <3>7 DEF KeysInv
    <2>6. CASE idle
      BY <2>6 DEF idle, xhciVars, KeysInv, Settled, Waiting, Done
    <2>7. CASE hc_command \/ hc_control
      <3>1. cmdq # <<>> \/ ctlq # {}
        BY <2>7 DEF hc_command, hc_control
      <3> QED BY <1>4, <3>1 DEF QueueInv
    <2>8. CASE xhci_init \/ send \/ port_reset \/ wait_event \/ wait_timeout
      BY <1>4, <2>8 DEF xhci_init, send, port_reset, wait_event, wait_timeout
    <2> QED BY <2>4, <2>5, <2>6, <2>7, <2>8 DEF XhciNext, Controller, Driver
  <1> QED BY <1>3, <1>4

OrderInv == QueueInv /\ TableInv /\ ArmedInv /\ KeysInv

\* On an orderly machine all of the above holds, whatever fails.
UsbInv == UsbTypeInv /\ (Orderly => OrderInv)

LEMMA MachineKept == XhciNext => machine' = machine
  <1> SUFFICES ASSUME XhciNext PROVE machine' = machine
    OBVIOUS
  <1>1. CASE Controller
    BY <1>1 DEF Controller, hc_command, hc_control
  <1>2. CASE Driver
    BY <1>2 DEF Driver, xhci_init, port_reset, send, wait_event, usb_poll
  <1>3. CASE wait_timeout \/ idle
    BY <1>3 DEF wait_timeout, idle, xhciVars
  <1>4. ASSUME NEW i \in Devs, NEW d \in BOOLEAN, usb_report(i, d) PROVE machine' = machine
    BY <1>4 DEF usb_report
  <1> QED BY <1>1, <1>2, <1>3, <1>4 DEF XhciNext

LEMMA UsbAlways == XhciSpec => []UsbInv
  <1>1. XhciInit => UsbInv
    <2> SUFFICES ASSUME XhciInit PROVE UsbTypeInv /\ OrderInv
      BY DEF UsbInv
    <2>1. /\ pc = "init" /\ step = NoOp /\ cmdq = <<>> /\ ctlq = {} /\ evq = <<>>
          /\ \A i \in Devs : /\ ~devs[i].used /\ armed[i] = 0 /\ ~prev[i] /\ ~down[i] /\ owed[i] = 0
      BY DEF XhciInit
    <2>2. Done = {}
      BY <2>1 DEF Done
    <2>3. QueueInv
      BY <2>1 DEF QueueInv, Ports
    <2>4. TableInv
      BY <2>1, <2>2 DEF TableInv, Asking
    <2>5. ArmedInv /\ KeysInv
      BY <2>1, <2>2 DEF ArmedInv, KeysInv
    <2> QED BY <2>3, <2>4, <2>5, UsbTypeStart DEF OrderInv
  <1>2. UsbInv /\ [XhciNext]_xhciVars => UsbInv'
    <2> SUFFICES ASSUME UsbInv, [XhciNext]_xhciVars PROVE UsbInv'
      OBVIOUS
    <2>1. UsbTypeInv /\ UsbTypeInv'
      BY UsbTypeStep DEF UsbInv
    <2>2. CASE XhciNext
      <3>1. Orderly' => Orderly
        BY <2>2, MachineKept DEF Orderly
      <3>2. ASSUME Orderly PROVE OrderInv'
        <4>1. QueueInv /\ TableInv /\ ArmedInv /\ KeysInv
          BY <3>2 DEF UsbInv, OrderInv
        <4>2. QueueInv'
          BY <2>1, <2>2, <3>2, <4>1, QueueStep
        <4>3. TableInv'
          BY <2>1, <2>2, <3>2, <4>1, TableStep
        <4>4. ArmedInv'
          BY <2>1, <2>2, <3>2, <4>1, ArmedStep
        <4>5. KeysInv'
          BY <2>1, <2>2, <3>2, <4>1, KeysStep
        <4> QED BY <4>2, <4>3, <4>4, <4>5 DEF OrderInv
      <3> QED BY <2>1, <3>1, <3>2 DEF UsbInv
    <2>3. CASE UNCHANGED xhciVars
      <3>1. Orderly' = Orderly /\ Done' = Done
        BY <2>3 DEF xhciVars, Orderly, Done
      <3>2. QueueInv => QueueInv'
        BY <2>3 DEF xhciVars, QueueInv, Ports, Asked, Answered, Answer, Request, Wanted
      <3>3. TableInv => TableInv'
        BY <2>3, <3>1 DEF xhciVars, TableInv, Asking
      <3>4. ArmedInv => ArmedInv'
        BY <2>3, <3>1 DEF xhciVars, ArmedInv, One, Waiting
      <3>5. KeysInv => KeysInv'
        BY <2>3, <3>1 DEF xhciVars, KeysInv, Settled, Waiting
      <3> QED BY <2>1, <3>1, <3>2, <3>3, <3>4, <3>5 DEF UsbInv, OrderInv
    <2> QED BY <2>2, <2>3
  <1> QED BY <1>1, <1>2, PTL DEF XhciSpec

\* On an orderly machine a ready device always has one transfer armed or one
\* report waiting, for every number of ports, slots, entries and reports and
\* whatever fails during bring-up.
THEOREM DevicesStayArmed == XhciSpec => []ReadyIsArmed
  <1>1. UsbInv => ReadyIsArmed
    <2> SUFFICES ASSUME UsbInv, Orderly, NEW i \in ReadyDevs
                 PROVE  armed[i] + Cardinality(Waiting(i)) = 1
      BY DEF ReadyIsArmed, OneTransferEach
    <2>1. i \in Done /\ ArmedInv
      BY DEF UsbInv, OrderInv, ReadyDevs, Done
    <2>2. One(i)
      BY <2>1 DEF ArmedInv
    <2> HIDE DEF Waiting
    <2>3. CASE armed[i] = 1 /\ Waiting(i) = {}
      <3>1. Cardinality(Waiting(i)) = 0
        BY <2>3, FS_EmptySet
      <3> QED BY <2>3, <3>1
    <2>4. ASSUME NEW k \in 1 .. Len(evq), armed[i] = 0, Waiting(i) = {k}
          PROVE  armed[i] + Cardinality(Waiting(i)) = 1
      <3>1. Cardinality(Waiting(i)) = 1
        BY <2>4, FS_Singleton
      <3> QED BY <2>4, <3>1
    <2> QED BY <2>2, <2>3, <2>4 DEF One
  <1> QED BY <1>1, UsbAlways, PTL

\* On an orderly machine each press of a keyboard is typed exactly once.
THEOREM EachPressTyped == XhciSpec => []PressesTyped
  <1>1. UsbInv => PressesTyped
    <2> SUFFICES ASSUME UsbInv, Orderly, pc = "poll", NEW i \in ReadyDevs, Waiting(i) = {}
                 PROVE  owed[i] = 0
      BY DEF PressesTyped
    <2>1. i \in Done /\ KeysInv
      BY DEF UsbInv, OrderInv, ReadyDevs, Done
    <2>2. Settled(i)
      BY <2>1 DEF KeysInv
    <2> QED BY <2>2 DEF Settled
  <1> QED BY <1>1, UsbAlways, PTL

\* On an orderly machine every wait ends with the answer to its own request,
\* although wait_event compares types only.
THEOREM OwnAnswers == XhciSpec => AnswersAreOwn
  <1>1. UsbInv /\ [XhciNext]_xhciVars =>
           [Orderly /\ pc = "wait" /\ pc' # "wait" => Head(evq).ticket = ticket]_xhciVars
    <2> SUFFICES ASSUME UsbInv, XhciNext, Orderly, pc = "wait", pc' # "wait"
                 PROVE  Head(evq).ticket = ticket
      BY DEF xhciVars
    <2>1. UsbTypeInv /\ QueueInv
      BY DEF UsbInv, OrderInv
    <2>2. CASE wait_event
      <3>1. pc' # pc
        OBVIOUS
      <3>2. Answered /\ Head(evq) = Answer
        BY <2>1, <2>2, <3>1, WaitCases
      <3> QED BY <3>2 DEF Answered
    <2>3. CASE wait_timeout
      BY <2>3 DEF wait_timeout, Orderly
    <2>4. CASE Controller \/ \E i \in Devs, d \in BOOLEAN : usb_report(i, d)
      BY <2>4 DEF Controller, hc_command, hc_control, usb_report
    <2>5. CASE xhci_init \/ port_reset \/ send \/ usb_poll \/ idle
      BY <2>5 DEF xhci_init, port_reset, send, usb_poll, idle, xhciVars
    <2> QED BY <2>2, <2>3, <2>4, <2>5 DEF XhciNext, Driver
  <1> QED BY <1>1, UsbAlways, PTL DEF XhciSpec, AnswersAreOwn

----------------------------------------------------------------------------
(* Without faults either, every keyboard and mouse is found.               *)

Flawless == Orderly /\ ~machine.faulty

Hids == {p \in 1 .. PORTS : machine.attached[p] \in {"kbd", "mouse"}}

\* Each port has used up one slot at most, so there is one for the next.
EnabledInv ==
    /\ step = NoOp => enabled = {}
    /\ pc = "reset" \/ (Asking /\ step = EnableSlot /\ (pc = "send" \/ cmdq # <<>>)) =>
          enabled \subseteq 1 .. port - 1
    /\ Asking /\ step # NoOp => enabled \subseteq 1 .. port

PlaceInv ==
    /\ pc = "poll" => port = PORTS + 1
    /\ pc = "reset" \/ (Asking /\ step # NoOp) => machine.attached[port] # "none"
    /\ Asking /\ step > EnableSlot => devs[idx].port = port
    /\ Asking /\ step > GetConfig => machine.attached[port] # "other"
    /\ pc = "wait" /\ Answered => Answer.ok

\* The keyboards and mice at the ports passed are ready, unless the table is
\* full, and then it is full of keyboards and mice.
FoundInv ==
    /\ \A q \in Hids : q < port => (\E i \in Done : devs[i].port = q) \/ Done = Devs
    /\ \A i \in Done : devs[i].port \in Hids

\* Going on to the next port.
LEMMA MovedOn ==
    ASSUME machine \in Machine, machine' = machine, NEW p \in 0 .. PORTS, next_port(p),
           \A q \in Hids : q <= p => (\E i \in Done' : devs'[i].port = q) \/ Done' = Devs,
           \A i \in Done' : devs'[i].port \in Hids,
           enabled' \subseteq 1 .. p, step' = NoOp => enabled' = {}
    PROVE  EnabledInv' /\ PlaceInv' /\ FoundInv'
  <1>1. PORTS \in Nat /\ p \in Int /\ Hids' = Hids
    BY XhciAssumption DEF Hids
  <1>2. \/ /\ pc' = "poll" /\ port' = PORTS + 1
           /\ \A q \in p + 1 .. PORTS : machine.attached[q] = "none"
        \/ /\ pc' = "reset" /\ port' \in p + 1 .. PORTS
           /\ machine.attached[port'] # "none"
           /\ \A q \in p + 1 .. port' - 1 : machine.attached[q] = "none"
    BY PortsInOrder
  <1>3. port' \in Int /\ port' > p
    BY <1>1, <1>2
  <1>4. enabled' \subseteq 1 .. port' - 1
    <2>1. \A s \in 1 .. p : s \in 1 .. port' - 1
      BY <1>1, <1>3, Within
    <2> QED BY <2>1
  <1>5. EnabledInv' /\ PlaceInv'
    BY <1>2, <1>4 DEF EnabledInv, PlaceInv, Asking
  <1>6. ASSUME NEW q \in Hids, q < port' PROVE q <= p
    <2> SUFFICES ASSUME p < q PROVE FALSE
      BY <1>1 DEF Hids
    <2>1. q \in 1 .. PORTS /\ machine.attached[q] # "none"
      BY DEF Hids
    <2>2. q \in Int /\ q <= PORTS
      BY <1>1, <2>1
    <2> QED BY <1>1, <1>2, <1>3, <1>6, <2>1, <2>2
  <1>7. FoundInv'
    BY <1>1, <1>6 DEF FoundInv
  <1> QED BY <1>5, <1>7

\* What an own answer that is not an error leads to.
LEMMA FoundAnswer ==
    ASSUME UsbTypeInv, TableInv, EnabledInv, PlaceInv, FoundInv, pc = "wait", Answered,
           evq' = <<>>, answered(Answer.ok, Answer.slot, TRUE), UNCHANGED <<machine, idx, ctrl>>
    PROVE  EnabledInv' /\ PlaceInv' /\ FoundInv'
  <1>0. /\ devs \in [Devs -> Entry] /\ idx \in Devs /\ step \in Steps /\ port \in 0 .. PORTS + 1
        /\ machine \in Machine /\ (step # NoOp => port \in 1 .. PORTS)
    BY TypedParts, XhciAssumption DEF DriverTyped, UserTyped, PortInv, Asking
  <1>1. /\ TableInv' /\ \A i \in Done : devs'[i] = devs[i]
        /\ Done' = Done \/ Finishes
    BY AnswerTable
  <1>2. Answer.ok /\ (step = EnableSlot => Answer.slot # 0) /\ Len(evq) > 0
    BY DEF PlaceInv, Answered
  <1>3. machine' = machine /\ enabled' = enabled /\ idx' = idx /\ Hids' = Hids /\ ~Answered'
    <2>1. Len(evq') = 0
      OBVIOUS
    <2> QED BY <2>1 DEF ctrl, Hids, Answered
  <1>4. PORTS \in Nat /\ port \in Int /\ (step # NoOp => port \in 0 .. PORTS)
    BY <1>0, XhciAssumption
  <1>5. step # NoOp => enabled \subseteq 1 .. port /\ machine.attached[port] # "none"
    BY DEF EnabledInv, PlaceInv, Asking
  <1>6. machine.attached \in [1 .. PORTS -> {"none", "kbd", "mouse", "other"}]
    BY <1>0 DEF Machine
  <1> USE DEF NoOp, EnableSlot, AddressDev, GetConfig, SetProtocol, ConfigEp
  <1>7. CASE Refused
    <2>1. step = NoOp /\ next_port(0) /\ step' = step /\ devs' = devs
      BY <1>2, <1>7 DEF Refused
    <2>2. enabled = {} /\ Done' = Done
      BY <1>1, <2>1 DEF EnabledInv, Finishes, Completed
    <2>3. \A q \in Hids : ~(q <= 0)
      BY <1>4 DEF Hids
    <2>4. \A i \in Done' : devs'[i].port \in Hids
      BY <2>1, <2>2 DEF FoundInv
    <2>5. 0 \in 0 .. PORTS /\ enabled' \subseteq 1 .. 0
      BY <1>3, <1>4, <2>2
    <2> QED BY <1>0, <1>3, <2>1, <2>2, <2>3, <2>4, <2>5, MovedOn
  <1>8. CASE Granted \/ Advanced
    <2>1. /\ pc' = "send" /\ port' = port /\ step \in 1 .. 7 /\ step' = step + 1
      BY <1>8 DEF Granted, Advanced
    <2>2. Done' = Done
      BY <1>1, <2>1 DEF Finishes, Completed
    <2>3. FoundInv'
      BY <1>1, <1>3, <2>1, <2>2 DEF FoundInv
    <2>4. EnabledInv'
      BY <1>3, <1>5, <2>1 DEF EnabledInv, Asking
    <2>5. devs'[idx].port = port
      <3>1. CASE Granted
        <4> DEFINE e == [devs[idx] EXCEPT !.used = TRUE, !.slot = Answer.slot, !.port = port]
        <4>1. devs' = [devs EXCEPT ![idx] = e]
          BY <3>1 DEF Granted
        <4>2. e.port = port
          BY <1>0 DEF Entry
        <4> HIDE DEF e
        <4> QED BY <1>0, <4>1, <4>2
      <3>2. CASE Advanced
        <4>1. devs[idx].port = port
          BY <3>2 DEF PlaceInv, Asking, Advanced
        <4>2. CASE devs' = devs
          BY <4>1, <4>2
        <4>3. CASE step = GetConfig
          <5> DEFINE b == (machine.attached[port] = "kbd")
                     e == [devs[idx] EXCEPT !.hid = TRUE, !.kbd = b]
          <5>1. devs' = [devs EXCEPT ![idx] = e]
            BY <3>2, <4>3 DEF Advanced
          <5>2. e.port = devs[idx].port
            <6> HIDE DEF b
            <6> QED BY <1>0 DEF Entry
          <5> HIDE DEF e
          <5> QED BY <1>0, <4>1, <5>1, <5>2
        <4> QED BY <3>2, <4>2, <4>3 DEF Advanced
      <3> QED BY <1>8, <3>1, <3>2
    <2>6. step' > GetConfig => machine.attached[port] # "other"
      <3>1. CASE step = GetConfig
        BY <1>8, <3>1 DEF Granted, Advanced
      <3>2. CASE step # GetConfig
        BY <2>1, <3>2 DEF PlaceInv, Asking
      <3> QED BY <3>1, <3>2
    <2>7. PlaceInv'
      BY <1>3, <1>5, <2>1, <2>5, <2>6 DEF PlaceInv, Asking
    <2> QED BY <2>3, <2>4, <2>7
  <1>9. CASE Completed
    <2>1. devs' = devs /\ step' = step /\ step = 8 /\ next_port(port)
      BY <1>9 DEF Completed
    <2>2. devs[idx].port = port /\ machine.attached[port] # "other"
      BY <2>1 DEF PlaceInv, Asking
    <2>3. port \in Hids
      <3>1. port \in 1 .. PORTS /\ machine.attached[port] # "none"
        BY <1>0, <1>5, <2>1
      <3>2. machine.attached[port] \in {"none", "kbd", "mouse", "other"}
        BY <1>6, <3>1
      <3> QED BY <2>2, <3>1, <3>2 DEF Hids
    <2>4. Done \subseteq Done' /\ idx \in Done' /\ Done' \subseteq Done \cup {idx}
      <3>1. pc' \in {"reset", "poll"}
        BY <1>0, <1>4, <2>1, PortsInOrder
      <3>2. devs[idx].used
        BY <2>1 DEF TableInv, Asking
      <3> QED BY <1>0, <1>3, <2>1, <3>1, <3>2 DEF Done
    <2>5. \A i \in Done' : devs'[i].port \in Hids
      BY <2>1, <2>2, <2>3, <2>4 DEF FoundInv
    <2>6. ASSUME NEW q \in Hids, q <= port
          PROVE  (\E i \in Done' : devs'[i].port = q) \/ Done' = Devs
      <3>1. CASE q = port
        BY <2>1, <2>2, <2>4, <3>1
      <3>2. CASE q # port
        <4>1. q < port
          BY <1>4, <2>6, <3>2 DEF Hids
        <4>2. Done' \subseteq Devs
          BY DEF Done
        <4> QED BY <2>1, <2>4, <4>1, <4>2 DEF FoundInv
      <3> QED BY <3>1, <3>2
    <2>7. PICK p \in 0 .. PORTS : p = port
      BY <1>4, <2>1
    <2> QED BY <1>0, <1>3, <1>5, <2>1, <2>5, <2>6, <2>7, MovedOn
  <1>10. CASE GaveUp
    <2>1. step \in 2 .. 8 /\ step' = step /\ next_port(port) /\ machine.attached[port] = "other"
      BY <1>2, <1>10 DEF GaveUp
    <2>2. PICK e \in Entry : ~e.used /\ devs' = [devs EXCEPT ![idx] = e]
      BY <1>10 DEF GaveUp
    <2>3. Done' = Done
      <3>1. idx \notin Done
        BY DEF Done
      <3>2. devs'[idx] = e
        BY <1>0, <2>2
      <3>3. idx \notin Done'
        BY <1>3, <2>2, <3>2 DEF Done
      <3> QED BY <1>1, <3>3 DEF Finishes
    <2>4. \A i \in Done' : devs'[i].port \in Hids
      BY <1>1, <2>3 DEF FoundInv
    <2>5. port \notin Hids
      BY <2>1 DEF Hids
    <2>6. ASSUME NEW q \in Hids, q <= port
          PROVE  (\E i \in Done' : devs'[i].port = q) \/ Done' = Devs
      <3>1. q < port
        BY <1>4, <2>5, <2>6 DEF Hids
      <3> QED BY <1>1, <2>3, <3>1 DEF FoundInv
    <2>7. PICK p \in 0 .. PORTS : p = port
      BY <1>4, <2>1
    <2> QED BY <1>0, <1>3, <1>5, <2>1, <2>4, <2>6, <2>7, MovedOn
  <1> QED BY <1>2, <1>7, <1>8, <1>9, <1>10, AnswerEffects

LEMMA FoundStep ==
    ASSUME PORTS <= SLOTS, UsbTypeInv, Flawless, QueueInv, TableInv, EnabledInv, PlaceInv, FoundInv,
           XhciNext
    PROVE  EnabledInv' /\ PlaceInv' /\ FoundInv'
  <1>0. DriverTyped /\ UserTyped /\ SlotsTyped /\ QueuesTyped /\ SlotsInv /\ PortInv
    BY TypedParts
  <1>1. /\ machine \in Machine /\ machine' = machine /\ Hids' = Hids /\ Orderly /\ Outcomes = {TRUE}
    BY <1>0, XhciAssumption, MachineKept, OutcomesTyped DEF UserTyped, Hids, Flawless
  <1>2. /\ \A i \in Done : devs'[i] = devs[i]
        /\ Done' = Done \/ Finishes
    BY <1>1, TableStep
  <1>3. evq \in Seq(Events) /\ Len(evq) \in Nat /\ PORTS \in Nat /\ port \in Int
    BY <1>0, XhciAssumption DEF QueuesTyped, DriverTyped
  <1>4. ASSUME port' = port, Done' = Done PROVE FoundInv'
    BY <1>1, <1>2, <1>4 DEF FoundInv
  <1>5. CASE xhci_init
    <2>1. /\ pc = "init" /\ pc' \in {"send", "off"} /\ step = NoOp
          /\ UNCHANGED <<idx, step, devs, port, enabled>>
      BY <1>0, <1>5 DEF xhci_init, PortInv, table, ctrl
    <2>2. Done' = Done
      BY <1>2, <2>1 DEF Finishes
    <2> QED BY <1>4, <2>1, <2>2 DEF EnabledInv, PlaceInv, Asking, NoOp, EnableSlot, GetConfig
  <1>6. CASE port_reset
    <2>1. pc = "reset" /\ UNCHANGED <<devs, enabled, cmdq>> /\ Done' = Done
      BY <1>2, <1>6 DEF port_reset, Finishes, table, ctrl
    <2>2. port \in 1 .. PORTS /\ enabled \subseteq 1 .. port - 1 /\ machine.attached[port] # "none"
      BY <1>0, <2>1 DEF PortInv, EnabledInv, PlaceInv
    <2>3. enabled \subseteq 1 .. port
      <3> SUFFICES ASSUME NEW s \in enabled PROVE s \in 1 .. port
        OBVIOUS
      <3>1. s \in 1 .. port - 1
        BY <2>2
      <3> QED BY <1>3, <3>1
    <2>4. CASE FreeDevs = {} /\ next_port(port) /\ UNCHANGED step
      <3>1. Done' = Devs
        BY <2>1, <2>4 DEF FreeDevs, Done
      <3>2. \A i \in Done' : devs'[i].port \in Hids
        BY <2>1 DEF FoundInv
      <3>3. PICK p \in 0 .. PORTS : p = port
        BY <1>3, <2>2
      <3>4. step' = NoOp => enabled' = {}
        BY <2>1, <2>4 DEF EnabledInv
      <3> QED BY <1>1, <2>1, <2>3, <2>4, <3>1, <3>2, <3>3, <3>4, MovedOn
    <2>5. CASE step' = EnableSlot /\ pc' = "send" /\ UNCHANGED port
      <3>1. FoundInv'
        BY <1>4, <2>1, <2>5
      <3> QED BY <1>1, <2>1, <2>2, <2>3, <2>5, <3>1
              DEF EnabledInv, PlaceInv, Asking, NoOp, EnableSlot, GetConfig
    <2> QED BY <1>1, <1>6, <2>4, <2>5 DEF port_reset
  <1>7. CASE send
    <2>1. /\ pc = "send" /\ pc' = "wait" /\ UNCHANGED <<port, idx, step, devs, enabled>>
      BY <1>7 DEF send, table
    <2>2. Done' = Done
      BY <1>2, <2>1 DEF Finishes
    <2>3. ~Answered'
      <3>1. CASE step \in Commands
        <4>1. cmdq' = Append(cmdq, [ticket |-> ticket', step |-> step, slot |-> devs[idx].slot])
          BY <1>7, <3>1 DEF send
        <4>2. cmdq = <<>>
          BY <2>1 DEF QueueInv
        <4>3. cmdq' # <<>>
          BY <4>1, <4>2
        <4> QED BY <4>3 DEF Answered
      <3>2. CASE step \notin Commands
        BY <1>7, <3>2 DEF send, Answered
      <3> QED BY <3>1, <3>2
    <2> QED BY <1>1, <1>4, <2>1, <2>2, <2>3 DEF EnabledInv, PlaceInv, Asking
  <1>8. CASE wait_event
    <2>1. CASE evq[1].type = "port" /\ UNCHANGED <<pc, port, step, devs, armed>>
      <3>1. /\ pc = "wait" /\ evq # <<>> /\ evq' = Tail(evq)
            /\ UNCHANGED <<machine, idx, ticket, cmdq, ctlq, configured, enabled>>
        BY <1>1, <1>8, WaitCases DEF ctrl
      <3>2. Done' = Done
        BY <2>1, <3>1 DEF Done
      <3>3. Answered' => Answer'.ok
        <4> SUFFICES ASSUME Answered' PROVE Answer'.ok
          OBVIOUS
        <4>1. Answered
          <5>1. cmdq = <<>> /\ ctlq = {}
            BY <3>1 DEF Answered
          <5>2. ~Asked
            BY <5>1 DEF Asked
          <5> QED BY <3>1, <5>2 DEF QueueInv
        <4>2. /\ Len(evq') = Len(evq) - 1
              /\ \A k \in 1 .. Len(evq') : evq'[k] = evq[k + 1] /\ k + 1 \in 1 .. Len(evq)
          BY <1>0, <3>1, EventTaken
        <4>3. Len(evq') \in 1 .. Len(evq') /\ Len(evq') + 1 = Len(evq)
          BY <1>3, <4>2 DEF Answered
        <4>4. Answer' = Answer
          BY <4>2, <4>3 DEF Answer
        <4> QED BY <3>1, <4>1, <4>4 DEF PlaceInv
      <3>4. FoundInv'
        BY <1>4, <2>1, <3>2
      <3> QED BY <2>1, <3>1, <3>3, <3>4 DEF EnabledInv, PlaceInv, Asking
    <2>2. CASE /\ Answered /\ Len(evq) = 1 /\ evq' = <<>> /\ Head(evq) = Answer
               /\ Answer \in Events /\ answered(Answer.ok, Answer.slot, TRUE)
      <3>1. pc = "wait" /\ UNCHANGED <<machine, idx, ctrl>>
        BY <1>8, WaitCases
      <3> QED BY <2>2, <3>1, FoundAnswer
    <2> QED BY <1>8, <2>1, <2>2, WaitCases
  <1>9. CASE wait_timeout
    BY <1>1, <1>9 DEF wait_timeout, Orderly
  <1>10. CASE usb_poll \/ \E i \in Devs, d \in BOOLEAN : usb_report(i, d)
    <2>1. /\ pc = "poll" /\ UNCHANGED <<pc, port, idx, step, devs, enabled>>
      BY <1>1, <1>10 DEF usb_poll, usb_report, ctrl, Orderly
    <2>2. Done' = Done
      BY <2>1 DEF Done
    <2> QED BY <1>4, <2>1, <2>2 DEF EnabledInv, PlaceInv, Asking
  <1>11. CASE hc_command
    <2>0. cmdq # <<>>
      BY <1>11 DEF hc_command
    <2>1. pc = "wait" /\ step \in Commands /\ cmdq = <<Request>>
      BY <2>0, OneRequest
    <2>2. /\ cmdq' = Tail(cmdq) /\ UNCHANGED <<pc, port, idx, step, devs, ticket>>
      BY <1>11, CommandCases DEF table
    <2>3. cmdq' = <<>> /\ cmdq[1].step = step
      BY <2>1, <2>2 DEF Request
    <2>4. PICK ok \in BOOLEAN, slot \in 0 .. SLOTS :
             /\ evq' = Append(evq, Event("cmd", ok, slot, cmdq[1].ticket))
             /\ ~ok => step = EnableSlot /\ (1 .. SLOTS) \ enabled = {}
             /\ \/ /\ step = EnableSlot /\ slot \in (1 .. SLOTS) \ enabled
                   /\ \A s \in (1 .. SLOTS) \ enabled : slot <= s
                   /\ enabled' = enabled \cup {slot}
                \/ step = EnableSlot /\ ~ok /\ UNCHANGED enabled
                \/ step # EnableSlot /\ UNCHANGED enabled
      BY <1>11, <2>3, CommandCases DEF Flawless
    <2>5. /\ step = NoOp => enabled' = {}
          /\ step # NoOp => enabled' \subseteq 1 .. port
          /\ ok
      <3>1. CASE step = EnableSlot
        <4>1. enabled \subseteq 1 .. port - 1 /\ port \in 1 .. PORTS
          BY <1>0, <2>1, <2>0, <3>1 DEF EnabledInv, Asking, PortInv, NoOp, EnableSlot
        <4>2. port \in 1 .. SLOTS
          BY <1>3, <4>1, XhciAssumption
        <4>3. port \notin enabled
          <5> SUFFICES ASSUME port \in enabled PROVE FALSE
            OBVIOUS
          <5>1. port \in 1 .. port - 1
            BY <4>1
          <5> QED BY <1>3, <5>1
        <4>4. ok /\ slot <= port /\ slot \in 1 .. SLOTS /\ enabled' = enabled \cup {slot}
          BY <2>4, <3>1, <4>2, <4>3
        <4>5. slot \in 1 .. port
          BY <1>3, <4>4
        <4>6. \A s \in enabled : s \in 1 .. port
          <5> SUFFICES ASSUME NEW s \in enabled PROVE s \in 1 .. port
            OBVIOUS
          <5>1. s \in 1 .. port - 1
            BY <4>1
          <5> QED BY <1>3, <5>1
        <4> QED BY <3>1, <4>4, <4>5, <4>6 DEF NoOp, EnableSlot
      <3>2. CASE step # EnableSlot
        BY <2>1, <2>4, <3>2 DEF EnabledInv, Asking
      <3> QED BY <3>1, <3>2
    <2>6. Answer'.ok
      <3> DEFINE e == Event("cmd", ok, slot, cmdq[1].ticket)
      <3>1. cmdq[1].ticket \in Nat
        BY <1>0, <2>1 DEF Request, UserTyped
      <3>2. e \in Events /\ e.ok = ok
        BY <3>1, EventMade
      <3>3. evq' = Append(evq, e)
        BY <2>4
      <3> HIDE DEF e
      <3>4. Len(evq') = Len(evq) + 1 /\ evq'[Len(evq) + 1] = e
        BY <1>0, <3>2, <3>3, EventPut
      <3>5. Answer' = e
        BY <3>4 DEF Answer
      <3> QED BY <2>5, <3>2, <3>5
    <2>7. Done' = Done
      BY <2>2 DEF Done
    <2>8. FoundInv'
      BY <1>4, <2>2, <2>7
    <2> QED BY <1>1, <2>1, <2>2, <2>3, <2>5, <2>6, <2>8 DEF EnabledInv, PlaceInv, Asking
  <1>12. CASE hc_control
    <2>1. PICK r \in ctlq : evq' = Append(evq, Event("xfer", TRUE, r.slot, r.ticket))
      BY <1>1, <1>12 DEF hc_control
    <2>2. UNCHANGED <<pc, port, idx, step, devs, cmdq, enabled>>
      BY <1>12 DEF hc_control, table
    <2>3. Answer'.ok
      <3> DEFINE e == Event("xfer", TRUE, r.slot, r.ticket)
      <3>1. r.slot \in 0 .. SLOTS /\ r.ticket \in Nat
        BY <1>0 DEF QueuesTyped, Requests
      <3>2. e \in Events /\ e.ok = TRUE
        BY <3>1 DEF Event, Events
      <3>3. evq' = Append(evq, e)
        BY <2>1
      <3> HIDE DEF e
      <3>4. Len(evq') = Len(evq) + 1 /\ evq'[Len(evq) + 1] = e
        BY <1>0, <3>2, <3>3, EventPut
      <3>5. Answer' = e
        BY <3>4 DEF Answer
      <3> QED BY <3>2, <3>5
    <2>4. Done' = Done
      BY <2>2 DEF Done
    <2>5. FoundInv'
      BY <1>4, <2>2, <2>4
    <2> QED BY <1>1, <2>2, <2>3, <2>5 DEF EnabledInv, PlaceInv, Asking
  <1>13. CASE idle
    <2>1. pc \in {"poll", "off"} /\ UNCHANGED <<pc, port, idx, step, devs, enabled>>
      BY <1>13 DEF idle, xhciVars
    <2>2. Done' = Done
      BY <2>1 DEF Done
    <2> QED BY <1>4, <2>1, <2>2 DEF EnabledInv, PlaceInv, Asking
  <1> QED BY <1>5, <1>6, <1>7, <1>8, <1>9, <1>10, <1>11, <1>12, <1>13
          DEF XhciNext, Controller, Driver

\* Every keyboard and mouse is found on a machine that neither fails nor is
\* late, for every number of ports and entries, if the controller has a slot
\* for each port: a device that is not used keeps its slot.
THEOREM InputDevicesFound == PORTS <= SLOTS => (XhciSpec => []HidFound)
  <1> SUFFICES ASSUME PORTS <= SLOTS PROVE XhciSpec => []HidFound
    OBVIOUS
  <1> DEFINE Inv == Flawless => EnabledInv /\ PlaceInv /\ FoundInv
  <1>1. XhciInit => Inv
    <2> SUFFICES ASSUME XhciInit PROVE EnabledInv /\ PlaceInv /\ FoundInv
      OBVIOUS
    <2>1. /\ pc = "init" /\ port = 0 /\ enabled = {} /\ \A i \in Devs : ~devs[i].used
      BY DEF XhciInit
    <2>2. Done = {} /\ \A q \in Hids : ~(q < 0)
      BY <2>1, XhciAssumption DEF Done, Hids
    <2> QED BY <2>1, <2>2 DEF EnabledInv, PlaceInv, FoundInv, Asking
  <1>2. UsbInv /\ Inv /\ [XhciNext]_xhciVars => Inv'
    <2> SUFFICES ASSUME UsbInv, Inv, [XhciNext]_xhciVars, Flawless'
                 PROVE  EnabledInv' /\ PlaceInv' /\ FoundInv'
      OBVIOUS
    <2>1. CASE XhciNext
      <3>1. Flawless
        BY <2>1, MachineKept DEF Flawless, Orderly
      <3>2. UsbTypeInv /\ QueueInv /\ TableInv /\ EnabledInv /\ PlaceInv /\ FoundInv
        BY <3>1 DEF UsbInv, OrderInv, Flawless
      <3> QED BY <2>1, <3>1, <3>2, FoundStep
    <2>2. CASE UNCHANGED xhciVars
      <3>1. Flawless
        BY <2>2 DEF Flawless, Orderly, xhciVars
      <3>2. Done' = Done /\ Hids' = Hids
        BY <2>2 DEF xhciVars, Done, Hids
      <3>3. EnabledInv'
        BY <2>2, <3>1 DEF xhciVars, EnabledInv, Asking
      <3>4. PlaceInv'
        BY <2>2, <3>1 DEF xhciVars, PlaceInv, Asking, Answered, Answer, Ports, Wanted
      <3>5. FoundInv'
        BY <2>2, <3>1, <3>2 DEF xhciVars, FoundInv
      <3> QED BY <3>3, <3>4, <3>5
    <2> QED BY <2>1, <2>2
  <1>3. UsbInv /\ Inv => HidFound
    <2> SUFFICES ASSUME UsbInv, Inv, pc = "poll", Flawless
                 PROVE  \/ \A p \in Hids : \E i \in ReadyDevs : devs[i].port = p
                        \/ \A i \in Devs : devs[i].used /\ devs[i].port \in Hids
      BY DEF HidFound, Flawless, Hids
    <2>1. PlaceInv /\ FoundInv /\ ReadyDevs = Done
      BY DEF ReadyDevs, Done
    <2>2. CASE Done = Devs
      BY <2>1, <2>2 DEF FoundInv, Done
    <2>3. CASE Done # Devs
      <3> SUFFICES ASSUME NEW p \in Hids PROVE \E i \in Done : devs[i].port = p
        BY <2>1
      <3>1. p < port
        BY <2>1, XhciAssumption DEF Hids, PlaceInv
      <3> QED BY <2>1, <2>3, <3>1 DEF FoundInv
    <2> QED BY <2>2, <2>3
  <1> HIDE DEF Inv
  <1> QED BY <1>1, <1>2, <1>3, UsbAlways, PTL DEF XhciSpec

=============================================================================
