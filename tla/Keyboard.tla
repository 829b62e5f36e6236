------------------------------ MODULE Keyboard ------------------------------
(***************************************************************************)
(* Keyboard input from the device to the shell: the ring buffer of         *)
(* kernel/drivers/keyboard.c, its two producers and the main loop that     *)
(* empties it.                                                             *)
(*                                                                         *)
(* The CPU runs one main context.  Interrupts are taken between any two of *)
(* its instructions while IF is set; their gates clear IF, so a handler    *)
(* runs to completion and is one step here.  The main context is           *)
(*   - desktop_run when a framebuffer is active: hlt, usb_poll, drain;     *)
(*   - shell_run otherwise: keyboard_getchar in a loop.                    *)
(* head, tail and buffer are volatile, so every access the main context    *)
(* makes to them while it pushes or reads is a step of its own.            *)
(***************************************************************************)
EXTENDS Integers, Sequences

CONSTANTS
    BUF_SIZE,  \* slots of the ring (128 in the kernel)
    Keys,      \* keys with a character in the scancode maps
    Setups,    \* machines considered, see Setup
    MaxKeys    \* bound on the key presses of a behaviour

\* desktop: lfb_active(); ps2: a keyboard raises IRQ 1; usb: xHCI found a
\* keyboard; user: the user may run the shell's `user' command.
Setup == [desktop : BOOLEAN, ps2 : BOOLEAN, usb : BOOLEAN, user : BOOLEAN]

ASSUME SizeAssumption == BUF_SIZE \in Nat /\ BUF_SIZE >= 2
ASSUME SetupAssumption == Setups \subseteq Setup

None == <<>>

\* scancode_map and scancode_map_shift give a key its two characters.
Char == Keys \X BOOLEAN

VARIABLES
    setup,       \* the machine (never changes)
    buffer, head, tail,
    shift_down,
    pc,          \* where the main context stands
    IF_,         \* the interrupt flag of the main context
    next, at,    \* locals of an interrupted buffer_push: next, and head as read
    ch,          \* the character the main context is pushing or has read
    report,      \* USB character waiting in the xHCI event ring, or None
    got,         \* history: last character delivered to the shell
    drops,       \* history: characters dropped on overflow
    typed        \* history: keys pressed so far

ring  == <<buffer, head, tail>>
local == <<next, at, ch>>
vars  == <<setup, buffer, head, tail, shift_down, pc, IF_, next, at, ch,
           report, got, drops, typed>>

Slots == 0 .. BUF_SIZE - 1

Succ(i) == (i + 1) % BUF_SIZE

LoopStart == IF setup.desktop THEN "drain" ELSE "check"

\* keyboard_init; both loops start with interrupts on (kernel.c:120).
Init ==
    /\ setup \in Setups
    /\ buffer = [i \in Slots |-> None] /\ head = 0 /\ tail = 0
    /\ shift_down = FALSE
    /\ pc = IF setup.desktop THEN "hlt" ELSE "check"
    /\ IF_ = TRUE
    /\ next = 0 /\ at = 0 /\ ch = None
    /\ report = None
    /\ got = None /\ drops = 0 /\ typed = 0

----------------------------------------------------------------------------
(* Interrupt context.                                                      *)

\* An interrupt ends a hlt.
Woken == IF pc # "halted" THEN pc
         ELSE IF setup.desktop THEN "poll" ELSE "check"

\* Definitions named Mut_... are faults seeded to show that a property can
\* fail; nothing else uses them.
Mut_Room_Always(n) == TRUE

Room(n) == n # tail

\* buffer_push without interruption.
buffer_push(c) ==
    IF Room(Succ(head))
    THEN /\ buffer' = [buffer EXCEPT ![head] = c]
         /\ head' = Succ(head)
         /\ UNCHANGED drops
    ELSE /\ drops' = drops + 1
         /\ UNCHANGED <<buffer, head>>

Scancodes == Keys \cup {"ShiftMake", "ShiftBreak", "Other"}

\* IRQ 1.  "Other" stands for releases and keys without a character.
keyboard_callback(sc) ==
    /\ IF_ /\ setup.ps2 /\ typed < MaxKeys
    /\ typed' = typed + 1
    /\ shift_down' = CASE sc = "ShiftMake"  -> TRUE
                       [] sc = "ShiftBreak" -> FALSE
                       [] OTHER             -> shift_down
    /\ IF sc \in Keys THEN buffer_push(<<sc, shift_down>>)
       ELSE UNCHANGED <<buffer, head, drops>>
    /\ pc' = Woken
    /\ UNCHANGED <<setup, tail, IF_, local, report, got>>

Mut_pit_callback_NoWake ==
    /\ IF_
    /\ UNCHANGED vars

\* IRQ 0, 100 times a second; its counter is not modelled.
pit_callback ==
    /\ IF_
    /\ pc' = Woken
    /\ UNCHANGED <<setup, ring, shift_down, IF_, local, report, got, drops,
                   typed>>

\* The USB keyboard completes its armed transfer; no interrupt is wired.
usb_report(c) ==
    /\ setup.usb /\ report = None /\ typed < MaxKeys
    /\ report' = c
    /\ typed' = typed + 1
    /\ UNCHANGED <<setup, ring, shift_down, pc, IF_, local, got, drops>>

----------------------------------------------------------------------------
(* Main context.                                                           *)

\* The `while (head == tail)' test of keyboard_getchar (text mode) and the
\* `while (keyboard_haskey())' test of desktop_run.
haskey ==
    /\ pc \in {"check", "drain"}
    /\ pc' = IF head = tail THEN "hlt" ELSE "read"
    /\ UNCHANGED <<setup, ring, shift_down, IF_, local, report, got, drops,
                   typed>>

\* `sti; hlt' in keyboard_getchar, plain `hlt' in desktop_run.
hlt ==
    /\ pc = "hlt"
    /\ pc' = "halted"
    /\ IF_' = (IF_ \/ ~setup.desktop)
    /\ UNCHANGED <<setup, ring, shift_down, local, report, got, drops, typed>>

\* keyboard_getchar and keyboard_trygetchar: read the slot, then move tail.
getchar_read ==
    /\ pc = "read"
    /\ ch' = buffer[tail]
    /\ pc' = "advance"
    /\ UNCHANGED <<setup, ring, shift_down, IF_, next, at, report, got, drops,
                   typed>>

getchar_advance ==
    /\ pc = "advance"
    /\ tail' = Succ(tail)
    /\ got' = ch
    /\ pc' = "exec"
    /\ UNCHANGED <<setup, buffer, head, shift_down, IF_, local, report, drops,
                   typed>>

\* route_key / shell_feed_char.  A line that is not `user' leaves IF alone;
\* `user' comes back through usermode_resume_kernel with IF clear.
feed_char ==
    /\ pc = "exec"
    /\ IF_' \in IF setup.user THEN {IF_, FALSE} ELSE {IF_}
    /\ pc' = LoopStart
    /\ UNCHANGED <<setup, ring, shift_down, local, report, got, drops, typed>>

\* usb_poll takes the report and hid_handle injects its character.
usb_poll ==
    /\ pc = "poll"
    /\ IF report = None
       THEN pc' = "drain" /\ UNCHANGED <<ch, report>>
       ELSE pc' = "p_next" /\ ch' = report /\ report' = None
    /\ UNCHANGED <<setup, ring, shift_down, IF_, next, at, got, drops, typed>>

(* buffer_push in the main context, one volatile access at a time.         *)

push_next ==
    /\ pc = "p_next"
    /\ next' = Succ(head)
    /\ pc' = "p_test"
    /\ UNCHANGED <<setup, ring, shift_down, IF_, at, ch, report, got, drops,
                   typed>>

push_test ==
    /\ pc = "p_test"
    /\ IF Room(next)
       THEN pc' = "p_load" /\ UNCHANGED drops
       ELSE pc' = "poll" /\ drops' = drops + 1
    /\ UNCHANGED <<setup, ring, shift_down, IF_, local, report, got, typed>>

push_load ==
    /\ pc = "p_load"
    /\ at' = head
    /\ pc' = "p_store"
    /\ UNCHANGED <<setup, ring, shift_down, IF_, next, ch, report, got, drops,
                   typed>>

push_store ==
    /\ pc = "p_store"
    /\ buffer' = [buffer EXCEPT ![at] = ch]
    /\ pc' = "p_head"
    /\ UNCHANGED <<setup, head, tail, shift_down, IF_, local, report, got,
                   drops, typed>>

push_head ==
    /\ pc = "p_head"
    /\ head' = next
    /\ pc' = "poll"
    /\ UNCHANGED <<setup, buffer, tail, shift_down, IF_, local, report, got,
                   drops, typed>>

Main == \/ haskey \/ hlt \/ getchar_read \/ getchar_advance \/ feed_char
        \/ usb_poll
        \/ push_next \/ push_test \/ push_load \/ push_store \/ push_head

Next == \/ Main
        \/ \E sc \in Scancodes : keyboard_callback(sc)
        \/ pit_callback
        \/ \E c \in Char : usb_report(c)

Spec == Init /\ [][Next]_vars

\* The CPU keeps executing and the timer keeps firing; keys may stop.
FairSpec == Spec /\ WF_vars(Main) /\ WF_vars(pit_callback)

----------------------------------------------------------------------------
(* Properties.                                                             *)

PCs == {"check", "drain", "hlt", "halted", "read", "advance", "exec", "poll",
        "p_next", "p_test", "p_load", "p_store", "p_head"}

TypeOK ==
    /\ setup \in Setups
    /\ buffer \in [Slots -> Char \cup {None}]
    /\ head \in Slots /\ tail \in Slots
    /\ shift_down \in BOOLEAN
    /\ pc \in PCs
    /\ IF_ \in BOOLEAN
    /\ next \in Slots /\ at \in Slots
    /\ ch \in Char \cup {None}
    /\ report \in Char \cup {None}
    /\ got \in Char \cup {None}
    /\ drops \in Nat /\ typed \in Nat

\* The characters between tail and head, oldest first.
Count == (head - tail) % BUF_SIZE

Contents == [k \in 1 .. Count |-> buffer[(tail + k - 1) % BUF_SIZE]]

Queue == INSTANCE CharQueue WITH Char <- Char, Cap <- BUF_SIZE - 1,
                                 q <- Contents, got <- got, drops <- drops

\* The buffer is a queue: a character is dropped on overflow only, and no
\* accepted one is lost, duplicated or reordered (keyboard.c:34 "drop on
\* overflow rather than corrupt").
IsCharQueue == Queue!Spec

\* No key is left behind: the oldest pending one is consumed, though an
\* interrupt between the empty test and hlt wakes nobody (keyboard.c:63-65,
\* desktop.c:239-244), and a report of the USB keyboard is taken where usb_poll
\* is called (xhci.h: "called from the desktop/shell input loops").
KeysServed ==
    /\ \A t \in Slots : (tail = t /\ head # t) ~> tail # t
    /\ report # None ~> report = None
=============================================================================
