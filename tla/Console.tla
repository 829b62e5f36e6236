------------------------------ MODULE Console ------------------------------
(***************************************************************************)
(* Console output: kputc and the kernel log of kernel/core/kprintf.c above *)
(* the text screen of kernel/drivers/vga.c and the graphical console of    *)
(* kernel/gui/gconsole.c.                                                  *)
(*                                                                         *)
(* A screen is a matrix of characters with a cursor.  Colours, the drawn   *)
(* cursor and the serial mirror are left out, and so are '\r' and '\t',    *)
(* which the kernel never prints.  `recent' is a history variable: the     *)
(* last KLOG_CAP characters printed, as a plain sequence.                  *)
(***************************************************************************)
EXTENDS Integers, SequencesExt

CONSTANTS
    ROWS, COLS,  \* the screen (25 x 80 of VGA, 14 x 48 of the desktop)
    KLOG_CAP     \* characters the kernel log holds (8192 in the kernel)

ASSUME ConsoleAssumption ==
    /\ ROWS \in Nat \ {0} /\ COLS \in Nat \ {0} /\ KLOG_CAP \in Nat \ {0}

NL == "newline"

BS == "backspace"

Blank == [y \in 0 .. ROWS - 1 |-> [x \in 0 .. COLS - 1 |-> " "]]

Cleared == [cells |-> Blank, row |-> 0, col |-> 0]

\* Every row moves up by one and the last becomes blank; the cursor is on it.
Scrolled(s) ==
    [s EXCEPT !.cells = [y \in 0 .. ROWS - 1 |->
                            IF y < ROWS - 1 THEN s.cells[y + 1] ELSE Blank[y]],
              !.row = ROWS - 1]

\* Definitions named Mut_... are faults seeded to show that a property can
\* fail; nothing else uses them.
Mut_Erased_OneOff(s) ==
    IF s.col = 0 THEN s
    ELSE [s EXCEPT !.col = @ - 1, !.cells[s.row][s.col] = " "]

\* '\b' stays on its row: in column 0 it does nothing.
Erased(s) ==
    IF s.col = 0 THEN s
    ELSE [s EXCEPT !.col = @ - 1, !.cells[s.row][s.col - 1] = " "]

vga_putc(s, c) ==
    LET t == CASE c = NL -> [s EXCEPT !.col = 0, !.row = @ + 1]
               [] c = BS -> Erased(s)
               [] OTHER  -> [s EXCEPT !.cells[s.row][s.col] = c, !.col = @ + 1]
        u == IF t.col >= COLS THEN [t EXCEPT !.col = 0, !.row = @ + 1] ELSE t
    IN IF u.row >= ROWS THEN Scrolled(u) ELSE u

newline(s) ==
    LET t == [s EXCEPT !.col = 0, !.row = @ + 1]
    IN IF t.row >= ROWS THEN Scrolled(t) ELSE t

gcon_putc(s, c) ==
    CASE c = NL -> newline(s)
      [] c = BS -> Erased(s)
      [] OTHER  -> LET t == [s EXCEPT !.cells[s.row][s.col] = c]
                   IN IF s.col + 1 >= COLS THEN newline(t)
                      ELSE [t EXCEPT !.col = @ + 1]

----------------------------------------------------------------------------
(* kprintf.c.  o is the state of the output: the two screens, which of     *)
(* them is used, the log and the number of characters ever logged.         *)

NoOutput == [vga |-> Cleared, gcon |-> Cleared, active |-> FALSE,
             klog |-> [i \in 0 .. KLOG_CAP - 1 |-> ""], klog_w |-> 0,
             recent |-> <<>>]

\* The sink without capture.
raw_putc(o, c) ==
    IF o.active THEN [o EXCEPT !.gcon = gcon_putc(@, c)]
    ELSE [o EXCEPT !.vga = vga_putc(@, c)]

\* The last n elements of a sequence.
Latest(s, n) == IF Len(s) <= n THEN s ELSE SubSeq(s, Len(s) - n + 1, Len(s))

kputc(o, c) ==
    [raw_putc(o, c) EXCEPT !.klog[o.klog_w % KLOG_CAP] = c,
                           !.klog_w = @ + 1,
                           !.recent = Latest(Append(@, c), KLOG_CAP)]

kputs(o, s) == FoldLeft(kputc, o, s)

Mut_Captured_Unrotated(o) ==
    [k \in 1 .. Min({o.klog_w, KLOG_CAP}) |-> o.klog[k - 1]]

\* The characters that klog_dump replays, in order.
Captured(o) ==
    LET start == IF o.klog_w > KLOG_CAP THEN o.klog_w - KLOG_CAP ELSE 0
    IN [k \in 1 .. o.klog_w - start |-> o.klog[(start + k - 1) % KLOG_CAP]]

klog_dump(o) == FoldLeft(raw_putc, o, Captured(o))
=============================================================================
