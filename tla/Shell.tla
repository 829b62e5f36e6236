------------------------------- MODULE Shell -------------------------------
(***************************************************************************)
(* The shell, kernel/shell/shell.c: the line editor, the command history   *)
(* and the commands that change the console, in the text-mode loop of      *)
(* shell_run and as the Terminal of the desktop (kernel/gui/desktop.c).    *)
(*                                                                         *)
(* A letter stands for a word: the line <<"h">> is `history', <<"d">>      *)
(* `dmesg' or `logs', <<"c">> `clear', <<"o">> an application's name,      *)
(* <<"g">> `gui'; any other line is a command that prints a line of text,  *)
(* "#".  The prompt is ">".  `ai' is followed in Ai: it prints and changes *)
(* nothing of the shell, so a behaviour is about one of the two.           *)
(***************************************************************************)
EXTENDS Ai, Console

CONSTANTS
    LINE_MAX,  \* size of the line buffer (128 in the kernel)
    HIST_MAX,  \* lines the history holds (16 in the kernel)
    Letters,   \* the characters typed
    MaxChars   \* bound on the characters printed in a behaviour

ASSUME ShellAssumption ==
    /\ LINE_MAX \in Nat \ {0} /\ HIST_MAX \in Nat \ {0} /\ MaxChars \in Nat
    /\ Letters \cap {NL, BS, " ", ">", "#"} = {}
    /\ LINE_MAX <= (ROWS - 1) * COLS  \* the prompt and a line fit on the screen

VARIABLES
    session,  \* what this behaviour is about
    mode,     \* "text": shell_run; "desktop": the event loop
    g_app,    \* the application on the screen
    out,      \* the state of Console
    s_line,   \* the line edited; s_len is its length
    hist,     \* the ring of lines
    hist_n,   \* lines ever recorded
    torn,     \* history: a letter deleted since '\n' is still on the screen
    typed     \* history: the last HIST_MAX lines, as a plain sequence

shellVars == <<mode, g_app, out, s_line, hist, hist_n, torn, typed>>

Prompt == <<">">>

shell_start(o) == kputs(o, <<"#", NL, NL>> \o Prompt)

\* desktop_open_app(APP_TERMINAL): gcon_init, the welcome line, the shell.
OpenTerminal(o) ==
    shell_start(kputs([o EXCEPT !.gcon = Cleared, !.active = TRUE], <<"#", NL>>))

\* desktop_run opens the Terminal; without a framebuffer kernel_main prints the
\* welcome and calls shell_run.  What was printed before is left out.
ShellInit ==
    /\ mode \in {"text", "desktop"}
    /\ g_app = "terminal"
    /\ out = IF mode = "text" THEN shell_start(kputs(NoOutput, <<"#", NL, NL>>))
             ELSE OpenTerminal(NoOutput)
    /\ s_line = <<>>
    /\ hist = [i \in 0 .. HIST_MAX - 1 |-> <<>>] /\ hist_n = 0
    /\ torn = FALSE /\ typed = <<>>

----------------------------------------------------------------------------
(* The history.                                                            *)

hist_record(line) ==
    IF line = <<>> THEN UNCHANGED <<hist, hist_n, typed>>
    ELSE /\ hist' = [hist EXCEPT ![hist_n % HIST_MAX] = line]
         /\ hist_n' = hist_n + 1
         /\ typed' = Latest(Append(typed, line), HIST_MAX)

\* The lines cmd_history prints, of the ring h after n lines.
Listed(h, n) ==
    LET start == IF n > HIST_MAX THEN n - HIST_MAX ELSE 0
    IN [k \in 1 .. n - start |-> h[(start + k - 1) % HIST_MAX]]

cmd_history(o, h, n) ==
    FoldLeft(LAMBDA p, line : kputs(p, line \o <<NL>>), o, Listed(h, n))

----------------------------------------------------------------------------
(* The line editor.                                                        *)

\* What the command prints, after the line has been recorded.
Printed(o, line) ==
    CASE line = <<>>    -> o
      [] line = <<"h">> -> cmd_history(o, hist', hist_n')
      [] line = <<"d">> -> klog_dump(o)
      [] line = <<"c">> -> IF o.active THEN [o EXCEPT !.gcon = Cleared]
                           ELSE [o EXCEPT !.vga = Cleared]
      [] line = <<"o">> -> [o EXCEPT !.active = FALSE]
      [] line = <<"g">> /\ mode = "desktop" -> OpenTerminal(o)
      [] OTHER          -> kputs(o, <<"#", NL>>)

\* `gui' opens the Terminal, whose shell_start prompts, and returns to
\* shell_feed_char, which prompts again.  An application takes the output off
\* the graphical console, so the prompt after it goes to the text screen.
execute ==
    /\ hist_record(s_line)
    /\ out' = kputs(Printed(kputc(out, NL), s_line), Prompt)
    /\ g_app' = IF s_line = <<"o">> THEN "other" ELSE g_app
    /\ s_line' = <<>> /\ torn' = FALSE

\* '\b'.  In column 0 the screen keeps the letter.
rubout ==
    /\ s_line # <<>>
    /\ s_line' = Front(s_line)
    /\ out' = kputc(out, BS)
    /\ torn' = (torn \/ (IF out.active THEN out.gcon ELSE out.vga).col = 0)
    /\ UNCHANGED <<g_app, hist, hist_n, typed>>

insert(c) ==
    /\ Len(s_line) < LINE_MAX - 1
    /\ s_line' = Append(s_line, c)
    /\ out' = kputc(out, c)
    /\ UNCHANGED <<g_app, hist, hist_n, torn, typed>>

\* Tab and the like are below ' '; they, a '\b' on an empty line and a letter
\* on a full one change nothing.
ignore == UNCHANGED <<g_app, out, s_line, hist, hist_n, torn, typed>>

\* On the desktop, route_key feeds the shell its characters only while the
\* Terminal is open.
shell_feed_char ==
    /\ mode = "text" \/ g_app = "terminal"
    /\ \/ out.klog_w < MaxChars /\ (execute \/ rubout \/ \E c \in Letters : insert(c))
       \/ ignore

\* Escape, or a click on the dock, at any moment of the editing.
desktop_open_app(app) ==
    /\ mode = "desktop" /\ (app = "terminal" => out.klog_w < MaxChars)
    /\ g_app' = app
    /\ IF app = "terminal"
       THEN out' = OpenTerminal(out) /\ s_line' = <<>> /\ torn' = FALSE
       ELSE out' = [out EXCEPT !.active = FALSE] /\ UNCHANGED <<s_line, torn>>
    /\ UNCHANGED <<hist, hist_n, typed>>

ShellNext ==
    /\ shell_feed_char \/ \E app \in {"terminal", "other"} : desktop_open_app(app)
    /\ UNCHANGED mode

----------------------------------------------------------------------------

SessionInit == Init /\ ShellInit /\ session \in {"ai", "shell"}

SessionNext ==
    \/ session = "ai" /\ Next /\ UNCHANGED <<shellVars, session>>
    \/ session = "shell" /\ ShellNext /\ UNCHANGED <<vars, session>>

SessionSpec == SessionInit /\ [][SessionNext]_<<vars, shellVars, session>>

----------------------------------------------------------------------------
(* Properties.                                                             *)

\* `history' lists exactly the last HIST_MAX lines that were not empty and
\* `dmesg' replays exactly the last KLOG_CAP characters printed, both oldest
\* first, wherever the rings have wrapped; a replay leaves the log as it is
\* (kprintf.c:34, "newest KLOG_CAP bytes").
LogsAreRecent ==
    /\ Listed(hist, hist_n) = typed
    /\ Captured(out) = out.recent

\* What the user sees is what Enter will run: the text on the screen before
\* the cursor ends with the prompt and the line, and nothing stands behind it
\* (docs/05_SHELL_COMMANDS.md:11, "supports backspace editing").  It is lost,
\* up to the next '\n', when a letter is deleted with the cursor in column 0,
\* where neither console moves back to the row above.
EchoIsLine ==
    LET s    == IF out.active THEN out.gcon ELSE out.vga
        Here == s.row * COLS + s.col
        At(p) == s.cells[p \div COLS][p % COLS]
        text == Prompt \o s_line
    IN (mode = "text" \/ g_app = "terminal") /\ ~torn =>
           /\ Here >= Len(text)
           /\ \A k \in 1 .. Len(text) : At(Here - Len(text) + k - 1) = text[k]
           /\ \A p \in Here .. ROWS * COLS - 1 : At(p) = " "
=============================================================================
