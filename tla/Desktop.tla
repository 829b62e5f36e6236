------------------------------ MODULE Desktop ------------------------------
(***************************************************************************)
(* The pointer of the THU Desktop: the PS/2 and USB mouse state of         *)
(* kernel/drivers/mouse.c and the event loop of kernel/gui/desktop.c.      *)
(*                                                                         *)
(* mouse_cb runs on IRQ12 between any two steps of the loop, which reads   *)
(* gx, gy, gbtn and gdirty one at a time.  The screen is a grid of cells,  *)
(* the arrow covers a cell and its right neighbour; a cell shows what the  *)
(* applications last drew there ("scene"), the arrow, or something older   *)
(* ("stale").  What an application draws is not modelled, only where.      *)
(***************************************************************************)
EXTENDS Integers, Sequences

CONSTANTS
    W, H,          \* the screen, in cells
    BYTE_MOD,      \* values of a byte of a PS/2 packet (256 in the kernel)
    Moves,         \* movement bytes a PS/2 mouse may send
    Reports,       \* reports a USB mouse may send
    Clock,         \* cells of the clock
    Panel,         \* cells of the window's content
    Dock           \* icons of the dock: a function from cells to applications

Cells == (0 .. W - 1) \X (0 .. H - 1)

\* The first byte of a packet: bit 3, the left button, the two sign bits.
Heads == [sync : BOOLEAN, left : BOOLEAN, xneg : BOOLEAN, yneg : BOOLEAN]

ASSUME DesktopAssumption ==
    /\ W \in Nat \ {0} /\ H \in Nat \ {0} /\ BYTE_MOD \in Nat \ {0}
    /\ Moves \subseteq 0 .. BYTE_MOD - 1
    /\ Reports \subseteq [x : Int, y : Int, left : BOOLEAN]
    /\ Clock \subseteq Cells /\ Panel \subseteq Cells /\ DOMAIN Dock \subseteq Cells

VARIABLES
    pos,       \* gx and gy: a function of the axis
    gbtn,      \* the left button
    gdirty,    \* something changed since mouse_take_event
    pkt,       \* bytes of an unfinished packet
    g_app,     \* the application on screen
    fb,        \* what each cell of the framebuffer shows
    cur,       \* [vis, at, save]: cur_vis, cur_x and cur_y, cur_save
    prevl, evt, l,   \* locals of desktop_run
    pc,        \* the next step of the loop
    axis,      \* the axis that step is about
    reg,       \* a coordinate read and not yet used
    rep,       \* the USB report being applied
    fresh      \* history: the button went down since the last click

mouse == <<pos, gbtn, gdirty, fresh>>
screen == <<fb, cur>>
vars == <<pos, gbtn, gdirty, pkt, g_app, fb, cur, prevl, evt, l, pc, axis, reg,
          rep, fresh>>

NoReport == [x |-> 0, y |-> 0, left |-> FALSE]

Size == [x |-> W, y |-> H]

\* The start of desktop_run: mouse_init has put the pointer in the middle of
\* the screen and enabled IRQ12, the terminal is open, cursor_show comes next.
Init ==
    /\ pos = [x |-> W \div 2, y |-> H \div 2]
    /\ gbtn = FALSE /\ gdirty = TRUE /\ pkt = <<>> /\ fresh = FALSE
    /\ g_app = "terminal"
    /\ fb = [c \in Cells |-> "scene"]
    /\ cur = [vis |-> FALSE, at |-> <<0, 0>>, save |-> <<>>]
    /\ prevl = FALSE /\ evt = FALSE /\ l = FALSE
    /\ pc = "show" /\ axis = "x" /\ reg = 0 /\ rep = NoReport

----------------------------------------------------------------------------
(* mouse.c.                                                                *)

Clamp(v, a) == IF v < 0 THEN 0 ELSE IF v > Size[a] - 1 THEN Size[a] - 1 ELSE v

\* Definitions named Mut_... are faults seeded to show that a property can
\* fail; nothing else uses them.
Mut_Button_OnlyOnChange(b) ==
    /\ gbtn' = b
    /\ fresh' = (fresh \/ (b /\ ~gbtn))
    /\ gdirty' = (gdirty \/ b # gbtn)

Button(b) ==
    /\ gbtn' = b
    /\ fresh' = (fresh \/ (b /\ ~gbtn))
    /\ gdirty' = TRUE

\* IRQ12 delivers one byte; a first byte without bit 3 is skipped.
mouse_cb ==
    /\ \/ /\ pkt = <<>>
          /\ \E b \in Heads : pkt' = IF b.sync THEN <<b>> ELSE <<>>
          /\ UNCHANGED mouse
       \/ /\ Len(pkt) = 1
          /\ \E b \in Moves : pkt' = Append(pkt, b)
          /\ UNCHANGED mouse
       \/ /\ Len(pkt) = 2
          /\ \E b \in Moves :
                LET dx == pkt[2] - (IF pkt[1].xneg THEN BYTE_MOD ELSE 0)
                    dy == b - (IF pkt[1].yneg THEN BYTE_MOD ELSE 0)
                IN pos' = [x |-> Clamp(pos.x + dx, "x"), y |-> Clamp(pos.y - dy, "y")]
          /\ Button(pkt[1].left)
          /\ pkt' = <<>>
    /\ UNCHANGED <<g_app, screen, prevl, evt, l, pc, axis, reg, rep>>

\* mouse_inject, called by usb_poll with interrupts on: the sums are stored,
\* then the bounds are applied to what is then in gx and gy.
Inject(from, to, nextAxis) ==
    /\ pc = from /\ pc' = to /\ axis' = nextAxis
    /\ UNCHANGED <<pkt, g_app, screen, prevl, evt, l>>

inject_load ==
    /\ Inject("load", "store", axis)
    /\ reg' = pos[axis]
    /\ UNCHANGED <<mouse, rep>>

inject_store ==
    /\ IF axis = "x" THEN Inject("store", "load", "y") ELSE Inject("store", "low", "x")
    /\ pos' = [pos EXCEPT ![axis] = reg + rep[axis]]
    /\ reg' = 0
    /\ UNCHANGED <<gbtn, gdirty, fresh, rep>>

inject_low ==
    /\ Inject("low", "high", axis)
    /\ pos' = [pos EXCEPT ![axis] = IF @ < 0 THEN 0 ELSE @]
    /\ UNCHANGED <<gbtn, gdirty, fresh, reg, rep>>

Mut_Upper_OffByOne(v, a) == IF v > Size[a] THEN Size[a] ELSE v

Upper(v, a) == IF v > Size[a] - 1 THEN Size[a] - 1 ELSE v

inject_high ==
    /\ IF axis = "x" THEN Inject("high", "low", "y") ELSE Inject("high", "button", "x")
    /\ pos' = [pos EXCEPT ![axis] = Upper(@, axis)]
    /\ UNCHANGED <<gbtn, gdirty, fresh, reg, rep>>

inject_button ==
    /\ Inject("button", "poll", "x")
    /\ Button(rep.left)
    /\ rep' = NoReport
    /\ UNCHANGED <<pos, reg>>

----------------------------------------------------------------------------
(* Drawing: each operator gives the screen, a record [fb, cur], after it.  *)

Now == [fb |-> fb, cur |-> cur]

\* The cells of the arrow at p that are on the screen.
Arrow(p) == {p, <<p[1] + 1, p[2]>>} \cap Cells

\* What was drawn is the scene; a copy kept under the arrow is out of date.
Draw(s, R) ==
    [fb  |-> [c \in Cells |-> IF c \in R THEN "scene" ELSE s.fb[c]],
     cur |-> [s.cur EXCEPT !.save = [c \in DOMAIN @ |->
                 IF c \in R /\ @[c] = "scene" THEN "stale" ELSE @[c]]]]

\* cursor_hide: lfb_blit_put of cur_save.
Hidden(s) ==
    IF ~s.cur.vis THEN s
    ELSE [fb  |-> [c \in Cells |-> IF c \in DOMAIN s.cur.save THEN s.cur.save[c]
                                   ELSE s.fb[c]],
          cur |-> [s.cur EXCEPT !.vis = FALSE]]

\* cursor_show at p: lfb_blit_get of what is under it, then the arrow.
Shown(s0, p) ==
    LET s == Hidden(s0)
    IN [fb  |-> [c \in Cells |-> IF c \in Arrow(p) THEN "arrow" ELSE s.fb[c]],
        cur |-> [vis |-> TRUE, at |-> p, save |-> [c \in Arrow(p) |-> s.fb[c]]]]

Becomes(s) == fb' = s.fb /\ cur' = s.cur

\* The hide that comes before the first drawing of an iteration.
Opened == IF evt THEN Now ELSE Hidden(Now)

\* The sets of screens an application may leave, having drawn or not.
app_calc_key(s) == {s, Draw(s, Panel)}

app_notes_key(s) == {s, Draw(s, Panel)}

shell_feed_char(s) == {s, Draw(s, Panel)}

app_calc_click(s) == {s, Draw(s, Panel)}

app_files_click(s) == {s, Draw(s, Panel)}

app_paint_motion(s, p) == IF p \in Panel THEN {s, Draw(s, Panel)} ELSE {s}

\* A colour of the palette, the Clear button, or the start of a stroke.
app_paint_click(s, p) == {s, Draw(s, Panel)} \cup app_paint_motion(s, p)

\* A theme repaints the desktop and reopens the application.
desktop_set_theme(s) == Draw(s, Cells)

app_settings_click(s) == {s, Draw(s, Panel), desktop_set_theme(s)}

\* The title bar, the window's content and the dock.
desktop_open_app(s, app) ==
    /\ g_app' = app
    /\ Becomes(Draw(s, Panel \cup DOMAIN Dock))

----------------------------------------------------------------------------
(* desktop_run.                                                            *)

\* One step of the loop, which leaves the mouse to mouse.c.
Step(from, to) ==
    /\ pc = from /\ pc' = to
    /\ UNCHANGED <<pkt>>

wake ==
    /\ Step("hlt", "poll")
    /\ UNCHANGED <<mouse, g_app, screen, prevl, evt, l, axis, reg, rep>>

\* usb_poll: a report of a USB mouse, or no more reports.
usb_poll ==
    /\ \/ /\ Step("poll", "clock") /\ rep' = rep
       \/ /\ Step("poll", "load") /\ rep' \in Reports
    /\ axis' = "x"
    /\ UNCHANGED <<mouse, g_app, screen, prevl, evt, l, reg>>

Mut_draw_clock_Shown == Draw(Now, Clock)

draw_clock == Draw(Opened, Clock)

\* The clock is drawn when a second has passed since the last time.
clock ==
    /\ Step("clock", "keys")
    /\ \/ evt' = TRUE /\ Becomes(draw_clock)
       \/ UNCHANGED <<evt, screen>>
    /\ UNCHANGED <<mouse, g_app, prevl, l, axis, reg, rep>>

\* A key: Esc returns to the terminal, others go to the application.
KeyScreens(s) == CASE g_app = "terminal" -> shell_feed_char(s)
                   [] g_app = "calc"     -> app_calc_key(s)
                   [] g_app = "notes"    -> app_notes_key(s)
                   [] OTHER              -> {s}

route_key ==
    /\ Step("keys", "keys")
    /\ \/ g_app # "terminal" /\ desktop_open_app(Opened, "terminal")
       \/ \E s \in KeyScreens(Opened) : Becomes(s) /\ UNCHANGED g_app
    /\ evt' = TRUE
    /\ UNCHANGED <<mouse, prevl, l, axis, reg, rep>>

no_key ==
    /\ Step("keys", "take")
    /\ UNCHANGED <<mouse, g_app, screen, prevl, evt, l, axis, reg, rep>>

\* mouse_take_event reads gdirty, then clears it.
take_test ==
    /\ IF gdirty THEN Step("take", "clear") ELSE Step("take", "end")
    /\ UNCHANGED <<mouse, g_app, screen, prevl, evt, l, axis, reg, rep>>

take_clear ==
    /\ Step("clear", "left")
    /\ gdirty' = FALSE
    /\ evt' = TRUE /\ Becomes(Opened)
    /\ UNCHANGED <<pos, gbtn, fresh, g_app, prevl, l, axis, reg, rep>>

\* mouse_left; the branch it decides.
left ==
    /\ l' = gbtn
    /\ IF gbtn /\ ~prevl THEN Step("left", "click") /\ fresh' = FALSE
       ELSE /\ IF gbtn /\ g_app = "paint" THEN Step("left", "drag")
               ELSE Step("left", "prev")
            /\ UNCHANGED fresh
    /\ UNCHANGED <<pos, gbtn, gdirty, g_app, screen, prevl, evt, axis, reg, rep>>

\* mouse_x and mouse_y as arguments: one is read, in an order C does not fix,
\* and IRQ12 may come before the other is.
read_first ==
    /\ \/ Step("click", "handle_click") \/ Step("drag", "in_panel")
       \/ Step("motion", "paint") \/ Step("show", "cursor_show")
    /\ axis' \in {"x", "y"}
    /\ reg' = pos[axis']
    /\ UNCHANGED <<mouse, g_app, screen, prevl, evt, l, rep>>

\* The point read, when the second coordinate is read now.
Point == IF axis = "x" THEN <<reg, pos.y>> ELSE <<pos.x, reg>>

\* The step that reads the second coordinate and uses the point.
Use(from, to) ==
    /\ Step(from, to)
    /\ axis' = "x" /\ reg' = 0
    /\ UNCHANGED <<mouse, rep>>

\* A click on an icon opens its application; in the window it goes to the
\* application.
ClickScreens(s) == CASE g_app = "calc"     -> app_calc_click(s)
                     [] g_app = "files"    -> app_files_click(s)
                     [] g_app = "paint"    -> app_paint_click(s, Point)
                     [] g_app = "settings" -> app_settings_click(s)
                     [] OTHER              -> {s}

handle_click ==
    /\ Use("handle_click", "prev")
    /\ \/ /\ Point \in DOMAIN Dock
          /\ desktop_open_app(Now, Dock[Point])
       \/ /\ Point \in Panel \ DOMAIN Dock
          /\ \E s \in ClickScreens(Now) : Becomes(s)
          /\ UNCHANGED g_app
       \/ /\ Point \notin Panel \cup DOMAIN Dock
          /\ UNCHANGED <<g_app, screen>>
    /\ UNCHANGED <<prevl, evt, l>>

\* A held button in Paint: inside the window the position is read again and
\* the stroke continues there.
in_panel ==
    /\ Use("in_panel", IF Point \in Panel THEN "motion" ELSE "prev")
    /\ UNCHANGED <<g_app, screen, prevl, evt, l>>

paint ==
    /\ Use("paint", "prev")
    /\ \E s \in app_paint_motion(Now, Point) : Becomes(s)
    /\ UNCHANGED <<g_app, prevl, evt, l>>

Mut_set_prevl_OnRelease ==
    /\ Step("prev", "end")
    /\ prevl' = (prevl /\ l) /\ l' = FALSE
    /\ UNCHANGED <<mouse, g_app, screen, evt, axis, reg, rep>>

set_prevl ==
    /\ Step("prev", "end")
    /\ prevl' = l /\ l' = FALSE
    /\ UNCHANGED <<mouse, g_app, screen, evt, axis, reg, rep>>

end ==
    /\ IF evt THEN Step("end", "show") ELSE Step("end", "hlt")
    /\ UNCHANGED <<mouse, g_app, screen, prevl, evt, l, axis, reg, rep>>

cursor_show ==
    /\ Use("cursor_show", "hlt")
    /\ Becomes(Shown(Now, Point))
    /\ evt' = FALSE
    /\ UNCHANGED <<g_app, prevl, l>>

mouse_inject ==
    inject_load \/ inject_store \/ inject_low \/ inject_high \/ inject_button

desktop_run ==
    \/ wake \/ usb_poll \/ clock \/ route_key \/ no_key \/ take_test \/ take_clear
    \/ left \/ read_first \/ handle_click \/ in_panel \/ paint
    \/ set_prevl \/ end \/ cursor_show

Next == mouse_cb \/ mouse_inject \/ desktop_run

Spec == Init /\ [][Next]_vars

----------------------------------------------------------------------------
(* Properties.                                                             *)

\* Whatever bytes and reports arrive, and wherever IRQ12 interrupts
\* mouse_inject, a position the loop uses is on the screen (mouse.h: "clamped
\* to the screen").
OnScreen ==
    /\ pc \notin {"load", "store", "low", "high"} => <<pos.x, pos.y>> \in Cells
    /\ pc \in {"handle_click", "in_panel", "paint", "cursor_show"} => Point \in Cells
    /\ cur.vis => cur.at \in Cells

\* The arrow leaves no trace: it is drawn over what it covers only while it is
\* shown, and what was saved from under it is still what belongs there, so every
\* other cell shows what the applications drew (desktop.c, "composited").
ScreenIntact ==
    /\ \A c \in Cells : fb[c] = IF cur.vis /\ c \in Arrow(cur.at) THEN "arrow"
                                ELSE "scene"
    /\ cur.vis => \A c \in Arrow(cur.at) : cur.save[c] = "scene"

\* No mouse event is lost between the loop's separate reads: if the CPU halts
\* with nothing marked as changed, the arrow is where the mouse is and the last
\* state of the button has been acted on (mouse_take_event: "1 once if anything
\* changed since the last call").
QuietMeansSeen ==
    pc = "hlt" /\ ~gdirty =>
        cur.vis /\ cur.at = <<pos.x, pos.y>> /\ prevl = gbtn

\* A click is taken only if the button has gone down since the last one: moving
\* with the button held does not click again (desktop_run, prevl).
NoGhostClick == [][pc = "left" /\ pc' = "click" => fresh]_vars
============================================================================
