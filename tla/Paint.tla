------------------------------- MODULE Paint -------------------------------
(***************************************************************************)
(* The Paint application of kernel/gui/apps.c with the part of desktop_run *)
(* (kernel/gui/desktop.c) that turns mouse events into its calls.          *)
(*                                                                         *)
(* The panel is PANEL_W by PANEL_H with the canvas at the top, the colours *)
(* and the Clear button below it.  What is on the canvas is left out: the  *)
(* discs of the latest call are in `stroke'.                               *)
(***************************************************************************)
EXTENDS Integers, Sequences

CONSTANTS
    PANEL_W, PANEL_H,
    CANVAS_H,      \* the canvas is rows 0 .. CANVAS_H-1 of the panel
    MARGIN,        \* points nearer to the edge do not draw (4)
    RADIUS,        \* of the brush (3)
    COLOURS,       \* swatches of the palette (7)
    SWATCH, GAP    \* their size and distance

ASSUME PaintAssumption ==
    /\ PANEL_W \in Nat /\ PANEL_H \in Nat /\ CANVAS_H \in 0 .. PANEL_H
    /\ MARGIN \in Nat /\ RADIUS \in 0 .. MARGIN

NoPoint == -1

VARIABLES
    pa_lx, pa_ly,  \* last stroke point, or -1
    pa_col,
    g_paint,       \* g_app = APP_PAINT
    prevl,         \* the button at the previous event
    stroke,        \* history: the discs drawn by the latest event
    trail,         \* history: the last two canvas points of this press
    inside         \* history: this press began in the panel

paintVars == <<pa_lx, pa_ly, pa_col, g_paint, prevl, stroke, trail,
               inside>>

PaintInit ==
    /\ pa_lx = NoPoint /\ pa_ly = NoPoint /\ pa_col = 0
    /\ g_paint = FALSE /\ prevl = FALSE
    /\ stroke = <<>> /\ trail = <<>> /\ inside = FALSE

\* The dock or the shell's `paint' opens it, at any time.
app_paint_open ==
    /\ g_paint' = TRUE
    /\ pa_lx' = NoPoint /\ pa_ly' = NoPoint /\ pa_col' = COLOURS - 1
    /\ stroke' = <<>> /\ trail' = <<>> /\ inside' = TRUE
    /\ UNCHANGED prevl

\* Esc, or another application.
leave_paint ==
    /\ g_paint /\ g_paint' = FALSE /\ stroke' = <<>>
    /\ UNCHANGED <<pa_lx, pa_ly, pa_col, prevl, trail, inside>>

in_panel(x, y) == x \in 0 .. PANEL_W - 1 /\ y \in 0 .. PANEL_H - 1

pa_in_canvas(x, y) ==
    x \in MARGIN .. PANEL_W - MARGIN - 1 /\ y \in MARGIN .. CANVAS_H - MARGIN - 1

\* C division rounds towards 0.
Div(a, b) == IF a < 0 THEN -((-a) \div b) ELSE a \div b

\* Definitions named Mut_... are faults seeded to show that a property can
\* fail; nothing else uses them.
Mut_Steps_Across(dx, dy) == IF dx = 0 THEN 1 ELSE IF dx < 0 THEN -dx ELSE dx

\* The longer of the two distances, at least 1.
Steps(dx, dy) ==
    CHOOSE n \in {1, dx, -dx, dy, -dy} : \A m \in {1, dx, -dx, dy, -dy} : n >= m

\* The discs between two points.
Interpolated(x0, y0, x1, y1) ==
    LET dx == x1 - x0  dy == y1 - y0  n == Steps(dx, dy)
    IN [i \in 1 .. n + 1 |-> <<x0 + Div(dx * (i - 1), n), y0 + Div(dy * (i - 1), n)>>]

\* app_paint_motion, called with lx as the last point's x.
app_paint_motion(x, y, lx) ==
    IF pa_in_canvas(x, y)
    THEN /\ stroke' = IF lx < 0 THEN << <<x, y>> >> ELSE Interpolated(lx, pa_ly, x, y)
         /\ pa_lx' = x /\ pa_ly' = y
    ELSE stroke' = <<>> /\ pa_lx' = NoPoint /\ UNCHANGED pa_ly

\* Palette entry i covers a square below the canvas; Clear is at the far end.
OnSwatch(i, x, y) ==
    /\ x \in i * (SWATCH + GAP) .. i * (SWATCH + GAP) + SWATCH - 1
    /\ y \in CANVAS_H .. CANVAS_H + SWATCH - 1

OnClear(x, y) == x >= PANEL_W - SWATCH /\ y \in CANVAS_H .. CANVAS_H + SWATCH - 1

app_paint_click(x, y) ==
    IF \E i \in 0 .. COLOURS - 1 : OnSwatch(i, x, y)
    THEN /\ \E i \in 0 .. COLOURS - 1 : OnSwatch(i, x, y) /\ pa_col' = i
         /\ stroke' = <<>> /\ pa_lx' = NoPoint /\ UNCHANGED pa_ly
    ELSE IF OnClear(x, y)
    THEN stroke' = <<>> /\ pa_lx' = NoPoint /\ UNCHANGED <<pa_ly, pa_col>>
    ELSE app_paint_motion(x, y, NoPoint) /\ UNCHANGED pa_col

Followed(x, y, l) ==
    LET before == IF l /\ prevl /\ trail # <<>> THEN <<trail[Len(trail)]>> ELSE <<>>
    IN IF l /\ pa_in_canvas(x, y) THEN Append(before, <<x, y>>) ELSE before

\* One mouse event in desktop_run: a press, a move with the button down, or
\* neither.  Points outside the panel are not passed on.
mouse_event(x, y, l) ==
    /\ prevl' = l
    /\ trail' = Followed(x, y, l)
    /\ inside' = IF l /\ ~prevl THEN in_panel(x, y) ELSE inside
    /\ IF ~(g_paint /\ l /\ in_panel(x, y))
       THEN stroke' = <<>> /\ UNCHANGED <<pa_lx, pa_ly, pa_col>>
       ELSE IF prevl
       THEN app_paint_motion(x, y, pa_lx) /\ UNCHANGED pa_col
       ELSE app_paint_click(x, y)
    /\ UNCHANGED g_paint

\* Positions one step outside the panel stand for the rest of the screen.
PaintNext ==
    \/ app_paint_open
    \/ leave_paint
    \/ \E x \in -1 .. PANEL_W, y \in -1 .. PANEL_H, l \in BOOLEAN : mouse_event(x, y, l)

----------------------------------------------------------------------------
(* Property.                                                               *)

Disc(c) ==
    {p \in (c[1] - RADIUS .. c[1] + RADIUS) \X (c[2] - RADIUS .. c[2] + RADIUS) :
        (p[1] - c[1]) * (p[1] - c[1]) + (p[2] - c[2]) * (p[2] - c[2]) <= RADIUS * RADIUS}

Near(a, b) == b[1] - a[1] \in -1 .. 1 /\ b[2] - a[2] \in -1 .. 1

\* A stroke is solid ("interpolate -> solid stroke", apps.c:227), paints the
\* canvas only, and joins two points of one press of the button, however the
\* mouse left the canvas or the panel and the application was closed and
\* opened in between.  A press that begins outside the panel is not passed on,
\* so it does not reset pa_lx: dragged into the canvas it continues the stroke
\* before.  The last part is claimed for the other presses.
StrokesAreSolid ==
    /\ \A i \in 1 .. Len(stroke) :
          Disc(stroke[i]) \subseteq (0 .. PANEL_W - 1) \X (0 .. CANVAS_H - 1)
    /\ \A i \in 1 .. Len(stroke) - 1 : Near(stroke[i], stroke[i + 1])
    /\ stroke # <<>> /\ inside =>
          {stroke[1], stroke[Len(stroke)]} \subseteq {trail[i] : i \in DOMAIN trail}
============================================================================
