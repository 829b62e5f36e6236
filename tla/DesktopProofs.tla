--------------------------- MODULE DesktopProofs ---------------------------
(***************************************************************************)
(* Theorems about Desktop, for every screen, layout, packet and report.    *)
(*                                                                         *)
(* Four invariants, each resting on the ones before it: where the pointer  *)
(* is, what the framebuffer shows, what the loop has seen of the mouse,    *)
(* and which presses of the button wait for their click.                   *)
(***************************************************************************)
EXTENDS Desktop, TLAPS

Axes == {"x", "y"}

\* The steps of mouse_inject, in which gx and gy may be off the screen.
Moving == {"load", "store", "low", "high"}

\* The steps that read the second coordinate and use the point.
Using == {"handle_click", "in_panel", "paint", "cursor_show"}

\* The steps between reading the button and remembering it in prevl.
Handling == {"click", "handle_click", "drag", "in_panel", "motion", "paint", "prev"}

Within(v, a) == v \in 0 .. Size[a] - 1

----------------------------------------------------------------------------
(* The pointer.                                                            *)

\* The bytes of a packet so far: the head, then the movement in x.
PacketInv(p) ==
    /\ p \in Seq(Heads \cup Moves) /\ Len(p) <= 2
    /\ Len(p) >= 1 => p[1] \in Heads
    /\ Len(p) = 2 => p[2] \in Moves

TypeInv ==
    /\ pos \in [Axes -> Int]
    /\ gbtn \in BOOLEAN /\ gdirty \in BOOLEAN /\ fresh \in BOOLEAN
    /\ prevl \in BOOLEAN /\ l \in BOOLEAN
    /\ PacketInv(pkt)
    /\ axis \in Axes /\ reg \in Int
    /\ rep \in [x : Int, y : Int, left : BOOLEAN]

\* While a report is applied the bounds hold for the axes already clamped, and
\* for what IRQ12 clamps in between; elsewhere for both axes, and for a
\* coordinate that has been read.
PointerInv ==
    /\ pc \notin Moving => Within(pos["x"], "x") /\ Within(pos["y"], "y")
    /\ pc \in {"low", "high"} /\ axis = "y" => Within(pos["x"], "x")
    /\ pc = "high" => pos[axis] >= 0
    /\ pc \in Using => Within(reg, axis)

LEMMA SizeValue == /\ Size["x"] = W /\ Size["y"] = H
                   /\ \A a \in Axes : Size[a] \in Nat \ {0}
  BY DesktopAssumption DEF Size, Axes

LEMMA ClampWithin ==
    ASSUME NEW a \in Axes, NEW v \in Int
    PROVE  Within(Clamp(v, a), a) /\ Clamp(v, a) \in Int
  BY SizeValue DEF Clamp, Within

LEMMA AppendElements ==
    ASSUME NEW S, NEW s \in Seq(S), NEW e \in S
    PROVE  /\ \A i \in 1 .. Len(s) : Append(s, e)[i] = s[i]
           /\ Append(s, e)[Len(s) + 1] = e
  OBVIOUS

LEMMA PacketGrows ==
    ASSUME NEW p, PacketInv(p), Len(p) = 1, NEW b \in Moves
    PROVE  PacketInv(Append(p, b))
  <1> DEFINE S == Heads \cup Moves
  <1> HIDE DEF S
  <1>1. p \in Seq(S) /\ b \in S /\ p[1] \in Heads /\ 1 \in 1 .. Len(p)
    BY DEF PacketInv, S
  <1>2. Append(p, b) \in Seq(S) /\ Len(Append(p, b)) = 2
    BY <1>1
  <1>3. /\ \A i \in 1 .. Len(p) : Append(p, b)[i] = p[i]
        /\ Append(p, b)[Len(p) + 1] = b
    BY <1>1, AppendElements
  <1> QED BY <1>1, <1>2, <1>3 DEF PacketInv, S

\* What IRQ12 does to the mouse: nothing, or the pointer is moved and clamped
\* and the button stored, and both are marked as changed.
LEMMA PacketStep ==
    ASSUME TypeInv, mouse_cb
    PROVE  /\ \/ UNCHANGED mouse
              \/ /\ pos' \in [Axes -> Int]
                 /\ Within(pos'["x"], "x") /\ Within(pos'["y"], "y")
                 /\ gbtn' \in BOOLEAN
                 /\ fresh' = (fresh \/ (gbtn' /\ ~gbtn))
                 /\ gdirty' = TRUE
           /\ PacketInv(pkt')
           /\ UNCHANGED <<g_app, fb, cur, prevl, evt, l, pc, axis, reg, rep>>
  <1>1. UNCHANGED <<g_app, fb, cur, prevl, evt, l, pc, axis, reg, rep>>
    BY DEF mouse_cb, screen
  <1>2. PacketInv(pkt)
    BY DEF TypeInv
  <1>3. ASSUME pkt = <<>>, NEW b \in Heads, pkt' = IF b.sync THEN <<b>> ELSE <<>>
        PROVE  PacketInv(pkt')
    BY <1>3 DEF PacketInv
  <1>4. ASSUME Len(pkt) = 1, NEW b \in Moves, pkt' = Append(pkt, b)
        PROVE  PacketInv(pkt')
    BY <1>2, <1>4, PacketGrows
  <1>5. ASSUME Len(pkt) = 2, NEW b \in Moves,
               pos' = [x |-> Clamp(pos.x + (pkt[2] - (IF pkt[1].xneg THEN BYTE_MOD ELSE 0)), "x"),
                       y |-> Clamp(pos.y - (b - (IF pkt[1].yneg THEN BYTE_MOD ELSE 0)), "y")],
               Button(pkt[1].left), pkt' = <<>>
        PROVE  /\ PacketInv(pkt')
               /\ pos' \in [Axes -> Int]
               /\ Within(pos'["x"], "x") /\ Within(pos'["y"], "y")
               /\ gbtn' \in BOOLEAN
               /\ fresh' = (fresh \/ (gbtn' /\ ~gbtn))
               /\ gdirty' = TRUE
    <2> DEFINE h == pkt[1]
               d == pkt[2]
    <2>1. d \in Moves /\ h.left \in BOOLEAN
      BY <1>2, <1>5 DEF PacketInv, Heads
    <2>2. PacketInv(pkt')
      BY <1>5 DEF PacketInv
    <2>3. d \in Int /\ b \in Int /\ BYTE_MOD \in Int /\ pos.x \in Int /\ pos.y \in Int
      BY <2>1, DesktopAssumption DEF TypeInv, Axes
    <2>4. /\ pos.x + (d - (IF h.xneg THEN BYTE_MOD ELSE 0)) \in Int
          /\ pos.y - (b - (IF h.yneg THEN BYTE_MOD ELSE 0)) \in Int
      BY <2>3
    <2> DEFINE nx == Clamp(pos.x + (d - (IF h.xneg THEN BYTE_MOD ELSE 0)), "x")
               ny == Clamp(pos.y - (b - (IF h.yneg THEN BYTE_MOD ELSE 0)), "y")
    <2>5. Within(nx, "x") /\ nx \in Int /\ Within(ny, "y") /\ ny \in Int
      BY <2>4, ClampWithin DEF Axes
    <2>6. pos' = [x |-> nx, y |-> ny]
      BY <1>5
    <2> HIDE DEF nx, ny
    <2>7. pos' \in [Axes -> Int] /\ pos'["x"] = nx /\ pos'["y"] = ny
      BY <2>5, <2>6 DEF Axes
    <2> QED BY <1>5, <2>1, <2>2, <2>5, <2>7 DEF Button
  <1> QED BY <1>1, <1>2, <1>3, <1>4, <1>5 DEF mouse_cb

LEMMA TypeInit == Init => TypeInv /\ PointerInv
  <1> SUFFICES ASSUME Init PROVE TypeInv /\ PointerInv
    OBVIOUS
  <1>1. pos \in [Axes -> Int] /\ pos["x"] = W \div 2 /\ pos["y"] = H \div 2
    BY DesktopAssumption DEF Init, Axes
  <1>2. Within(pos["x"], "x") /\ Within(pos["y"], "y")
    BY <1>1, DesktopAssumption, SizeValue DEF Within
  <1>3. NoReport \in [x : Int, y : Int, left : BOOLEAN]
    BY DEF NoReport
  <1>4. TypeInv
    <2>1. PacketInv(<<>>)
      BY DEF PacketInv
    <2>2. /\ gbtn \in BOOLEAN /\ gdirty \in BOOLEAN /\ fresh \in BOOLEAN
          /\ prevl \in BOOLEAN /\ l \in BOOLEAN
      BY DEF Init
    <2>3. pkt = <<>> /\ axis \in Axes /\ reg \in Int /\ rep = NoReport
      BY DEF Init, Axes
    <2> QED BY <1>1, <1>3, <2>1, <2>2, <2>3 DEF TypeInv
  <1>5. PointerInv
    BY <1>1, <1>2 DEF Init, PointerInv, Moving, Using
  <1> QED BY <1>4, <1>5

LEMMA PointerStep == TypeInv /\ PointerInv /\ [Next]_vars => TypeInv' /\ PointerInv'
  <1> SUFFICES ASSUME TypeInv, PointerInv, [Next]_vars PROVE TypeInv' /\ PointerInv'
    OBVIOUS
  <1>0. Size["x"] \in Nat \ {0} /\ Size["y"] \in Nat \ {0}
    BY SizeValue DEF Axes
  <1> USE DEF TypeInv
  <1>1. CASE mouse_cb
    <2>1. CASE UNCHANGED mouse
      BY <1>1, <2>1, PacketStep DEF mouse, PointerInv
    <2>2. CASE ~UNCHANGED mouse
      <3>1. TypeInv'
        BY <1>1, <2>2, PacketStep
      <3>2. Within(pos'["x"], "x") /\ Within(pos'["y"], "y") /\ UNCHANGED <<pc, axis, reg>>
        BY <1>1, <2>2, PacketStep
      <3>3. axis' = "x" \/ axis' = "y"
        BY <3>1 DEF Axes
      <3>4. pos'[axis'] >= 0
        BY <3>2, <3>3, <1>0 DEF Within
      <3> QED BY <3>1, <3>2, <3>4 DEF PointerInv
    <2> QED BY <2>1, <2>2
  <1>2. CASE inject_load
    BY <1>2 DEF inject_load, Inject, mouse, PointerInv, Moving, Using, Axes
  <1>3. CASE inject_store
    <2>1. reg + rep[axis] \in Int
      BY DEF Axes
    <2> QED BY <1>3, <2>1 DEF inject_store, Inject, PointerInv, Moving, Using, Axes
  <1>4. CASE inject_low
    BY <1>4, <1>0 DEF inject_low, Inject, PointerInv, Moving, Using, Axes, Within
  <1>5. CASE inject_high
    BY <1>5, <1>0 DEF inject_high, Inject, Upper, PointerInv, Moving, Using, Axes, Within
  <1>6. CASE inject_button
    BY <1>6 DEF inject_button, Inject, Button, NoReport, PointerInv, Moving, Using, Axes
  <1>7. CASE usb_poll
    BY <1>7, DesktopAssumption DEF usb_poll, Step, mouse, PointerInv, Moving, Using, Axes
  <1>8. CASE read_first
    BY <1>8 DEF read_first, Step, mouse, PointerInv, Moving, Using, Axes, Within
  <1>9. CASE handle_click \/ in_panel \/ paint \/ cursor_show
    BY <1>9 DEF handle_click, in_panel, paint, cursor_show, Use, Step, mouse, PointerInv,
                Moving, Using, Axes
  <1>10. CASE left
    BY <1>10 DEF left, Step, mouse, PointerInv, Moving, Using
  <1>11. CASE take_clear
    BY <1>11 DEF take_clear, Step, PointerInv, Moving, Using
  <1>12. CASE set_prevl
    BY <1>12 DEF set_prevl, Step, mouse, PointerInv, Moving, Using
  <1>13. CASE wake \/ clock \/ route_key \/ no_key \/ take_test \/ end
    BY <1>13 DEF wake, clock, route_key, no_key, take_test, end, Step, mouse, PointerInv,
                 Moving, Using
  <1>14. CASE UNCHANGED vars
    BY <1>14 DEF vars, PointerInv
  <1> QED BY <1>1, <1>2, <1>3, <1>4, <1>5, <1>6, <1>7, <1>8, <1>9, <1>10, <1>11, <1>12,
             <1>13, <1>14 DEF Next, mouse_inject, desktop_run

----------------------------------------------------------------------------
(* The framebuffer.                                                        *)

\* The steps that run with the arrow hidden: after mouse_take_event and until
\* cursor_show.
Composing == {"left", "show", "cursor_show"} \cup Handling

\* A screen with the arrow hidden and nothing of it left behind.
Clean(s) ==
    /\ s.cur.vis = FALSE /\ DOMAIN s.cur = {"vis", "at", "save"}
    /\ s.fb = [c \in Cells |-> "scene"]

\* A screen with the arrow, and what belongs under it saved.
Covered(s) ==
    /\ s.cur.vis = TRUE /\ DOMAIN s.cur = {"vis", "at", "save"}
    /\ s.cur.at \in Cells
    /\ s.cur.save = [c \in Arrow(s.cur.at) |-> "scene"]
    /\ s.fb = [c \in Cells |-> IF c \in Arrow(s.cur.at) THEN "arrow" ELSE "scene"]

\* The arrow is hidden while something is being drawn, which evt says or the
\* step does, and shown otherwise.
ScreenInv ==
    /\ evt \in BOOLEAN
    /\ evt \/ pc \in Composing => Clean(Now)
    /\ ~evt /\ pc \notin Composing => Covered(Now)
    /\ pc \in Handling \cup {"left"} => evt
    /\ pc = "hlt" => ~evt

LEMMA DrawClean ==
    ASSUME NEW s, Clean(s), NEW R
    PROVE  Clean(Draw(s, R))
  BY DEF Clean, Draw

LEMMA HiddenClean ==
    ASSUME NEW s, Covered(s)
    PROVE  Clean(Hidden(s))
  BY DEF Clean, Covered, Hidden

LEMMA ShownCovered ==
    ASSUME NEW s, Clean(s), NEW p \in Cells
    PROVE  Covered(Shown(s, p))
  BY DEF Clean, Covered, Shown, Hidden, Arrow

LEMMA BecomesClean ==
    ASSUME NEW s, Clean(s), Becomes(s)
    PROVE  Clean(Now')
  BY DEF Clean, Becomes, Now

\* The hide before the first drawing of an iteration leaves a clean screen.
LEMMA OpenedClean ==
    ASSUME ScreenInv, evt \/ pc \notin Composing
    PROVE  Clean(Opened)
  BY HiddenClean DEF ScreenInv, Opened

\* An application given a clean screen leaves one.
LEMMA AppsClean ==
    ASSUME NEW s, Clean(s)
    PROVE  /\ \A t \in KeyScreens(s) : Clean(t)
           /\ \A t \in ClickScreens(s) : Clean(t)
           /\ \A t \in app_paint_motion(s, Point) : Clean(t)
  <1>1. Clean(Draw(s, Panel)) /\ Clean(Draw(s, Cells))
    BY DrawClean
  <1>2. \A t \in app_paint_motion(s, Point) : Clean(t)
    BY <1>1 DEF app_paint_motion
  <1>3. \A t \in app_paint_click(s, Point) : Clean(t)
    BY <1>1, <1>2 DEF app_paint_click
  <1>4. \A t \in app_settings_click(s) : Clean(t)
    BY <1>1 DEF app_settings_click, desktop_set_theme
  <1>5. /\ \A t \in shell_feed_char(s) : Clean(t)
        /\ \A t \in app_calc_key(s) : Clean(t)
        /\ \A t \in app_notes_key(s) : Clean(t)
        /\ \A t \in app_calc_click(s) : Clean(t)
        /\ \A t \in app_files_click(s) : Clean(t)
    BY <1>1 DEF shell_feed_char, app_calc_key, app_notes_key, app_calc_click, app_files_click
  <1>6. \A t \in KeyScreens(s) : Clean(t)
    <2>1. \/ KeyScreens(s) = shell_feed_char(s) \/ KeyScreens(s) = app_calc_key(s)
          \/ KeyScreens(s) = app_notes_key(s) \/ KeyScreens(s) = {s}
      BY DEF KeyScreens
    <2> QED BY <2>1, <1>5
  <1>7. \A t \in ClickScreens(s) : Clean(t)
    <2>1. \/ ClickScreens(s) = app_calc_click(s) \/ ClickScreens(s) = app_files_click(s)
          \/ ClickScreens(s) = app_paint_click(s, Point)
          \/ ClickScreens(s) = app_settings_click(s) \/ ClickScreens(s) = {s}
      BY DEF ClickScreens
    <2> QED BY <2>1, <1>3, <1>4, <1>5
  <1> QED BY <1>2, <1>6, <1>7

LEMMA OpenAppClean ==
    ASSUME NEW s, Clean(s), NEW app, desktop_open_app(s, app)
    PROVE  Clean(Now')
  BY DrawClean, BecomesClean DEF desktop_open_app

LEMMA ScreenInit == Init => ScreenInv
  <1> SUFFICES ASSUME Init PROVE ScreenInv
    OBVIOUS
  <1>1. Clean(Now)
    BY DEF Init, Clean, Now
  <1>2. evt = FALSE /\ pc = "show"
    BY DEF Init
  <1> QED BY <1>1, <1>2 DEF ScreenInv, Composing, Handling

LEMMA PointOnScreen ==
    ASSUME TypeInv, PointerInv, pc \in Using
    PROVE  Point \in Cells
  <1>1. Within(reg, axis) /\ Within(pos["x"], "x") /\ Within(pos["y"], "y")
    BY DEF PointerInv, Using, Moving
  <1>2. axis = "x" \/ axis = "y"
    BY DEF TypeInv, Axes
  <1> QED BY <1>1, <1>2, SizeValue DEF Within, Point, Cells

LEMMA ScreenStep ==
    TypeInv /\ PointerInv /\ ScreenInv /\ [Next]_vars => ScreenInv'
  <1> SUFFICES ASSUME TypeInv, PointerInv, ScreenInv, [Next]_vars PROVE ScreenInv'
    OBVIOUS
  <1> USE DEF ScreenInv, Composing, Handling
  <1>1. CASE UNCHANGED <<fb, cur, evt>> /\ UNCHANGED pc
    BY <1>1 DEF Now
  <1>2. CASE mouse_inject
    BY <1>2 DEF mouse_inject, inject_load, inject_store, inject_low, inject_high, inject_button,
                Inject, screen, Now
  <1>3. CASE wake \/ usb_poll \/ no_key \/ take_test \/ set_prevl \/ end
    BY <1>3 DEF wake, usb_poll, no_key, take_test, set_prevl, end, Step, screen, Now
  <1>4. CASE left \/ read_first \/ in_panel
    BY <1>4 DEF left, read_first, in_panel, Use, Step, screen, Now
  <1>5. CASE clock
    <2>1. CASE UNCHANGED <<evt, screen>>
      BY <1>5, <2>1 DEF clock, Step, screen, Now
    <2>2. CASE evt' = TRUE /\ Becomes(draw_clock)
      <3>1. Clean(draw_clock)
        BY <1>5, OpenedClean, DrawClean DEF clock, Step, draw_clock
      <3>2. Clean(Now')
        BY <2>2, <3>1, BecomesClean
      <3> QED BY <1>5, <2>2, <3>2 DEF clock, Step
    <2> QED BY <1>5, <2>1, <2>2 DEF clock
  <1>6. CASE route_key
    <2>1. Clean(Opened)
      BY <1>6, OpenedClean DEF route_key, Step
    <2>2. Clean(Now')
      BY <1>6, <2>1, AppsClean, OpenAppClean, BecomesClean DEF route_key
    <2> QED BY <1>6, <2>2 DEF route_key, Step
  <1>7. CASE take_clear
    <2>1. Clean(Opened)
      BY <1>7, OpenedClean DEF take_clear, Step
    <2>2. Clean(Now')
      BY <1>7, <2>1, BecomesClean DEF take_clear
    <2> QED BY <1>7, <2>2 DEF take_clear, Step
  <1>8. CASE handle_click
    <2>1. Clean(Now) /\ evt
      BY <1>8 DEF handle_click, Use, Step
    <2>2. Clean(Now')
      <3>1. CASE UNCHANGED <<g_app, screen>>
        BY <2>1, <3>1 DEF screen, Now
      <3>2. CASE desktop_open_app(Now, Dock[Point])
        BY <2>1, <3>2, OpenAppClean
      <3>3. CASE \E s \in ClickScreens(Now) : Becomes(s)
        BY <2>1, <3>3, AppsClean, BecomesClean
      <3> QED BY <1>8, <3>1, <3>2, <3>3 DEF handle_click
    <2> QED BY <1>8, <2>1, <2>2 DEF handle_click, Use, Step
  <1>9. CASE paint
    <2>1. Clean(Now) /\ evt
      BY <1>9 DEF paint, Use, Step
    <2>2. Clean(Now')
      BY <1>9, <2>1, AppsClean, BecomesClean DEF paint
    <2> QED BY <1>9, <2>1, <2>2 DEF paint, Use, Step
  <1>10. CASE cursor_show
    <2>1. Clean(Now) /\ Point \in Cells
      BY <1>10, PointOnScreen DEF cursor_show, Use, Step, Using
    <2>2. Covered(Shown(Now, Point))
      BY <2>1, ShownCovered
    <2>3. Covered(Now')
      BY <1>10, <2>2 DEF cursor_show, Becomes, Covered, Now
    <2> QED BY <1>10, <2>3 DEF cursor_show, Use, Step
  <1>11. CASE mouse_cb
    BY <1>1, <1>11, PacketStep
  <1>12. CASE UNCHANGED vars
    BY <1>1, <1>12 DEF vars
  <1> QED BY <1>2, <1>3, <1>4, <1>5, <1>6, <1>7, <1>8, <1>9, <1>10, <1>11, <1>12
          DEF Next, desktop_run

----------------------------------------------------------------------------
(* What the loop has seen of the mouse.                                    *)

\* The state of the button the loop saw last: in l until it is in prevl.
Last == IF pc \in Handling THEN l ELSE prevl

\* With gdirty clear, what the loop read since it cleared gdirty is still what
\* the mouse says: the button after it was read, and the position the arrow
\* was drawn at or is about to be drawn at.  mouse_inject is about to set
\* gdirty and is left out.
SeenInv ==
    ~gdirty =>
        /\ pc # "clear"
        /\ pc \notin Moving \cup {"button", "left"} => Last = gbtn
        /\ pc = "cursor_show" => reg = pos[axis]
        /\ pc \notin Moving \cup Composing \cup {"button"} /\ ~evt =>
               cur.at = <<pos["x"], pos["y"]>>

LEMMA SeenInit == Init => SeenInv
  BY DEF Init, SeenInv

LEMMA SeenStep ==
    TypeInv /\ ScreenInv /\ SeenInv /\ [Next]_vars => SeenInv'
  <1> SUFFICES ASSUME TypeInv, ScreenInv, SeenInv, [Next]_vars, ~gdirty' PROVE SeenInv'
    BY DEF SeenInv
  <1> USE DEF SeenInv, Last, Moving, Composing, Handling
  <1>1. CASE UNCHANGED vars
    BY <1>1 DEF vars
  <1>2. CASE mouse_cb
    BY <1>2, PacketStep DEF mouse
  <1>3. CASE mouse_inject
    BY <1>3 DEF mouse_inject, inject_load, inject_store, inject_low, inject_high, inject_button,
                Inject, Button, mouse
  <1>4. CASE wake \/ usb_poll \/ no_key \/ take_test \/ set_prevl \/ end
    BY <1>4 DEF wake, usb_poll, no_key, take_test, set_prevl, end, Step, screen, mouse, ScreenInv
  <1>5. CASE clock \/ route_key
    BY <1>5 DEF clock, route_key, Step, screen, mouse
  <1>6. CASE take_clear
    BY <1>6 DEF take_clear, Step
  <1>7. CASE left
    BY <1>7 DEF left, Step
  <1>8. CASE read_first
    BY <1>8 DEF read_first, Step, screen, mouse
  <1>9. CASE handle_click \/ in_panel \/ paint
    BY <1>9 DEF handle_click, in_panel, paint, Use, Step, mouse, ScreenInv
  <1>10. CASE cursor_show
    <2>1. pc = "cursor_show" /\ ~gdirty /\ UNCHANGED <<pos, gbtn, prevl>> /\ pc' = "hlt"
      BY <1>10 DEF cursor_show, Use, Step, mouse
    <2>2. axis = "x" \/ axis = "y"
      BY DEF TypeInv, Axes
    <2>3. Point = <<pos["x"], pos["y"]>>
      BY <2>1, <2>2 DEF Point
    <2>4. cur'.at = Point
      BY <1>10 DEF cursor_show, Becomes, Shown
    <2> QED BY <2>1, <2>3, <2>4
  <1> QED BY <1>1, <1>2, <1>3, <1>4, <1>5, <1>6, <1>7, <1>8, <1>9, <1>10 DEF Next, desktop_run

----------------------------------------------------------------------------
(* Presses of the button.                                                  *)

\* A press the loop has not seen is marked.
PressInv == gbtn /\ ~Last => fresh

LEMMA PressStep == TypeInv /\ PressInv /\ [Next]_vars => PressInv'
  <1> SUFFICES ASSUME TypeInv, PressInv, [Next]_vars PROVE PressInv'
    OBVIOUS
  <1> USE DEF PressInv, Last, Handling, TypeInv
  <1>1. CASE UNCHANGED vars
    BY <1>1 DEF vars
  <1>2. CASE mouse_cb
    BY <1>2, PacketStep DEF mouse
  <1>3. CASE mouse_inject
    BY <1>3 DEF mouse_inject, inject_load, inject_store, inject_low, inject_high, inject_button,
                Inject, Button, mouse
  <1>4. CASE wake \/ usb_poll \/ clock \/ route_key \/ no_key \/ take_test \/ set_prevl \/ end
    BY <1>4 DEF wake, usb_poll, clock, route_key, no_key, take_test, set_prevl, end, Step, mouse
  <1>5. CASE take_clear
    BY <1>5 DEF take_clear, Step
  <1>6. CASE left
    BY <1>6 DEF left, Step
  <1>7. CASE read_first
    BY <1>7 DEF read_first, Step, mouse
  <1>8. CASE handle_click \/ in_panel \/ paint \/ cursor_show
    BY <1>8 DEF handle_click, in_panel, paint, cursor_show, Use, Step, mouse
  <1> QED BY <1>1, <1>2, <1>3, <1>4, <1>5, <1>6, <1>7, <1>8 DEF Next, desktop_run

----------------------------------------------------------------------------
(* The theorems.                                                           *)

\* The inductive invariant of the pointer and the event loop.
DesktopInv == TypeInv /\ PointerInv /\ ScreenInv /\ SeenInv /\ PressInv

LEMMA DesktopInductive == Spec => []DesktopInv
  <1>1. Init => DesktopInv
    <2>1. Init => PressInv
      BY DEF Init, PressInv
    <2> QED BY <2>1, TypeInit, ScreenInit, SeenInit DEF DesktopInv
  <1>2. DesktopInv /\ [Next]_vars => DesktopInv'
    BY PointerStep, ScreenStep, SeenStep, PressStep DEF DesktopInv
  <1> QED BY <1>1, <1>2, PTL DEF Spec

\* Whatever bytes IRQ12 brings and wherever it interrupts mouse_inject, every
\* position the event loop uses is on the screen.
THEOREM PointerOnScreen == Spec => []OnScreen
  <1>1. DesktopInv => OnScreen
    <2> SUFFICES ASSUME DesktopInv PROVE OnScreen
      OBVIOUS
    <2>1. pc \notin Moving => <<pos.x, pos.y>> \in Cells
      BY SizeValue DEF DesktopInv, PointerInv, Within, Cells
    <2>2. pc \in Using => Point \in Cells
      BY PointOnScreen DEF DesktopInv
    <2>3. cur.vis => cur.at \in Cells
      BY DEF DesktopInv, ScreenInv, Clean, Covered, Now
    <2> QED BY <2>1, <2>2, <2>3 DEF OnScreen, Moving, Using
  <1> QED BY <1>1, DesktopInductive, PTL

\* cursor_hide and cursor_show restore and save exactly what the applications
\* drew, in every interleaving of the clock, the keys and the mouse.
THEOREM ScreenKept == Spec => []ScreenIntact
  <1>1. DesktopInv => ScreenIntact
    <2> SUFFICES ASSUME DesktopInv PROVE ScreenIntact
      OBVIOUS
    <2>1. Clean(Now) \/ Covered(Now)
      BY DEF DesktopInv, ScreenInv
    <2> QED BY <2>1 DEF ScreenIntact, Clean, Covered, Now
  <1> QED BY <1>1, DesktopInductive, PTL

\* mouse_take_event clears gdirty before the mouse is read, so that no change of
\* it is left unseen when the CPU halts.
THEOREM NothingUnseen == Spec => []QuietMeansSeen
  <1>1. DesktopInv => QuietMeansSeen
    <2> SUFFICES ASSUME DesktopInv, pc = "hlt", ~gdirty
                 PROVE  cur.vis /\ cur.at = <<pos.x, pos.y>> /\ prevl = gbtn
      BY DEF QuietMeansSeen
    <2>1. ~evt /\ Covered(Now)
      BY DEF DesktopInv, ScreenInv, Composing, Handling
    <2>2. cur.vis
      BY <2>1 DEF Covered, Now
    <2>3. cur.at = <<pos.x, pos.y>> /\ prevl = gbtn
      BY <2>1 DEF DesktopInv, SeenInv, Last, Moving, Composing, Handling
    <2> QED BY <2>2, <2>3
  <1> QED BY <1>1, DesktopInductive, PTL

\* prevl keeps the button the loop saw last, so a held button clicks once.
THEOREM ClickPerPress == Spec => NoGhostClick
  <1>1. DesktopInv /\ [Next]_vars => [pc = "left" /\ pc' = "click" => fresh]_vars
    <2> SUFFICES ASSUME DesktopInv, Next, pc = "left", pc' = "click" PROVE fresh
      OBVIOUS
    <2>1. left
      <3>1. ~mouse_cb
        BY PacketStep DEF DesktopInv
      <3>2. ~mouse_inject
        BY DEF mouse_inject, inject_load, inject_store, inject_low, inject_high, inject_button, Inject
      <3>3. ~(wake \/ usb_poll \/ clock \/ route_key \/ no_key \/ take_test \/ set_prevl \/ end)
        BY DEF wake, usb_poll, clock, route_key, no_key, take_test, set_prevl, end, Step
      <3>4. ~(take_clear \/ read_first)
        BY DEF take_clear, read_first, Step
      <3>5. ~(handle_click \/ in_panel \/ paint \/ cursor_show)
        BY DEF handle_click, in_panel, paint, cursor_show, Use, Step
      <3> QED BY <3>1, <3>2, <3>3, <3>4, <3>5 DEF Next, desktop_run
    <2>2. gbtn /\ ~prevl
      BY <2>1 DEF left, Step
    <2> QED BY <2>2 DEF DesktopInv, PressInv, Last, Handling
  <1> QED BY <1>1, DesktopInductive, PTL DEF Spec, NoGhostClick
===========================================================================
