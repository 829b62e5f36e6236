-------------------------------- MODULE Lfb --------------------------------
(***************************************************************************)
(* The linear framebuffer, kernel/drivers/lfb.c: how the display is chosen *)
(* and mapped, and which words of it each drawing primitive touches.       *)
(*                                                                         *)
(* Colours are left out; a primitive is the set of pixels it writes.       *)
(* `touched' is a history variable: the words the last call read or wrote, *)
(* as offsets from the start of the framebuffer.                           *)
(***************************************************************************)
EXTENDS Vmm, Sequences, FiniteSetsExt

CONSTANTS
    BYTES_PP,       \* bytes of a 32bpp pixel
    VBE_W, VBE_H,   \* the mode set on the Bochs/QEMU device (1024x768)
    GLYPH_W, GLYPH_H   \* cells of a font glyph (8x16)

ASSUME DisplayAssumption ==
    {BYTES_PP, VBE_W, VBE_H, GLYPH_W, GLYPH_H} \subseteq Nat \ {0}

VARIABLES
    lfb,      \* active, fbp, W, H, pitch_px
    call,     \* history: the last drawing call and its arguments
    touched

lfbVars == <<lfb, call, touched>>

LfbInit ==
    /\ lfb = [active |-> FALSE, fbp |-> 0, W |-> 0, H |-> 0, pitch_px |-> 0]
    /\ call = <<"none">> /\ touched = {}

\* Slots of PCI bus 0 that hold a device; the first display controller with a
\* memory BAR, or QEMU's default address.
pci_find_vga_lfb(slots, default) ==
    LET hits == {i \in DOMAIN slots : slots[i].display /\ slots[i].memory}
    IN IF hits = {} THEN default ELSE slots[Min(hits)].bar0

\* fbp .. active, then lfb_clear, which writes W * H words from the start.
use(addr, w, h, stride) ==
    /\ lfb' = [active |-> TRUE, fbp |-> addr, W |-> w, H |-> h, pitch_px |-> stride]
    /\ call' = <<"clear">> /\ touched' = 0 .. w * h - 1

VbeBytes == VBE_W * VBE_H * BYTES_PP + VMM_PAGE_SIZE

ASSUME ModeAssumption == VbeBytes <= vmm_lfb_capacity

\* lfb_init on the device at addr; the mode is set without asking whether the
\* device has one.
lfb_init(addr) ==
    IF addr # 0 /\ LfbMaps(addr, VbeBytes)
    THEN vmm_map_lfb(addr, VbeBytes) /\ use(addr, VBE_W, VBE_H, VBE_W)
    ELSE UNCHANGED <<vmmVars, lfbVars>>

\* Definitions named Mut_... are faults seeded to show that a property can
\* fail; nothing else uses them.
Mut_Clamped_Never(fb) == fb.h

\* Rows of the loader's framebuffer that lfb_init_fb keeps.
Clamped(fb) ==
    IF (fb.pitch * fb.h + VMM_PAGE_SIZE) % SPACE > vmm_lfb_capacity
    THEN (vmm_lfb_capacity - VMM_PAGE_SIZE) \div fb.pitch
    ELSE fb.h

FbBytes(fb) == (fb.pitch * Clamped(fb) + VMM_PAGE_SIZE) % SPACE

\* lfb_init_fb accepts the loader's framebuffer.
Usable(fb) ==
    /\ fb.addr # 0 /\ fb.bpp32 /\ fb.w # 0 /\ fb.h # 0
    /\ fb.pitch >= fb.w * BYTES_PP
    /\ Clamped(fb) # 0 /\ LfbMaps(fb.addr, FbBytes(fb))

lfb_init_fb(fb) ==
    /\ vmm_map_lfb(fb.addr, FbBytes(fb))
    /\ use(fb.addr, fb.w, Clamped(fb), fb.pitch \div BYTES_PP)

\* present: the Multiboot flag; rgb: the framebuffer type.
lfb_init_auto(fb, vga) ==
    IF fb.present /\ fb.rgb /\ Usable(fb) THEN lfb_init_fb(fb) ELSE lfb_init(vga)

----------------------------------------------------------------------------
(* Drawing.                                                                *)

\* lfb_fill, with its clipping.
lfb_fill(x, y, w, h) ==
    LET x0 == IF x < 0 THEN 0 ELSE x
        y0 == IF y < 0 THEN 0 ELSE y
        w0 == IF x < 0 THEN w + x ELSE w
        h0 == IF y < 0 THEN h + y ELSE h
        w1 == IF x0 + w0 > lfb.W THEN lfb.W - x0 ELSE w0
        h1 == IF y0 + h0 > lfb.H THEN lfb.H - y0 ELSE h0
    IN {<<x0 + i, y0 + j>> : i \in 0 .. w1 - 1, j \in 0 .. h1 - 1}

lfb_pixel(x, y) ==
    IF x \in 0 .. lfb.W - 1 /\ y \in 0 .. lfb.H - 1 THEN {<<x, y>>} ELSE {}

lfb_rect(x, y, w, h) ==
    lfb_fill(x, y, w, 1) \cup lfb_fill(x, y + h - 1, w, 1)
        \cup lfb_fill(x, y, 1, h) \cup lfb_fill(x + w - 1, y, 1, h)

lfb_gradient_v(x, y, w, h) == UNION {lfb_fill(x, y + j, w, 1) : j \in 0 .. h - 1}

\* The loop stops at the first x whose successor's square exceeds n.
isqrt(n) == CHOOSE x \in 0 .. n : x * x <= n /\ (x + 1) * (x + 1) > n

\* dy > 0 means the row is one of the r at either end.
corner_inset(j, h, r) ==
    LET dy == IF j < r THEN r - j ELSE IF j >= h - r THEN r - (h - 1 - j) ELSE -1
    IN IF dy < 0 THEN 0 ELSE r - isqrt(r * r - dy * dy)

lfb_round_fill(x, y, w, h, r) ==
    LET r1 == IF r * 2 > h THEN h \div 2 ELSE r
        r2 == IF r1 * 2 > w THEN w \div 2 ELSE r1
    IN UNION {LET in == corner_inset(j, h, r2)
              IN lfb_fill(x + in, y + j, w - 2 * in, 1) : j \in 0 .. h - 1}

Mut_lfb_disc_Half(cx, cy, r) ==
    UNION {LET half == isqrt(r * r - dy * dy)
           IN lfb_fill(cx - half, cy + dy, 2 * half, 1) : dy \in (-r) .. r}

lfb_disc(cx, cy, r) ==
    UNION {LET half == isqrt(r * r - dy * dy)
           IN lfb_fill(cx - half, cy + dy, 2 * half + 1, 1) : dy \in (-r) .. r}

\* C division by 2 rounds towards 0.
Half(n) == IF n < 0 THEN -((-n) \div 2) ELSE n \div 2

\* lfb_line: the point and the error term after k turns of the loop, which
\* leaves at the end point; adx + ady turns are more than enough.
lfb_line(x0, y0, x1, y1) ==
    LET adx == IF x1 < x0 THEN x0 - x1 ELSE x1 - x0
        ady == IF y1 < y0 THEN y0 - y1 ELSE y1 - y0
        sx  == IF x1 < x0 THEN -1 ELSE 1
        sy  == IF y1 < y0 THEN -1 ELSE 1
        at[k \in Nat] ==
            IF k = 0
            THEN [x |-> x0, y |-> y0, err |-> Half(IF adx > ady THEN adx ELSE -ady)]
            ELSE LET p == at[k - 1]
                     h == p.err > -adx
                     v == p.err < ady
                 IN IF p.x = x1 /\ p.y = y1 THEN p
                    ELSE [x |-> IF h THEN p.x + sx ELSE p.x,
                          y |-> IF v THEN p.y + sy ELSE p.y,
                          err |-> p.err - (IF h THEN ady ELSE 0) + (IF v THEN adx ELSE 0)]
    IN UNION {lfb_pixel(at[k].x, at[k].y) : k \in 0 .. adx + ady}

\* A glyph is the set of its cells that are set; with a background the other
\* cells are painted too.
lfb_char(x, y, glyph, opaque, s) ==
    UNION {lfb_fill(x + c[1] * s, y + c[2] * s, s, s) :
             c \in IF opaque THEN (0 .. GLYPH_W - 1) \X (0 .. GLYPH_H - 1) ELSE glyph}

\* fbp[y * pitch_px + x].
Words(pixels) == {p[2] * lfb.pitch_px + p[1] : p \in pixels}

\* lfb_scroll_up copies the rows of its rectangle without clipping and fills
\* the gap with lfb_fill.
lfb_scroll_up(x, y, w, h, dy) ==
    {(y + j) * lfb.pitch_px + x + i : i \in 0 .. w - 1, j \in 0 .. h - 1}
        \cup Words(lfb_fill(x, y + h - dy, w, dy))

----------------------------------------------------------------------------
(* Properties.                                                             *)

\* The window starts at a 4 MiB boundary; behind the part of it that lies before
\* the framebuffer there is room for all the rows kept.
WindowReaches(size) ==
    LET before == lfb.fbp % FOURMB
    IN before = 0 \/ before + size <= vmm_lfb_capacity

\* Every word the display code touches is mapped and lies in the framebuffer
\* the loader or the device has: rows past the window are given up rather than
\* drawn ("clamp: never draw past the map", lfb.c:77), the stride is the
\* loader's and the primitives clip.  The clamp does not count the part of the
\* window before a framebuffer that is not aligned, so there this is claimed
\* only when the rows fit behind it.
ScreenIsMapped ==
    LET size == lfb.H * lfb.pitch_px * BYTES_PP
    IN lfb.active /\ WindowReaches(size) =>
         \A k \in touched :
             /\ k * BYTES_PP \in 0 .. size - 1
             /\ \A b \in 0 .. BYTES_PP - 1 : Mapped(lfb.fbp + k * BYTES_PP + b)

\* The reference: which points belong to a shape on a screen without edges.
Shape(c) ==
    LET x == c[2]  y == c[3]
        Box(w, h) == (x .. x + w - 1) \X (y .. y + h - 1)
    IN CASE c[1] = "fill" -> Box(c[4], c[5])
         [] c[1] = "rect" ->
              {p \in Box(c[4], c[5]) : p[1] \in {x, x + c[4] - 1} \/ p[2] \in {y, y + c[5] - 1}}
         [] c[1] = "disc" ->
              {p \in (x - c[4] .. x + c[4]) \X (y - c[4] .. y + c[4]) :
                  (p[1] - x) * (p[1] - x) + (p[2] - y) * (p[2] - y) <= c[4] * c[4]}
         [] c[1] = "round" ->
              LET r == Min({c[6], c[4] \div 2, c[5] \div 2})
                  In(i, n) == Max({r - i, r - (n - 1 - i), 0})
              IN {p \in Box(c[4], c[5]) :
                    LET dx == In(p[1] - x, c[4])  dy == In(p[2] - y, c[5])
                    IN dx = 0 \/ dy = 0 \/ dx * dx + dy * dy <= r * r}
         [] c[1] = "char" ->
              UNION {(x + g[1] * c[6] .. x + (g[1] + 1) * c[6] - 1)
                         \X (y + g[2] * c[6] .. y + (g[2] + 1) * c[6] - 1) :
                       g \in IF c[5] THEN (0 .. GLYPH_W - 1) \X (0 .. GLYPH_H - 1) ELSE c[4]}

Screen == (0 .. lfb.W - 1) \X (0 .. lfb.H - 1)

\* A line between two points of the screen has one pixel for each step along
\* its longer axis, both ends included, none of them more than half a pixel
\* off the ideal line.
IsLine(px, x0, y0, x1, y1) ==
    LET dx == x1 - x0  dy == y1 - y0
        n  == Max({dx, -dx, dy, -dy})
        off(p) == (p[1] - x0) * dy - (p[2] - y0) * dx
    IN /\ Cardinality(px) = n + 1 /\ {<<x0, y0>>, <<x1, y1>>} \subseteq px
       /\ \A p \in px : 2 * off(p) <= n /\ -2 * off(p) <= n

\* Whatever part of a shape falls off the screen (the fixed 820x552 window is
\* wider than a small screen), the primitives paint exactly the part that is
\* on it: row by row integer square roots give true discs and corners, and
\* every line ends at its end point (lfb.c:112-197).
ShapesAreExact ==
    CASE call[1] \in {"none", "clear", "scroll"} -> TRUE
      [] call[1] = "line" ->
           <<call[2], call[3]>> \in Screen /\ <<call[4], call[5]>> \in Screen =>
               \E px \in SUBSET Screen :
                   /\ Words(px) = touched
                   /\ IsLine(px, call[2], call[3], call[4], call[5])
      [] OTHER -> touched = Words(Shape(call) \cap Screen)
============================================================================
