-------------------------------- MODULE Boot --------------------------------
(***************************************************************************)
(* How kernel_main (kernel/core/kernel.c) brings up memory and the display *)
(* on a machine: pmm_init, paging, the xHCI controller's registers, the    *)
(* framebuffer; then the shell's page commands and the desktop's drawing.  *)
(* The other subsystems touch none of this state.                          *)
(***************************************************************************)
EXTENDS Pmm, Lfb

CONSTANTS
    Machines,       \* what a machine may offer: boot, fb, slots, xbar
    XHCI_BYTES,     \* bytes of registers xhci_init maps
    VGA_DEFAULT,    \* address assumed when PCI lists no display
    Coords, Sizes, Radii,   \* arguments of the drawing calls
    Glyphs, Scales,
    CON_W, CON_H, CON_Y, CON_LINE   \* the console of the fixed window

\* The start of the 4 MiB region that holds phys.
RegionStart(phys) == phys - (phys % FOURMB)

\* npts regions from that of phys on: "far above the low identity map"
\* (vmm.c:71) and within 32 bits.
IsAbove(phys, npts) ==
    /\ phys \in Nat
    /\ phys # 0 => /\ VMM_NPTS * FOURMB <= RegionStart(phys)
                   /\ RegionStart(phys) + npts * FOURMB <= SPACE

ASSUME MachineAssumption ==
    /\ XHCI_BYTES \in Nat
    /\ \A m \in Machines :
          LET vga == pci_find_vga_lfb(m.slots, VGA_DEFAULT)
          IN /\ IsAbove(m.xbar, MmioTables(m.xbar, XHCI_BYTES))
             /\ IsAbove(vga, LfbTables(vga, VbeBytes))
             /\ {m.fb.w, m.fb.h, m.fb.pitch} \subseteq Nat
             /\ IsAbove(m.fb.addr, LfbTables(m.fb.addr, FbBytes(m.fb)))
             /\ m.fb.pitch * m.fb.h + VMM_PAGE_SIZE < SPACE
             /\ m.fb.addr < SPACE /\ m.fb.w * BYTES_PP < SPACE

ASSUME DrawAssumption ==
    /\ Coords \cup Sizes \subseteq Int /\ Radii \cup Scales \subseteq Nat
    /\ Glyphs \subseteq SUBSET ((0 .. GLYPH_W - 1) \X (0 .. GLYPH_H - 1))
    /\ {CON_W, CON_H, CON_Y, CON_LINE} \subseteq Nat

VARIABLES
    machine,   \* the machine (never changes)
    stage      \* where kernel_main stands

bootVars == <<vars, vmmVars, lfbVars, machine, stage>>

BootInit ==
    /\ machine \in Machines
    /\ Init /\ mbi = machine.boot
    /\ VmmInit /\ LfbInit
    /\ stage = "pmm"

memory ==
    /\ stage = "pmm" /\ pmm_init
    /\ stage' = IF phase' = "ready" THEN "vmm_init" ELSE "pmm"
    /\ UNCHANGED <<vmmVars, lfbVars, machine>>

paging ==
    /\ \/ stage = "vmm_init" /\ vmm_init /\ stage' = "vmm_enable"
       \/ stage = "vmm_enable" /\ vmm_enable /\ stage' = "xhci"
    /\ UNCHANGED <<vars, lfbVars, machine>>

\* xhci_init gives up without a controller or without its registers mapped.
xhci_init ==
    /\ stage = "xhci" /\ stage' = "display"
    /\ IF machine.xbar # 0 /\ MmioMaps(machine.xbar, XHCI_BYTES)
       THEN vmm_map_mmio(machine.xbar, XHCI_BYTES)
       ELSE UNCHANGED vmmVars
    /\ UNCHANGED <<vars, lfbVars, machine>>

\* desktop_start; without a framebuffer the text shell runs.
desktop_start ==
    /\ stage = "display" /\ stage' = "up"
    /\ lfb_init_auto(machine.fb, pci_find_vga_lfb(machine.slots, VGA_DEFAULT))
    /\ UNCHANGED <<vars, machine>>

\* A call that draws, and its return; one primitive runs at a time.
draws(c, words) ==
    /\ stage = "up" /\ lfb.active /\ call = <<"none">>
    /\ call' = c /\ touched' = words
    /\ UNCHANGED <<vars, vmmVars, lfb, machine, stage>>

drawn ==
    /\ stage = "up" /\ call # <<"none">>
    /\ call' = <<"none">> /\ touched' = {}
    /\ UNCHANGED <<vars, vmmVars, lfb, machine, stage>>

\* The desktop, its applications and the console draw wherever their fixed
\* sizes put them, on the screen or off it.
draw ==
    \E x, y \in Coords :
        \/ \E w, h \in Sizes :
              \/ draws(<<"fill", x, y, w, h>>, Words(lfb_fill(x, y, w, h)))
              \/ draws(<<"fill", x, y, w, h>>, Words(lfb_gradient_v(x, y, w, h)))
              \/ w > 0 /\ h > 0 /\ draws(<<"rect", x, y, w, h>>, Words(lfb_rect(x, y, w, h)))
              \/ \E r \in Radii :
                    draws(<<"round", x, y, w, h, r>>, Words(lfb_round_fill(x, y, w, h, r)))
        \/ \E r \in Radii : draws(<<"disc", x, y, r>>, Words(lfb_disc(x, y, r)))
        \/ \E x1, y1 \in Coords :
              draws(<<"line", x, y, x1, y1>>, Words(lfb_line(x, y, x1, y1)))
        \/ \E g \in Glyphs, opaque \in BOOLEAN, s \in Scales :
              draws(<<"char", x, y, g, opaque, s>>, Words(lfb_char(x, y, g, opaque, s)))

\* The terminal scrolls its part of the window, placed as desktop_draw does.
ConsoleX == Half(lfb.W - CON_W)

ConsoleFits == CON_W <= lfb.W /\ CON_Y + CON_H <= lfb.H

scroll ==
    draws(<<"scroll">>, lfb_scroll_up(ConsoleX, CON_Y, CON_W, CON_H, CON_LINE))

\* allocpage and freepage, typed into the shell.
pages ==
    /\ stage = "up" /\ call = <<"none">>
    /\ pmm_alloc_frame \/ \E a \in 0 .. AddrSpace - 1 : pmm_free_frame(a)
    /\ UNCHANGED <<vmmVars, lfbVars, machine, stage>>

BootNext == memory \/ paging \/ xhci_init \/ desktop_start
            \/ draw \/ scroll \/ drawn \/ pages

BootSpec == BootInit /\ [][BootNext]_bootVars

----------------------------------------------------------------------------
(* Property.                                                               *)

\* ScreenIsMapped for everything the desktop does, scrolling included once the
\* screen holds the window: lfb_scroll_up does not clip.
DrawsInWindow == (call = <<"scroll">> => ConsoleFits) => ScreenIsMapped
============================================================================
