------------------------------ MODULE MC_Boot ------------------------------
(***************************************************************************)
(* Machines for TLC.  The memory maps are those of MC_Pmm; to paging 8     *)
(* tables of 4 pages of 4 bytes stand for the 1024 of 4 MiB.  The two      *)
(* scales never meet.  A machine varies its memory map or its display, not *)
(* both: pmm.c and the display share nothing.                              *)
(***************************************************************************)
EXTENDS MC_Pmm, Boot

Fb(addr, w, h, pitch) ==
    [present |-> TRUE, rgb |-> TRUE, bpp32 |-> TRUE,
     addr |-> addr, w |-> w, h |-> h, pitch |-> pitch]

NoFb == [Fb(0, 0, 0, 0) EXCEPT !.present = FALSE]

Device(display, memory_bar, bar) ==
    [display |-> display, memory |-> memory_bar, bar0 |-> bar]

Machine(boot, fb, slots, xbar) ==
    [boot |-> boot, fb |-> fb, slots |-> slots, xbar |-> xbar]

\* A display whose BAR was never assigned: the text shell.
NoDisplay == <<Device(TRUE, TRUE, 0)>>

\* One pixel outside the screen to its far edge.
MCCoords == -1 .. 3

MCGlyphs == {{<<0, 0>>}, {<<1, 0>>, <<0, 1>>}}

\* Framebuffers on and off a table boundary, with padded and odd strides; of
\* the tall ones the last rows do not fit the window.  Unusable ones: not
\* 32bpp, another type, a stride too short.  The registers are before, behind
\* and far from the framebuffer.
MCMachines ==
    {Machine(b, NoFb, NoDisplay, 0) : b \in MCBootInfos}
    \cup {Machine(NoMapBoot(TRUE, FALSE, 0), fb, NoDisplay, 0) :
            fb \in {Fb(a, 3, 3, p) : a \in {64, 72}, p \in {6, 8}}
                   \cup {Fb(64, 3, 6, 7), Fb(64, 1, 20, 2), Fb(76, 2, 3, 4), Fb(104, 4, 2, 8),
                         Fb(72, 4, 5, 8)}}
    \cup {Machine(NoMapBoot(TRUE, FALSE, 0), fb, <<>>, 0) :
            fb \in {[Fb(64, 2, 2, 4) EXCEPT !.bpp32 = FALSE],
                    [Fb(64, 2, 2, 4) EXCEPT !.rgb = FALSE], Fb(64, 2, 2, 3), Fb(64, 2, 1, 40)}}
    \cup {Machine(NoMapBoot(TRUE, FALSE, 0), NoFb,
                  <<Device(FALSE, TRUE, 48), Device(TRUE, FALSE, 8), Device(TRUE, TRUE, 92)>>,
                  x) : x \in {48, 80, 124}}
=============================================================================
