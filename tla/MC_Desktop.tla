----------------------------- MODULE MC_Desktop -----------------------------
(***************************************************************************)
(* Desktop for TLC: a screen of six cells with the clock, the window and   *)
(* three icons; bytes of one bit, so that packets move by -2 .. 1; USB     *)
(* reports that leave the screen in either direction.                      *)
(***************************************************************************)
EXTENDS Desktop

MCReports == {[x |-> 2, y |-> -1, left |-> TRUE], [x |-> -1, y |-> 2, left |-> FALSE]}

MCClock == {<<2, 0>>}

MCPanel == {<<0, 0>>, <<1, 0>>}

MCDock == [c \in (0 .. 2) \X {1} |-> <<"paint", "settings", "calc">>[c[1] + 1]]
=============================================================================
