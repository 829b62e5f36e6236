------------------------------ MODULE MC_Traps ------------------------------
(* Instances of Traps for TLC: the timer, line 7, where the PIC reports      *)
(* spurious requests and no driver listens, and the mouse on the slave.      *)
EXTENDS Traps

\* The text shell with the `user' command, and the desktop without it.
Sound == {[desktop |-> FALSE, user |-> TRUE], [desktop |-> TRUE, user |-> FALSE]}

DesktopUser == {[desktop |-> TRUE, user |-> TRUE]}
=============================================================================
