----------------------------- MODULE MC_Keyboard -----------------------------
(* Instances of Keyboard for TLC. *)
EXTENDS Keyboard

M(d, p, b, r) == [desktop |-> d, ps2 |-> p, usb |-> b, user |-> r]

\* One keyboard: PS/2 with the desktop loop, PS/2 with the text loop and the
\* `user' command, USB with the desktop loop.
OneKeyboard == {M(TRUE, TRUE, FALSE, FALSE), M(FALSE, TRUE, FALSE, TRUE),
                M(TRUE, FALSE, TRUE, FALSE)}

\* Both keyboards on the desktop.
TwoKeyboards == {M(TRUE, TRUE, TRUE, FALSE)}
==============================================================================
