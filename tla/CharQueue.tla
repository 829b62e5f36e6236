----------------------------- MODULE CharQueue -----------------------------
(***************************************************************************)
(* What the keyboard buffer promises its reader: a queue of at most Cap    *)
(* characters, delivered once each and in the order they were accepted; a  *)
(* character is refused only when the queue is full.                       *)
(***************************************************************************)
EXTENDS Naturals, Sequences

CONSTANTS Char, Cap

VARIABLES
    q,       \* accepted, not yet delivered
    got,     \* the last character delivered
    drops    \* characters refused

vars == <<q, got, drops>>

TypeOK == q \in Seq(Char) /\ Len(q) <= Cap /\ drops \in Nat

Init == q = <<>> /\ drops = 0

Put(c) ==
    /\ Len(q) < Cap
    /\ q' = Append(q, c)
    /\ UNCHANGED <<got, drops>>

Refuse ==
    /\ Len(q) = Cap
    /\ drops' = drops + 1
    /\ UNCHANGED <<q, got>>

Get ==
    /\ q # <<>>
    /\ got' = Head(q)
    /\ q' = Tail(q)
    /\ UNCHANGED drops

Next == (\E c \in Char : Put(c)) \/ Refuse \/ Get

Spec == Init /\ [][Next]_vars
============================================================================
