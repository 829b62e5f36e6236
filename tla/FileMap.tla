------------------------------ MODULE FileMap ------------------------------
(***************************************************************************)
(* What the RAM filesystem promises (kernel/fs/ramfs_core.h): a map from   *)
(* names to contents.  A write replaces the content of the file it names,  *)
(* creating it if need be, and touches no other; a write that fails        *)
(* changes nothing.                                                        *)
(***************************************************************************)
CONSTANTS Names, Contents, Absent, NoRequest

VARIABLES
    content,
    asked       \* the latest request, <<name, content>>

vars == <<content, asked>>

Init ==
    /\ content = [n \in Names |-> Absent]
    /\ asked = NoRequest

\* A request for a name that is none of Names can only fail.
Write ==
    /\ asked' # NoRequest
    /\ asked'[1] \in Names /\ asked'[2] \in Contents
    /\ content' = [content EXCEPT ![asked'[1]] = asked'[2]]

Fail ==
    /\ asked' # NoRequest
    /\ asked'[2] \in Contents
    /\ UNCHANGED content

Next == Write \/ Fail

Spec == Init /\ [][Next]_vars
============================================================================
