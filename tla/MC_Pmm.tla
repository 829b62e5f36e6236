------------------------------- MODULE MC_Pmm -------------------------------
(***************************************************************************)
(* Instances of Pmm for TLC: 8 frames of 4 bytes stand for the 2^20 frames *)
(* of 4 KiB; frame 0 is the low 1 MiB; the kernel image covers frame 1 and *)
(* half of frame 2.                                                        *)
(***************************************************************************)
EXTENDS Pmm

R(a, l, av) == [addr |-> a, len |-> l, avail |-> av]

Boot(a, ma, es) ==
    [magic |-> TRUE, addr |-> a, mem |-> FALSE, upper |-> 0, map |-> TRUE,
     mmap_addr |-> ma, mmap_len |-> Len(es), entries |-> es]

NoMapBoot(mg, mem, up) ==
    [magic |-> mg, addr |-> 1, mem |-> mem, upper |-> up, map |-> FALSE,
     mmap_addr |-> 0, mmap_len |-> 0, entries |-> <<>>]

MapsOver(Rs) == {<<>>} \cup {<<r>> : r \in Rs} \cup {<<r, q>> : r, q \in Rs}

\* Regions: low RAM with a partial frame; RAM that ends in mid-frame; RAM that
\* starts in mid-frame; RAM across and RAM above 4 GiB; RAM that follows a
\* partial frame; a reserved hole.
AllRegions ==
    {R(0, 3, TRUE), R(4, 14, TRUE), R(14, 12, TRUE), R(24, 16, TRUE),
     R(36, 8, TRUE), R(20, 6, TRUE), R(12, 8, FALSE)}

\* Boot structures in the low 1 MiB or, unaligned, above it.
MCBootInfos ==
    {Boot(a, ma, es) : a \in {1, 13}, ma \in {2, 21}, es \in MapsOver(AllRegions)}
        \cup {NoMapBoot(FALSE, TRUE, 16), NoMapBoot(TRUE, FALSE, 0),
              NoMapBoot(TRUE, TRUE, 14), NoMapBoot(TRUE, TRUE, 28)}
=============================================================================
