------------------------------ MODULE MC_Heap ------------------------------
(* An instance of Heap for TLC: a size_t of 5 bits and a 22-byte arena.     *)
EXTENDS Heap

\* Small requests, the largest that align_up can round, and one it wraps to 0.
SomeRequests == {0, 1, 3, 5, SIZE_MOD - ALIGN, SIZE_MOD - 1}
============================================================================
