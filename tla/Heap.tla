-------------------------------- MODULE Heap --------------------------------
(***************************************************************************)
(* The kernel heap: kernel/mm/kheap_core.c and the kmalloc family of       *)
(* kernel/mm/kheap.c.                                                      *)
(*                                                                         *)
(* Addresses are offsets into the (aligned) arena.  `starts' holds the     *)
(* blocks of the list that begins at head, next their links.  A block that *)
(* coalesce absorbs leaves its header in memory, where heap_free can still *)
(* be pointed at it, so `flag' keeps for every address what a header read  *)
(* there says: no KH_MAGIC, or the free field.  A payload that covers such *)
(* a stale header changes it, one word at a time: block_t is four words,   *)
(* KH_ALIGN two.  Payload data is never KH_MAGIC by itself.                *)
(* No interrupt handler uses the heap: calls are atomic, except that each  *)
(* iteration of coalesce's loop is a step of its own.                      *)
(***************************************************************************)
EXTENDS Integers

CONSTANTS
    ARENA,     \* bytes in the arena (1 MiB in the kernel)
    HDR,       \* sizeof(block_t)
    ALIGN,     \* KH_ALIGN
    SIZE_MOD,  \* size_t counts modulo this (2^32 in the kernel)
    Requests   \* sizes callers ask for

ASSUME LayoutAssumption ==
    /\ ALIGN \in Nat \ {0} /\ ALIGN % 2 = 0 /\ HDR = 2 * ALIGN
    /\ ARENA \in Nat /\ ARENA >= HDR + ALIGN
    /\ SIZE_MOD \in Nat /\ SIZE_MOD >= ARENA + HDR + ALIGN

ASSUME RequestAssumption == Requests \subseteq 0 .. SIZE_MOD - 1

VARIABLES
    starts,    \* addresses of the blocks in the list
    size,      \* payload bytes, by header address
    next,      \* next block, by header address, or NULL
    flag,      \* what a header at this address says, see Flags
    cur,       \* the cursor b of coalesce, NULL when no free is in progress
    req        \* history: bytes the holder of a block asked for, 0 if unheld

vars == <<starts, size, next, flag, cur, req>>

NULL == -1

Addr == 0 .. ARENA - 1

Flags == {"none", "free", "used"}

\* Where the fields `free' and `magic' of a header at a are.
FreeWord(a) == a + ALIGN

MagicWord(a) == a + ALIGN + ALIGN \div 2

End(b) == b + HDR + size[b]

\* Definitions named Mut_... are faults seeded to show that a property can
\* fail; nothing else uses them.
Mut_align_up_Down(v) == (v \div ALIGN) * ALIGN

\* (v + (a - 1)) & ~(a - 1) in size_t arithmetic.
align_up(v) == (((v + ALIGN - 1) % SIZE_MOD) \div ALIGN) * ALIGN

\* heap_init on an aligned arena of at least HDR + KH_ALIGN bytes.
Init ==
    /\ starts = {0}
    /\ size = [a \in Addr |-> IF a = 0 THEN ARENA - HDR ELSE 0]
    /\ next = [a \in Addr |-> NULL]
    /\ flag = [a \in Addr |-> IF a = 0 THEN "free" ELSE "none"]
    /\ cur = NULL
    /\ req = [a \in Addr |-> 0]

----------------------------------------------------------------------------
(* heap_alloc.                                                             *)

Fits(b, n) == b \in starts /\ flag[b] = "free" /\ size[b] >= n

\* The list is in address order, so the first block that fits is the lowest.
FirstFit(b, n) == Fits(b, n) /\ \A c \in starts : Fits(c, n) => b <= c

Splits(b, n) == size[b] >= n + HDR + ALIGN

Mut_NewBlock_NoHeader(b, n) == b + n

NewBlock(b, n) == b + HDR + n

\* Headers after taking n bytes of block b.  A new header overwrites the magic
\* of a stale one that begins less than HDR below it.
FlagsAfter(b, n) ==
    [a \in Addr |->
        IF a = b THEN "used"
        ELSE IF ~Splits(b, n) THEN flag[a]
        ELSE IF a = NewBlock(b, n) THEN "free"
        ELSE IF a > NewBlock(b, n) - HDR /\ a < NewBlock(b, n) THEN "none"
        ELSE flag[a]]

Mut_Carve_HeaderForgotten(b, n) ==
    LET nb == NewBlock(b, n)
    IN IF Splits(b, n)
       THEN /\ starts' = starts \cup {nb}
            /\ size' = [size EXCEPT ![b] = n, ![nb] = size[b] - n]
            /\ next' = [next EXCEPT ![b] = nb, ![nb] = next[b]]
       ELSE UNCHANGED <<starts, size, next>>

\* Split b when the rest can hold a header and a minimum payload.
Carve(b, n) ==
    LET nb == NewBlock(b, n)
    IN IF Splits(b, n)
       THEN /\ starts' = starts \cup {nb}
            /\ size' = [size EXCEPT ![b] = n, ![nb] = size[b] - n - HDR]
            /\ next' = [next EXCEPT ![b] = nb, ![nb] = next[b]]
       ELSE UNCHANGED <<starts, size, next>>

Full(n) == \A b \in starts : ~Fits(b, n)

\* The headers fl once n bytes of the payload of block b are zero: a stale one
\* there loses its magic, or keeps it and reads "in use".
Zeroed(fl, b, n) ==
    LET payload == b + HDR .. b + HDR + n - 1
    IN [a \in Addr |->
           IF MagicWord(a) \in payload THEN "none"
           ELSE IF FreeWord(a) \in payload /\ fl[a] # "none" THEN "used"
           ELSE fl[a]]

\* heap_alloc(n) for a caller that wants `asked' bytes and zeroes `fill' of them.
\* It returns NULL in the first case and b + HDR in the second.
alloc(n, asked, fill) ==
    \/ /\ n = 0 \/ Full(align_up(n))
       /\ UNCHANGED <<starts, size, next, flag, req>>
    \/ /\ n # 0
       /\ \E b \in starts :
              /\ FirstFit(b, align_up(n))
              /\ Carve(b, align_up(n))
              /\ flag' = Zeroed(FlagsAfter(b, align_up(n)), b, fill)
              /\ req' = [req EXCEPT ![b] = asked]

kmalloc(n) ==
    /\ cur = NULL
    /\ alloc(n, n, 0)
    /\ UNCHANGED cur

\* Sizes that align_up wraps to 0: heap_alloc hands out an empty block.
Wrapping(n) == n > SIZE_MOD - ALIGN

\* The product wraps; the division test rejects products that did.  A total that
\* align_up wraps is followed only to NULL: its zero-fill would overwrite the
\* whole address space.
kcalloc(m, n) ==
    /\ cur = NULL
    /\ LET total == (m * n) % SIZE_MOD
       IN IF m # 0 /\ total \div m # n
          THEN UNCHANGED <<starts, size, next, flag, req>>
          ELSE /\ Wrapping(total) => Full(align_up(total))
               /\ alloc(total, m * n, total)
    /\ UNCHANGED cur

\* The bytes the holder of b may write.
Payload(b) == {x \in b + HDR .. End(b) - 1 : x < b + HDR + req[b]}

\* A holder writes its payload, and with it a word of a stale header at a: the
\* magic is gone, or the free field is whatever was written.
caller_write(a) ==
    /\ cur = NULL /\ flag[a] # "none"
    /\ \E b \in starts :
           \/ /\ MagicWord(a) \in Payload(b)
              /\ flag' = [flag EXCEPT ![a] = "none"]
           \/ /\ FreeWord(a) \in Payload(b)
              /\ \E f \in {"free", "used"} : flag' = [flag EXCEPT ![a] = f]
    /\ UNCHANGED <<starts, size, next, cur, req>>

----------------------------------------------------------------------------
(* heap_free and heap_realloc.                                             *)

\* The magic test and the double-free guard.
Releasable(a) == flag[a] = "used"

\* kfree of any address with a whole header below it; NULL returns at once.  A
\* stale header can pass both tests: what is set then is a word of somebody's
\* payload, and coalesce runs all the same.
kfree(p) ==
    /\ cur = NULL
    /\ LET a == p - HDR
       IN IF Releasable(a)
          THEN /\ flag' = [flag EXCEPT ![a] = "free"]
               /\ req' = [req EXCEPT ![a] = 0]
               /\ cur' = 0
          ELSE UNCHANGED <<flag, req, cur>>
    /\ UNCHANGED <<starts, size, next>>

\* The headers fl once the payload of block a is copied to that of b: stale
\* headers in it are copied too.
Copied(fl, a, b) ==
    [x \in Addr |->
        IF MagicWord(x) \in b + HDR .. b + HDR + size[a] - 1
        THEN fl[x - b + a] ELSE fl[x]]

\* krealloc of a block the caller holds; krealloc(NULL, n) is kmalloc(n) and
\* krealloc(p, 0) is kfree(p).  The old block is copied, then freed, after the
\* new one was taken.  heap_realloc does not test `free'; nothing in the kernel
\* calls it with a freed pointer.
krealloc(p, n) ==
    LET a == p - HDR
    IN /\ cur = NULL /\ req[a] # 0 /\ n # 0
       /\ \/ /\ size[a] >= align_up(n)
             /\ req' = [req EXCEPT ![a] = n]
             /\ UNCHANGED <<starts, size, next, flag, cur>>
          \/ /\ size[a] < align_up(n) /\ Full(align_up(n))
             /\ UNCHANGED <<starts, size, next, flag, cur, req>>
          \/ /\ size[a] < align_up(n)
             /\ \E b \in starts :
                    /\ FirstFit(b, align_up(n))
                    /\ Carve(b, align_up(n))
                    /\ flag' = [Copied(FlagsAfter(b, align_up(n)), a, b)
                                   EXCEPT ![a] = "free"]
                    /\ req' = [req EXCEPT ![b] = n, ![a] = 0]
             /\ cur' = 0

Mut_Merges_UsedToo(b) == flag[b] = "free"

Merges(b) == flag[b] = "free" /\ flag[next[b]] = "free"

Mut_coalesce_Skips ==
    /\ cur # NULL
    /\ \/ /\ next[cur] # NULL /\ Merges(cur)
          /\ starts' = starts \ {next[cur]}
          /\ size' = [size EXCEPT ![cur] = size[cur] + HDR + size[next[cur]],
                                  ![next[cur]] = 0]
          /\ next' = [next EXCEPT ![cur] = next[next[cur]],
                                  ![next[cur]] = NULL]
          /\ cur' = next[next[cur]]
       \/ /\ next[cur] # NULL /\ ~Merges(cur)
          /\ cur' = next[cur]
          /\ UNCHANGED <<starts, size, next>>
       \/ /\ next[cur] = NULL
          /\ cur' = NULL
          /\ UNCHANGED <<starts, size, next>>
    /\ UNCHANGED <<flag, req>>

Mut_coalesce_Stays ==
    /\ cur # NULL
    /\ \/ /\ next[cur] # NULL /\ Merges(cur)
          /\ starts' = starts \ {next[cur]}
          /\ size' = [size EXCEPT ![cur] = size[cur] + HDR + size[next[cur]],
                                  ![next[cur]] = 0]
          /\ next' = [next EXCEPT ![cur] = next[next[cur]],
                                  ![next[cur]] = NULL]
          /\ UNCHANGED cur
       \/ /\ next[cur] # NULL /\ ~Merges(cur)
          /\ UNCHANGED <<starts, size, next, cur>>
       \/ /\ next[cur] = NULL
          /\ cur' = NULL
          /\ UNCHANGED <<starts, size, next>>
    /\ UNCHANGED <<flag, req>>

\* One iteration: absorb the next block and stay (it may merge again), move
\* on, or leave the loop.  size and next of an absorbed header are not read
\* again; they are cleared to keep equivalent states together.
coalesce ==
    /\ cur # NULL
    /\ \/ /\ next[cur] # NULL /\ Merges(cur)
          /\ starts' = starts \ {next[cur]}
          /\ size' = [size EXCEPT ![cur] = size[cur] + HDR + size[next[cur]],
                                  ![next[cur]] = 0]
          /\ next' = [next EXCEPT ![cur] = next[next[cur]],
                                  ![next[cur]] = NULL]
          /\ UNCHANGED cur
       \/ /\ next[cur] # NULL /\ ~Merges(cur)
          /\ cur' = next[cur]
          /\ UNCHANGED <<starts, size, next>>
       \/ /\ next[cur] = NULL
          /\ cur' = NULL
          /\ UNCHANGED <<starts, size, next>>
    /\ UNCHANGED <<flag, req>>

Next ==
    \/ \E n \in Requests : kmalloc(n)
    \/ \E m, n \in Requests : kcalloc(m, n)
    \/ \E a \in Addr : caller_write(a)
    \/ \E p \in HDR .. ARENA - 1 : kfree(p)
    \/ \E p \in HDR .. ARENA - 1, n \in Requests : krealloc(p, n)
    \/ coalesce

Spec == Init /\ [][Next]_vars

\* A call that has started runs on.
FairSpec == Spec /\ WF_vars(coalesce)

----------------------------------------------------------------------------
(* Properties.                                                             *)

TypeOK ==
    /\ starts \subseteq Addr
    /\ size \in [Addr -> 0 .. ARENA]
    /\ next \in [Addr -> Addr \cup {NULL}]
    /\ flag \in [Addr -> Flags]
    /\ cur \in Addr \cup {NULL}
    /\ req \in [Addr -> Nat]

\* heap_check never fails, and no byte of the arena is lost: following next
\* from the first block, blocks abut and the last one ends where the arena
\* does, even between the iterations of coalesce.
Tiled ==
    /\ 0 \in starts
    /\ \A b \in starts :
          \/ next[b] \in starts /\ next[b] = End(b)
          \/ next[b] = NULL /\ End(b) = ARENA

\* Two holders never share a byte, and none holds a byte of a header of the
\* list, which its writes and frees of stale headers in it could change.
HoldersDisjoint ==
    \A b \in Addr, c \in starts : req[b] # 0 /\ b < c => End(b) <= c

\* The blocks of the list that are in use are exactly those handed out and not
\* given back: no kfree of a foreign pointer or of one freed before, also one
\* that passes both tests on a stale header in a holder's payload, takes a
\* block from its holder, and none is leaked by krealloc or coalesce.
UsedMeansHeld ==
    \A a \in Addr : a \in starts /\ flag[a] = "used" <=> req[a] # 0

\* A holder has at least the bytes it asked for, through kcalloc's product and
\* krealloc's copy too: heap_alloc answers "NULL if no space"
\* (kheap_core.h:25).  The only exception are the sizes that wrap.
LargeEnough ==
    \A b \in Addr : req[b] # 0 => size[b] >= req[b] \/ Wrapping(req[b])

\* When no call is in progress no two free blocks are adjacent, so freeing
\* everything gives one block back (kheap_core.c:6-7 "freeing everything
\* reclaims the arena back to one block").
Coalesced ==
    cur = NULL =>
        \A b \in starts : flag[b] = "free" /\ next[b] # NULL
                              => flag[next[b]] # "free"

\* heap_free returns: the loop, which may shrink the list, comes to its end.
FreeReturns == cur # NULL ~> cur = NULL
=============================================================================
