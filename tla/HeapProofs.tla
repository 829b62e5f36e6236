----------------------------- MODULE HeapProofs -----------------------------
(***************************************************************************)
(* Proofs about Heap, for every arena size, header size, alignment and     *)
(* request.  The inductive invariant strengthens the properties with       *)
(* Ordered (any two blocks of the list are disjoint, held or not) and with *)
(* what coalesce has achieved below its cursor.                            *)
(***************************************************************************)
EXTENDS Heap, TLAPS

(* The invariant, as a predicate of the variables' values S, sz, nx, fl, rq  *)
(* and c, so that a call can be followed through its intermediate states.   *)

Typed(S, sz, nx, fl, rq, c) ==
    /\ S \subseteq Addr
    /\ sz \in [Addr -> 0 .. ARENA]
    /\ nx \in [Addr -> Addr \cup {NULL}]
    /\ fl \in [Addr -> Flags]
    /\ rq \in [Addr -> Nat]
    /\ c \in Addr \cup {NULL}

\* Following the links, the blocks abut and end with the arena.
Chained(S, sz, nx) ==
    /\ 0 \in S
    /\ \A b \in S : \/ nx[b] \in S /\ nx[b] = b + HDR + sz[b]
                    \/ nx[b] = NULL /\ b + HDR + sz[b] = ARENA

\* Blocks of the list never overlap.
Ordered(S, sz) == \A b, c \in S : b < c => b + HDR + sz[b] <= c

\* Headers of the list have the magic; the used ones are those of held blocks.
Headers(S, fl, rq) ==
    /\ \A b \in S : fl[b] # "none"
    /\ \A a \in Addr : rq[a] # 0 => a \in S /\ fl[a] = "used"
    /\ \A a \in S : fl[a] = "used" => rq[a] # 0

\* coalesce stands on a block of the list, and below it no two adjacent blocks
\* are free.
Swept(S, nx, fl, c) ==
    /\ c # NULL => c \in S
    /\ \A b \in S : (c = NULL \/ b < c) /\ fl[b] = "free" /\ nx[b] # NULL
                        => fl[nx[b]] # "free"

HeapOK(S, sz, nx, fl, rq, c) ==
    /\ Typed(S, sz, nx, fl, rq, c)
    /\ Chained(S, sz, nx)
    /\ Ordered(S, sz)
    /\ Headers(S, fl, rq)
    /\ Swept(S, nx, fl, c)

HeapInv == HeapOK(starts, size, next, flag, req, cur)

\* align_up of a size is a size.
LEMMA AlignUpNat ==
  ASSUME NEW n \in Nat
  PROVE  align_up(n) \in Nat
<1>1. (n + ALIGN - 1) \in Nat
  BY LayoutAssumption
<1>2. (n + ALIGN - 1) % SIZE_MOD \in Nat
  <2>1. SIZE_MOD \in Nat /\ SIZE_MOD > 0
    BY LayoutAssumption
  <2> QED BY <1>1, <2>1
<1>3. ((n + ALIGN - 1) % SIZE_MOD) \div ALIGN \in Nat
  <2> DEFINE x == (n + ALIGN - 1) % SIZE_MOD
  <2>1. x \in Nat
    BY <1>2
  <2>2. ALIGN \in Nat /\ ALIGN > 0
    BY LayoutAssumption
  <2> HIDE DEF x
  <2>3. x \div ALIGN \in Nat
    BY <2>1, <2>2
  <2> QED BY <2>3 DEF x
<1> QED
  <2> DEFINE y == ((n + ALIGN - 1) % SIZE_MOD) \div ALIGN
  <2>1. y \in Nat /\ ALIGN \in Nat
    BY <1>3, LayoutAssumption
  <2> HIDE DEF y
  <2>2. y * ALIGN \in Nat
    BY <2>1
  <2> QED BY <2>2 DEF y, align_up

\* align_up never rounds down, for the sizes it does not wrap.
LEMMA AlignUpCovers ==
  ASSUME NEW n \in Nat, ~Wrapping(n)
  PROVE  align_up(n) >= n
<1>1. /\ ALIGN \in Nat /\ ALIGN > 0 /\ SIZE_MOD \in Nat
      /\ n <= SIZE_MOD - ALIGN
  BY LayoutAssumption DEF Wrapping
<1>2. (n + ALIGN - 1) % SIZE_MOD = n + ALIGN - 1
  BY <1>1
<1> DEFINE x == n + ALIGN - 1
           q == x \div ALIGN
<1>3. x \in Nat /\ align_up(n) = q * ALIGN /\ x = n + ALIGN - 1
  BY <1>1, <1>2 DEF align_up
<1> HIDE DEF x
<1>4. /\ q \in Nat
      /\ x - ALIGN < ALIGN * q
  BY <1>1, <1>3
<1> HIDE DEF q
<1>5. ALIGN * q \in Nat /\ q * ALIGN = ALIGN * q
  BY <1>1, <1>4
<1> QED BY <1>1, <1>3, <1>4, <1>5

\* heap_init establishes the invariant.
LEMMA HeapInit == Init => HeapInv
<1> SUFFICES ASSUME Init PROVE HeapInv
  OBVIOUS
<1> USE LayoutAssumption DEF Init, Addr, NULL
<1>1. Typed(starts, size, next, flag, req, cur)
  BY DEF Typed, Flags
<1>2. Chained(starts, size, next)
  BY DEF Chained
<1>3. Ordered(starts, size)
  BY DEF Ordered
<1>4. Headers(starts, flag, req) /\ Swept(starts, next, flag, cur)
  BY DEF Headers, Swept
<1> QED BY <1>1, <1>2, <1>3, <1>4 DEF HeapInv, HeapOK

\* A block lies inside the arena.
LEMMA InsideArena ==
  ASSUME NEW S, NEW sz, NEW nx, NEW fl, NEW rq, NEW c,
         HeapOK(S, sz, nx, fl, rq, c), NEW b \in S
  PROVE  /\ b \in Addr /\ sz[b] \in 0 .. ARENA
         /\ b + HDR + sz[b] <= ARENA
         /\ nx[b] # NULL => nx[b] \in S /\ nx[b] = b + HDR + sz[b]
         /\ nx[b] = NULL => b + HDR + sz[b] = ARENA
<1>1. b \in Addr /\ sz[b] \in 0 .. ARENA
  BY DEF HeapOK, Typed
<1>2. CASE nx[b] = NULL
  <2>1. ~(nx[b] \in S)
    BY <1>2, LayoutAssumption DEF HeapOK, Typed, NULL, Addr
  <2> QED BY <1>1, <1>2, <2>1, LayoutAssumption DEF HeapOK, Chained
<1>3. CASE nx[b] # NULL
  <2>1. nx[b] \in S /\ nx[b] = b + HDR + sz[b]
    BY <1>3 DEF HeapOK, Chained
  <2>2. nx[b] \in Addr
    BY <2>1 DEF HeapOK, Typed
  <2> QED BY <1>1, <1>3, <2>1, <2>2, LayoutAssumption DEF Addr
<1> QED BY <1>2, <1>3

\* Where a split puts the new block: inside the old one and on no other.
LEMMA NewBlockFresh ==
  ASSUME NEW S, NEW sz, NEW nx, NEW fl, NEW rq, NEW c,
         HeapOK(S, sz, nx, fl, rq, c), NEW b \in S,
         NEW n \in Nat, sz[b] >= n + HDR + ALIGN,
         NEW nb, nb = b + HDR + n
  PROVE  /\ nb \in Addr /\ nb \notin S /\ nb > b
         /\ nb + HDR + (sz[b] - n - HDR) = b + HDR + sz[b]
         /\ sz[b] - n - HDR \in 0 .. ARENA
         /\ n \in 0 .. ARENA
         /\ \A a \in S : a < b \/ a = b \/ a > nb
<1>1. /\ b \in Addr /\ sz[b] \in 0 .. ARENA
      /\ b + HDR + sz[b] <= ARENA
  BY InsideArena
<1>2. /\ nb \in Addr /\ nb > b /\ nb < b + HDR + sz[b]
      /\ nb + HDR + (sz[b] - n - HDR) = b + HDR + sz[b]
      /\ sz[b] - n - HDR \in 0 .. ARENA
      /\ n \in 0 .. ARENA
  BY <1>1, LayoutAssumption DEF Addr
<1>3. \A a \in S : a < b \/ a = b \/ a > nb
  <2> TAKE a \in S
  <2>1. a \in Addr
    BY DEF HeapOK, Typed
  <2>2. b < a => b + HDR + sz[b] <= a
    BY DEF HeapOK, Ordered
  <2> QED BY <2>1, <2>2, <1>1, <1>2, LayoutAssumption DEF Addr
<1>4. nb \notin S
  BY <1>2, <1>3, <1>1 DEF Addr
<1> QED BY <1>2, <1>3, <1>4

\* Taking a whole free block keeps the invariant.
LEMMA TakeKeeps ==
  ASSUME NEW S, NEW sz, NEW nx, NEW fl, NEW rq,
         HeapOK(S, sz, nx, fl, rq, NULL),
         NEW b \in S, NEW r \in Nat \ {0}
  PROVE  HeapOK(S, sz, nx, [fl EXCEPT ![b] = "used"], [rq EXCEPT ![b] = r],
                NULL)
<1> DEFINE fl2 == [fl EXCEPT ![b] = "used"]
           rq2 == [rq EXCEPT ![b] = r]
<1>1. Typed(S, sz, nx, fl2, rq2, NULL)
  BY DEF HeapOK, Typed, Flags
<1>2. b \in Addr
  BY DEF HeapOK, Typed
<1>3. Headers(S, fl2, rq2)
  BY <1>2 DEF HeapOK, Headers, Typed
<1>4. Swept(S, nx, fl2, NULL)
  <2> SUFFICES ASSUME NEW a \in S, fl2[a] = "free", nx[a] # NULL
               PROVE  fl2[nx[a]] # "free"
    BY DEF Swept
  <2>1. nx[a] \in Addr /\ a \in Addr
    BY InsideArena DEF HeapOK, Typed
  <2>2. fl[a] = "free"
    BY <2>1, <1>2 DEF HeapOK, Typed
  <2>3. fl[nx[a]] # "free"
    BY <2>2 DEF HeapOK, Swept
  <2> QED BY <2>1, <2>3, <1>2 DEF HeapOK, Typed
<1> QED BY <1>1, <1>3, <1>4 DEF HeapOK

\* Splitting a free block and taking its first part keeps the invariant.
LEMMA SplitKeeps ==
  ASSUME NEW S, NEW sz, NEW nx, NEW fl, NEW rq,
         HeapOK(S, sz, nx, fl, rq, NULL),
         NEW b \in S, fl[b] = "free", NEW r \in Nat \ {0},
         NEW n \in Nat, sz[b] >= n + HDR + ALIGN,
         NEW nb, nb = b + HDR + n,
         NEW fl2 \in [Addr -> Flags], fl2[b] = "used", fl2[nb] = "free",
         \A a \in S : a # b => fl2[a] = fl[a]
  PROVE  HeapOK(S \cup {nb},
                [sz EXCEPT ![b] = n, ![nb] = sz[b] - n - HDR],
                [nx EXCEPT ![b] = nb, ![nb] = nx[b]],
                fl2, [rq EXCEPT ![b] = r], NULL)
<1> DEFINE S2  == S \cup {nb}
           sz2 == [sz EXCEPT ![b] = n, ![nb] = sz[b] - n - HDR]
           nx2 == [nx EXCEPT ![b] = nb, ![nb] = nx[b]]
           rq2 == [rq EXCEPT ![b] = r]
<1>1. /\ nb \in Addr /\ nb \notin S /\ nb > b
      /\ nb + HDR + (sz[b] - n - HDR) = b + HDR + sz[b]
      /\ sz[b] - n - HDR \in 0 .. ARENA
      /\ n \in 0 .. ARENA
      /\ \A a \in S : a < b \/ a = b \/ a > nb
  BY NewBlockFresh
<1>2. /\ S \subseteq Addr /\ sz \in [Addr -> 0 .. ARENA]
      /\ nx \in [Addr -> Addr \cup {NULL}] /\ fl \in [Addr -> Flags]
      /\ rq \in [Addr -> Nat]
  BY DEF HeapOK, Typed
<1>3. Typed(S2, sz2, nx2, fl2, rq2, NULL)
  BY <1>1, <1>2 DEF Typed
<1>4. /\ sz2[b] = n /\ nx2[b] = nb
      /\ sz2[nb] = sz[b] - n - HDR /\ nx2[nb] = nx[b]
      /\ \A a \in S : a # b => sz2[a] = sz[a] /\ nx2[a] = nx[a]
  BY <1>1, <1>2
<1> HIDE DEF sz2, nx2
<1>5. Chained(S2, sz2, nx2)
  <2>1. 0 \in S2
    BY DEF HeapOK, Chained
  <2>2. ASSUME NEW a \in S2
        PROVE  \/ nx2[a] \in S2 /\ nx2[a] = a + HDR + sz2[a]
               \/ nx2[a] = NULL /\ a + HDR + sz2[a] = ARENA
    <3>1. CASE a = b
      BY <3>1, <1>4
    <3>2. CASE a = nb
      <4>1. nb + HDR + sz2[nb] = b + HDR + sz[b]
        BY <1>1, <1>4
      <4>2. \/ nx[b] \in S /\ nx[b] = b + HDR + sz[b]
            \/ nx[b] = NULL /\ b + HDR + sz[b] = ARENA
        BY DEF HeapOK, Chained
      <4> QED BY <3>2, <4>1, <4>2, <1>4
    <3>3. CASE a \in S /\ a # b
      <4>1. \/ nx[a] \in S /\ nx[a] = a + HDR + sz[a]
            \/ nx[a] = NULL /\ a + HDR + sz[a] = ARENA
        BY <3>3 DEF HeapOK, Chained
      <4> QED BY <3>3, <4>1, <1>4
    <3> QED BY <3>1, <3>2, <3>3
  <2> QED BY <2>1, <2>2 DEF Chained
<1>6. Ordered(S2, sz2)
  <2> SUFFICES ASSUME NEW x \in S2, NEW y \in S2, x < y
               PROVE  x + HDR + sz2[x] <= y
    BY DEF Ordered
  <2>1. \A u, v \in S : u < v => u + HDR + sz[u] <= v
    BY DEF HeapOK, Ordered
  <2>2. x \in Addr /\ y \in Addr /\ b \in Addr
    BY <1>1, <1>2
  <2>3. CASE x = b
    BY <2>3, <2>2, <1>1, <1>4, LayoutAssumption DEF Addr
  <2>4. CASE x = nb
    <3>1. y \in S /\ y > b
      BY <2>4, <2>2, <1>1 DEF Addr
    <3>2. b + HDR + sz[b] <= y
      BY <3>1, <2>1
    <3> QED BY <2>4, <3>2, <1>1, <1>4
  <2>5. CASE x \in S /\ x # b /\ y \in S
    BY <2>5, <2>1, <1>4
  <2>6. CASE x \in S /\ x # b /\ y = nb
    <3>1. x < b
      BY <2>6, <2>2, <1>1 DEF Addr
    <3>2. x + HDR + sz[x] <= b /\ sz2[x] = sz[x] /\ sz[x] \in 0 .. ARENA
      BY <3>1, <2>1, <2>6, <1>4, <1>2
    <3> QED BY <3>2, <2>6, <2>2, <1>1, LayoutAssumption DEF Addr
  <2> QED BY <2>3, <2>4, <2>5, <2>6
<1>7. Headers(S2, fl2, rq2)
  <2>1. /\ \A a \in S : fl[a] # "none"
        /\ \A a \in Addr : rq[a] # 0 => a \in S /\ fl[a] = "used"
        /\ \A a \in S : fl[a] = "used" => rq[a] # 0
    BY DEF HeapOK, Headers
  <2>2. rq2[b] = r /\ \A a \in Addr : a # b => rq2[a] = rq[a]
    BY <1>2
  <2> HIDE DEF rq2
  <2> QED BY <2>1, <2>2, <1>1, <1>2 DEF Headers
<1>8. Swept(S2, nx2, fl2, NULL)
  <2> SUFFICES ASSUME NEW a \in S2, fl2[a] = "free", nx2[a] # NULL
               PROVE  fl2[nx2[a]] # "free"
    BY DEF Swept
  <2>1. a # b
    OBVIOUS
  <2>2. \A u \in S : fl[u] = "free" /\ nx[u] # NULL => fl[nx[u]] # "free"
    BY DEF HeapOK, Swept
  <2>3. \A u \in S : nx[u] # NULL => nx[u] \in S
    BY InsideArena
  <2>4. CASE a = nb
    <3>1. nx2[a] = nx[b] /\ nx[b] \in S /\ fl[nx[b]] # "free"
      BY <2>4, <1>4, <2>2, <2>3
    <3> QED BY <3>1
  <2>5. CASE a \in S
    <3>1. nx2[a] = nx[a] /\ nx[a] \in S /\ fl[nx[a]] # "free"
      BY <2>5, <2>1, <1>4, <2>2, <2>3
    <3> QED BY <3>1
  <2> QED BY <2>4, <2>5
<1> QED BY <1>3, <1>5, <1>6, <1>7, <1>8 DEF HeapOK, sz2, nx2

\* A free that passes both tests keeps the invariant, with coalesce at the first
\* block, also when the header is a stale one.
LEMMA FreeKeeps ==
  ASSUME NEW S, NEW sz, NEW nx, NEW fl, NEW rq,
         HeapOK(S, sz, nx, fl, rq, NULL),
         NEW a \in Addr, fl[a] = "used"
  PROVE  HeapOK(S, sz, nx, [fl EXCEPT ![a] = "free"], [rq EXCEPT ![a] = 0], 0)
<1> DEFINE fl2 == [fl EXCEPT ![a] = "free"]
           rq2 == [rq EXCEPT ![a] = 0]
<1>1. 0 \in Addr /\ 0 # NULL
  BY LayoutAssumption DEF Addr, NULL
<1>2. Typed(S, sz, nx, fl2, rq2, 0)
  BY <1>1 DEF HeapOK, Typed, Flags
<1>3. Headers(S, fl2, rq2)
  BY DEF HeapOK, Headers, Typed
<1>4. Swept(S, nx, fl2, 0)
  <2>1. 0 \in S
    BY DEF HeapOK, Chained
  <2>2. \A b \in S : ~(b < 0)
    BY DEF HeapOK, Typed, Addr
  <2> QED BY <1>1, <2>1, <2>2 DEF Swept
<1> QED BY <1>2, <1>3, <1>4 DEF HeapOK

\* Absorbing the next block, free like the one at the cursor.
LEMMA MergeKeeps ==
  ASSUME NEW S, NEW sz, NEW nx, NEW fl, NEW rq, NEW c \in S,
         HeapOK(S, sz, nx, fl, rq, c),
         NEW d, d = nx[c], d # NULL, fl[c] = "free", fl[d] = "free"
  PROVE  HeapOK(S \ {d},
                [sz EXCEPT ![c] = sz[c] + HDR + sz[d], ![d] = 0],
                [nx EXCEPT ![c] = nx[d], ![d] = NULL],
                fl, rq, c)
<1> DEFINE S2  == S \ {d}
           sz2 == [sz EXCEPT ![c] = sz[c] + HDR + sz[d], ![d] = 0]
           nx2 == [nx EXCEPT ![c] = nx[d], ![d] = NULL]
<1>1. /\ S \subseteq Addr /\ sz \in [Addr -> 0 .. ARENA]
      /\ nx \in [Addr -> Addr \cup {NULL}] /\ fl \in [Addr -> Flags]
      /\ rq \in [Addr -> Nat]
  BY DEF HeapOK, Typed
<1>2. /\ c \in Addr /\ sz[c] \in 0 .. ARENA
      /\ d \in S /\ d = c + HDR + sz[c]
  BY InsideArena
<1>3. /\ d \in Addr /\ sz[d] \in 0 .. ARENA
      /\ d + HDR + sz[d] <= ARENA
      /\ nx[d] # NULL => nx[d] \in S /\ nx[d] = d + HDR + sz[d]
      /\ nx[d] = NULL => d + HDR + sz[d] = ARENA
  BY <1>2, InsideArena
<1>4. c < d /\ c # d /\ c # NULL
  BY <1>2, LayoutAssumption DEF Addr, NULL
<1>5. sz[c] + HDR + sz[d] \in 0 .. ARENA
      /\ c + HDR + (sz[c] + HDR + sz[d]) = d + HDR + sz[d]
  BY <1>2, <1>3, LayoutAssumption DEF Addr
<1>6. Typed(S2, sz2, nx2, fl, rq, c)
  <2>1. sz2 \in [Addr -> 0 .. ARENA]
    BY <1>1, <1>5, LayoutAssumption
  <2>2. nx2 \in [Addr -> Addr \cup {NULL}]
    BY <1>1, <1>3
  <2> QED BY <1>1, <1>2, <2>1, <2>2 DEF Typed
<1>7. /\ sz2[c] = sz[c] + HDR + sz[d] /\ nx2[c] = nx[d]
      /\ \A a \in S2 : a # c => sz2[a] = sz[a] /\ nx2[a] = nx[a]
  BY <1>1, <1>2, <1>3, <1>4
<1> HIDE DEF sz2, nx2
<1>8. \A u, v \in S : u < v => u + HDR + sz[u] <= v
  BY DEF HeapOK, Ordered
<1>9. Chained(S2, sz2, nx2)
  <2>1. 0 \in S2
    BY <1>2, <1>4 DEF HeapOK, Chained, Addr
  <2>2. ASSUME NEW a \in S2
        PROVE  \/ nx2[a] \in S2 /\ nx2[a] = a + HDR + sz2[a]
               \/ nx2[a] = NULL /\ a + HDR + sz2[a] = ARENA
    <3>1. CASE a = c
      <4>1. c + HDR + sz2[c] = d + HDR + sz[d]
        BY <1>5, <1>7
      <4>2. nx[d] # NULL => nx[d] # d
        BY <1>3, LayoutAssumption DEF Addr
      <4> QED BY <3>1, <4>1, <4>2, <1>3, <1>7
    <3>2. CASE a # c
      <4>1. /\ nx[a] # NULL => nx[a] \in S /\ nx[a] = a + HDR + sz[a]
            /\ nx[a] = NULL => a + HDR + sz[a] = ARENA
            /\ a \in Addr /\ sz[a] \in 0 .. ARENA
        BY InsideArena
      <4>2. nx[a] # d
        <5> SUFFICES ASSUME nx[a] = d PROVE FALSE
          OBVIOUS
        <5>1. d = a + HDR + sz[a] /\ a < d
          BY <4>1, <1>3, LayoutAssumption DEF Addr, NULL
        <5>2. a < c => d <= c
          BY <5>1, <1>8
        <5>3. c < a => d <= a
          BY <1>8, <1>2
        <5>4. a \in Int /\ c \in Int /\ d \in Int
          BY <4>1, <1>2, <1>3 DEF Addr
        <5> QED BY <3>2, <5>1, <5>2, <5>3, <5>4, <1>4
      <4> QED BY <3>2, <4>1, <4>2, <1>7
    <3> QED BY <3>1, <3>2
  <2> QED BY <2>1, <2>2 DEF Chained
<1>10. Ordered(S2, sz2)
  <2> SUFFICES ASSUME NEW x \in S2, NEW y \in S2, x < y
               PROVE  x + HDR + sz2[x] <= y
    BY DEF Ordered
  <2>1. x \in Addr /\ y \in Addr
    BY <1>1
  <2>2. CASE x = c
    <3>1. d <= y
      BY <2>2, <1>2, <1>8
    <3>2. d < y
      BY <3>1, <2>1, <1>3 DEF Addr
    <3>3. d + HDR + sz[d] <= y
      BY <3>2, <1>2, <1>8
    <3> QED BY <2>2, <3>3, <1>5, <1>7
  <2>3. CASE x # c
    BY <2>3, <1>7, <1>8
  <2> QED BY <2>2, <2>3
<1>11. Headers(S2, fl, rq)
  BY <1>3 DEF HeapOK, Headers
<1>12. Swept(S2, nx2, fl, c)
  <2>1. c \in S2
    BY <1>4
  <2>2. ASSUME NEW a \in S2, a < c, fl[a] = "free", nx2[a] # NULL
        PROVE  fl[nx2[a]] # "free"
    <3>1. a # c /\ a \in S
      BY <2>2, <1>2, <1>1 DEF Addr
    <3>2. nx2[a] = nx[a]
      BY <3>1, <1>7
    <3> QED BY <2>2, <3>1, <3>2 DEF HeapOK, Swept
  <2> QED BY <2>1, <2>2, <1>4 DEF Swept
<1> QED BY <1>6, <1>9, <1>10, <1>11, <1>12 DEF HeapOK, sz2, nx2

\* The headers heap_alloc leaves behind.
LEMMA FlagsAfterSplit ==
  ASSUME HeapInv, NEW b \in starts, NEW n \in Nat, Splits(b, n)
  PROVE  /\ FlagsAfter(b, n) \in [Addr -> Flags]
         /\ FlagsAfter(b, n)[b] = "used"
         /\ FlagsAfter(b, n)[NewBlock(b, n)] = "free"
         /\ \A a \in starts : a # b => FlagsAfter(b, n)[a] = flag[a]
<1> DEFINE nb == NewBlock(b, n)
<1>1. /\ nb \in Addr /\ nb \notin starts /\ nb > b
      /\ \A a \in starts : a < b \/ a = b \/ a > nb
  BY NewBlockFresh DEF HeapInv, Splits, NewBlock
<1>2. starts \subseteq Addr /\ flag \in [Addr -> Flags]
  BY DEF HeapInv, HeapOK, Typed
<1>3. \A a \in starts : a # b => ~(a > nb - HDR /\ a < nb)
  BY <1>1, <1>2, LayoutAssumption DEF NewBlock, Addr
<1> HIDE DEF nb
<1>4. FlagsAfter(b, n) =
        [a \in Addr |-> IF a = b THEN "used"
                        ELSE IF a = nb THEN "free"
                        ELSE IF a > nb - HDR /\ a < nb THEN "none"
                        ELSE flag[a]]
  BY DEF FlagsAfter, nb
<1>5. FlagsAfter(b, n) \in [Addr -> Flags]
  BY <1>2, <1>4 DEF Flags
<1>6. \A a \in starts : a # b => FlagsAfter(b, n)[a] = flag[a]
  BY <1>1, <1>2, <1>3, <1>4
<1>7. FlagsAfter(b, n)[b] = "used" /\ FlagsAfter(b, n)[nb] = "free"
  BY <1>1, <1>2, <1>4 DEF Addr
<1> QED BY <1>5, <1>6, <1>7 DEF nb

\* Taking n bytes of a free block, with or without a split.
LEMMA CarveKeeps ==
  ASSUME HeapInv, cur = NULL, NEW b \in starts, NEW n \in Nat, Fits(b, n),
         NEW r \in Nat \ {0}, Carve(b, n)
  PROVE  HeapOK(starts', size', next', FlagsAfter(b, n), [req EXCEPT ![b] = r],
                NULL)
<1>1. HeapOK(starts, size, next, flag, req, NULL)
  BY DEF HeapInv
<1>2. CASE Splits(b, n)
  <2>1. /\ starts' = starts \cup {NewBlock(b, n)}
        /\ size' = [size EXCEPT ![b] = n, ![NewBlock(b, n)] = size[b] - n - HDR]
        /\ next' = [next EXCEPT ![b] = NewBlock(b, n),
                                ![NewBlock(b, n)] = next[b]]
    BY <1>2 DEF Carve
  <2>2. flag[b] = "free" /\ size[b] >= n + HDR + ALIGN
        /\ NewBlock(b, n) = b + HDR + n
    BY <1>2 DEF Fits, Splits, NewBlock
  <2>3. /\ FlagsAfter(b, n) \in [Addr -> Flags]
        /\ FlagsAfter(b, n)[b] = "used"
        /\ FlagsAfter(b, n)[NewBlock(b, n)] = "free"
        /\ \A a \in starts : a # b => FlagsAfter(b, n)[a] = flag[a]
    BY <1>2, FlagsAfterSplit
  <2>4. HeapOK(starts \cup {NewBlock(b, n)},
               [size EXCEPT ![b] = n, ![NewBlock(b, n)] = size[b] - n - HDR],
               [next EXCEPT ![b] = NewBlock(b, n),
                            ![NewBlock(b, n)] = next[b]],
               FlagsAfter(b, n), [req EXCEPT ![b] = r], NULL)
    BY <1>1, <2>2, <2>3, SplitKeeps
  <2> QED BY <2>1, <2>4
<1>3. CASE ~Splits(b, n)
  <2>1. starts' = starts /\ size' = size /\ next' = next
    BY <1>3 DEF Carve
  <2>2. flag \in [Addr -> Flags] /\ b \in Addr
    BY DEF HeapInv, HeapOK, Typed
  <2>3. FlagsAfter(b, n) = [flag EXCEPT ![b] = "used"]
    BY <1>3, <2>2 DEF FlagsAfter
  <2>4. HeapOK(starts, size, next, [flag EXCEPT ![b] = "used"],
               [req EXCEPT ![b] = r], NULL)
    BY <1>1, TakeKeeps
  <2> QED BY <2>1, <2>3, <2>4
<1> QED BY <1>2, <1>3

\* Only the headers of the list matter.
LEMMA StaleFree ==
  ASSUME NEW S, NEW sz, NEW nx, NEW fl, NEW rq, NEW c,
         HeapOK(S, sz, nx, fl, rq, c),
         NEW fl2 \in [Addr -> Flags], \A a \in S : fl2[a] = fl[a]
  PROVE  HeapOK(S, sz, nx, fl2, rq, c)
<1>1. S \subseteq Addr
  BY DEF HeapOK, Typed
<1>2. Typed(S, sz, nx, fl2, rq, c)
  BY DEF HeapOK, Typed
<1>3. Headers(S, fl2, rq)
  BY <1>1 DEF HeapOK, Headers
<1>4. \A a \in S : nx[a] # NULL => nx[a] \in S
  BY InsideArena
<1>5. Swept(S, nx, fl2, c)
  BY <1>4 DEF HeapOK, Swept
<1> QED BY <1>2, <1>3, <1>5 DEF HeapOK

\* The fields of a header lie inside it.
LEMMA WordsInHeader ==
  ASSUME NEW x \in Int
  PROVE  /\ FreeWord(x) \in Int /\ x < FreeWord(x) /\ FreeWord(x) < x + HDR
         /\ MagicWord(x) \in Int /\ x < MagicWord(x) /\ MagicWord(x) < x + HDR
<1>1. ALIGN \in Nat /\ ALIGN > 0 /\ ALIGN % 2 = 0 /\ HDR = 2 * ALIGN
  BY LayoutAssumption
<1>2. ALIGN \div 2 \in Nat /\ ALIGN \div 2 < ALIGN
  BY <1>1
<1> DEFINE w == ALIGN \div 2
<1>3. MagicWord(x) = x + ALIGN + w /\ FreeWord(x) = x + ALIGN
  BY DEF MagicWord, FreeWord
<1>4. w \in Nat /\ w < ALIGN
  BY <1>2
<1> HIDE DEF w
<1> QED BY <1>1, <1>3, <1>4

\* No payload covers a field of a header of the list.
LEMMA WordsOutside ==
  ASSUME NEW S, NEW sz, NEW nx, NEW fl, NEW rq, NEW c,
         HeapOK(S, sz, nx, fl, rq, c),
         NEW b \in S, NEW x \in S, NEW k \in Int, k <= sz[b]
  PROVE  /\ FreeWord(x) \notin b + HDR .. b + HDR + k - 1
         /\ MagicWord(x) \notin b + HDR .. b + HDR + k - 1
<1>1. /\ b \in Int /\ x \in Int /\ sz[b] \in Int /\ HDR \in Int
      /\ b < x => b + HDR + sz[b] <= x
  BY LayoutAssumption DEF HeapOK, Typed, Ordered, Addr
<1>2. /\ FreeWord(x) \in Int /\ x < FreeWord(x) /\ FreeWord(x) < x + HDR
      /\ MagicWord(x) \in Int /\ x < MagicWord(x) /\ MagicWord(x) < x + HDR
  BY <1>1, WordsInHeader
<1> QED BY <1>1, <1>2

\* What kcalloc zeroes is no header of the list.
LEMMA ZeroKeeps ==
  ASSUME NEW S, NEW sz, NEW nx, NEW fl, NEW rq, NEW c,
         HeapOK(S, sz, nx, fl, rq, c),
         NEW b \in S, NEW k \in Nat, k <= sz[b]
  PROVE  HeapOK(S, sz, nx, Zeroed(fl, b, k), rq, c)
<1>1. S \subseteq Addr /\ fl \in [Addr -> Flags]
  BY DEF HeapOK, Typed
<1>2. Zeroed(fl, b, k) \in [Addr -> Flags]
  BY <1>1 DEF Zeroed, Flags
<1>3. \A x \in S : Zeroed(fl, b, k)[x] = fl[x]
  <2> TAKE x \in S
  <2>1. /\ FreeWord(x) \notin b + HDR .. b + HDR + k - 1
        /\ MagicWord(x) \notin b + HDR .. b + HDR + k - 1
    BY WordsOutside
  <2> QED BY <1>1, <2>1 DEF Zeroed
<1> QED BY <1>2, <1>3, StaleFree

\* What krealloc copies goes over no header of the list.
LEMMA CopyKeeps ==
  ASSUME NEW S, NEW sz, NEW nx, NEW fl, NEW rq, NEW c,
         HeapOK(S, sz, nx, fl, rq, c),
         NEW a \in S, NEW b \in S, size[a] = sz[a], sz[a] <= sz[b]
  PROVE  HeapOK(S, sz, nx, Copied(fl, a, b), rq, c)
<1>1. S \subseteq Addr /\ fl \in [Addr -> Flags]
  BY DEF HeapOK, Typed
<1>2. /\ a \in Addr /\ sz[a] \in 0 .. ARENA /\ a + HDR + sz[a] <= ARENA
      /\ b \in Addr
  BY <1>1, InsideArena
<1>3. ASSUME NEW x \in Addr, MagicWord(x) \in b + HDR .. b + HDR + sz[a] - 1
      PROVE  x - b + a \in Addr
  <2>1. MagicWord(x) \in Int /\ x < MagicWord(x) /\ MagicWord(x) < x + HDR
    BY WordsInHeader DEF Addr
  <2> QED BY <1>2, <1>3, <2>1, LayoutAssumption DEF Addr
<1>4. Copied(fl, a, b) \in [Addr -> Flags]
  BY <1>1, <1>3 DEF Copied
<1>5. \A x \in S : Copied(fl, a, b)[x] = fl[x]
  <2> TAKE x \in S
  <2>1. MagicWord(x) \notin b + HDR .. b + HDR + sz[a] - 1
    BY <1>2, WordsOutside
  <2> QED BY <1>1, <2>1 DEF Copied
<1> QED BY <1>4, <1>5, StaleFree

\* The block that Carve leaves to the caller is as large as the request.
LEMMA CarvedSize ==
  ASSUME HeapInv, NEW b \in starts, NEW n \in Nat, Fits(b, n), Carve(b, n)
  PROVE  /\ b \in starts' /\ size'[b] >= n
         /\ \A a \in starts : a # b => a \in starts' /\ size'[a] = size[a]
<1>1. /\ HeapOK(starts, size, next, flag, req, cur)
      /\ starts \subseteq Addr /\ size \in [Addr -> 0 .. ARENA]
  BY DEF HeapInv, HeapOK, Typed
<1>2. CASE ~Splits(b, n)
  <2>1. starts' = starts /\ size' = size /\ size[b] >= n
    BY <1>2 DEF Carve, Fits
  <2> QED BY <2>1
<1>3. CASE Splits(b, n)
  <2>1. NewBlock(b, n) \in Addr /\ NewBlock(b, n) \notin starts
    BY <1>1, <1>3, NewBlockFresh DEF Splits, NewBlock
  <2>2. /\ starts' = starts \cup {NewBlock(b, n)}
        /\ size' = [size EXCEPT ![b] = n, ![NewBlock(b, n)] = size[b] - n - HDR]
    BY <1>3 DEF Carve
  <2>3. size'[b] = n /\ \A a \in starts : a # b => size'[a] = size[a]
    BY <1>1, <2>1, <2>2
  <2>4. n >= n
    OBVIOUS
  <2> QED BY <2>2, <2>3, <2>4
<1> QED BY <1>2, <1>3

\* heap_alloc keeps the invariant, zero-fill included.
LEMMA AllocKeeps ==
  ASSUME HeapInv, cur = NULL, cur' = NULL, NEW n \in Nat, NEW r \in Nat,
         n # 0 => r # 0, NEW k \in Nat,
         k <= align_up(n) \/ Full(align_up(n)), alloc(n, r, k)
  PROVE  HeapInv'
<1>1. CASE UNCHANGED <<starts, size, next, flag, req>>
  BY <1>1 DEF HeapInv
<1>2. ASSUME NEW b \in starts, FirstFit(b, align_up(n)), n # 0,
             Carve(b, align_up(n)),
             flag' = Zeroed(FlagsAfter(b, align_up(n)), b, k),
             req' = [req EXCEPT ![b] = r]
      PROVE  HeapInv'
  <2>1. align_up(n) \in Nat /\ Fits(b, align_up(n)) /\ r \in Nat \ {0}
    BY <1>2, AlignUpNat DEF FirstFit
  <2>2. HeapOK(starts', size', next', FlagsAfter(b, align_up(n)), req', NULL)
    BY <1>2, <2>1, CarveKeeps
  <2>3. b \in starts' /\ size'[b] >= align_up(n)
    BY <1>2, <2>1, CarvedSize
  <2>4. size'[b] \in Nat
    BY <2>2, <2>3 DEF HeapOK, Typed
  <2>5. k <= align_up(n)
    BY <2>1 DEF Full
  <2>6. k <= size'[b]
    BY <2>1, <2>3, <2>4, <2>5
  <2> QED BY <1>2, <2>2, <2>3, <2>6, ZeroKeeps DEF HeapInv
<1> QED BY <1>1, <1>2 DEF alloc

\* Every step keeps the invariant.
LEMMA HeapStep == HeapInv /\ [Next]_vars => HeapInv'
<1> SUFFICES ASSUME HeapInv, [Next]_vars PROVE HeapInv'
  OBVIOUS
<1>0. Requests \subseteq Nat
  BY RequestAssumption, LayoutAssumption
<1>1. ASSUME NEW n \in Requests, kmalloc(n) PROVE HeapInv'
  <2>1. n \in Nat /\ align_up(n) \in Nat
    BY <1>0, AlignUpNat
  <2> QED BY <1>1, <2>1, AllocKeeps DEF kmalloc
<1>2. ASSUME NEW m \in Requests, NEW n \in Requests, kcalloc(m, n)
      PROVE  HeapInv'
  <2>1. m \in Nat /\ n \in Nat /\ SIZE_MOD \in Nat \ {0}
    BY <1>0, LayoutAssumption
  <2>2. m * n \in Nat
    BY <2>1
  <2>3. \A x \in Nat : x % SIZE_MOD \in Nat /\ (x % SIZE_MOD # 0 => x # 0)
    BY <2>1
  <2> DEFINE t == (m * n) % SIZE_MOD
  <2>4. t \in Nat /\ (t # 0 => m * n # 0)
    BY <2>2, <2>3, Zenon
  <2>5. CASE UNCHANGED <<starts, size, next, flag, req, cur>>
    BY <2>5 DEF HeapInv
  <2>6. CASE /\ Wrapping(t) => Full(align_up(t))
             /\ alloc(t, m * n, t) /\ cur = NULL /\ cur' = cur
    <3> HIDE DEF t
    <3>1. t <= align_up(t) \/ Full(align_up(t))
      BY <2>4, <2>6, AlignUpCovers, AlignUpNat
    <3> QED BY <2>2, <2>4, <2>6, <3>1, AllocKeeps
  <2> QED BY <1>2, <2>5, <2>6 DEF kcalloc
<1>3. ASSUME NEW x \in Addr, caller_write(x) PROVE HeapInv'
  <2>1. PICK b \in starts : MagicWord(x) \in Payload(b) \/ FreeWord(x) \in Payload(b)
    BY <1>3 DEF caller_write
  <2>2. /\ HeapOK(starts, size, next, flag, req, cur)
        /\ starts \subseteq Addr /\ flag \in [Addr -> Flags]
        /\ size[b] \in Int
    BY DEF HeapInv, HeapOK, Typed
  <2>3. Payload(b) \subseteq b + HDR .. b + HDR + size[b] - 1
    <3>1. Payload(b) \subseteq b + HDR .. End(b) - 1
      BY DEF Payload
    <3>2. End(b) = b + HDR + size[b]
      BY DEF End
    <3> QED BY <2>2, <3>1, <3>2, LayoutAssumption DEF Addr
  <2>4. x \notin starts
    BY <2>1, <2>2, <2>3, WordsOutside
  <2>5. /\ starts' = starts /\ size' = size /\ next' = next /\ cur' = cur
        /\ req' = req
        /\ \E f \in Flags : flag' = [flag EXCEPT ![x] = f]
    BY <1>3 DEF caller_write, Flags
  <2>6. flag' \in [Addr -> Flags] /\ \A a \in starts : flag'[a] = flag[a]
    BY <2>2, <2>4, <2>5
  <2> QED BY <2>2, <2>5, <2>6, StaleFree DEF HeapInv
<1>4. ASSUME NEW p \in HDR .. ARENA - 1, kfree(p) PROVE HeapInv'
  <2>1. p - HDR \in Addr
    BY LayoutAssumption DEF Addr
  <2>2. CASE Releasable(p - HDR)
    <3>1. /\ HeapOK(starts, size, next, flag, req, NULL)
          /\ flag[p - HDR] = "used"
          /\ starts' = starts /\ size' = size /\ next' = next /\ cur' = 0
          /\ flag' = [flag EXCEPT ![p - HDR] = "free"]
          /\ req' = [req EXCEPT ![p - HDR] = 0]
      BY <1>4, <2>2 DEF kfree, Releasable, HeapInv
    <3> QED BY <2>1, <3>1, FreeKeeps DEF HeapInv
  <2>3. CASE ~Releasable(p - HDR)
    BY <1>4, <2>3 DEF kfree, HeapInv
  <2> QED BY <2>2, <2>3
<1>5. ASSUME NEW p \in HDR .. ARENA - 1, NEW n \in Requests, krealloc(p, n)
      PROVE  HeapInv'
  <2> DEFINE a == p - HDR
  <2>1. a \in Addr /\ n \in Nat \ {0} /\ req[a] # 0 /\ cur = NULL
    BY <1>0, <1>5, LayoutAssumption DEF Addr, krealloc
  <2>2. /\ a \in starts /\ flag[a] = "used"
        /\ HeapOK(starts, size, next, flag, req, NULL)
    BY <2>1 DEF HeapInv, HeapOK, Headers
  <2> HIDE DEF a
  <2>3. CASE UNCHANGED <<starts, size, next, flag, cur, req>>
    BY <2>3 DEF HeapInv
  <2>4. CASE /\ req' = [req EXCEPT ![a] = n]
             /\ UNCHANGED <<starts, size, next, flag, cur>>
    <3>1. flag \in [Addr -> Flags]
      BY DEF HeapInv, HeapOK, Typed
    <3>2. [flag EXCEPT ![a] = "used"] = flag
      BY <2>1, <2>2, <3>1
    <3>3. HeapOK(starts, size, next, [flag EXCEPT ![a] = "used"],
                 [req EXCEPT ![a] = n], NULL)
      BY <2>1, <2>2, TakeKeeps
    <3> QED BY <2>1, <2>4, <3>2, <3>3 DEF HeapInv
  <2>5. ASSUME NEW b \in starts, FirstFit(b, align_up(n)),
               Carve(b, align_up(n)), cur' = 0, size[a] < align_up(n),
               flag' = [Copied(FlagsAfter(b, align_up(n)), a, b)
                           EXCEPT ![a] = "free"],
               req' = [req EXCEPT ![b] = n, ![a] = 0]
        PROVE  HeapInv'
    <3> DEFINE fl == Copied(FlagsAfter(b, align_up(n)), a, b)
               rq == [req EXCEPT ![b] = n]
    <3>1. align_up(n) \in Nat /\ Fits(b, align_up(n)) /\ a # b
      BY <2>1, <2>2, <2>5, AlignUpNat DEF FirstFit, Fits
    <3>2. HeapOK(starts', size', next', FlagsAfter(b, align_up(n)), rq, NULL)
      BY <2>1, <2>5, <3>1, CarveKeeps
    <3>3. /\ a \in starts' /\ size'[a] = size[a]
          /\ b \in starts' /\ size'[b] >= align_up(n)
      BY <2>2, <2>5, <3>1, CarvedSize
    <3>4. size'[a] \in Nat /\ size'[b] \in Nat
      BY <3>2, <3>3 DEF HeapOK, Typed
    <3>5. size'[a] <= size'[b]
      BY <2>5, <3>1, <3>3, <3>4
    <3>6. HeapOK(starts', size', next', fl, rq, NULL)
      BY <3>2, <3>3, <3>5, CopyKeeps
    <3>7. rq[a] # 0
      BY <2>1, <3>1 DEF HeapInv, HeapOK, Typed
    <3>8. req' = [rq EXCEPT ![a] = 0] /\ flag' = [fl EXCEPT ![a] = "free"]
      BY <2>5
    <3> HIDE DEF fl, rq
    <3>9. fl[a] = "used"
      BY <2>1, <3>6, <3>7 DEF HeapOK, Headers
    <3>10. HeapOK(starts', size', next', flag', req', 0)
      BY <2>1, <3>6, <3>8, <3>9, FreeKeeps
    <3> QED BY <2>5, <3>10 DEF HeapInv
  <2> QED BY <1>5, <2>3, <2>4, <2>5 DEF krealloc, a
<1>6. CASE coalesce
  <2>1. cur \in starts /\ cur # NULL
    BY <1>6 DEF coalesce, HeapInv, HeapOK, Swept
  <2>2. /\ cur \in Addr
        /\ next[cur] # NULL => /\ next[cur] \in starts
                               /\ next[cur] = cur + HDR + size[cur]
        /\ next[cur] = NULL => cur + HDR + size[cur] = ARENA
    BY <2>1, InsideArena DEF HeapInv
  <2>3. CASE next[cur] # NULL /\ Merges(cur)
    <3>1. /\ starts' = starts \ {next[cur]}
          /\ size' = [size EXCEPT ![cur] = size[cur] + HDR + size[next[cur]],
                                  ![next[cur]] = 0]
          /\ next' = [next EXCEPT ![cur] = next[next[cur]],
                                  ![next[cur]] = NULL]
          /\ cur' = cur /\ flag' = flag /\ req' = req
          /\ flag[cur] = "free" /\ flag[next[cur]] = "free"
      BY <1>6, <2>3 DEF coalesce, Merges
    <3> QED BY <2>1, <2>3, <3>1, MergeKeeps DEF HeapInv
  <2>4. CASE next[cur] # NULL /\ ~Merges(cur)
    <3>1. /\ cur' = next[cur] /\ starts' = starts /\ size' = size
          /\ next' = next /\ flag' = flag /\ req' = req
      BY <1>6, <2>4 DEF coalesce
    <3>2. ASSUME NEW b \in starts, b < next[cur], flag[b] = "free",
                 next[b] # NULL
          PROVE  flag[next[b]] # "free"
      <4>1. b \in Addr /\ next[cur] \in Addr /\ size[cur] \in 0 .. ARENA
        BY <2>2, <2>4 DEF HeapInv, HeapOK, Typed
      <4>2. cur < b => cur + HDR + size[cur] <= b
        BY <2>1 DEF HeapInv, HeapOK, Ordered
      <4>3. b <= cur
        BY <3>2, <4>1, <4>2, <2>2, <2>4 DEF Addr
      <4>4. CASE b = cur
        BY <4>4, <3>2, <2>4 DEF Merges
      <4>5. CASE b < cur
        BY <4>5, <3>2 DEF HeapInv, HeapOK, Swept
      <4> QED BY <4>1, <4>3, <4>4, <4>5, <2>2 DEF Addr
    <3>3. Swept(starts, next, flag, next[cur])
      BY <2>2, <2>4, <3>2 DEF Swept
    <3>4. Typed(starts, size, next, flag, req, next[cur])
      BY <2>2, <2>4 DEF HeapInv, HeapOK, Typed
    <3> QED BY <3>1, <3>3, <3>4 DEF HeapInv, HeapOK
  <2>5. CASE next[cur] = NULL
    <3>1. /\ cur' = NULL /\ starts' = starts /\ size' = size
          /\ next' = next /\ flag' = flag /\ req' = req
      BY <1>6, <2>5 DEF coalesce
    <3>2. ASSUME NEW b \in starts, flag[b] = "free", next[b] # NULL
          PROVE  flag[next[b]] # "free"
      <4>1. /\ b \in Addr /\ size[b] \in 0 .. ARENA
            /\ b + HDR + size[b] <= ARENA /\ size[cur] \in 0 .. ARENA
        BY <2>1, InsideArena DEF HeapInv
      <4>2. cur < b => cur + HDR + size[cur] <= b
        BY <2>1 DEF HeapInv, HeapOK, Ordered
      <4>3. b < cur
        BY <3>2, <4>1, <4>2, <2>2, <2>5, LayoutAssumption DEF Addr
      <4> QED BY <4>3, <3>2 DEF HeapInv, HeapOK, Swept
    <3>3. Swept(starts, next, flag, NULL)
      BY <3>2 DEF Swept
    <3>4. Typed(starts, size, next, flag, req, NULL)
      BY DEF HeapInv, HeapOK, Typed
    <3> QED BY <3>1, <3>3, <3>4 DEF HeapInv, HeapOK
  <2> QED BY <2>3, <2>4, <2>5
<1>7. CASE UNCHANGED vars
  BY <1>7 DEF vars, HeapInv
<1> QED BY <1>1, <1>2, <1>3, <1>4, <1>5, <1>6, <1>7 DEF Next

\* The invariant holds always, whatever kfree is given.
LEMMA HeapAlways == Spec => []HeapInv
  BY HeapInit, HeapStep, PTL DEF Spec

\* Type correctness of the heap.
THEOREM TypeCorrect == Spec => []TypeOK
<1>1. HeapInv => TypeOK
  BY DEF HeapInv, HeapOK, Typed, TypeOK
<1> QED BY <1>1, HeapAlways, PTL

\* heap_check's structure: blocks abut from the first to the end of the arena,
\* in every state, for every arena, alignment and request, size_t wrap included.
THEOREM ListTilesArena == Spec => []Tiled
<1>1. HeapInv => Tiled
  BY DEF HeapInv, HeapOK, Chained, Tiled, End
<1> QED BY <1>1, HeapAlways, PTL

\* Memory held by two callers is disjoint.
THEOREM NoSharedMemory == Spec => []HoldersDisjoint
<1>1. HeapInv => HoldersDisjoint
  BY DEF HeapInv, HeapOK, Ordered, Headers, HoldersDisjoint, End
<1> QED BY <1>1, HeapAlways, PTL

\* The blocks in use are those handed out and not given back, whatever stale
\* headers the holders' writes, kcalloc's zero-fill and krealloc's copy leave
\* in the payloads and whichever of them kfree is pointed at.
THEOREM UsedBlocksAreHeld == Spec => []UsedMeansHeld
<1>1. HeapInv => UsedMeansHeld
  BY DEF HeapInv, HeapOK, Headers, Typed, UsedMeansHeld
<1> QED BY <1>1, HeapAlways, PTL

\* Between calls no two free blocks are adjacent.
THEOREM NoFragments == Spec => []Coalesced
<1>1. HeapInv => Coalesced
  BY DEF HeapInv, HeapOK, Swept, Coalesced
<1> QED BY <1>1, HeapAlways, PTL
----------------------------------------------------------------------------
(* A holder has the bytes it asked for.                                    *)

\* The division test of kcalloc lets no wrapped product through.
LEMMA ProductExact ==
  ASSUME NEW m \in Nat, NEW n \in Nat,
         m = 0 \/ ((m * n) % SIZE_MOD) \div m = n
  PROVE  (m * n) % SIZE_MOD = m * n
<1>1. SIZE_MOD \in Nat /\ SIZE_MOD > 0
  BY LayoutAssumption
<1>2. m * n \in Nat
  OBVIOUS
<1> DEFINE t == (m * n) % SIZE_MOD
<1>3. \A x \in Nat : x % SIZE_MOD \in Nat /\ x % SIZE_MOD <= x
  BY <1>1
<1>4. t \in Nat /\ t <= m * n
  BY <1>2, <1>3
<1>5. m = 0 \/ t \div m = n
  OBVIOUS
<1> HIDE DEF t
<1>6. CASE m = 0
  <2>1. m * n = 0
    BY <1>6
  <2>2. t = 0
    BY <1>4, <2>1
  <2> QED BY <2>1, <2>2 DEF t
<1>7. CASE m # 0
  <2>1. m * (t \div m) <= t
    BY <1>4, <1>7
  <2>2. m * n <= t
    BY <1>5, <1>7, <2>1
  <2> QED BY <1>2, <1>4, <2>2 DEF t
<1> QED BY <1>6, <1>7

\* LargeEnough as a predicate of the values of size and req.
Sized(sz, rq) ==
    \A b \in Addr : rq[b] # 0 => sz[b] >= rq[b] \/ Wrapping(rq[b])

\* Taking n bytes for somebody who asked for no more keeps everybody's bytes.
LEMMA CarveSized ==
  ASSUME HeapInv, LargeEnough, NEW b \in starts, NEW n \in Nat, Fits(b, n),
         Carve(b, n), NEW r \in Nat, n >= r \/ Wrapping(r)
  PROVE  Sized(size', [req EXCEPT ![b] = r])
<1> DEFINE rq == [req EXCEPT ![b] = r]
           nb == NewBlock(b, n)
<1>1. /\ HeapOK(starts, size, next, flag, req, cur)
      /\ starts \subseteq Addr /\ b \in Addr
      /\ size \in [Addr -> 0 .. ARENA] /\ req \in [Addr -> Nat]
  BY DEF HeapInv, HeapOK, Typed
<1>2. \A a \in Addr : rq[a] = IF a = b THEN r ELSE req[a]
  BY <1>1
<1> SUFFICES ASSUME NEW a \in Addr, rq[a] # 0
             PROVE  size'[a] >= rq[a] \/ Wrapping(rq[a])
  BY DEF Sized
<1>3. CASE Splits(b, n)
  <2>1. nb \in Addr /\ nb \notin starts
    BY <1>1, <1>3, NewBlockFresh DEF Splits, NewBlock
  <2>2. size' = [size EXCEPT ![b] = n, ![nb] = size[b] - n - HDR]
    BY <1>3 DEF Carve
  <2>3. req[nb] = 0
    BY <2>1 DEF HeapInv, HeapOK, Headers
  <2> HIDE DEF nb, rq
  <2>4. a # nb /\ nb # b
    BY <1>2, <2>1, <2>3
  <2>5. size'[a] = IF a = b THEN n ELSE size[a]
    BY <1>1, <2>1, <2>2, <2>4
  <2> QED BY <1>2, <2>5 DEF LargeEnough
<1>4. CASE ~Splits(b, n)
  <2>1. size' = size /\ size[b] >= n /\ size[b] \in Nat
    BY <1>1, <1>4 DEF Carve, Fits
  <2> HIDE DEF rq
  <2> QED BY <1>2, <2>1 DEF LargeEnough
<1> QED BY <1>3, <1>4

\* heap_alloc gives at least the bytes asked for.
LEMMA AllocSized ==
  ASSUME HeapInv, LargeEnough, NEW n \in Nat, NEW k, alloc(n, n, k)
  PROVE  LargeEnough'
<1>1. CASE UNCHANGED <<starts, size, next, flag, req>>
  BY <1>1 DEF LargeEnough
<1>2. ASSUME NEW b \in starts, FirstFit(b, align_up(n)),
             Carve(b, align_up(n)), req' = [req EXCEPT ![b] = n]
      PROVE  LargeEnough'
  <2>1. align_up(n) \in Nat /\ Fits(b, align_up(n))
    BY <1>2, AlignUpNat DEF FirstFit
  <2>2. align_up(n) >= n \/ Wrapping(n)
    BY AlignUpCovers
  <2>3. Sized(size', [req EXCEPT ![b] = n])
    BY <1>2, <2>1, <2>2, CarveSized
  <2> QED BY <1>2, <2>3 DEF Sized, LargeEnough
<1> QED BY <1>1, <1>2 DEF alloc

\* Every step keeps it: kcalloc by its division test, coalesce because it only
\* resizes blocks nobody holds.
LEMMA SizedStep == HeapInv /\ LargeEnough /\ [Next]_vars => LargeEnough'
<1> SUFFICES ASSUME HeapInv, LargeEnough, [Next]_vars PROVE LargeEnough'
  OBVIOUS
<1>0. Requests \subseteq Nat
  BY RequestAssumption, LayoutAssumption
<1>t. /\ starts \subseteq Addr /\ size \in [Addr -> 0 .. ARENA]
      /\ req \in [Addr -> Nat]
  BY DEF HeapInv, HeapOK, Typed
<1>u. CASE UNCHANGED <<size, req>>
  BY <1>u DEF LargeEnough
<1>1. ASSUME NEW n \in Requests, kmalloc(n) PROVE LargeEnough'
  BY <1>0, <1>1, AllocSized DEF kmalloc
<1>2. ASSUME NEW m \in Requests, NEW n \in Requests, kcalloc(m, n)
      PROVE  LargeEnough'
  <2>1. m \in Nat /\ n \in Nat
    BY <1>0
  <2>2. m * n \in Nat
    BY <2>1
  <2>3. CASE m = 0 \/ ((m * n) % SIZE_MOD) \div m = n
    <3>1. (m * n) % SIZE_MOD = m * n
      BY <2>1, <2>3, ProductExact
    <3>2. alloc((m * n) % SIZE_MOD, m * n, (m * n) % SIZE_MOD)
      BY <1>2, <2>3 DEF kcalloc
    <3>3. alloc(m * n, m * n, m * n)
      BY <3>1, <3>2
    <3> QED BY <2>2, <3>3, AllocSized
  <2>4. CASE ~(m = 0 \/ ((m * n) % SIZE_MOD) \div m = n)
    <3>1. UNCHANGED <<size, req>>
      BY <1>2, <2>4 DEF kcalloc
    <3> QED BY <1>u, <3>1
  <2> QED BY <2>3, <2>4
<1>3. ASSUME NEW x \in Addr, caller_write(x) PROVE LargeEnough'
  BY <1>3, <1>u DEF caller_write
<1>4. ASSUME NEW p \in HDR .. ARENA - 1, kfree(p) PROVE LargeEnough'
  <2>1. p - HDR \in Addr
    BY LayoutAssumption DEF Addr
  <2>2. CASE req' = [req EXCEPT ![p - HDR] = 0] /\ size' = size
    BY <1>t, <2>1, <2>2 DEF LargeEnough
  <2> QED BY <1>4, <2>2, <1>u DEF kfree
<1>5. ASSUME NEW p \in HDR .. ARENA - 1, NEW n \in Requests, krealloc(p, n)
      PROVE  LargeEnough'
  <2> DEFINE a == p - HDR
  <2>1. a \in Addr /\ n \in Nat
    BY <1>0, LayoutAssumption DEF Addr
  <2>2. align_up(n) \in Nat /\ (align_up(n) >= n \/ Wrapping(n))
    BY <2>1, AlignUpNat, AlignUpCovers
  <2>3. /\ req[a] # 0
        /\ \/ size[a] >= align_up(n) /\ req' = [req EXCEPT ![a] = n] /\ size' = size
           \/ UNCHANGED <<size, req>>
           \/ \E b \in starts : /\ FirstFit(b, align_up(n))
                                /\ Carve(b, align_up(n))
                                /\ req' = [req EXCEPT ![b] = n, ![a] = 0]
    BY <1>5 DEF krealloc
  <2> HIDE DEF a
  <2>4. CASE size[a] >= align_up(n) /\ req' = [req EXCEPT ![a] = n] /\ size' = size
    <3>1. size[a] \in Nat
      BY <1>t, <2>1
    <3>2. size[a] >= n \/ Wrapping(n)
      BY <2>1, <2>2, <2>4, <3>1
    <3>3. \A b \in Addr : req'[b] = IF b = a THEN n ELSE req[b]
      BY <1>t, <2>4
    <3> QED BY <2>4, <3>2, <3>3 DEF LargeEnough
  <2>5. ASSUME NEW b \in starts, FirstFit(b, align_up(n)),
               Carve(b, align_up(n)), req' = [req EXCEPT ![b] = n, ![a] = 0]
        PROVE  LargeEnough'
    <3> DEFINE rq == [req EXCEPT ![b] = n]
    <3>1. Fits(b, align_up(n))
      BY <2>5 DEF FirstFit
    <3>2. Sized(size', rq)
      BY <2>1, <2>2, <2>5, <3>1, CarveSized
    <3>3. rq \in [Addr -> Nat] /\ req' = [rq EXCEPT ![a] = 0]
      BY <1>t, <2>1, <2>5
    <3> HIDE DEF rq
    <3> QED BY <2>1, <3>2, <3>3 DEF Sized, LargeEnough
  <2> QED BY <2>3, <2>4, <2>5, <1>u
<1>6. CASE coalesce
  <2>1. CASE next[cur] # NULL /\ Merges(cur)
    <3>1. /\ size' = [size EXCEPT ![cur] = size[cur] + HDR + size[next[cur]],
                                  ![next[cur]] = 0]
          /\ req' = req /\ cur # NULL
          /\ flag[cur] = "free" /\ flag[next[cur]] = "free"
      BY <1>6, <2>1 DEF coalesce, Merges
    <3>2. \A a \in Addr : req[a] # 0 => flag[a] = "used"
      BY DEF HeapInv, HeapOK, Headers
    <3>3. \A a \in Addr : req[a] # 0 => size'[a] = size[a]
      BY <1>t, <3>1, <3>2
    <3> QED BY <3>1, <3>3 DEF LargeEnough
  <2> QED BY <1>6, <1>u, <2>1 DEF coalesce
<1>7. CASE UNCHANGED vars
  BY <1>7, <1>u DEF vars
<1> QED BY <1>1, <1>2, <1>3, <1>4, <1>5, <1>6, <1>7 DEF Next

\* heap_alloc, kcalloc and krealloc hand out at least the bytes asked for, for
\* every arena and request but the sizes align_up wraps.
THEOREM HoldersHaveTheirBytes == Spec => []LargeEnough
<1>1. Init => LargeEnough
  BY DEF Init, LargeEnough
<1> QED BY <1>1, SizedStep, HeapAlways, PTL DEF Spec

----------------------------------------------------------------------------
(* The loop of heap_free.                                                  *)

\* The blocks the loop has yet to visit, with the one it is at.
Ahead == {b \in starts : cur # NULL /\ b >= cur}

\* A turn leaves fewer of them.
LoopShrinks == cur # NULL => Ahead' \subseteq Ahead /\ Ahead' # Ahead

LEMMA LoopStep == HeapInv /\ [Next]_vars => [LoopShrinks]_vars
<1> SUFFICES ASSUME HeapInv, Next, cur # NULL
             PROVE  Ahead' \subseteq Ahead /\ Ahead' # Ahead
  BY DEF LoopShrinks
<1>1. coalesce
  BY DEF Next, kmalloc, kcalloc, caller_write, kfree, krealloc
<1>2. cur \in starts /\ starts \subseteq Addr /\ Addr \subseteq Nat
  BY DEF HeapInv, HeapOK, Swept, Typed, Addr
<1>3. cur \in Ahead
  BY <1>2 DEF Ahead
<1> DEFINE d == next[cur]
<1>4. ASSUME d # NULL PROVE d \in starts /\ d > cur /\ d \in Nat /\ cur \in Nat
  <2>1. d \in starts /\ d = cur + HDR + size[cur]
    BY <1>2, <1>4 DEF HeapInv, HeapOK, Chained
  <2>2. size[cur] \in Nat /\ HDR \in Nat \ {0} /\ cur \in Nat
    BY <1>2, LayoutAssumption DEF HeapInv, HeapOK, Typed, Addr
  <2> HIDE DEF d
  <2> QED BY <2>1, <2>2
<1>5. CASE d # NULL /\ Merges(cur)
  <2>1. starts' = starts \ {d} /\ cur' = cur
    BY <1>1, <1>5 DEF coalesce
  <2> HIDE DEF d
  <2>2. d >= cur /\ d \in starts
    BY <1>4, <1>5
  <2>3. d \in Ahead /\ d \notin Ahead'
    BY <2>1, <2>2 DEF Ahead
  <2>4. Ahead' \subseteq Ahead
    BY <2>1 DEF Ahead
  <2> QED BY <2>3, <2>4
<1>6. CASE d # NULL /\ ~Merges(cur)
  <2>1. starts' = starts /\ cur' = d
    BY <1>1, <1>6 DEF coalesce
  <2> HIDE DEF d
  <2>2. d > cur /\ d \in Nat /\ cur \in Nat
    BY <1>4, <1>6
  <2>3. ~(cur >= d)
    BY <2>2
  <2>4. cur \notin Ahead'
    BY <2>1, <2>3 DEF Ahead
  <2>5. ASSUME NEW b \in Ahead' PROVE b \in Ahead
    <3>1. b \in starts /\ b >= d
      BY <2>1 DEF Ahead
    <3>2. b \in Nat
      BY <1>2, <3>1
    <3>3. b >= cur
      BY <2>2, <3>1, <3>2
    <3> QED BY <3>1, <3>3 DEF Ahead
  <2> QED BY <1>3, <2>4, <2>5
<1>7. CASE next[cur] = NULL
  <2>1. cur' = NULL
    BY <1>1, <1>7 DEF coalesce
  <2>2. Ahead' = {}
    BY <2>1 DEF Ahead
  <2> QED BY <1>3, <2>2
<1> QED BY <1>5, <1>6, <1>7

\* heap_free cannot loop for ever: every turn of coalesce, also one that removes
\* a block from the list, leaves fewer blocks to visit, of which there are
\* finitely many (coalesce, kheap_core.c:73, which stays at a block it merged).
THEOREM FreeMakesProgress == Spec => [][LoopShrinks]_vars
  BY LoopStep, HeapAlways, PTL DEF Spec
=============================================================================
