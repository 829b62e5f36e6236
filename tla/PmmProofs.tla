----------------------------- MODULE PmmProofs -----------------------------
(***************************************************************************)
(* Theorems about Pmm, for every frame size, bitmap size, kernel image and *)
(* Multiboot map, and about the bring-up of Boot, for every geometry of    *)
(* the page tables and every machine.                                      *)
(***************************************************************************)
EXTENDS Boot, FiniteSetTheorems, WellFoundedInduction, TLAPS

(* Division and the two roundings of reserve_range.                        *)

\* What \div returns, as two inequalities.
LEMMA DivBounds ==
    ASSUME NEW x \in Nat, NEW p \in Nat \ {0}
    PROVE  /\ x \div p \in Nat
           /\ (x \div p) * p <= x
           /\ x < (x \div p) * p + p
  <1>1. x \div p \in Int /\ x = p * (x \div p) + (x % p) /\ x % p \in 0 .. p - 1
    OBVIOUS
  <1>2. (x \div p) * p <= x /\ x < (x \div p) * p + p
    BY <1>1
  <1>3. x \div p >= 0
    <2> SUFFICES ASSUME x \div p <= -1 PROVE FALSE
      BY <1>1
    <2>1. (x \div p) * p <= (-1) * p
      BY <1>1
    <2> QED BY <2>1, <1>2
  <1> QED BY <1>1, <1>2, <1>3

LEMMA DivExact ==
    ASSUME NEW x \in Nat, NEW p \in Nat \ {0}, x % p = 0
    PROVE  x \div p \in Nat /\ x = (x \div p) * p
  <1>1. x \div p \in Nat
    BY DivBounds
  <1> QED BY <1>1

LEMMA MulMono ==
    ASSUME NEW a \in Int, NEW b \in Int, a <= b, NEW p \in Nat
    PROVE  a * p <= b * p
  OBVIOUS

\* Every frame that overlaps a range is one reserve_range marks.
LEMMA OverlapIsMarked ==
    ASSUME NEW r \in AddrRange, NEW f \in Frames, Overlaps(f, r)
    PROVE  f \in FramesOf(r)
  <1> USE GeometryAssumption
  <1> DEFINE q == r.start \div PAGE_SIZE
             u == (r.end + PAGE_SIZE - 1) \div PAGE_SIZE
  <1>0. /\ f \in Nat /\ r.start \in Nat /\ r.end \in Nat
        /\ f * PAGE_SIZE < r.end /\ r.start < (f + 1) * PAGE_SIZE
        /\ r.end + PAGE_SIZE - 1 \in Nat
    BY DEF Frames, AddrRange, Overlaps
  <1>1. q \in Nat /\ q * PAGE_SIZE <= r.start
    BY <1>0, DivBounds
  <1>2. u \in Nat /\ r.end + PAGE_SIZE - 1 < u * PAGE_SIZE + PAGE_SIZE
    BY <1>0, DivBounds
  <1> HIDE DEF q, u
  <1>3. f >= q
    <2> SUFFICES ASSUME f + 1 <= q PROVE FALSE
      BY <1>0, <1>1
    <2>1. (f + 1) * PAGE_SIZE <= q * PAGE_SIZE
      BY <1>0, <1>1, MulMono
    <2> QED BY <2>1, <1>0, <1>1
  <1>4. f < u
    <2> SUFFICES ASSUME u <= f PROVE FALSE
      BY <1>0, <1>2
    <2>1. u * PAGE_SIZE <= f * PAGE_SIZE
      BY <1>0, <1>2, MulMono
    <2> QED BY <2>1, <1>0, <1>2
  <1> QED BY <1>3, <1>4 DEF FramesOf, q, u

\* A marked frame of a range that starts on a frame boundary has its base
\* address inside the range, which is what pmm_is_protected tests.
LEMMA MarkedIsProtected ==
    ASSUME NEW r \in AddrRange, r.start % PAGE_SIZE = 0,
           NEW a \in Nat, a % PAGE_SIZE = 0,
           a \div PAGE_SIZE \in FramesOf(r)
    PROVE  a >= r.start /\ a < r.end
  <1> USE GeometryAssumption
  <1> DEFINE f == a \div PAGE_SIZE
             q == r.start \div PAGE_SIZE
             u == (r.end + PAGE_SIZE - 1) \div PAGE_SIZE
  <1>0. /\ r.start \in Nat /\ r.end \in Nat /\ r.end + PAGE_SIZE - 1 \in Nat
        /\ f >= q /\ f < u
    BY DEF AddrRange, FramesOf
  <1>1. f \in Nat /\ a = f * PAGE_SIZE
    BY DivExact
  <1>2. q \in Nat /\ r.start = q * PAGE_SIZE
    BY <1>0, DivExact
  <1>3. u \in Nat /\ u * PAGE_SIZE <= r.end + PAGE_SIZE - 1
    BY <1>0, DivBounds
  <1> HIDE DEF f, q, u
  <1>4. q * PAGE_SIZE <= f * PAGE_SIZE
    BY <1>0, <1>1, <1>2, MulMono
  <1>5. (f + 1) * PAGE_SIZE <= u * PAGE_SIZE
    BY <1>0, <1>1, <1>3, MulMono
  <1> QED BY <1>0, <1>1, <1>2, <1>3, <1>4, <1>5

----------------------------------------------------------------------------
(* Type correctness.                                                       *)

\* The arguments of the reserve_range calls are address ranges.
LEMMA ReserveArgType ==
    ASSUME mbi \in BootInfos, NEW k
    PROVE  ReserveArg(k) \in AddrRange
  BY GeometryAssumption, ImageAssumption, BootAssumption
     DEF ReserveArg, LowRange, KernelRange, MbInfoRange, MmapRange, AddrRange,
         BootInfo

LEMMA CardinalityType ==
    ASSUME NEW S \in SUBSET Frames
    PROVE  IsFiniteSet(S) /\ Cardinality(S) \in Nat
  <1>1. IsFiniteSet(Frames)
    BY GeometryAssumption, FS_Interval DEF Frames
  <1>2. IsFiniteSet(S)
    BY <1>1, FS_Subset
  <1> QED BY <1>2, FS_CardinalityType

\* The type invariant is inductive.
LEMMA TypeStep == TypeOK /\ [Next]_vars => TypeOK'
  <1> SUFFICES ASSUME TypeOK, [Next]_vars PROVE TypeOK'
    OBVIOUS
  <1> USE GeometryAssumption, BootAssumption
  <1>0. AddrSpace \in Nat \ {0}
    BY DEF AddrSpace
  <1>1. CASE pmm_init_begin
    <2>1. mbi \in BootInfo
      BY DEF TypeOK
    <2>2. (LOW_MEMORY + mbi.upper) % AddrSpace \in Nat
      BY <2>1, <1>0 DEF BootInfo
    <2> QED BY <1>1, <2>2 DEF pmm_init_begin, TypeOK
  <1>2. CASE pmm_init_entry
    <2> DEFINE e == mbi.entries[step]
    <2>1. e \in Region
      BY <1>2 DEF pmm_init_entry, TypeOK, BootInfo
    <2>2. e.addr \in Nat /\ e.len \in Nat
      BY <2>1 DEF Region
    <2> HIDE DEF e
    <2>3. highest' \in Nat
      BY <1>2, <2>2, <1>0 DEF pmm_init_entry, NewHighest, RegionEnd, TypeOK, e
    <2>4. free' \subseteq Frames
      BY <1>2 DEF pmm_init_entry, RegionFrames, TypeOK
    <2> QED BY <1>2, <2>3, <2>4 DEF pmm_init_entry, TypeOK
  <1>3. CASE pmm_init_count
    <2>1. highest \div PAGE_SIZE \in Nat
      BY DivBounds DEF TypeOK
    <2>2. {f \in free : f < total_frames'} \in SUBSET Frames
      BY DEF TypeOK
    <2>3. usable_frames' \in Nat
      BY <1>3, <2>2, CardinalityType DEF pmm_init_count
    <2> QED BY <1>3, <2>1, <2>3 DEF pmm_init_count, TypeOK
  <1>4. CASE pmm_init_reserve
    <2>1. ReserveArg(step) \in AddrRange
      BY ReserveArgType DEF TypeOK
    <2>2. FreeFrames \cap FramesOf(ReserveArg(step)) \in SUBSET Frames
      BY DEF TypeOK, FreeFrames
    <2>3. Cardinality(FreeFrames \cap FramesOf(ReserveArg(step))) \in Nat
      BY <2>2, CardinalityType
    <2>4. prot' \in Seq(AddrRange) /\ free' \subseteq Frames
      BY <1>4, <2>1 DEF pmm_init_reserve, reserve_range, TypeOK
    <2>5. reserved_frames' \in Nat
      BY <1>4, <2>3 DEF pmm_init_reserve, reserve_range, TypeOK
    <2> QED BY <1>4, <2>4, <2>5 DEF pmm_init_reserve, TypeOK
  <1>5. CASE pmm_alloc_frame
    <2>1. \A f \in FreeFrames : f \in Frames /\ f * PAGE_SIZE \in Int
      BY DEF FreeFrames, TypeOK, Frames
    <2>2. ret' \in Int /\ free' \subseteq Frames /\ owned' \subseteq Frames
      BY <1>5, <2>1 DEF pmm_alloc_frame, TypeOK
    <2> QED BY <1>5, <2>2 DEF pmm_alloc_frame, TypeOK
  <1>6. ASSUME NEW a \in 0 .. AddrSpace - 1, pmm_free_frame(a)
        PROVE  TypeOK'
    <2>1. a \div PAGE_SIZE \in Frames
      <3> DEFINE q == a \div PAGE_SIZE
      <3>1. q \in Nat /\ q * PAGE_SIZE <= a /\ a \in Nat
        BY <1>0, DivBounds
      <3>2. a < MAX_FRAMES * PAGE_SIZE
        BY DEF AddrSpace
      <3> HIDE DEF q
      <3>3. q < MAX_FRAMES
        <4> SUFFICES ASSUME MAX_FRAMES <= q PROVE FALSE
          BY <3>1
        <4>1. MAX_FRAMES * PAGE_SIZE <= q * PAGE_SIZE
          BY <3>1, MulMono
        <4> QED BY <4>1, <3>1, <3>2
      <3> QED BY <3>1, <3>3 DEF Frames, q
    <2> QED BY <1>6, <2>1 DEF pmm_free_frame, FreeResult, TypeOK
  <1>7. CASE UNCHANGED vars
    BY <1>7 DEF vars, TypeOK
  <1> QED BY <1>1, <1>2, <1>3, <1>4, <1>5, <1>6, <1>7 DEF Next, pmm_init

LEMMA TypeInit == Init => TypeOK
  BY DEF Init, TypeOK

\* Every reachable state of the manager is well typed, for every memory map.
THEOREM TypeCorrect == Spec => []TypeOK
  BY TypeInit, TypeStep, PTL DEF Spec

----------------------------------------------------------------------------
(* Protection of the low 1 MiB and of the kernel image.                    *)

\* reserve_range has been called for the k-th range.
Past(k) == phase = "ready" \/ (phase = "reserve" /\ step > k)

\* The k-th range is recorded in prot, and its frames are beyond reach, unless
\* the manager is inactive (nothing free, nothing owned, no frames).
Inactive == total_frames = 0 /\ owned = {}

Sealed(k) ==
    Past(k) /\ ~Inactive =>
        /\ Len(prot) >= k /\ prot[k] = ReserveArg(k)
        /\ Reachable \cap FramesOf(ReserveArg(k)) = {}

\* The inductive invariant behind KernelProtected: while the ranges are being
\* reserved prot holds no more than the calls made so far, nothing is owned
\* before pmm_init returns, and the first two ranges are sealed.
ProtInv ==
    /\ TypeOK
    /\ phase \in {"boot", "map", "count"} => Len(prot) = 0 /\ total_frames = 0
    /\ phase = "reserve" => step <= ReserveCalls /\ Len(prot) <= step - 1
    /\ phase # "ready" => owned = {}
    /\ owned \cap FreeFrames = {}
    /\ Sealed(1) /\ Sealed(2)

\* The low 1 MiB and the kernel image are nonempty and start on a frame
\* boundary: the reason pmm_is_protected refuses each of their frames.
LEMMA SealedRanges ==
    ASSUME NEW k \in {1, 2}
    PROVE  /\ ReserveArg(k) \in AddrRange
           /\ ReserveArg(k).start < ReserveArg(k).end
           /\ ReserveArg(k).start % PAGE_SIZE = 0
  <1>1. 0 % PAGE_SIZE = 0
    BY GeometryAssumption
  <1>2. CASE k = 1
    BY <1>1, <1>2, GeometryAssumption DEF ReserveArg, LowRange, AddrRange
  <1>3. CASE k = 2
    BY <1>3, GeometryAssumption, ImageAssumption
       DEF ReserveArg, KernelRange, AddrRange
  <1> QED BY <1>2, <1>3

LEMMA ProtInit == Init => ProtInv
  BY TypeInit DEF Init, ProtInv, Sealed, Past, FreeFrames

\* Reserving the step-th range seals it, and leaves sealed what was.
LEMMA ReserveSeals ==
    ASSUME ProtInv, pmm_init_reserve, NEW k \in {1, 2}
    PROVE  Sealed(k)'
  <1> DEFINE r == ReserveArg(step)
  <1>0. /\ step \in Nat \ {0} /\ step <= 4 /\ Len(prot) \in Nat
        /\ Len(prot) <= step - 1 /\ prot \in Seq(AddrRange)
        /\ phase = "reserve" /\ owned = {} /\ owned' = {}
        /\ total_frames' = total_frames
    BY DEF ProtInv, TypeOK, pmm_init_reserve, ReserveCalls
  <1>1. ReserveArg(k)' = ReserveArg(k)
    BY DEF pmm_init_reserve, ReserveArg, LowRange, KernelRange, MbInfoRange,
           MmapRange
  <1>2. FramesOf(ReserveArg(k))' = FramesOf(ReserveArg(k))
    BY <1>1 DEF FramesOf
  <1>3. SUFFICES ASSUME Past(k)', ~Inactive'
        PROVE  /\ Len(prot') >= k /\ prot'[k] = ReserveArg(k)
               /\ Reachable' \cap FramesOf(ReserveArg(k)) = {}
    BY <1>1, <1>2 DEF Sealed
  <1>4. ~Inactive
    BY <1>0, <1>3 DEF Inactive
  <1>5. Reachable' \subseteq Reachable
    BY <1>0 DEF pmm_init_reserve, reserve_range, Reachable, FreeFrames
  <1>6. CASE step > k
    <2>1. Past(k)
      BY <1>0, <1>6 DEF Past
    <2>2. /\ Len(prot) >= k /\ prot[k] = ReserveArg(k)
          /\ Reachable \cap FramesOf(ReserveArg(k)) = {}
      BY <2>1, <1>4 DEF ProtInv, Sealed
    <2>3. Len(prot') >= k /\ prot'[k] = prot[k]
      BY <2>2, <1>0 DEF pmm_init_reserve, reserve_range
    <2> QED BY <2>2, <2>3, <1>5
  <1>7. CASE step = k
    <2>1. r \in AddrRange /\ ~(r.end <= r.start)
      BY <1>7, SealedRanges DEF AddrRange
    <2>2. Len(prot) = k - 1
      <3>1. CASE k = 1
        BY <1>0, <1>7, <3>1
      <3>2. CASE k = 2
        <4>1. Past(1)
          BY <1>0, <1>7, <3>2 DEF Past
        <4>2. Len(prot) >= 1
          BY <4>1, <1>4 DEF ProtInv, Sealed
        <4>3. Len(prot) \in Nat /\ Len(prot) <= 2 - 1
          BY <1>0, <1>7, <3>2
        <4>4. \A n \in Nat : n >= 1 /\ n <= 2 - 1 => n = 1
          OBVIOUS
        <4>5. Len(prot) = 1
          BY <4>2, <4>3, <4>4, Zenon
        <4> QED BY <4>5, <3>2
      <3> QED BY <3>1, <3>2
    <2>3. prot' = Append(prot, r)
      BY <2>1, <2>2 DEF pmm_init_reserve, reserve_range, MAX_PROT
    <2>4. Len(prot') >= k /\ prot'[k] = ReserveArg(k)
      BY <2>1, <2>2, <2>3, <1>0, <1>7
    <2>5. free' = free \ (FreeFrames \cap FramesOf(r))
      BY <2>1 DEF pmm_init_reserve, reserve_range
    <2>6. Reachable' \cap FramesOf(ReserveArg(k)) = {}
      BY <2>5, <1>0, <1>7 DEF Reachable, FreeFrames
    <2> QED BY <2>4, <2>6
  <1>8. ~(step < k)
    BY <1>0, <1>3 DEF Past, pmm_init_reserve, ReserveCalls
  <1> QED BY <1>0, <1>6, <1>7, <1>8

\* freepage cannot reach a sealed range: an aligned address whose frame is in
\* the range lies inside the range, so pmm_is_protected holds.
LEMMA FreeKeepsSeal ==
    ASSUME ProtInv, NEW a \in 0 .. AddrSpace - 1, pmm_free_frame(a),
           NEW k \in {1, 2}
    PROVE  Sealed(k)'
  <1> USE GeometryAssumption
  <1> DEFINE f == a \div PAGE_SIZE
             r == ReserveArg(k)
  <1>0. a \in Nat
    BY DEF AddrSpace
  <1>1. ReserveArg(k)' = ReserveArg(k) /\ FramesOf(r)' = FramesOf(r)
    BY DEF pmm_free_frame, ReserveArg, LowRange, KernelRange, MbInfoRange,
           MmapRange, FramesOf
  <1>2. /\ phase = "ready" /\ prot' = prot /\ total_frames' = total_frames
        /\ ret' = FreeResult(a)
    BY DEF pmm_free_frame
  <1>3. CASE ret' # 0
    <2>1. free' = free /\ owned' = owned
      BY <1>3 DEF pmm_free_frame
    <2>2. Reachable' = Reachable
      BY <2>1, <1>2 DEF Reachable, FreeFrames
    <2>3. Sealed(k)
      BY DEF ProtInv
    <2> QED BY <2>1, <2>2, <2>3, <1>1, <1>2 DEF Sealed, Past, Inactive
  <1>4. CASE ret' = 0
    <2>1. /\ a % PAGE_SIZE = 0 /\ f < total_frames
          /\ ~pmm_is_protected(a)
      BY <1>2, <1>4, DivBounds, <1>0 DEF FreeResult, ProtInv, TypeOK
    <2>2. total_frames # 0
      BY <2>1, <1>0, DivBounds DEF ProtInv, TypeOK
    <2>3. /\ Len(prot) >= k /\ prot[k] = r
          /\ Reachable \cap FramesOf(r) = {}
      BY <2>2, <1>2 DEF ProtInv, Sealed, Past, Inactive
    <2>4. ~(a >= r.start /\ a < r.end)
      BY <2>1, <2>3 DEF pmm_is_protected, ProtInv, TypeOK
    <2>5. f \notin FramesOf(r)
      BY <2>1, <2>4, <1>0, SealedRanges, MarkedIsProtected
    <2>6. Reachable' \subseteq Reachable \cup {f}
      BY <1>2, <1>4 DEF pmm_free_frame, Reachable, FreeFrames
    <2>7. Reachable' \cap FramesOf(r) = {}
      BY <2>3, <2>5, <2>6
    <2> QED BY <2>3, <2>7, <1>1, <1>2 DEF Sealed
  <1> QED BY <1>3, <1>4

\* Every step preserves the protection invariant.
LEMMA ProtStep == ProtInv /\ [Next]_vars => ProtInv'
  <1> SUFFICES ASSUME ProtInv, [Next]_vars PROVE ProtInv'
    OBVIOUS
  <1>0. TypeOK'
    BY TypeStep DEF ProtInv
  <1>1. CASE pmm_init_begin
    BY <1>0, <1>1 DEF pmm_init_begin, ProtInv, Sealed, Past, Inactive, FreeFrames
  <1>2. CASE pmm_init_entry
    BY <1>0, <1>2 DEF pmm_init_entry, ProtInv, Sealed, Past, FreeFrames
  <1>3. CASE pmm_init_count
    BY <1>0, <1>3 DEF pmm_init_count, ProtInv, Sealed, Past, FreeFrames,
                      ReserveCalls
  <1>4. CASE pmm_init_reserve
    <2>1. Sealed(1)' /\ Sealed(2)'
      BY <1>4, ReserveSeals
    <2>2. phase' = "reserve" => step' <= ReserveCalls' /\ Len(prot') <= step' - 1
      <3>1. Len(prot') <= Len(prot) + 1
        BY <1>4, ReserveArgType DEF pmm_init_reserve, reserve_range, ProtInv, TypeOK
      <3>2. Len(prot) \in Nat /\ Len(prot') \in Nat
        BY <1>0 DEF ProtInv, TypeOK
      <3>3. /\ step \in Nat /\ step <= ReserveCalls /\ Len(prot) <= step - 1
            /\ step' = step + 1 /\ ReserveCalls' = ReserveCalls
            /\ ReserveCalls \in Nat
        BY <1>4 DEF pmm_init_reserve, ProtInv, TypeOK, ReserveCalls
      <3>4. phase' = "reserve" => step # ReserveCalls
        BY <1>4 DEF pmm_init_reserve
      <3> QED BY <3>1, <3>2, <3>3, <3>4
    <2>3. owned' = {} /\ phase' \in {"reserve", "ready"}
      BY <1>4 DEF pmm_init_reserve, ProtInv
    <2> QED BY <1>0, <2>1, <2>2, <2>3 DEF ProtInv
  <1>5. CASE pmm_alloc_frame
    <2>1. Reachable' \subseteq Reachable
      BY <1>5 DEF pmm_alloc_frame, Reachable, FreeFrames
    <2>2. Inactive => Inactive'
      BY <1>5 DEF pmm_alloc_frame, Inactive, FreeFrames, ProtInv, TypeOK, Frames
    <2>3. owned' \cap FreeFrames' = {}
      BY <1>5 DEF pmm_alloc_frame, FreeFrames, ProtInv
    <2>4. /\ phase = "ready" /\ phase' = phase /\ prot' = prot
          /\ \A k \in {1, 2} : /\ ReserveArg(k)' = ReserveArg(k)
                               /\ FramesOf(ReserveArg(k))' = FramesOf(ReserveArg(k))
      BY <1>5 DEF pmm_alloc_frame, ReserveArg, LowRange, KernelRange,
                  MbInfoRange, MmapRange, FramesOf
    <2>5. Sealed(1)' /\ Sealed(2)'
      BY <2>1, <2>2, <2>4 DEF ProtInv, Sealed, Past
    <2> QED BY <1>0, <2>3, <2>4, <2>5 DEF ProtInv
  <1>6. ASSUME NEW a \in 0 .. AddrSpace - 1, pmm_free_frame(a)
        PROVE  ProtInv'
    <2>1. Sealed(1)' /\ Sealed(2)'
      BY <1>6, FreeKeepsSeal
    <2>2. owned' \cap FreeFrames' = {}
      BY <1>6 DEF pmm_free_frame, FreeFrames, ProtInv
    <2> QED BY <1>0, <1>6, <2>1, <2>2 DEF pmm_free_frame, ProtInv
  <1>7. CASE UNCHANGED vars
    BY <1>0, <1>7
       DEF vars, ProtInv, Sealed, Past, Inactive, Reachable, FreeFrames,
           ReserveCalls, ReserveArg, LowRange, KernelRange, MbInfoRange,
           MmapRange, FramesOf
  <1> QED BY <1>1, <1>2, <1>3, <1>4, <1>5, <1>6, <1>7 DEF Next, pmm_init

\* No address given to freepage ever exposes the first 1 MiB or the kernel
\* image (pmm_free_frame, pmm_is_protected, reserve_range).
THEOREM KernelIsProtected == Spec => []KernelProtected
  <1>1. ProtInv => KernelProtected
    <2> SUFFICES ASSUME ProtInv, phase = "ready", NEW f \in Reachable,
                        NEW k \in {1, 2}, Overlaps(f, ReserveArg(k))
                 PROVE  FALSE
      BY DEF KernelProtected, ReserveArg
    <2>1. f \in Frames
      BY DEF Reachable, FreeFrames, ProtInv, TypeOK
    <2>2. f \in FramesOf(ReserveArg(k))
      BY <2>1, SealedRanges, OverlapIsMarked
    <2>3. ~Inactive
      BY DEF Inactive, Reachable, FreeFrames, ProtInv, TypeOK, Frames
    <2> QED BY <2>2, <2>3 DEF ProtInv, Sealed, Past
  <1> QED BY <1>1, ProtInit, ProtStep, PTL DEF Spec

\* 0 is an unambiguous "no memory", and no frame has two owners
\* (pmm_alloc_frame).
THEOREM NoSharedFrame == Spec => []NoAmbiguousOrSharedFrame
  <1>1. ProtInv => NoAmbiguousOrSharedFrame
    <2> SUFFICES ASSUME ProtInv, phase = "ready", 0 \in Reachable PROVE FALSE
      BY DEF NoAmbiguousOrSharedFrame, ProtInv
    <2>1. Overlaps(0, LowRange) /\ 0 \in Frames /\ LowRange = ReserveArg(1)
      BY GeometryAssumption DEF Overlaps, LowRange, Frames, ReserveArg
    <2>2. 0 \in FramesOf(ReserveArg(1))
      BY <2>1, SealedRanges, OverlapIsMarked
    <2>3. ~Inactive
      BY DEF Inactive, Reachable, FreeFrames, ProtInv, TypeOK, Frames
    <2> QED BY <2>2, <2>3 DEF ProtInv, Sealed, Past
  <1> QED BY <1>1, ProtInit, ProtStep, PTL DEF Spec

----------------------------------------------------------------------------
(* Accounting, as long as callers free only what they were given.          *)

Counted == Cardinality(FreeFrames) + reserved_frames + Cardinality(owned)

\* Inductive: once total_frames is set, each frame counted as usable is free,
\* reserved or owned, and owned frames were free ones.
AccountInv ==
    /\ TypeOK
    /\ phase \in {"boot", "map", "count"} =>
          usable_frames = 0 /\ reserved_frames = 0 /\ total_frames = 0
    /\ phase # "ready" => owned = {}
    /\ owned \cap FreeFrames = {}
    /\ \A f \in owned : f < total_frames
    /\ phase # "ready" => stray = {}
    /\ phase \in {"reserve", "ready"} /\ stray = {} => usable_frames = Counted

\* Frames move one at a time between the free set and the callers.
LEMMA Transfer ==
    ASSUME NEW A \in SUBSET Frames, NEW B \in SUBSET Frames,
           NEW f \in A, f \notin B
    PROVE  Cardinality(A \ {f}) + Cardinality(B \cup {f})
             = Cardinality(A) + Cardinality(B)
  <1>1. /\ IsFiniteSet(A) /\ Cardinality(A) \in Nat
        /\ IsFiniteSet(B) /\ Cardinality(B) \in Nat
    BY CardinalityType
  <1>2. Cardinality(A \ {f}) = Cardinality(A) - 1
    BY <1>1, FS_RemoveElement
  <1>3. Cardinality(B \cup {f}) = Cardinality(B) + 1
    BY <1>1, FS_AddElement
  <1> QED BY <1>1, <1>2, <1>3

LEMMA AccountInit == Init => AccountInv
  BY TypeInit DEF Init, AccountInv

LEMMA AccountStep == AccountInv /\ [Next]_vars => AccountInv'
  <1> SUFFICES ASSUME AccountInv, [Next]_vars PROVE AccountInv'
    OBVIOUS
  <1>0. TypeOK'
    BY TypeStep DEF AccountInv
  <1>e. Cardinality({}) = 0
    BY FS_EmptySet
  <1>1. CASE pmm_init_begin
    <2>1. /\ owned' = {} /\ total_frames' = 0 /\ usable_frames' = 0
          /\ reserved_frames' = 0 /\ stray' = {}
      BY <1>1 DEF pmm_init_begin, AccountInv
    <2>2. FreeFrames' = {}
      <3>1. \A f \in free' : ~(f < 0)
        BY <1>0 DEF TypeOK, Frames
      <3> QED BY <2>1, <3>1 DEF FreeFrames
    <2>3. Counted' = 0
      BY <2>1, <2>2, <1>e DEF Counted
    <2> QED BY <2>1, <2>2, <2>3, <1>0 DEF AccountInv
  <1>2. CASE pmm_init_entry
    BY <1>0, <1>2 DEF pmm_init_entry, AccountInv, FreeFrames
  <1>3. CASE pmm_init_count
    <2>1. /\ owned' = {} /\ reserved_frames' = 0 /\ phase' = "reserve" /\ stray' = {}
          /\ usable_frames' = Cardinality(FreeFrames')
      BY <1>3 DEF pmm_init_count, AccountInv, FreeFrames
    <2>2. usable_frames' = Counted'
      BY <2>1, <1>e, <1>0 DEF Counted, TypeOK
    <2> QED BY <2>1, <2>2, <1>0 DEF AccountInv
  <1>4. CASE pmm_init_reserve
    <2> DEFINE F == FreeFrames \cap FramesOf(ReserveArg(step))
    <2>1. /\ owned = {} /\ owned' = {} /\ total_frames' = total_frames
          /\ usable_frames' = usable_frames /\ phase' \in {"reserve", "ready"}
          /\ stray' = {} /\ usable_frames = Counted
      BY <1>4 DEF pmm_init_reserve, AccountInv
    <2>2. FreeFrames \in SUBSET Frames
      BY DEF FreeFrames, AccountInv, TypeOK
    <2>3. IsFiniteSet(FreeFrames) /\ Cardinality(FreeFrames) \in Nat
      BY <2>2, CardinalityType
    <2>4. CASE ReserveArg(step).end <= ReserveArg(step).start
      <3>1. free' = free /\ reserved_frames' = reserved_frames
        BY <2>4, <1>4 DEF pmm_init_reserve, reserve_range
      <3> QED BY <3>1, <2>1, <1>0 DEF AccountInv, Counted, FreeFrames
    <2>5. CASE ~(ReserveArg(step).end <= ReserveArg(step).start)
      <3>1. /\ free' = free \ F
            /\ reserved_frames' = reserved_frames + Cardinality(F)
        BY <2>5, <1>4 DEF pmm_init_reserve, reserve_range
      <3>2. FreeFrames' = FreeFrames \ F
        BY <3>1, <2>1 DEF FreeFrames
      <3>3. FreeFrames \cap F = F /\ F \in SUBSET Frames
        BY <2>2
      <3>4. /\ Cardinality(FreeFrames \ F) = Cardinality(FreeFrames) - Cardinality(F)
            /\ Cardinality(F) \in Nat
        BY <2>3, <3>3, FS_Difference, CardinalityType
      <3> HIDE DEF F
      <3>5. Counted' = Counted
        BY <3>1, <3>2, <3>4, <2>1, <2>3, <1>e DEF Counted, AccountInv, TypeOK
      <3> QED BY <3>5, <2>1, <1>0 DEF AccountInv
    <2> QED BY <2>4, <2>5
  <1>5. CASE pmm_alloc_frame
    <2>1. CASE UNCHANGED <<free, owned>>
      BY <1>0, <1>5, <2>1
         DEF pmm_alloc_frame, AccountInv, Counted, FreeFrames
    <2>2. ASSUME NEW f \in FreeFrames,
                 free' = free \ {f}, owned' = owned \cup {f}
          PROVE  AccountInv'
      <3>1. /\ phase = "ready" /\ phase' = "ready" /\ total_frames' = total_frames
            /\ usable_frames' = usable_frames /\ stray' = stray
            /\ reserved_frames' = reserved_frames
        BY <1>5 DEF pmm_alloc_frame
      <3>2. FreeFrames' = FreeFrames \ {f}
        BY <2>2, <3>1 DEF FreeFrames
      <3>3. f \notin owned /\ FreeFrames \in SUBSET Frames /\ owned \in SUBSET Frames
        BY DEF AccountInv, FreeFrames, TypeOK
      <3>4. Cardinality(FreeFrames') + Cardinality(owned')
              = Cardinality(FreeFrames) + Cardinality(owned)
        BY <2>2, <3>2, <3>3, Transfer
      <3>5. /\ Cardinality(FreeFrames') \in Nat /\ Cardinality(owned') \in Nat
            /\ Cardinality(FreeFrames) \in Nat /\ Cardinality(owned) \in Nat
        BY <3>2, <3>3, <2>2, <1>0, CardinalityType DEF TypeOK
      <3>6. Counted' = Counted
        BY <3>1, <3>4, <3>5 DEF Counted, AccountInv, TypeOK
      <3>7. owned' \cap FreeFrames' = {} /\ \A g \in owned' : g < total_frames'
        BY <2>2, <3>1, <3>2 DEF AccountInv, FreeFrames
      <3> QED BY <1>0, <3>1, <3>6, <3>7 DEF AccountInv
    <2> QED BY <1>5, <2>1, <2>2 DEF pmm_alloc_frame
  <1>6. ASSUME NEW a \in 0 .. AddrSpace - 1, pmm_free_frame(a)
        PROVE  AccountInv'
    <2> DEFINE f == a \div PAGE_SIZE
    <2>1. /\ phase = "ready" /\ phase' = "ready" /\ total_frames' = total_frames
          /\ usable_frames' = usable_frames
          /\ reserved_frames' = reserved_frames
      BY <1>6 DEF pmm_free_frame
    <2>2. /\ owned' \cap FreeFrames' = {}
          /\ \A g \in owned' : g < total_frames'
      BY <1>6, <2>1 DEF pmm_free_frame, AccountInv, FreeFrames
    <2>3. SUFFICES ASSUME stray' = {} PROVE usable_frames' = Counted'
      BY <1>0, <2>1, <2>2 DEF AccountInv
    <2>4. stray = {} /\ (ret' = 0 => f \in owned)
      BY <1>6, <2>3 DEF pmm_free_frame, AccountInv, TypeOK
    <2>5. usable_frames = Counted
      BY <2>1, <2>4 DEF AccountInv
    <2>6. CASE ret' # 0
      BY <1>6, <2>1, <2>5, <2>6 DEF pmm_free_frame, Counted, FreeFrames
    <2>7. CASE ret' = 0
      <3>0. f \in owned /\ f \in Frames
        BY <2>4, <2>7 DEF AccountInv, TypeOK
      <3>1. free' = free \cup {f} /\ owned' = owned \ {f}
        BY <1>6, <2>7 DEF pmm_free_frame
      <3> HIDE DEF f
      <3>2. f < total_frames /\ f \notin FreeFrames
        BY <3>0 DEF AccountInv
      <3>3. FreeFrames' = FreeFrames \cup {f}
        BY <3>1, <3>2, <2>1 DEF FreeFrames
      <3>4. FreeFrames \in SUBSET Frames /\ owned \in SUBSET Frames
        BY DEF AccountInv, FreeFrames, TypeOK
      <3>5. Cardinality(owned') + Cardinality(FreeFrames')
              = Cardinality(owned) + Cardinality(FreeFrames)
        BY <3>0, <3>1, <3>2, <3>3, <3>4, Transfer
      <3>6. /\ Cardinality(FreeFrames') \in Nat /\ Cardinality(owned') \in Nat
            /\ Cardinality(FreeFrames) \in Nat /\ Cardinality(owned) \in Nat
        BY <3>0, <3>1, <3>3, <3>4, CardinalityType
      <3> QED BY <2>1, <2>5, <3>5, <3>6 DEF Counted, AccountInv, TypeOK
    <2> QED BY <2>6, <2>7
  <1>7. CASE UNCHANGED vars
    BY <1>0, <1>7 DEF vars, AccountInv, Counted, FreeFrames
  <1> QED BY <1>1, <1>2, <1>3, <1>4, <1>5, <1>6, <1>7 DEF Next, pmm_init

\* With callers that free only what they hold, the "used" figure of the mem
\* command is exactly the reserved frames plus the allocated ones
\* (pmm_used_frames).
THEOREM AccountingIsExact == Spec => []UsedIsReservedPlusAllocated
  <1>1. AccountInv => UsedIsReservedPlusAllocated
    <2> SUFFICES ASSUME AccountInv, phase = "ready", stray = {}
                 PROVE  usable_frames - Cardinality(FreeFrames)
                          = reserved_frames + Cardinality(owned)
      BY DEF UsedIsReservedPlusAllocated
    <2>1. FreeFrames \in SUBSET Frames /\ owned \in SUBSET Frames
      BY DEF AccountInv, FreeFrames, TypeOK
    <2>2. Cardinality(FreeFrames) \in Nat /\ Cardinality(owned) \in Nat
      BY <2>1, CardinalityType
    <2> QED BY <2>2 DEF AccountInv, Counted, TypeOK
  <1> QED BY <1>1, AccountInit, AccountStep, PTL DEF Spec

----------------------------------------------------------------------------
(* The boot structures, as long as callers free only what they hold.       *)

\* A freed frame is then one its caller held.
LEMMA HonestFree ==
    ASSUME TypeOK, NEW a \in 0 .. AddrSpace - 1, pmm_free_frame(a), stray' = {}
    PROVE  stray = {} /\ free' \cup owned' \subseteq free \cup owned
  <1>1. stray = {} /\ (ret' = 0 => a \div PAGE_SIZE \in owned)
    BY DEF pmm_free_frame, TypeOK
  <1>2. CASE ret' = 0
    BY <1>1, <1>2 DEF pmm_free_frame
  <1>3. CASE ret' # 0
    BY <1>1, <1>3 DEF pmm_free_frame
  <1> QED BY <1>1, <1>2, <1>3

\* The k-th range is out of reach; no record in prot is needed for that.
Kept(k) ==
    k <= ReserveCalls /\ Past(k) /\ stray = {} =>
        Reachable \cap FramesOf(ReserveArg(k)) = {}

\* Inductive, with AccountInv: once a range has been reserved, none of its
\* frames is in reach again.  A map of no bytes yields no frames at all.
StructsInv ==
    /\ AccountInv
    /\ phase = "reserve" => step <= ReserveCalls
    /\ \A k \in 1 .. 4 : Kept(k)
    /\ mbi.map /\ mbi.mmap_len = 0 => highest = 0 /\ total_frames = 0

\* No step changes the ranges.
LEMMA SameRanges ==
    ASSUME mbi' = mbi, NEW k
    PROVE  /\ ReserveArg(k)' = ReserveArg(k) /\ ReserveCalls' = ReserveCalls
           /\ FramesOf(ReserveArg(k))' = FramesOf(ReserveArg(k))
  BY DEF ReserveArg, ReserveCalls, LowRange, KernelRange, MbInfoRange, MmapRange,
         FramesOf

\* The ranges that are reserved are not empty.
LEMMA RangesNonempty ==
    ASSUME mbi \in BootInfos, NEW k \in 1 .. 4, k <= ReserveCalls
    PROVE  ReserveArg(k) \in AddrRange /\ ~(ReserveArg(k).end <= ReserveArg(k).start)
  <1>1. mbi \in BootInfo
    BY BootAssumption
  <1>2. ReserveArg(k) \in AddrRange
    BY ReserveArgType
  <1>3. ASSUME k = 1 PROVE ~(ReserveArg(k).end <= ReserveArg(k).start)
    BY <1>3, GeometryAssumption DEF ReserveArg, LowRange
  <1>4. ASSUME k = 2 PROVE ~(ReserveArg(k).end <= ReserveArg(k).start)
    BY <1>4, ImageAssumption DEF ReserveArg, KernelRange
  <1>5. ASSUME k = 3 PROVE ~(ReserveArg(k).end <= ReserveArg(k).start)
    <2>1. mbi.addr \in Nat
      BY <1>1 DEF BootInfo
    <2> QED BY <1>5, <2>1, BootAssumption DEF ReserveArg, MbInfoRange
  <1>6. ASSUME k = 4 PROVE ~(ReserveArg(k).end <= ReserveArg(k).start)
    <2>1. mbi.mmap_len # 0 /\ mbi.mmap_len \in Nat /\ mbi.mmap_addr \in Nat
      BY <1>1, <1>6 DEF ReserveCalls, BootInfo
    <2> QED BY <1>6, <2>1 DEF ReserveArg, MmapRange
  <1> QED BY <1>2, <1>3, <1>4, <1>5, <1>6

LEMMA StructsInit == Init => StructsInv
  BY AccountInit DEF Init, StructsInv, Kept, Past

LEMMA StructsStep == StructsInv /\ [Next]_vars => StructsInv'
  <1> SUFFICES ASSUME StructsInv, [Next]_vars PROVE StructsInv'
    OBVIOUS
  <1>0. AccountInv' /\ AccountInv /\ TypeOK /\ TypeOK'
    BY AccountStep DEF StructsInv, AccountInv
  <1>1. mbi' = mbi /\ mbi \in BootInfo /\ mbi \in BootInfos
    BY <1>0, BootAssumption
       DEF Next, pmm_init, pmm_init_begin, pmm_init_entry, pmm_init_count,
           pmm_init_reserve, pmm_alloc_frame, pmm_free_frame, vars, TypeOK
  <1>2. ReserveCalls' = ReserveCalls /\ ReserveCalls \in 1 .. 4
    BY <1>1, SameRanges DEF ReserveCalls
  <1>3. CASE pmm_init_begin
    <2>1. phase' \in {"ready", "map", "count"}
      BY <1>3 DEF pmm_init_begin
    <2>2. phase' = "ready" => Reachable' = {}
      <3>1. owned' = {} /\ (phase' = "ready" => free' = {})
        BY <1>0, <1>3 DEF pmm_init_begin, AccountInv
      <3> QED BY <3>1 DEF Reachable, FreeFrames
    <2>3. \A k \in 1 .. 4 : Kept(k)'
      BY <2>1, <2>2 DEF Kept, Past
    <2>4. mbi.map => highest' = 0 /\ total_frames' = 0
      BY <1>0, <1>3 DEF pmm_init_begin, AccountInv
    <2> QED BY <1>0, <1>1, <2>1, <2>3, <2>4 DEF StructsInv
  <1>4. CASE pmm_init_entry
    <2>1. phase' = "map" /\ total_frames' = total_frames
      BY <1>4 DEF pmm_init_entry
    <2>2. ASSUME mbi.map, mbi.mmap_len = 0 PROVE FALSE
      <3>1. mbi.entries = <<>>
        BY <1>1, <2>2, MapAssumption
      <3>2. Len(mbi.entries) = 0
        BY <3>1
      <3> QED BY <1>0, <1>4, <3>2 DEF pmm_init_entry, TypeOK
    <2> QED BY <1>0, <1>1, <2>1, <2>2 DEF StructsInv, Kept, Past
  <1>5. CASE pmm_init_count
    <2>1. phase' = "reserve" /\ step' = 1 /\ highest' = highest
      BY <1>5 DEF pmm_init_count
    <2>2. \A k \in 1 .. 4 : ~Past(k)'
      BY <2>1 DEF Past
    <2>3. ASSUME mbi.map, mbi.mmap_len = 0 PROVE total_frames' = 0
      <3>1. highest = 0
        BY <2>3 DEF StructsInv
      <3>2. 0 \div PAGE_SIZE = 0
        BY GeometryAssumption
      <3>3. ~(0 > MAX_FRAMES)
        BY GeometryAssumption
      <3> QED BY <1>5, <3>1, <3>2, <3>3 DEF pmm_init_count
    <2> QED BY <1>0, <1>1, <1>2, <2>1, <2>2, <2>3 DEF StructsInv, Kept
  <1>6. CASE pmm_init_reserve
    <2>1. /\ phase = "reserve" /\ step' = step + 1 /\ step \in Nat \ {0}
          /\ step <= ReserveCalls /\ total_frames' = total_frames /\ highest' = highest
          /\ phase' = (IF step = ReserveCalls THEN "ready" ELSE phase)
          /\ stray' = stray /\ stray = {} /\ owned' = {} /\ owned = {}
          /\ reserve_range(ReserveArg(step))
      BY <1>0, <1>6 DEF pmm_init_reserve, StructsInv, AccountInv, TypeOK
    <2>2. step \in 1 .. 4
      BY <1>2, <2>1
    <2>3. ~(ReserveArg(step).end <= ReserveArg(step).start)
      BY <1>1, <2>1, <2>2, RangesNonempty
    <2>4. free' = free \ (FreeFrames \cap FramesOf(ReserveArg(step)))
      BY <2>1, <2>3 DEF reserve_range
    <2>5. /\ Reachable' \subseteq Reachable
          /\ Reachable' \cap FramesOf(ReserveArg(step)) = {}
      BY <2>1, <2>4 DEF Reachable, FreeFrames
    <2>6. ASSUME NEW k \in 1 .. 4 PROVE Kept(k)'
      <3>1. SUFFICES ASSUME k <= ReserveCalls, Past(k)'
                     PROVE  Reachable' \cap FramesOf(ReserveArg(k)) = {}
        BY <1>1, <1>2, SameRanges DEF Kept
      <3>2. k <= step
        BY <1>2, <2>1, <2>2, <3>1 DEF Past
      <3>3. CASE k = step
        BY <2>5, <3>3
      <3>4. CASE k < step
        <4>1. Past(k)
          BY <2>1, <3>4 DEF Past
        <4>2. Reachable \cap FramesOf(ReserveArg(k)) = {}
          BY <2>1, <3>1, <4>1 DEF StructsInv, Kept
        <4> QED BY <2>5, <4>2
      <3> QED BY <2>2, <3>2, <3>3, <3>4
    <2>7. phase' = "reserve" => step' <= ReserveCalls'
      BY <1>2, <2>1
    <2> QED BY <1>0, <1>1, <2>1, <2>6, <2>7 DEF StructsInv
  <1>7. ASSUME phase = "ready", phase' = "ready", highest' = highest,
               total_frames' = total_frames,
               stray' = {} => stray = {} /\ Reachable' \subseteq Reachable
        PROVE  StructsInv'
    <2>1. ASSUME NEW k \in 1 .. 4 PROVE Kept(k)'
      BY <1>1, <1>2, <1>7, SameRanges DEF StructsInv, Kept, Past
    <2> QED BY <1>0, <1>1, <1>7, <2>1 DEF StructsInv
  <1>8. CASE pmm_alloc_frame
    <2>1. Reachable' \subseteq Reachable
      BY <1>8 DEF pmm_alloc_frame, Reachable, FreeFrames
    <2> QED BY <1>7, <1>8, <2>1 DEF pmm_alloc_frame
  <1>9. ASSUME NEW a \in 0 .. AddrSpace - 1, pmm_free_frame(a) PROVE StructsInv'
    <2>1. /\ phase = "ready" /\ phase' = "ready" /\ highest' = highest
          /\ total_frames' = total_frames
      BY <1>9 DEF pmm_free_frame
    <2>2. ASSUME stray' = {} PROVE stray = {} /\ Reachable' \subseteq Reachable
      <3>1. stray = {} /\ free' \cup owned' \subseteq free \cup owned
        BY <1>0, <1>9, <2>2, HonestFree
      <3>2. \A f \in owned : f < total_frames
        BY <1>0 DEF AccountInv
      <3>3. \A f \in owned' : f < total_frames'
        BY <1>0 DEF AccountInv
      <3>4. \A f \in free' \cup owned' : f < total_frames => f \in Reachable
        BY <3>1 DEF Reachable, FreeFrames
      <3> QED BY <2>1, <3>1, <3>3, <3>4 DEF Reachable, FreeFrames
    <2> QED BY <1>7, <2>1, <2>2
  <1>10. CASE UNCHANGED vars
    <2>1. /\ phase' = phase /\ step' = step /\ highest' = highest /\ stray' = stray
          /\ total_frames' = total_frames /\ Reachable' = Reachable
      BY <1>10 DEF vars, Reachable, FreeFrames
    <2>2. ASSUME NEW k \in 1 .. 4 PROVE Kept(k)'
      BY <1>1, <1>2, <2>1, SameRanges DEF StructsInv, Kept, Past
    <2> QED BY <1>0, <1>1, <1>2, <2>1, <2>2 DEF StructsInv
  <1> QED BY <1>3, <1>4, <1>5, <1>6, <1>8, <1>9, <1>10 DEF Next, pmm_init

\* With callers that free only what they hold, the Multiboot information and
\* the memory map are never handed out, wherever the loader put them
\* (reserve_range; pmm_print_mmap reads them again).
THEOREM BootStructsAreKept == Spec => []BootStructsProtected
  <1>1. StructsInv => BootStructsProtected
    <2> SUFFICES ASSUME StructsInv, phase = "ready", stray = {}, NEW f \in Reachable
                 PROVE  ~Overlaps(f, MbInfoRange) /\ (mbi.map => ~Overlaps(f, MmapRange))
      BY DEF BootStructsProtected
    <2>0. TypeOK /\ mbi \in BootInfos /\ f \in Frames /\ f < total_frames
      BY DEF StructsInv, AccountInv, TypeOK, Reachable, FreeFrames
    <2>1. ASSUME NEW k \in 1 .. 4, k <= ReserveCalls PROVE ~Overlaps(f, ReserveArg(k))
      <3>1. Reachable \cap FramesOf(ReserveArg(k)) = {}
        BY <2>1 DEF StructsInv, Kept, Past
      <3> QED BY <2>0, <3>1, ReserveArgType, OverlapIsMarked
    <2>2. ~Overlaps(f, MbInfoRange)
      <3>1. 3 <= ReserveCalls /\ ReserveArg(3) = MbInfoRange
        BY DEF ReserveCalls, ReserveArg
      <3>2. ~Overlaps(f, ReserveArg(3))
        BY <2>1, <3>1
      <3> QED BY <3>1, <3>2
    <2>3. ASSUME mbi.map PROVE ~Overlaps(f, MmapRange)
      <3>1. mbi.mmap_len # 0
        BY <2>0, <2>3 DEF StructsInv, Frames
      <3>2. 4 <= ReserveCalls /\ ReserveArg(4) = MmapRange
        BY <2>3, <3>1 DEF ReserveCalls, ReserveArg
      <3>3. ~Overlaps(f, ReserveArg(4))
        BY <2>1, <3>2
      <3> QED BY <3>2, <3>3
    <2> QED BY <2>2, <2>3
  <1> QED BY <1>1, StructsInit, StructsStep, PTL DEF Spec

----------------------------------------------------------------------------
(* Only RAM is handed out.                                                 *)

\* Frame f was marked free for an AVAILABLE entry of the map.
FromMap(f) ==
    \E i \in 1 .. Len(mbi.entries) :
        mbi.entries[i].avail /\ f \in RegionFrames(mbi.entries[i])

\* Inductive: a frame is free or owned only if an entry of the map made it so.
RamInv ==
    /\ TypeOK
    /\ phase # "ready" => owned = {} /\ stray = {}
    /\ phase = "boot" => free = {}
    /\ phase = "count" => ~mbi.map
    /\ mbi.map /\ stray = {} => \A f \in free \cup owned : FromMap(f)

\* A frame of an aligned region lies in it with every byte: both bounds of
\* the region round down.
LEMMA WholeFrame ==
    ASSUME NEW e \in Region, e.addr % PAGE_SIZE = 0, NEW f \in RegionFrames(e),
           NEW b \in f * PAGE_SIZE .. (f + 1) * PAGE_SIZE - 1
    PROVE  e.addr <= b /\ b < e.addr + e.len
  <1> USE GeometryAssumption
  <1> DEFINE q == e.addr \div PAGE_SIZE
             t == RegionEnd(e)
             u == t \div PAGE_SIZE
  <1>1. AddrSpace \in Nat /\ e.addr \in Nat /\ e.len \in Nat
    BY DEF AddrSpace, Region
  <1>2. t \in Nat /\ t <= e.addr + e.len
    BY <1>1 DEF RegionEnd
  <1>3. f \in Nat /\ f >= q /\ f < u
    BY DEF RegionFrames, Frames
  <1>4. q \in Nat /\ e.addr = q * PAGE_SIZE
    BY <1>1, DivExact
  <1>5. u \in Nat /\ u * PAGE_SIZE <= t
    BY <1>2, DivBounds
  <1> HIDE DEF q, t, u
  <1>6. q * PAGE_SIZE <= f * PAGE_SIZE
    BY <1>3, <1>4, MulMono
  <1>7. (f + 1) * PAGE_SIZE <= u * PAGE_SIZE
    BY <1>3, <1>5, MulMono
  <1>8. f * PAGE_SIZE \in Nat /\ (f + 1) * PAGE_SIZE \in Nat /\ u * PAGE_SIZE \in Nat
    BY <1>3, <1>5
  <1>9. b \in Nat /\ f * PAGE_SIZE <= b /\ b < (f + 1) * PAGE_SIZE
    BY <1>8
  <1> QED BY <1>1, <1>2, <1>4, <1>5, <1>6, <1>7, <1>8, <1>9

LEMMA RamStep == RamInv /\ [Next]_vars => RamInv'
  <1> SUFFICES ASSUME RamInv, [Next]_vars PROVE RamInv'
    OBVIOUS
  <1>0. TypeOK /\ TypeOK'
    BY TypeStep DEF RamInv
  <1>1. mbi' = mbi
    BY DEF Next, pmm_init, pmm_init_begin, pmm_init_entry, pmm_init_count,
           pmm_init_reserve, pmm_alloc_frame, pmm_free_frame, vars
  <1>2. \A f : FromMap(f)' <=> FromMap(f)
    BY <1>1 DEF FromMap, RegionFrames, RegionEnd
  <1>3. CASE pmm_init_begin
    <2>1. /\ owned' = {} /\ stray' = {} /\ phase' \in {"ready", "map", "count"}
          /\ phase' = "count" => ~mbi.map
          /\ mbi.map => free' = {}
      BY <1>3 DEF pmm_init_begin, RamInv
    <2> QED BY <1>0, <1>1, <2>1 DEF RamInv
  <1>4. CASE pmm_init_entry
    <2>1. /\ phase = "map" /\ phase' = "map" /\ owned' = {} /\ owned = {} /\ stray' = {} /\ stray = {}
          /\ step <= Len(mbi.entries)
      BY <1>4 DEF pmm_init_entry, RamInv
    <2>2. step \in 1 .. Len(mbi.entries)
      <3>1. mbi.entries \in Seq(Region)
        BY <1>0, BootAssumption DEF TypeOK, BootInfo
      <3>2. Len(mbi.entries) \in Nat
        BY <3>1
      <3> QED BY <1>0, <2>1, <3>2 DEF TypeOK
    <2>3. ASSUME NEW f \in free' PROVE f \in free \/ FromMap(f)
      <3>1. CASE mbi.entries[step].avail
        <4>1. free' = free \cup RegionFrames(mbi.entries[step])
          BY <1>4, <3>1 DEF pmm_init_entry
        <4> QED BY <2>2, <2>3, <3>1, <4>1 DEF FromMap
      <3>2. CASE ~mbi.entries[step].avail
        BY <1>4, <2>3, <3>2 DEF pmm_init_entry
      <3> QED BY <3>1, <3>2
    <2> QED BY <1>0, <1>1, <1>2, <2>1, <2>3 DEF RamInv
  <1>5. CASE pmm_init_count
    <2>1. phase' = "reserve" /\ phase # "ready" /\ free' = free /\ owned' = owned /\ stray' = stray
      BY <1>5 DEF pmm_init_count
    <2> QED BY <1>0, <1>1, <1>2, <2>1 DEF RamInv
  <1>6. CASE pmm_init_reserve
    <2>1. /\ phase = "reserve" /\ phase' \in {"reserve", "ready"}
          /\ free' \subseteq free /\ owned' = owned /\ stray' = stray
      BY <1>6 DEF pmm_init_reserve, reserve_range
    <2> QED BY <1>0, <1>1, <1>2, <2>1 DEF RamInv
  <1>7. CASE pmm_alloc_frame
    <2>1. /\ phase = "ready" /\ phase' = "ready" /\ stray' = stray
          /\ free' \cup owned' \subseteq free \cup owned
      BY <1>7 DEF pmm_alloc_frame, FreeFrames
    <2> QED BY <1>0, <1>1, <1>2, <2>1 DEF RamInv
  <1>8. ASSUME NEW a \in 0 .. AddrSpace - 1, pmm_free_frame(a) PROVE RamInv'
    <2>1. phase = "ready" /\ phase' = "ready"
      BY <1>8 DEF pmm_free_frame
    <2>2. stray' = {} => stray = {} /\ free' \cup owned' \subseteq free \cup owned
      BY <1>0, <1>8, HonestFree
    <2> QED BY <1>0, <1>1, <1>2, <2>1, <2>2 DEF RamInv
  <1>9. CASE UNCHANGED vars
    <2>1. phase' = phase /\ free' = free /\ owned' = owned /\ stray' = stray
      BY <1>9 DEF vars
    <2> QED BY <1>0, <1>1, <1>2, <2>1 DEF RamInv
  <1> QED BY <1>3, <1>4, <1>5, <1>6, <1>7, <1>8, <1>9 DEF Next, pmm_init

\* With aligned regions and callers that free only what they hold, a frame
\* that is handed out is AVAILABLE memory from its first byte to its last
\* (the roundings of pmm_init).
THEOREM OnlyRamIsHandedOut == Spec => []OnlyWholeRamFrames
  <1>1. Init => RamInv
    BY TypeInit DEF Init, RamInv
  <1>2. RamInv => OnlyWholeRamFrames
    <2> SUFFICES ASSUME RamInv, mbi.map, stray = {}, AlignedMap, NEW f \in Reachable,
                        NEW b \in f * PAGE_SIZE .. (f + 1) * PAGE_SIZE - 1
                 PROVE  \E i \in 1 .. Len(mbi.entries) :
                            /\ mbi.entries[i].avail /\ mbi.entries[i].addr <= b
                            /\ b < mbi.entries[i].addr + mbi.entries[i].len
      BY DEF OnlyWholeRamFrames
    <2>1. FromMap(f)
      BY DEF RamInv, Reachable, FreeFrames
    <2>2. PICK i \in 1 .. Len(mbi.entries) :
             mbi.entries[i].avail /\ f \in RegionFrames(mbi.entries[i])
      BY <2>1 DEF FromMap
    <2>3. mbi.entries[i] \in Region /\ mbi.entries[i].addr % PAGE_SIZE = 0
      BY BootAssumption DEF RamInv, TypeOK, BootInfo, AlignedMap
    <2>4. mbi.entries[i].addr <= b /\ b < mbi.entries[i].addr + mbi.entries[i].len
      BY <2>2, <2>3, WholeFrame
    <2> QED BY <2>2, <2>4
  <1> QED BY <1>1, <1>2, RamStep, PTL DEF Spec

----------------------------------------------------------------------------
(* Bring-up: kernel_main does nothing to the manager that Next does not.   *)

LEMMA BootIsPmm == BootSpec => Spec
  <1>1. BootInit => Init
    BY DEF BootInit
  <1>2. [BootNext]_bootVars => [Next]_vars
    <2> SUFFICES ASSUME [BootNext]_bootVars PROVE Next \/ UNCHANGED vars
      OBVIOUS
    <2>1. CASE memory \/ pages
      BY <2>1 DEF memory, pages, Next
    <2>2. CASE paging \/ xhci_init \/ desktop_start \/ draw \/ scroll \/ drawn
      BY <2>2 DEF paging, xhci_init, desktop_start, draw, scroll, drawn, draws
    <2>3. CASE UNCHANGED bootVars
      BY <2>3 DEF bootVars
    <2> QED BY <2>1, <2>2, <2>3 DEF BootNext
  <1> QED BY <1>1, <1>2, PTL DEF BootSpec, Spec

\* Whatever the rest of the bring-up maps and the desktop draws, the memory
\* manager keeps what was shown of it alone (kernel_main).
THEOREM MemoryAtBoot ==
    BootSpec => [](/\ KernelProtected /\ NoAmbiguousOrSharedFrame
                   /\ BootStructsProtected /\ UsedIsReservedPlusAllocated
                   /\ OnlyWholeRamFrames)
  BY BootIsPmm, KernelIsProtected, NoSharedFrame, BootStructsAreKept,
     AccountingIsExact, OnlyRamIsHandedOut, PTL

----------------------------------------------------------------------------
(* Addresses, entries and tables.                                          *)

LEMMA DivUnique ==
    ASSUME NEW x \in Nat, NEW p \in Nat \ {0}, NEW q \in Int, q * p <= x, x < q * p + p
    PROVE  x \div p = q
  <1> DEFINE d == x \div p
  <1>1. d \in Nat /\ d * p <= x /\ x < d * p + p
    BY DivBounds
  <1> HIDE DEF d
  <1>2. ~(d + 1 <= q)
    <2> SUFFICES ASSUME d + 1 <= q PROVE FALSE
      OBVIOUS
    <2>1. (d + 1) * p <= q * p
      BY <1>1, MulMono
    <2> QED BY <1>1, <2>1
  <1>3. ~(q + 1 <= d)
    <2> SUFFICES ASSUME q + 1 <= d PROVE FALSE
      OBVIOUS
    <2>1. (q + 1) * p <= d * p
      BY <1>1, MulMono
    <2> QED BY <1>1, <2>1
  <1>4. d = q
    BY <1>1, <1>2, <1>3
  <1> QED BY <1>4 DEF d

LEMMA ModOfMultiple ==
    ASSUME NEW q \in Nat, NEW p \in Nat \ {0}
    PROVE  (q * p) % p = 0
  <1> DEFINE x == q * p
  <1>1. x \in Nat
    OBVIOUS
  <1>2. x \div p = q
    BY <1>1, DivUnique
  <1>3. x = p * (x \div p) + (x % p) /\ x % p \in Int
    BY <1>1
  <1> QED BY <1>2, <1>3

LEMMA ModSmall ==
    ASSUME NEW x \in Nat, NEW p \in Nat \ {0}, x < p
    PROVE  x % p = x
  <1>1. x \div p = 0
    BY DivUnique
  <1>2. x = p * (x \div p) + (x % p) /\ x % p \in Int
    OBVIOUS
  <1> QED BY <1>1, <1>2

Indices == 0 .. DIR_ENTRIES - 1

Entries == 0 .. ENTRIES - 1

\* The address entry e of the table in directory entry i is about.
PageAt(i, e) == i * FOURMB + e * VMM_PAGE_SIZE

LEMMA Geometry ==
    /\ VMM_PAGE_SIZE \in Nat \ {0} /\ ENTRIES \in Nat \ {0} /\ DIR_ENTRIES \in Nat \ {0}
    /\ FOURMB \in Nat \ {0} /\ SPACE \in Nat \ {0}
    /\ VMM_IDMAP_BYTES \in Nat \ {0} /\ VMM_NPTS \in Nat \ {0} /\ VMM_NPTS <= DIR_ENTRIES
    /\ VMM_LFB_NPTS \in Nat \ {0} /\ VMM_MMIO_NPTS \in Nat \ {0}
  <1>1. /\ VMM_PAGE_SIZE \in Nat \ {0} /\ ENTRIES \in Nat \ {0} /\ DIR_ENTRIES \in Nat \ {0}
        /\ VMM_IDMAP_BYTES \in Nat \ {0} /\ VMM_NPTS \in Nat \ {0} /\ VMM_NPTS <= DIR_ENTRIES
        /\ VMM_LFB_NPTS \in Nat \ {0} /\ VMM_MMIO_NPTS \in Nat \ {0}
    BY PagingAssumption
  <1>2. FOURMB \in Nat \ {0}
    BY <1>1 DEF FOURMB
  <1>3. SPACE \in Nat \ {0}
    BY <1>1, <1>2 DEF SPACE
  <1> QED BY <1>1, <1>2, <1>3

\* An address is its two indices and its offset.
LEMMA AddressSplit ==
    ASSUME NEW va \in 0 .. SPACE - 1
    PROVE  /\ vmm_pde_index(va) \in Indices /\ vmm_pte_index(va) \in Entries
           /\ va \div VMM_PAGE_SIZE = vmm_pde_index(va) * ENTRIES + vmm_pte_index(va)
           /\ va = PageAt(vmm_pde_index(va), vmm_pte_index(va)) + vmm_offset(va)
  <1> USE Geometry
  <1> DEFINE g == va \div VMM_PAGE_SIZE
             h == g \div ENTRIES
             e == g % ENTRIES
  <1>0. va \in Nat /\ va < SPACE
    OBVIOUS
  <1>1. /\ g \in Nat /\ g * VMM_PAGE_SIZE <= va /\ va < g * VMM_PAGE_SIZE + VMM_PAGE_SIZE
        /\ va = VMM_PAGE_SIZE * g + (va % VMM_PAGE_SIZE)
    BY <1>0, DivBounds
  <1> HIDE DEF g
  <1>2. /\ h \in Nat /\ h * ENTRIES <= g /\ g < h * ENTRIES + ENTRIES
        /\ g = ENTRIES * h + e /\ e \in 0 .. ENTRIES - 1
    BY <1>1, DivBounds
  <1> HIDE DEF h, e
  <1>3. h * FOURMB <= va
    <2>1. (h * ENTRIES) * VMM_PAGE_SIZE <= g * VMM_PAGE_SIZE
      BY <1>1, <1>2, MulMono
    <2>2. h * FOURMB = (h * ENTRIES) * VMM_PAGE_SIZE
      BY <1>2 DEF FOURMB
    <2>3. (h * ENTRIES) * VMM_PAGE_SIZE \in Int /\ g * VMM_PAGE_SIZE \in Int
      BY <1>1, <1>2
    <2> QED BY <1>0, <1>1, <2>1, <2>2, <2>3
  <1>4. va < h * FOURMB + FOURMB
    <2>1. (g + 1) * VMM_PAGE_SIZE <= (h * ENTRIES + ENTRIES) * VMM_PAGE_SIZE
      BY <1>1, <1>2, MulMono
    <2>2. h * FOURMB + FOURMB = (h * ENTRIES + ENTRIES) * VMM_PAGE_SIZE
      BY <1>2 DEF FOURMB
    <2>3. /\ (h * ENTRIES + ENTRIES) * VMM_PAGE_SIZE \in Int
          /\ (g + 1) * VMM_PAGE_SIZE = g * VMM_PAGE_SIZE + VMM_PAGE_SIZE
          /\ g * VMM_PAGE_SIZE \in Int
      BY <1>1, <1>2
    <2> QED BY <1>0, <1>1, <2>1, <2>2, <2>3
  <1>5. vmm_pde_index(va) = h
    BY <1>0, <1>2, <1>3, <1>4, DivUnique DEF vmm_pde_index
  <1>6. h < DIR_ENTRIES
    <2> SUFFICES ASSUME DIR_ENTRIES <= h PROVE FALSE
      BY <1>2
    <2>1. DIR_ENTRIES * FOURMB <= h * FOURMB
      BY <1>2, MulMono
    <2>2. SPACE = DIR_ENTRIES * FOURMB
      BY DEF SPACE
    <2> QED BY <1>0, <1>2, <1>3, <2>1, <2>2
  <1>7. vmm_pte_index(va) = e
    BY DEF vmm_pte_index, e, g
  <1>8. va = PageAt(h, e) + vmm_offset(va)
    <2>1. VMM_PAGE_SIZE * g = h * FOURMB + e * VMM_PAGE_SIZE
      BY <1>1, <1>2 DEF FOURMB
    <2> QED BY <1>1, <2>1 DEF PageAt, vmm_offset
  <1>9. g = h * ENTRIES + e
    BY <1>1, <1>2
  <1>10. h \in Indices /\ e \in Entries
    BY <1>2, <1>6 DEF Indices, Entries
  <1> QED BY <1>5, <1>7, <1>8, <1>9, <1>10 DEF g

\* An entry's page lies within 32 bits, on a page boundary.
LEMMA PageAtType ==
    ASSUME NEW i \in Indices, NEW e \in Entries
    PROVE  /\ PageAt(i, e) \in Nat /\ PageAt(i, e) < SPACE
           /\ PageAt(i, e) = (i * ENTRIES + e) * VMM_PAGE_SIZE
           /\ vmm_offset(PageAt(i, e)) = 0
  <1> USE Geometry
  <1>0. i \in Nat /\ i + 1 <= DIR_ENTRIES /\ e \in Nat /\ e + 1 <= ENTRIES
    BY DEF Indices, Entries
  <1>1. PageAt(i, e) = (i * ENTRIES + e) * VMM_PAGE_SIZE
    BY <1>0 DEF PageAt, FOURMB
  <1>2. i * ENTRIES + e \in Nat
    BY <1>0
  <1>3. PageAt(i, e) \in Nat
    BY <1>1, <1>2
  <1>4. vmm_offset(PageAt(i, e)) = 0
    BY <1>1, <1>2, ModOfMultiple DEF vmm_offset
  <1>5. PageAt(i, e) < SPACE
    <2>1. (e + 1) * VMM_PAGE_SIZE <= ENTRIES * VMM_PAGE_SIZE
      BY <1>0, MulMono
    <2>2. (i + 1) * FOURMB <= DIR_ENTRIES * FOURMB
      BY <1>0, MulMono
    <2>3. /\ (e + 1) * VMM_PAGE_SIZE = e * VMM_PAGE_SIZE + VMM_PAGE_SIZE
          /\ ENTRIES * VMM_PAGE_SIZE = FOURMB
          /\ (i + 1) * FOURMB = i * FOURMB + FOURMB
          /\ DIR_ENTRIES * FOURMB = SPACE
          /\ e * VMM_PAGE_SIZE \in Nat /\ i * FOURMB \in Nat
      BY <1>0 DEF FOURMB, SPACE
    <2> QED BY <2>1, <2>2, <2>3 DEF PageAt
  <1> QED BY <1>1, <1>3, <1>4, <1>5

\* A window above low memory that does not wrap: its k-th table goes into
\* the directory entry k behind the first, and its pages map to themselves.
LEMMA WindowEntry ==
    ASSUME NEW phys, NEW npts \in Nat, IsAbove(phys, npts), phys # 0,
           NEW i \in Indices,
           (i - vmm_pde_index(WindowBase(phys))) % DIR_ENTRIES < npts
    PROVE  LET nth == (i - vmm_pde_index(WindowBase(phys))) % DIR_ENTRIES
           IN /\ nth \in Nat /\ i >= VMM_NPTS
              /\ \A e \in Entries :
                    (WindowBase(phys) + nth * FOURMB + e * VMM_PAGE_SIZE) % SPACE = PageAt(i, e)
  <1> USE Geometry
  <1> DEFINE b == WindowBase(phys)
             q == phys \div FOURMB
             z == i - q
             k == z \div DIR_ENTRIES
             nth == z % DIR_ENTRIES
  <1>0. /\ phys \in Nat /\ VMM_NPTS * FOURMB <= b /\ b + npts * FOURMB <= SPACE
        /\ i \in Nat /\ i < DIR_ENTRIES
    BY DEF IsAbove, RegionStart, WindowBase, Indices
  <1>1. q \in Nat /\ b = q * FOURMB
    <2>1. /\ q \in Nat /\ phys = FOURMB * q + (phys % FOURMB) /\ phys % FOURMB \in Int
      BY <1>0, DivBounds
    <2> QED BY <1>0, <2>1 DEF WindowBase
  <1> HIDE DEF q
  <1>2. vmm_pde_index(b) = q
    <2>1. b \in Nat
      BY <1>1
    <2> QED BY <1>1, <2>1, DivUnique DEF vmm_pde_index
  <1> HIDE DEF b
  <1>3. z \in Int /\ k \in Int /\ nth \in 0 .. DIR_ENTRIES - 1 /\ z = DIR_ENTRIES * k + nth
    BY <1>0, <1>1
  <1>4. nth < npts
    BY <1>2 DEF b
  <1> HIDE DEF k, nth
  <1>5. q + npts <= DIR_ENTRIES
    <2> SUFFICES ASSUME DIR_ENTRIES + 1 <= q + npts PROVE FALSE
      BY <1>1
    <2>1. (DIR_ENTRIES + 1) * FOURMB <= (q + npts) * FOURMB
      BY <1>1, MulMono
    <2>2. /\ (DIR_ENTRIES + 1) * FOURMB = SPACE + FOURMB
          /\ (q + npts) * FOURMB = b + npts * FOURMB
          /\ b + npts * FOURMB \in Int
      BY <1>1 DEF SPACE
    <2> QED BY <1>0, <2>1, <2>2
  <1>6. VMM_NPTS <= q
    <2> SUFFICES ASSUME q + 1 <= VMM_NPTS PROVE FALSE
      BY <1>1
    <2>1. (q + 1) * FOURMB <= VMM_NPTS * FOURMB
      BY <1>1, MulMono
    <2>2. (q + 1) * FOURMB = b + FOURMB /\ b \in Int /\ VMM_NPTS * FOURMB \in Int
      BY <1>1
    <2> QED BY <1>0, <2>1, <2>2
  <1>7. k = 0
    <2>1. ~(k >= 1)
      <3> SUFFICES ASSUME 1 <= k PROVE FALSE
        BY <1>3
      <3>1. 1 * DIR_ENTRIES <= k * DIR_ENTRIES
        BY <1>3, MulMono
      <3> QED BY <1>0, <1>1, <1>3, <3>1
    <2>2. ~(k <= -1)
      <3> SUFFICES ASSUME k <= -1 PROVE FALSE
        BY <1>3
      <3>1. k * DIR_ENTRIES <= (-1) * DIR_ENTRIES
        BY <1>3, MulMono
      <3>2. DIR_ENTRIES * k <= -DIR_ENTRIES
        BY <1>3, <3>1
      <3>3. i - q <= nth - DIR_ENTRIES
        BY <1>0, <1>1, <1>3, <3>2
      <3> QED BY <1>0, <1>1, <1>3, <1>4, <1>5, <3>3
    <2> QED BY <1>3, <2>1, <2>2
  <1>8. i = q + nth /\ i >= VMM_NPTS
    BY <1>0, <1>1, <1>3, <1>6, <1>7
  <1>9. ASSUME NEW e \in Entries
        PROVE  (b + nth * FOURMB + e * VMM_PAGE_SIZE) % SPACE = PageAt(i, e)
    <2>1. PageAt(i, e) \in Nat /\ PageAt(i, e) < SPACE
      BY PageAtType
    <2>2. b + nth * FOURMB = i * FOURMB
      BY <1>1, <1>3, <1>8
    <2>3. b + nth * FOURMB + e * VMM_PAGE_SIZE = PageAt(i, e)
      BY <2>2 DEF PageAt
    <2> QED BY <2>1, <2>3, ModSmall
  <1>10. nth \in Nat
    BY <1>3
  <1>11. nth = (i - vmm_pde_index(WindowBase(phys))) % DIR_ENTRIES
    BY <1>2 DEF nth, b
  <1> QED BY <1>8, <1>9, <1>10, <1>11 DEF b

----------------------------------------------------------------------------
(* The identity map through the bring-up.                                  *)

PoolNames == {"low", "lfb", "mmio"}

Present(i) == "PRESENT" \in page_dir[i].flags

ShapeInv ==
    /\ page_dir = [i \in Indices |-> page_dir[i]]
    /\ tabs = [p \in PoolNames |-> tabs[p]]
    /\ \A p \in PoolNames : DOMAIN tabs[p] = 0 .. Pool[p] - 1

\* Table t of pool p, in directory entry i, maps pages to themselves.
SelfMapped(i, p, t) ==
    \A e \in Entries :
        "PRESENT" \in tabs[p][t][e].flags => tabs[p][t][e].addr = PageAt(i, e)

IsIdentity ==
    \A i \in Indices : Present(i) =>
        \E p \in PoolNames : \E t \in 0 .. Pool[p] - 1 :
            page_dir[i].tab = <<p, t>> /\ SelfMapped(i, p, t)

\* No directory entry points into pool p: its tables may be filled.
Untouched(p) == \A i \in Indices : Present(i) => page_dir[i].tab[1] # p

FullAccess == {"PRESENT", "RW", "USER"}

LowKept ==
    /\ NeedPts(VMM_IDMAP_BYTES) = VMM_NPTS
    /\ \A i \in 0 .. VMM_NPTS - 1 :
          /\ page_dir[i] = [tab |-> <<"low", i>>, flags |-> FullAccess]
          /\ \A e \in Entries : i * ENTRIES + e < Pages(VMM_IDMAP_BYTES) =>
                tabs["low"][i][e].flags = FullAccess

\* Inductive: each pool is filled once, before the directory points to it, and
\* the windows leave the entries of low memory alone.
PagingInv ==
    /\ machine \in Machines /\ ShapeInv /\ IsIdentity
    /\ ready => LowKept
    /\ enabled => ready
    /\ stage \in {"pmm", "vmm_init"} => \A i \in Indices : ~Present(i)
    /\ stage \in {"pmm", "vmm_init", "vmm_enable"} => ~enabled
    /\ stage \in {"pmm", "vmm_init", "vmm_enable", "xhci"} => Untouched("mmio")
    /\ stage \in {"pmm", "vmm_init", "vmm_enable", "xhci", "display"} => Untouched("lfb")

LEMMA PoolSizes ==
    /\ Pool["low"] = VMM_NPTS /\ Pool["lfb"] = VMM_LFB_NPTS /\ Pool["mmio"] = VMM_MMIO_NPTS
    /\ \A p \in PoolNames : Pool[p] \in Nat \ {0}
    /\ DOMAIN Pool = PoolNames
  BY Geometry DEF Pool, PoolNames

\* vmm_map_lfb and vmm_map_mmio.
LEMMA MapWindow ==
    ASSUME ShapeInv, IsIdentity, LowKept, NEW p \in {"lfb", "mmio"}, Untouched(p),
           NEW npts \in Nat, npts <= Pool[p], NEW phys, phys # 0, IsAbove(phys, npts),
           NEW fl, map_window(p, WindowBase(phys), npts, fl)
    PROVE  /\ ShapeInv' /\ IsIdentity' /\ LowKept' /\ ready' = ready /\ enabled' = enabled
           /\ \A q \in PoolNames : q # p /\ Untouched(q) => Untouched(q)'
  <1> USE Geometry
  <1> DEFINE nth(i) == (i - vmm_pde_index(WindowBase(phys))) % DIR_ENTRIES
             pf == fl \cup {"PRESENT", "RW"}
             Filled(t) == [e \in 0 .. ENTRIES - 1 |->
                             vmm_make_entry((WindowBase(phys) + t * FOURMB + e * VMM_PAGE_SIZE) % SPACE, pf)]
  <1>0. p \in PoolNames /\ p # "low"
    BY DEF PoolNames
  <1>1. /\ page_dir' = [i \in DOMAIN page_dir |->
                         IF nth(i) < npts
                         THEN [tab |-> <<p, nth(i)>>, flags |-> {"PRESENT", "RW"}]
                         ELSE page_dir[i]]
        /\ tabs' = [tabs EXCEPT ![p] = [t \in DOMAIN @ |-> IF t >= npts THEN @[t] ELSE Filled(t)]]
        /\ ready' = ready /\ enabled' = enabled
    BY DEF map_window
  <1>2. DOMAIN page_dir = Indices /\ DOMAIN tabs = PoolNames /\ DOMAIN tabs[p] = 0 .. Pool[p] - 1
    BY <1>0 DEF ShapeInv
  <1>w. ASSUME NEW i \in Indices, nth(i) < npts
        PROVE  /\ nth(i) \in Nat /\ i >= VMM_NPTS
               /\ \A e \in Entries :
                     (WindowBase(phys) + nth(i) * FOURMB + e * VMM_PAGE_SIZE) % SPACE = PageAt(i, e)
    BY <1>w, WindowEntry
  <1> HIDE DEF nth, Filled
  <1>3. \A i \in Indices :
           page_dir'[i] = IF nth(i) < npts
                          THEN [tab |-> <<p, nth(i)>>, flags |-> {"PRESENT", "RW"}]
                          ELSE page_dir[i]
    BY <1>1, <1>2
  <1>4. \A q \in PoolNames : q # p => tabs'[q] = tabs[q]
    BY <1>1, <1>2
  <1>5. tabs'[p] = [t \in 0 .. Pool[p] - 1 |-> IF t >= npts THEN tabs[p][t] ELSE Filled(t)]
    BY <1>0, <1>1, <1>2
  <1>6. ShapeInv'
    <2>1. page_dir' = [i \in Indices |-> page_dir'[i]]
      BY <1>1, <1>2
    <2>2. tabs' = [q \in PoolNames |-> tabs'[q]]
      BY <1>1, <1>2
    <2>3. ASSUME NEW q \in PoolNames PROVE DOMAIN tabs'[q] = 0 .. Pool[q] - 1
      BY <1>4, <1>5 DEF ShapeInv
    <2> QED BY <2>1, <2>2, <2>3 DEF ShapeInv
  <1>7. IsIdentity'
    <2> SUFFICES ASSUME NEW i \in Indices, Present(i)'
                 PROVE  \E q \in PoolNames : \E t \in 0 .. Pool[q] - 1 :
                            page_dir'[i].tab = <<q, t>> /\ SelfMapped(i, q, t)'
      BY DEF IsIdentity
    <2>1. CASE nth(i) < npts
      <3>1. nth(i) \in 0 .. Pool[p] - 1 /\ ~(nth(i) >= npts)
        BY <1>0, <1>w, <2>1, PoolSizes
      <3>2. page_dir'[i].tab = <<p, nth(i)>>
        <4>1. page_dir'[i] = [tab |-> <<p, nth(i)>>, flags |-> {"PRESENT", "RW"}]
          BY <1>3, <2>1, Zenon
        <4> QED BY <4>1
      <3>3. tabs'[p][nth(i)] = Filled(nth(i))
        BY <1>5, <3>1
      <3>4. ASSUME NEW e \in Entries PROVE tabs'[p][nth(i)][e].addr = PageAt(i, e)
        <4>1. tabs'[p][nth(i)][e] = vmm_make_entry(PageAt(i, e), pf)
          BY <1>w, <2>1, <3>3 DEF Filled, Entries
        <4>2. PageAt(i, e) \in Nat /\ vmm_offset(PageAt(i, e)) = 0
          BY PageAtType
        <4> QED BY <4>1, <4>2 DEF vmm_make_entry
      <3>5. SelfMapped(i, p, nth(i))'
        BY <3>4 DEF SelfMapped
      <3> QED BY <1>0, <3>1, <3>2, <3>5
    <2>2. CASE ~(nth(i) < npts)
      <3>1. page_dir'[i] = page_dir[i] /\ Present(i)
        BY <1>3, <2>2 DEF Present
      <3>2. PICK q \in PoolNames : \E t \in 0 .. Pool[q] - 1 :
                page_dir[i].tab = <<q, t>> /\ SelfMapped(i, q, t)
        BY <3>1 DEF IsIdentity
      <3>3. PICK t \in 0 .. Pool[q] - 1 : page_dir[i].tab = <<q, t>> /\ SelfMapped(i, q, t)
        BY <3>2
      <3>4. q # p
        BY <3>1, <3>3 DEF Untouched
      <3>5. SelfMapped(i, q, t)'
        BY <1>4, <3>3, <3>4 DEF SelfMapped
      <3> QED BY <3>1, <3>3, <3>5
    <2> QED BY <2>1, <2>2
  <1>8. LowKept'
    <2>1. ASSUME NEW i \in 0 .. VMM_NPTS - 1 PROVE page_dir'[i] = page_dir[i]
      <3>1. i \in Indices /\ ~(i >= VMM_NPTS)
        BY DEF Indices
      <3> QED BY <1>3, <1>w, <3>1
    <2>2. tabs'["low"] = tabs["low"]
      BY <1>0, <1>4 DEF PoolNames
    <2> QED BY <2>1, <2>2 DEF LowKept
  <1>9. ASSUME NEW q \in PoolNames, q # p, Untouched(q) PROVE Untouched(q)'
    <2> SUFFICES ASSUME NEW i \in Indices, Present(i)' PROVE page_dir'[i].tab[1] # q
      BY DEF Untouched
    <2>1. CASE nth(i) < npts
      <3>1. page_dir'[i] = [tab |-> <<p, nth(i)>>, flags |-> {"PRESENT", "RW"}]
        BY <1>3, <2>1, Zenon
      <3> QED BY <1>9, <3>1
    <2>2. CASE ~(nth(i) < npts)
      BY <1>3, <1>9, <2>2 DEF Untouched, Present
    <2> QED BY <2>1, <2>2
  <1> QED BY <1>1, <1>6, <1>7, <1>8, <1>9

\* Tables of a window, typed and no more than the pool has.
LEMMA WindowFits ==
    ASSUME NEW phys \in Nat, NEW bytes \in Int
    PROVE  /\ LfbTables(phys, bytes) \in Nat /\ LfbTables(phys, bytes) <= Pool["lfb"]
           /\ MmioTables(phys, bytes) \in Nat /\ MmioTables(phys, bytes) <= Pool["mmio"]
  <1> USE Geometry
  <1>1. phys - WindowBase(phys) + bytes + FOURMB - 1 \in Int
    BY DEF WindowBase
  <1>2. (phys - WindowBase(phys) + bytes + FOURMB - 1) % SPACE \in Nat
    BY <1>1
  <1>3. WindowTables(phys, bytes) \in Nat
    BY <1>2, DivBounds DEF WindowTables
  <1> QED BY <1>3, PoolSizes DEF LfbTables, MmioTables

\* vmm_init: the low tables are filled and pointed to.
LEMMA VmmInitStep ==
    ASSUME PagingInv, stage = "vmm_init", vmm_init
    PROVE  /\ ShapeInv' /\ IsIdentity' /\ (ready' => LowKept') /\ enabled' = enabled
           /\ Untouched("mmio")' /\ Untouched("lfb")'
  <1> USE Geometry
  <1> DEFINE need == NeedPts(VMM_IDMAP_BYTES)
             Low(t) == [e \in 0 .. ENTRIES - 1 |->
                          IF t * ENTRIES + e < Pages(VMM_IDMAP_BYTES)
                          THEN vmm_make_entry((t * ENTRIES + e) * VMM_PAGE_SIZE, FullAccess)
                          ELSE NotPresent]
  <1>0. /\ ShapeInv /\ IsIdentity /\ \A i \in Indices : ~Present(i)
        /\ ready' = (need = VMM_NPTS) /\ enabled' = enabled
    BY DEF PagingInv, vmm_init
  <1>1. need \in Nat
    <2>1. VMM_IDMAP_BYTES + VMM_PAGE_SIZE - 1 \in Nat
      OBVIOUS
    <2>2. Pages(VMM_IDMAP_BYTES) \in Nat
      BY <2>1, DivBounds DEF Pages
    <2>3. Pages(VMM_IDMAP_BYTES) + ENTRIES - 1 \in Nat
      BY <2>2
    <2> QED BY <2>3, DivBounds DEF NeedPts
  <1>2. CASE need > VMM_NPTS
    <2>0. need # VMM_NPTS
      BY <1>1, <1>2
    <2>1. page_dir' = page_dir /\ tabs' = tabs /\ ~ready'
      BY <1>0, <1>2, <2>0, Zenon DEF vmm_init
    <2>2. ShapeInv' /\ \A i \in Indices : ~Present(i)'
      BY <1>0, <2>1 DEF ShapeInv, Present
    <2> QED BY <1>0, <2>1, <2>2 DEF IsIdentity, Untouched
  <1>3. CASE ~(need > VMM_NPTS)
    <2>1. /\ page_dir' = [i \in DOMAIN page_dir |->
                            IF i < need THEN [tab |-> <<"low", i>>, flags |-> FullAccess]
                            ELSE [tab |-> <<>>, flags |-> {}]]
          /\ tabs' = [tabs EXCEPT !.low = [t \in DOMAIN @ |-> IF t >= need THEN @[t] ELSE Low(t)]]
      BY <1>3 DEF vmm_init, FullAccess
    <2>2. /\ DOMAIN page_dir = Indices /\ DOMAIN tabs = PoolNames
          /\ DOMAIN tabs["low"] = 0 .. VMM_NPTS - 1
      BY <1>0, PoolSizes DEF ShapeInv, PoolNames
    <2> HIDE DEF need, Low
    <2>3. \A i \in Indices :
             page_dir'[i] = IF i < need THEN [tab |-> <<"low", i>>, flags |-> FullAccess]
                            ELSE [tab |-> <<>>, flags |-> {}]
      BY <2>1, <2>2
    <2>4. \A q \in PoolNames : q # "low" => tabs'[q] = tabs[q]
      BY <2>1, <2>2
    <2>5. tabs'["low"] = [t \in 0 .. VMM_NPTS - 1 |-> IF t >= need THEN tabs["low"][t] ELSE Low(t)]
      BY <2>1, <2>2 DEF PoolNames
    <2>6. ShapeInv'
      <3>1. page_dir' = [i \in Indices |-> page_dir'[i]] /\ tabs' = [q \in PoolNames |-> tabs'[q]]
        BY <2>1, <2>2
      <3>2. ASSUME NEW q \in PoolNames PROVE DOMAIN tabs'[q] = 0 .. Pool[q] - 1
        BY <1>0, <2>4, <2>5, PoolSizes DEF ShapeInv
      <3> QED BY <3>1, <3>2 DEF ShapeInv
    <2>7. ASSUME NEW i \in Indices, i < need
          PROVE  /\ i \in 0 .. VMM_NPTS - 1 /\ page_dir'[i].tab = <<"low", i>>
                 /\ tabs'["low"][i] = Low(i)
      <3>1. i \in 0 .. VMM_NPTS - 1 /\ ~(i >= need)
        BY <1>1, <1>3, <2>7 DEF Indices
      <3>2. page_dir'[i] = [tab |-> <<"low", i>>, flags |-> FullAccess]
        BY <2>3, <2>7, Zenon
      <3>3. tabs'["low"][i] = Low(i)
        BY <2>5, <3>1, Zenon
      <3> QED BY <3>1, <3>2, <3>3
    <2>8. ASSUME NEW i \in Indices, ~(i < need) PROVE ~Present(i)'
      <3>1. page_dir'[i] = [tab |-> <<>>, flags |-> {}]
        BY <2>3, <2>8, Zenon
      <3> QED BY <3>1 DEF Present
    <2>9. ASSUME NEW i \in Indices, NEW e \in Entries
          PROVE  Low(i)[e] = IF i * ENTRIES + e < Pages(VMM_IDMAP_BYTES)
                             THEN [addr |-> PageAt(i, e), flags |-> FullAccess]
                             ELSE NotPresent
      <3>1. /\ PageAt(i, e) \in Nat /\ PageAt(i, e) = (i * ENTRIES + e) * VMM_PAGE_SIZE
            /\ vmm_offset(PageAt(i, e)) = 0
        BY PageAtType
      <3>2. vmm_make_entry(PageAt(i, e), FullAccess) = [addr |-> PageAt(i, e), flags |-> FullAccess]
        BY <3>1 DEF vmm_make_entry
      <3> QED BY <3>1, <3>2 DEF Low, Entries
    <2>10. IsIdentity'
      <3> SUFFICES ASSUME NEW i \in Indices, Present(i)'
                   PROVE  /\ "low" \in PoolNames /\ i \in 0 .. Pool["low"] - 1
                          /\ page_dir'[i].tab = <<"low", i>> /\ SelfMapped(i, "low", i)'
        BY DEF IsIdentity
      <3>1. /\ i \in 0 .. VMM_NPTS - 1 /\ page_dir'[i].tab = <<"low", i>>
            /\ tabs'["low"][i] = Low(i)
        BY <2>7, <2>8
      <3>2. SelfMapped(i, "low", i)'
        <4> SUFFICES ASSUME NEW e \in Entries, "PRESENT" \in Low(i)[e].flags
                     PROVE  Low(i)[e].addr = PageAt(i, e)
          BY <3>1 DEF SelfMapped
        <4>1. CASE i * ENTRIES + e < Pages(VMM_IDMAP_BYTES)
          <5>1. Low(i)[e] = [addr |-> PageAt(i, e), flags |-> FullAccess]
            BY <2>9, <4>1, Zenon
          <5> QED BY <5>1
        <4>2. CASE ~(i * ENTRIES + e < Pages(VMM_IDMAP_BYTES))
          <5>1. Low(i)[e] = NotPresent
            BY <2>9, <4>2, Zenon
          <5> QED BY <5>1 DEF NotPresent
        <4> QED BY <4>1, <4>2
      <3> QED BY <3>1, <3>2, PoolSizes DEF PoolNames
    <2>11. Untouched("mmio")' /\ Untouched("lfb")'
      <3> SUFFICES ASSUME NEW i \in Indices, Present(i)' PROVE page_dir'[i].tab[1] = "low"
        BY DEF Untouched
      <3>1. page_dir'[i].tab = <<"low", i>>
        BY <2>7, <2>8
      <3> QED BY <3>1
    <2>12. ASSUME ready' PROVE LowKept'
      <3>1. need = VMM_NPTS
        BY <1>0, <2>12
      <3>2. ASSUME NEW i \in 0 .. VMM_NPTS - 1
            PROVE  /\ page_dir'[i] = [tab |-> <<"low", i>>, flags |-> FullAccess]
                   /\ \A e \in Entries : i * ENTRIES + e < Pages(VMM_IDMAP_BYTES) =>
                         tabs'["low"][i][e].flags = FullAccess
        <4>1. i \in Indices /\ i < need
          BY <3>1 DEF Indices
        <4>2. tabs'["low"][i] = Low(i)
          BY <2>7, <4>1
        <4>3. page_dir'[i] = [tab |-> <<"low", i>>, flags |-> FullAccess]
          BY <2>3, <4>1, Zenon
        <4>4. ASSUME NEW e \in Entries, i * ENTRIES + e < Pages(VMM_IDMAP_BYTES)
              PROVE  tabs'["low"][i][e].flags = FullAccess
          <5>1. Low(i)[e] = [addr |-> PageAt(i, e), flags |-> FullAccess]
            BY <2>9, <4>1, <4>4, Zenon
          <5> QED BY <4>2, <5>1
        <4> QED BY <4>3, <4>4
      <3> QED BY <3>1, <3>2 DEF LowKept, need
    <2> QED BY <1>0, <2>6, <2>10, <2>11, <2>12
  <1> QED BY <1>2, <1>3

LEMMA PagingInit == BootInit => PagingInv
  <1> SUFFICES ASSUME BootInit PROVE PagingInv
    OBVIOUS
  <1>1. /\ page_dir = [i \in Indices |-> [tab |-> <<>>, flags |-> {}]]
        /\ tabs = [p \in PoolNames |->
                     [t \in 0 .. Pool[p] - 1 |-> [e \in 0 .. ENTRIES - 1 |-> NotPresent]]]
        /\ ready = FALSE /\ enabled = FALSE /\ stage = "pmm" /\ machine \in Machines
    BY PoolSizes DEF BootInit, VmmInit, Indices
  <1>2. ShapeInv
    BY <1>1 DEF ShapeInv
  <1>3. \A i \in Indices : ~Present(i)
    BY <1>1 DEF Present
  <1> QED BY <1>1, <1>2, <1>3 DEF PagingInv, IsIdentity, Untouched

\* No more than that is needed of a step that leaves the tables alone.
LEMMA PagingKept ==
    ASSUME PagingInv, UNCHANGED vmmVars, machine' = machine,
           \/ stage' = stage
           \/ stage = "pmm" /\ stage' = "vmm_init"
           \/ stage = "xhci" /\ stage' = "display"
           \/ stage = "display" /\ stage' = "up"
    PROVE  PagingInv'
  <1>1. page_dir' = page_dir /\ tabs' = tabs /\ ready' = ready /\ enabled' = enabled
    BY DEF vmmVars
  <1>2. /\ ShapeInv' = ShapeInv /\ IsIdentity' = IsIdentity /\ LowKept' = LowKept
        /\ \A p : Untouched(p)' = Untouched(p) /\ \A i : Present(i)' = Present(i)
    BY <1>1 DEF ShapeInv, IsIdentity, SelfMapped, LowKept, Untouched, Present
  <1> QED BY <1>1, <1>2, Zenon DEF PagingInv

LEMMA PagingStep == PagingInv /\ [BootNext]_bootVars => PagingInv'
  <1> SUFFICES ASSUME PagingInv, [BootNext]_bootVars PROVE PagingInv'
    OBVIOUS
  <1>0. machine \in Machines
    BY DEF PagingInv
  <1>1. CASE memory
    BY <1>1, PagingKept DEF memory
  <1>2. CASE paging
    <2>1. machine' = machine
      BY <1>2 DEF paging
    <2>2. CASE stage = "vmm_init" /\ vmm_init /\ stage' = "vmm_enable"
      <3>1. /\ ShapeInv' /\ IsIdentity' /\ (ready' => LowKept') /\ enabled' = enabled
            /\ Untouched("mmio")' /\ Untouched("lfb")'
        BY <2>2, VmmInitStep
      <3>2. ~enabled
        BY <2>2 DEF PagingInv
      <3> QED BY <1>0, <2>1, <2>2, <3>1, <3>2 DEF PagingInv
    <2>3. CASE stage = "vmm_enable" /\ vmm_enable /\ stage' = "xhci"
      <3>1. page_dir' = page_dir /\ tabs' = tabs /\ ready' = ready /\ (enabled' => ready)
        BY <2>3 DEF vmm_enable, PagingInv
      <3>2. /\ ShapeInv' = ShapeInv /\ IsIdentity' = IsIdentity /\ LowKept' = LowKept
            /\ Untouched("mmio")' = Untouched("mmio") /\ Untouched("lfb")' = Untouched("lfb")
        BY <3>1 DEF ShapeInv, IsIdentity, SelfMapped, LowKept, Untouched, Present
      <3> QED BY <1>0, <2>1, <2>3, <3>1, <3>2 DEF PagingInv
    <2> QED BY <1>2, <2>2, <2>3 DEF paging
  <1>3. CASE xhci_init
    <2> DEFINE npts == MmioTables(machine.xbar, XHCI_BYTES)
    <2>1. stage = "xhci" /\ stage' = "display" /\ machine' = machine
      BY <1>3 DEF xhci_init
    <2>2. CASE UNCHANGED vmmVars
      BY <2>1, <2>2, PagingKept
    <2>3. ASSUME machine.xbar # 0, MmioMaps(machine.xbar, XHCI_BYTES),
                 vmm_map_mmio(machine.xbar, XHCI_BYTES)
          PROVE  PagingInv'
      <3>1. IsAbove(machine.xbar, npts) /\ machine.xbar \in Nat /\ XHCI_BYTES \in Int
        BY <1>0, MachineAssumption DEF IsAbove
      <3>2. npts \in Nat /\ npts <= Pool["mmio"]
        BY <3>1, WindowFits
      <3>3. ready /\ map_window("mmio", WindowBase(machine.xbar), npts, {"PCD"})
        BY <2>3 DEF MmioMaps, vmm_map_mmio
      <3>4. ShapeInv /\ IsIdentity /\ LowKept /\ Untouched("mmio") /\ Untouched("lfb")
        BY <2>1, <3>3 DEF PagingInv
      <3> HIDE DEF npts
      <3>5. /\ ShapeInv' /\ IsIdentity' /\ LowKept' /\ ready' = ready
            /\ \A q \in PoolNames : q # "mmio" /\ Untouched(q) => Untouched(q)'
        BY <2>3, <3>1, <3>2, <3>3, <3>4, MapWindow
      <3>6. Untouched("lfb")'
        BY <3>4, <3>5 DEF PoolNames
      <3> QED BY <1>0, <2>1, <3>3, <3>5, <3>6 DEF PagingInv
    <2> QED BY <1>3, <2>2, <2>3 DEF xhci_init
  <1>4. CASE desktop_start
    <2> DEFINE vga == pci_find_vga_lfb(machine.slots, VGA_DEFAULT)
               fb == machine.fb
    <2>1. stage = "display" /\ stage' = "up" /\ machine' = machine
      BY <1>4 DEF desktop_start
    <2>2. CASE UNCHANGED vmmVars
      BY <2>1, <2>2, PagingKept
    <2>3. ASSUME NEW phys, NEW bytes \in Int, IsAbove(phys, LfbTables(phys, bytes)), phys # 0,
                 LfbMaps(phys, bytes), vmm_map_lfb(phys, bytes)
          PROVE  PagingInv'
      <3> DEFINE npts == LfbTables(phys, bytes)
      <3>1. phys \in Nat
        BY <2>3 DEF IsAbove
      <3>2. npts \in Nat /\ npts <= Pool["lfb"]
        BY <3>1, WindowFits
      <3>3. ready /\ map_window("lfb", WindowBase(phys), npts, {}) /\ IsAbove(phys, npts)
        BY <2>3 DEF LfbMaps, vmm_map_lfb
      <3>4. ShapeInv /\ IsIdentity /\ LowKept /\ Untouched("lfb")
        BY <2>1, <3>3 DEF PagingInv
      <3> HIDE DEF npts
      <3>5. ShapeInv' /\ IsIdentity' /\ LowKept' /\ ready' = ready
        BY <2>3, <3>2, <3>3, <3>4, MapWindow
      <3> QED BY <1>0, <2>1, <3>3, <3>5 DEF PagingInv
    <2>4. lfb_init_auto(fb, vga)
      BY <1>4 DEF desktop_start
    <2>5. CASE Usable(fb) /\ lfb_init_fb(fb)
      <3>1. /\ IsAbove(fb.addr, LfbTables(fb.addr, FbBytes(fb))) /\ fb.addr # 0
            /\ LfbMaps(fb.addr, FbBytes(fb)) /\ vmm_map_lfb(fb.addr, FbBytes(fb))
        BY <1>0, <2>5, MachineAssumption DEF Usable, lfb_init_fb
      <3>2. FbBytes(fb) \in Int
        <4>1. fb.w \in Nat \ {0} /\ fb.h \in Nat /\ fb.pitch \in Nat /\ BYTES_PP \in Nat \ {0}
          BY <1>0, <2>5, MachineAssumption, DisplayAssumption DEF Usable
        <4>2. fb.pitch # 0
          <5>1. fb.w * BYTES_PP >= 1
            BY <4>1
          <5>2. fb.pitch >= fb.w * BYTES_PP
            BY <2>5 DEF Usable
          <5> QED BY <4>1, <5>1, <5>2
        <4>3. vmm_lfb_capacity - VMM_PAGE_SIZE \in Int
          BY Geometry DEF vmm_lfb_capacity
        <4>4. (vmm_lfb_capacity - VMM_PAGE_SIZE) \div fb.pitch \in Int
          BY <4>1, <4>2, <4>3
        <4>5. Clamped(fb) \in Int
          BY <4>1, <4>4 DEF Clamped
        <4>6. fb.pitch * Clamped(fb) + VMM_PAGE_SIZE \in Int
          BY <4>1, <4>5, Geometry
        <4> QED BY <4>6, Geometry DEF FbBytes
      <3> QED BY <2>3, <3>1, <3>2
    <2>6. CASE lfb_init(vga)
      <3>1. VbeBytes \in Int
        BY DisplayAssumption, Geometry DEF VbeBytes
      <3>2. IsAbove(vga, LfbTables(vga, VbeBytes))
        BY <1>0, MachineAssumption
      <3> QED BY <2>2, <2>3, <2>6, <3>1, <3>2 DEF lfb_init
    <2> QED BY <2>4, <2>5, <2>6 DEF lfb_init_auto
  <1>5. CASE draw \/ scroll \/ drawn \/ pages
    <2>1. UNCHANGED vmmVars /\ machine' = machine /\ stage' = stage
      BY <1>5 DEF draw, scroll, drawn, pages, draws
    <2> QED BY <2>1, PagingKept
  <1>6. CASE UNCHANGED bootVars
    BY <1>6, PagingKept DEF bootVars
  <1> QED BY <1>1, <1>2, <1>3, <1>4, <1>5, <1>6 DEF BootNext

\* Low memory is in the first VMM_NPTS tables, within their pages.
LEMMA LowIndex ==
    ASSUME NeedPts(VMM_IDMAP_BYTES) = VMM_NPTS, NEW va \in 0 .. VMM_IDMAP_BYTES - 1
    PROVE  /\ va \in 0 .. SPACE - 1 /\ vmm_pde_index(va) \in 0 .. VMM_NPTS - 1
           /\ vmm_pde_index(va) * ENTRIES + vmm_pte_index(va) < Pages(VMM_IDMAP_BYTES)
  <1> USE Geometry
  <1> DEFINE pg == Pages(VMM_IDMAP_BYTES)
             g == va \div VMM_PAGE_SIZE
             n == VMM_NPTS
  <1>0. va \in Nat /\ va < VMM_IDMAP_BYTES
    OBVIOUS
  <1>1. pg \in Nat /\ VMM_IDMAP_BYTES + VMM_PAGE_SIZE - 1 < pg * VMM_PAGE_SIZE + VMM_PAGE_SIZE
    <2>1. VMM_IDMAP_BYTES + VMM_PAGE_SIZE - 1 \in Nat
      OBVIOUS
    <2> QED BY <2>1, DivBounds DEF Pages
  <1>2. pg <= n * ENTRIES
    <2>1. pg + ENTRIES - 1 \in Nat
      BY <1>1
    <2> HIDE DEF pg
    <2>2. pg + ENTRIES - 1 < ((pg + ENTRIES - 1) \div ENTRIES) * ENTRIES + ENTRIES
      BY <2>1, DivBounds
    <2>3. (pg + ENTRIES - 1) \div ENTRIES = n
      BY DEF NeedPts, pg
    <2>4. n * ENTRIES \in Nat
      OBVIOUS
    <2> QED BY <1>1, <2>2, <2>3, <2>4
  <1>3. g \in Nat /\ g * VMM_PAGE_SIZE <= va
    BY <1>0, DivBounds
  <1> HIDE DEF pg, g
  <1>4. g < pg
    <2> SUFFICES ASSUME pg <= g PROVE FALSE
      BY <1>1, <1>3
    <2>1. pg * VMM_PAGE_SIZE <= g * VMM_PAGE_SIZE
      BY <1>1, <1>3, MulMono
    <2>2. pg * VMM_PAGE_SIZE \in Int /\ g * VMM_PAGE_SIZE \in Int
      BY <1>1, <1>3
    <2> QED BY <1>0, <1>1, <1>3, <2>1, <2>2
  <1>5. va < n * FOURMB
    <2>1. pg * VMM_PAGE_SIZE <= (n * ENTRIES) * VMM_PAGE_SIZE
      BY <1>1, <1>2, MulMono
    <2>2. (n * ENTRIES) * VMM_PAGE_SIZE = n * FOURMB /\ n * FOURMB \in Int
      BY DEF FOURMB
    <2>3. pg * VMM_PAGE_SIZE \in Int
      BY <1>1
    <2> QED BY <1>0, <1>1, <2>1, <2>2, <2>3
  <1>6. va \in 0 .. SPACE - 1
    <2>1. n * FOURMB <= DIR_ENTRIES * FOURMB
      BY MulMono
    <2>2. SPACE = DIR_ENTRIES * FOURMB /\ n * FOURMB \in Int
      BY DEF SPACE
    <2> QED BY <1>0, <1>5, <2>1, <2>2
  <1>7. /\ vmm_pde_index(va) \in Indices /\ vmm_pte_index(va) \in Entries
        /\ g = vmm_pde_index(va) * ENTRIES + vmm_pte_index(va)
    BY <1>6, AddressSplit DEF g
  <1>8. vmm_pde_index(va) < n
    <2> SUFFICES ASSUME n <= vmm_pde_index(va) PROVE FALSE
      BY <1>7 DEF Indices
    <2>1. n * ENTRIES <= vmm_pde_index(va) * ENTRIES
      BY <1>7, MulMono DEF Indices
    <2>2. vmm_pde_index(va) * ENTRIES <= g
      BY <1>7 DEF Indices, Entries
    <2>3. n * ENTRIES \in Int /\ vmm_pde_index(va) * ENTRIES \in Int
      BY <1>7 DEF Indices
    <2> QED BY <1>1, <1>2, <1>3, <1>4, <2>1, <2>2, <2>3
  <1> QED BY <1>4, <1>6, <1>7, <1>8 DEF pg, Indices

\* Once paging is on, mapped addresses are mapped to themselves and ring 3
\* can use all of low memory, through the windows laid over the directory for
\* the xHCI registers and the framebuffer (vmm_init, vmm_map_mmio,
\* vmm_map_lfb), for devices that lie above low memory.
THEOREM IdentityIsKept == BootSpec => []IdentityKept
  <1>1. PagingInv => IdentityKept
    <2> SUFFICES ASSUME PagingInv, enabled PROVE IdentityKept
      BY DEF IdentityKept
    <2>0. IsIdentity /\ LowKept
      BY DEF PagingInv
    <2>1. ASSUME NEW va \in 0 .. SPACE - 1, Mapped(va) PROVE vmm_phys_of(va) = va
      <3> DEFINE i == vmm_pde_index(va)
                 e == vmm_pte_index(va)
      <3>1. i \in Indices /\ e \in Entries /\ va = PageAt(i, e) + vmm_offset(va)
        BY AddressSplit
      <3>2. Present(i)
        BY <2>1 DEF Mapped, Pte, NotPresent, Present
      <3>3. PICK p \in PoolNames : \E t \in 0 .. Pool[p] - 1 :
                page_dir[i].tab = <<p, t>> /\ SelfMapped(i, p, t)
        BY <2>0, <3>1, <3>2 DEF IsIdentity
      <3>4. PICK t \in 0 .. Pool[p] - 1 : page_dir[i].tab = <<p, t>> /\ SelfMapped(i, p, t)
        BY <3>3
      <3>5. Pte(va) = tabs[p][t][e]
        <4>1. Pte(va) = tabs[page_dir[i].tab[1]][page_dir[i].tab[2]][e]
          BY <3>2 DEF Pte, Present
        <4> QED BY <3>4, <4>1
      <3>6. Pte(va).addr = PageAt(i, e)
        BY <2>1, <3>1, <3>4, <3>5 DEF Mapped, SelfMapped
      <3> QED BY <3>1, <3>6 DEF vmm_phys_of
    <2>2. ASSUME NEW va \in 0 .. VMM_IDMAP_BYTES - 1 PROVE UserMapped(va)
      <3> DEFINE i == vmm_pde_index(va)
                 e == vmm_pte_index(va)
      <3>1. /\ va \in 0 .. SPACE - 1 /\ i \in 0 .. VMM_NPTS - 1
            /\ i * ENTRIES + e < Pages(VMM_IDMAP_BYTES)
        BY <2>0, LowIndex DEF LowKept
      <3>2. e \in Entries
        BY <3>1, AddressSplit
      <3>3. /\ page_dir[i] = [tab |-> <<"low", i>>, flags |-> FullAccess]
            /\ tabs["low"][i][e].flags = FullAccess
        BY <2>0, <3>1, <3>2 DEF LowKept
      <3>4. Pte(va) = tabs["low"][i][e]
        BY <3>3 DEF Pte, FullAccess
      <3> QED BY <3>3, <3>4 DEF UserMapped, Mapped, FullAccess
    <2> QED BY <2>1, <2>2 DEF IdentityKept
  <1> QED BY <1>1, PagingInit, PagingStep, PTL DEF BootSpec
----------------------------------------------------------------------------
(* Drawing stays in the window.  First what the primitives may touch: each *)
(* clips to the screen, whatever its arguments.                            *)

NatLess == {ss \in Nat \X Nat : ss[1] < ss[2]}

LEMMA NatLessWF == IsWellFoundedOn(NatLess, Nat)
  <1>1. NatLess = OpToRel(<, Nat)
    BY Zenon DEF OpToRel, NatLess
  <1>2. IsWellFoundedOn(OpToRel(<, Nat), Nat)
    BY NatLessThanWellFounded, Zenon
  <1> QED BY <1>1, <1>2, Zenon

\* Every nonempty set of naturals has a least member.
LEMMA LeastNat ==
    ASSUME NEW T \in SUBSET Nat, T # {}
    PROVE  \E x \in T : \A y \in T : x <= y
  <1>0. T \subseteq Nat
    OBVIOUS
  <1>1. PICK x \in T : \A y \in T : ~(<<y, x>> \in NatLess)
    BY <1>0, NatLessWF, WFMin, Zenon
  <1>2. \A y \in T : ~(y < x)
    BY <1>1 DEF NatLess
  <1> QED BY <1>2

\* The loop of isqrt ends at the integer square root.
LEMMA IsqrtExact ==
    ASSUME NEW n \in Nat
    PROVE  /\ isqrt(n) \in 0 .. n /\ isqrt(n) * isqrt(n) <= n
           /\ (isqrt(n) + 1) * (isqrt(n) + 1) > n
  <1> DEFINE T == {x \in Nat : (x + 1) * (x + 1) > n}
  <1>1. n \in T
    <2>1. (n + 1) * (n + 1) = n * n + 2 * n + 1 /\ n * n \in Nat
      OBVIOUS
    <2> QED BY <2>1
  <1>2. PICK x \in T : \A y \in T : x <= y
    BY <1>1, LeastNat
  <1>3. x \in Nat /\ (x + 1) * (x + 1) > n
    OBVIOUS
  <1>4. x * x <= n
    <2>1. CASE x = 0
      BY <2>1
    <2>2. CASE x # 0
      <3>1. x - 1 \in Nat /\ x - 1 \notin T
        BY <1>2, <1>3, <2>2
      <3>2. ~(((x - 1) + 1) * ((x - 1) + 1) > n)
        BY <3>1
      <3>3. (x - 1) + 1 = x /\ x * x \in Nat
        BY <1>3
      <3> QED BY <3>2, <3>3
    <2> QED BY <2>1, <2>2
  <1> HIDE DEF T
  <1>5. x <= n
    <2>1. CASE x = 0
      BY <2>1
    <2>2. CASE x # 0
      <3>1. 1 * x <= x * x
        BY <1>3, <2>2, MulMono
      <3> QED BY <1>3, <1>4, <3>1
    <2> QED BY <2>1, <2>2
  <1>6. \E z \in 0 .. n : z * z <= n /\ (z + 1) * (z + 1) > n
    BY <1>3, <1>4, <1>5
  <1> QED BY <1>6 DEF isqrt

\* Squares grow: what isqrt is called with is never negative.
LEMMA SquareGap ==
    ASSUME NEW r \in Nat, NEW d \in Int, -r <= d, d <= r
    PROVE  r * r - d * d \in Nat
  <1>1. (r - d) * (r + d) \in Nat
    BY Z3
  <1>2. (r - d) * (r + d) = r * r - d * d
    BY Z3
  <1> QED BY <1>1, <1>2

\* An active display with sane sizes.
Sized == /\ lfb.W \in Nat /\ lfb.H \in Nat /\ lfb.pitch_px \in Nat
         /\ lfb.W <= lfb.pitch_px

LEMMA FillClips ==
    ASSUME Sized, NEW x \in Int, NEW y \in Int, NEW w \in Int, NEW h \in Int
    PROVE  lfb_fill(x, y, w, h) \subseteq Screen
  <1> DEFINE x0 == IF x < 0 THEN 0 ELSE x
             y0 == IF y < 0 THEN 0 ELSE y
             w0 == IF x < 0 THEN w + x ELSE w
             h0 == IF y < 0 THEN h + y ELSE h
             w1 == IF x0 + w0 > lfb.W THEN lfb.W - x0 ELSE w0
             h1 == IF y0 + h0 > lfb.H THEN lfb.H - y0 ELSE h0
  <1>1. /\ lfb.W \in Nat /\ lfb.H \in Nat
    BY DEF Sized
  <1>2. /\ x0 \in Nat /\ y0 \in Nat /\ w1 \in Int /\ h1 \in Int
        /\ x0 + w1 <= lfb.W /\ y0 + h1 <= lfb.H
    BY <1>1
  <1>3. lfb_fill(x, y, w, h) = {<<x0 + i, y0 + j>> : i \in 0 .. w1 - 1, j \in 0 .. h1 - 1}
    BY DEF lfb_fill
  <1> HIDE DEF x0, y0, w0, h0, w1, h1
  <1>4. ASSUME NEW i \in 0 .. w1 - 1, NEW j \in 0 .. h1 - 1
        PROVE  <<x0 + i, y0 + j>> \in Screen
    <2>1. x0 + i \in 0 .. lfb.W - 1 /\ y0 + j \in 0 .. lfb.H - 1
      BY <1>1, <1>2
    <2> QED BY <2>1 DEF Screen
  <1> QED BY <1>3, <1>4

LEMMA RectClips ==
    ASSUME Sized, NEW x \in Int, NEW y \in Int, NEW w \in Int, NEW h \in Int
    PROVE  /\ lfb_rect(x, y, w, h) \subseteq Screen
           /\ lfb_gradient_v(x, y, w, h) \subseteq Screen
  <1>1. /\ y + h - 1 \in Int /\ x + w - 1 \in Int /\ 1 \in Int
        /\ \A j \in 0 .. h - 1 : y + j \in Int
    OBVIOUS
  <1>2. lfb_rect(x, y, w, h) \subseteq Screen
    BY <1>1, FillClips DEF lfb_rect
  <1>3. ASSUME NEW j \in 0 .. h - 1 PROVE lfb_fill(x, y + j, w, 1) \subseteq Screen
    BY <1>1, FillClips
  <1> QED BY <1>2, <1>3 DEF lfb_gradient_v

LEMMA RoundClips ==
    ASSUME Sized, NEW x \in Int, NEW y \in Int, NEW w \in Int, NEW h \in Int, NEW r \in Nat
    PROVE  lfb_round_fill(x, y, w, h, r) \subseteq Screen
  <1> DEFINE r1 == IF r * 2 > h THEN h \div 2 ELSE r
             r2 == IF r1 * 2 > w THEN w \div 2 ELSE r1
  <1>1. r1 \in Int
    OBVIOUS
  <1> HIDE DEF r1
  <1>2. r2 \in Int
    BY <1>1
  <1>3. lfb_round_fill(x, y, w, h, r) =
          UNION {lfb_fill(x + corner_inset(j, h, r2), y + j, w - 2 * corner_inset(j, h, r2), 1) :
                   j \in 0 .. h - 1}
    BY DEF lfb_round_fill, r1
  <1> HIDE DEF r2
  <1>4. ASSUME NEW j \in 0 .. h - 1 PROVE corner_inset(j, h, r2) \in Int
    <2> DEFINE dy == IF j < r2 THEN r2 - j ELSE IF j >= h - r2 THEN r2 - (h - 1 - j) ELSE -1
    <2>1. corner_inset(j, h, r2) = IF dy < 0 THEN 0 ELSE r2 - isqrt(r2 * r2 - dy * dy)
      BY DEF corner_inset
    <2>2. dy \in Int /\ (dy < 0 \/ (r2 \in Nat /\ -r2 <= dy /\ dy <= r2))
      BY <1>2
    <2> HIDE DEF dy
    <2>3. CASE dy < 0
      BY <2>1, <2>3
    <2>4. CASE ~(dy < 0)
      <3>1. r2 * r2 - dy * dy \in Nat
        BY <2>2, <2>4, SquareGap
      <3>2. isqrt(r2 * r2 - dy * dy) \in Int
        BY <3>1, IsqrtExact
      <3> QED BY <1>2, <2>1, <2>4, <3>2
    <2> QED BY <2>3, <2>4
  <1>5. ASSUME NEW j \in 0 .. h - 1
        PROVE  lfb_fill(x + corner_inset(j, h, r2), y + j, w - 2 * corner_inset(j, h, r2), 1)
                   \subseteq Screen
    <2> DEFINE in == corner_inset(j, h, r2)
    <2>1. in \in Int
      BY <1>4
    <2> HIDE DEF in
    <2>2. x + in \in Int /\ y + j \in Int /\ w - 2 * in \in Int /\ 1 \in Int
      BY <2>1
    <2>3. lfb_fill(x + in, y + j, w - 2 * in, 1) \subseteq Screen
      BY <2>2, FillClips
    <2> QED BY <2>3 DEF in
  <1> QED BY <1>3, <1>5

LEMMA DiscClips ==
    ASSUME Sized, NEW x \in Int, NEW y \in Int, NEW r \in Nat
    PROVE  lfb_disc(x, y, r) \subseteq Screen
  <1>1. ASSUME NEW dy \in (-r) .. r
        PROVE  lfb_fill(x - isqrt(r * r - dy * dy), y + dy, 2 * isqrt(r * r - dy * dy) + 1, 1)
                   \subseteq Screen
    <2> DEFINE half == isqrt(r * r - dy * dy)
    <2>1. half \in Int
      <3>1. r * r - dy * dy \in Nat
        BY SquareGap
      <3> QED BY <3>1, IsqrtExact
    <2> HIDE DEF half
    <2>2. x - half \in Int /\ y + dy \in Int /\ 2 * half + 1 \in Int /\ 1 \in Int
      BY <2>1
    <2>3. lfb_fill(x - half, y + dy, 2 * half + 1, 1) \subseteq Screen
      BY <2>2, FillClips
    <2> QED BY <2>3 DEF half
  <1> QED BY <1>1 DEF lfb_disc

LEMMA LineClips ==
    ASSUME NEW x0, NEW y0, NEW x1, NEW y1
    PROVE  lfb_line(x0, y0, x1, y1) \subseteq Screen
  <1>1. \A x, y : lfb_pixel(x, y) \subseteq Screen
    BY DEF lfb_pixel, Screen
  <1>2. \A f, S : UNION {lfb_pixel(f[k].x, f[k].y) : k \in S} \subseteq Screen
    BY <1>1
  <1> QED BY <1>2 DEF lfb_line

LEMMA CharClips ==
    ASSUME Sized, NEW x \in Int, NEW y \in Int, NEW s \in Nat, NEW o \in BOOLEAN,
           NEW g \in SUBSET ((0 .. GLYPH_W - 1) \X (0 .. GLYPH_H - 1))
    PROVE  lfb_char(x, y, g, o, s) \subseteq Screen
  <1> DEFINE C == IF o THEN (0 .. GLYPH_W - 1) \X (0 .. GLYPH_H - 1) ELSE g
  <1>1. C \subseteq (0 .. GLYPH_W - 1) \X (0 .. GLYPH_H - 1)
    OBVIOUS
  <1>2. lfb_char(x, y, g, o, s) = UNION {lfb_fill(x + c[1] * s, y + c[2] * s, s, s) : c \in C}
    BY DEF lfb_char
  <1> HIDE DEF C
  <1>3. ASSUME NEW c \in C PROVE lfb_fill(x + c[1] * s, y + c[2] * s, s, s) \subseteq Screen
    <2>1. c[1] \in Int /\ c[2] \in Int
      BY <1>1
    <2>2. c[1] * s \in Int /\ c[2] * s \in Int
      BY <2>1
    <2>3. x + c[1] * s \in Int /\ y + c[2] * s \in Int
      BY <2>2
    <2> QED BY <2>3, FillClips
  <1> QED BY <1>2, <1>3
\* Pixels of the screen are words of the rows of the framebuffer.
LEMMA WordsFit ==
    ASSUME Sized, NEW px \in SUBSET Screen
    PROVE  Words(px) \subseteq 0 .. lfb.H * lfb.pitch_px - 1
  <1> DEFINE W == lfb.W
             H == lfb.H
             P == lfb.pitch_px
  <1>0. W \in Nat /\ H \in Nat /\ P \in Nat /\ W <= P
    BY DEF Sized
  <1>1. Words(px) = {c[2] * P + c[1] : c \in px} /\ px \subseteq (0 .. W - 1) \X (0 .. H - 1)
    BY DEF Words, Screen
  <1> HIDE DEF W, H, P
  <1>2. ASSUME NEW c \in px PROVE c[2] * P + c[1] \in 0 .. H * P - 1
    <2>1. c[1] \in 0 .. W - 1 /\ c[2] \in 0 .. H - 1
      BY <1>1
    <2>2. (c[2] + 1) * P <= H * P
      BY <1>0, <2>1, MulMono
    <2>3. (c[2] + 1) * P = c[2] * P + P /\ c[2] * P \in Nat /\ H * P \in Int
      BY <1>0, <2>1
    <2> QED BY <1>0, <2>1, <2>2, <2>3
  <1>3. Words(px) \subseteq 0 .. H * P - 1
    BY <1>1, <1>2
  <1> QED BY <1>3 DEF H, P

\* The terminal's rectangle, where the screen holds it.
LEMMA ScrollFits ==
    ASSUME Sized, ConsoleFits
    PROVE  lfb_scroll_up(ConsoleX, CON_Y, CON_W, CON_H, CON_LINE)
               \subseteq 0 .. lfb.H * lfb.pitch_px - 1
  <1> DEFINE W == lfb.W
             H == lfb.H
             P == lfb.pitch_px
             x == ConsoleX
  <1>0. /\ W \in Nat /\ H \in Nat /\ P \in Nat /\ W <= P
        /\ CON_W <= W /\ CON_Y + CON_H <= H
        /\ CON_W \in Nat /\ CON_H \in Nat /\ CON_Y \in Nat /\ CON_LINE \in Nat
    BY DrawAssumption DEF Sized, ConsoleFits
  <1>1. x \in Nat /\ x + CON_W <= W
    <2>1. W - CON_W \in Nat /\ x = (W - CON_W) \div 2
      BY <1>0 DEF ConsoleX, Half
    <2> HIDE DEF x, W
    <2> QED BY <1>0, <2>1
  <1>2. lfb_fill(x, CON_Y + CON_H - CON_LINE, CON_W, CON_LINE) \subseteq Screen
    <2>1. x \in Int /\ CON_Y + CON_H - CON_LINE \in Int /\ CON_W \in Int /\ CON_LINE \in Int
      BY <1>0, <1>1
    <2> HIDE DEF x
    <2> QED BY <2>1, FillClips
  <1>3. Words(lfb_fill(x, CON_Y + CON_H - CON_LINE, CON_W, CON_LINE)) \subseteq 0 .. H * P - 1
    BY <1>2, WordsFit
  <1>4. lfb_scroll_up(x, CON_Y, CON_W, CON_H, CON_LINE) =
          {(CON_Y + j) * P + x + i : i \in 0 .. CON_W - 1, j \in 0 .. CON_H - 1}
            \cup Words(lfb_fill(x, CON_Y + CON_H - CON_LINE, CON_W, CON_LINE))
    BY DEF lfb_scroll_up
  <1> HIDE DEF W, H, P, x
  <1>5. ASSUME NEW i \in 0 .. CON_W - 1, NEW j \in 0 .. CON_H - 1
        PROVE  (CON_Y + j) * P + x + i \in 0 .. H * P - 1
    <2> DEFINE y == CON_Y + j
    <2>1. y \in Nat /\ y + 1 <= H /\ x + i \in Nat /\ x + i < P
      BY <1>0, <1>1
    <2> HIDE DEF y
    <2>2. (y + 1) * P <= H * P
      BY <1>0, <2>1, MulMono
    <2>3. (y + 1) * P = y * P + P /\ y * P \in Nat /\ H * P \in Int
      BY <1>0, <2>1
    <2>4. y * P + x + i \in 0 .. H * P - 1
      BY <1>0, <1>1, <2>1, <2>2, <2>3
    <2> QED BY <2>4 DEF y
  <1>6. lfb_scroll_up(x, CON_Y, CON_W, CON_H, CON_LINE) \subseteq 0 .. H * P - 1
    BY <1>3, <1>4, <1>5
  <1> QED BY <1>6 DEF x, H, P

\* A window's tables reach from its base to their end, or as far as it holds.
LEMMA WindowCovers ==
    ASSUME NEW phys \in Nat, NEW bytes \in Nat, bytes <= vmm_lfb_capacity,
           NEW sz \in Nat, sz <= bytes,
           phys % FOURMB = 0 \/ (phys % FOURMB) + sz <= vmm_lfb_capacity
    PROVE  (phys % FOURMB) + sz <= LfbTables(phys, bytes) * FOURMB
  <1> USE Geometry
  <1> DEFINE before == phys % FOURMB
             x == before + bytes + FOURMB - 1
             T == x \div FOURMB
             cap == VMM_LFB_NPTS * FOURMB
  <1>1. before \in Nat /\ before < FOURMB /\ phys - WindowBase(phys) = before
    BY DEF WindowBase
  <1> HIDE DEF before
  <1>2. cap \in Nat /\ bytes <= cap
    BY DEF vmm_lfb_capacity
  <1>3. x \in Nat /\ x < SPACE
    <2>1. (VMM_LFB_NPTS + 2) * FOURMB <= DIR_ENTRIES * FOURMB
      BY PagingAssumption, MulMono
    <2>2. (VMM_LFB_NPTS + 2) * FOURMB = cap + 2 * FOURMB /\ SPACE = DIR_ENTRIES * FOURMB
      BY DEF SPACE
    <2> HIDE DEF cap
    <2> QED BY <1>1, <1>2, <2>1, <2>2
  <1>4. WindowTables(phys, bytes) = T
    <2>1. x % SPACE = x
      BY <1>3, ModSmall
    <2> QED BY <1>1, <2>1 DEF WindowTables
  <1> HIDE DEF x
  <1>5. T \in Nat /\ x < T * FOURMB + FOURMB
    BY <1>3, DivBounds
  <1> HIDE DEF T
  <1>6. T * FOURMB \in Nat /\ before + bytes <= T * FOURMB
    <2>1. T * FOURMB \in Nat
      BY <1>5
    <2> QED BY <1>1, <1>5, <2>1 DEF x
  <1>7. CASE T > VMM_LFB_NPTS
    <2>1. LfbTables(phys, bytes) = VMM_LFB_NPTS
      BY <1>4, <1>7 DEF LfbTables
    <2>2. before = 0 \/ before + sz <= cap
      BY DEF before, vmm_lfb_capacity
    <2>3. before + sz <= cap
      BY <1>1, <1>2, <2>2
    <2> QED BY <2>1, <2>3 DEF before
  <1>8. CASE ~(T > VMM_LFB_NPTS)
    <2>1. LfbTables(phys, bytes) = T
      BY <1>4, <1>8 DEF LfbTables
    <2>2. before + sz <= T * FOURMB
      BY <1>1, <1>6
    <2> QED BY <2>1, <2>2 DEF before
  <1> QED BY <1>7, <1>8

\* vmm_map_lfb maps every address of its window.
LEMMA WindowMapped ==
    ASSUME ShapeInv, NEW npts \in Nat, npts <= VMM_LFB_NPTS, NEW phys, phys # 0,
           IsAbove(phys, npts), map_window("lfb", WindowBase(phys), npts, {}),
           NEW va \in Int, WindowBase(phys) <= va, va < WindowBase(phys) + npts * FOURMB
    PROVE  Mapped(va)'
  <1> USE Geometry
  <1> DEFINE b == WindowBase(phys)
             q == phys \div FOURMB
             i == va \div FOURMB
             nth(k) == (k - vmm_pde_index(b)) % DIR_ENTRIES
             e == vmm_pte_index(va)
             Entry(t, k) == vmm_make_entry((b + t * FOURMB + k * VMM_PAGE_SIZE) % SPACE,
                                           {} \cup {"PRESENT", "RW"})
  <1>0. phys \in Nat /\ VMM_NPTS * FOURMB <= b /\ b + npts * FOURMB <= SPACE
    BY DEF IsAbove, RegionStart, WindowBase
  <1>1. q \in Nat /\ b = q * FOURMB /\ b \in Nat
    <2>1. /\ q \in Nat /\ phys = FOURMB * q + (phys % FOURMB) /\ phys % FOURMB \in Int
      BY <1>0, DivBounds
    <2>2. q * FOURMB \in Nat
      BY <2>1
    <2> QED BY <1>0, <2>1, <2>2 DEF WindowBase
  <1>2. vmm_pde_index(b) = q
    <2> HIDE DEF q
    <2> QED BY <1>1, DivUnique DEF vmm_pde_index
  <1>3. va \in 0 .. SPACE - 1 /\ npts * FOURMB \in Nat
    <2>1. npts * FOURMB \in Nat
      OBVIOUS
    <2> QED BY <1>0, <1>1, <2>1
  <1>4. vmm_pde_index(va) = i /\ i \in Indices /\ e \in Entries
    BY <1>3, AddressSplit DEF vmm_pde_index
  <1>5. i \in Nat /\ i * FOURMB <= va /\ va < i * FOURMB + FOURMB
    BY <1>3, DivBounds
  <1> HIDE DEF i, q, b
  <1>6. q <= i
    <2> SUFFICES ASSUME i + 1 <= q PROVE FALSE
      BY <1>1, <1>5
    <2>1. (i + 1) * FOURMB <= q * FOURMB
      BY <1>1, <1>5, MulMono
    <2>2. (i + 1) * FOURMB = i * FOURMB + FOURMB /\ i * FOURMB \in Int
      BY <1>5
    <2>3. b <= va
      BY DEF b
    <2> QED BY <1>1, <1>5, <2>1, <2>2, <2>3
  <1>7. i < q + npts
    <2> SUFFICES ASSUME q + npts <= i PROVE FALSE
      BY <1>1, <1>5
    <2>1. (q + npts) * FOURMB <= i * FOURMB
      BY <1>1, <1>5, MulMono
    <2>2. (q + npts) * FOURMB = b + npts * FOURMB /\ i * FOURMB \in Int
      BY <1>1, <1>5
    <2>3. va < b + npts * FOURMB
      BY DEF b
    <2> QED BY <1>1, <1>3, <1>5, <2>1, <2>2, <2>3
  <1>8. nth(i) = i - q
    <2>1. i - q \in Nat /\ i - q < DIR_ENTRIES
      BY <1>1, <1>4, <1>6 DEF Indices
    <2> QED BY <1>2, <2>1, ModSmall
  <1>9. nth(i) < npts /\ nth(i) \in 0 .. VMM_LFB_NPTS - 1
    BY <1>1, <1>5, <1>6, <1>7, <1>8
  <1>10. /\ page_dir' = [k \in Indices |->
                           IF nth(k) < npts
                           THEN [tab |-> <<"lfb", nth(k)>>, flags |-> {"PRESENT", "RW"}]
                           ELSE page_dir[k]]
         /\ tabs' = [tabs EXCEPT !["lfb"] = [t \in DOMAIN @ |->
                        IF t >= npts THEN @[t] ELSE [k \in 0 .. ENTRIES - 1 |-> Entry(t, k)]]]
    BY DEF map_window, ShapeInv, b
  <1> DEFINE n == nth(i)
  <1>11. page_dir'[i] = [tab |-> <<"lfb", n>>, flags |-> {"PRESENT", "RW"}]
    BY <1>4, <1>9, <1>10, Zenon
  <1>12. /\ "lfb" \in PoolNames /\ DOMAIN tabs = PoolNames
         /\ DOMAIN tabs["lfb"] = 0 .. VMM_LFB_NPTS - 1
    BY PoolSizes DEF ShapeInv, PoolNames
  <1>13. n < npts /\ n \in 0 .. VMM_LFB_NPTS - 1 /\ n \in Int
    BY <1>9
  <1> HIDE DEF n, Entry, nth
  <1>14. tabs'["lfb"][n] = [k \in 0 .. ENTRIES - 1 |-> Entry(n, k)]
    <2>1. tabs'["lfb"] = [t \in 0 .. VMM_LFB_NPTS - 1 |->
             IF t >= npts THEN tabs["lfb"][t] ELSE [k \in 0 .. ENTRIES - 1 |-> Entry(t, k)]]
      BY <1>10, <1>12
    <2>2. ~(n >= npts)
      BY <1>13
    <2> QED BY <1>13, <2>1, <2>2, Zenon
  <1>15. tabs'["lfb"][n][e] = Entry(n, e)
    BY <1>4, <1>14, Zenon DEF Entries
  <1>16. "PRESENT" \in Entry(n, e).flags
    BY DEF Entry, vmm_make_entry
  <1>17. Pte(va)' = tabs'["lfb"][n][e]
    <2>1. "PRESENT" \in page_dir'[vmm_pde_index(va)].flags
      BY <1>4, <1>11
    <2>2. Pte(va)' = tabs'[page_dir'[i].tab[1]][page_dir'[i].tab[2]][e]
      BY <1>4, <2>1 DEF Pte
    <2> QED BY <1>11, <2>2
  <1> QED BY <1>15, <1>16, <1>17 DEF Mapped
\* The rows lfb_init_fb keeps fit the bytes it asks for, and these the window.
LEMMA FbFits ==
    ASSUME NEW m \in Machines, Usable(m.fb)
    PROVE  LET fb == m.fb
           IN /\ fb.addr \in Nat /\ fb.w \in Nat /\ Clamped(fb) \in Nat
              /\ fb.pitch \div BYTES_PP \in Nat /\ fb.w <= fb.pitch \div BYTES_PP
              /\ FbBytes(fb) \in Nat /\ FbBytes(fb) <= vmm_lfb_capacity
              /\ Clamped(fb) * (fb.pitch \div BYTES_PP) * BYTES_PP <= FbBytes(fb)
  <1> USE Geometry
  <1> DEFINE fb == m.fb
             w == fb.w
             h == fb.h
             p == fb.pitch
             cap == VMM_LFB_NPTS * FOURMB
             H == Clamped(fb)
             P == p \div BYTES_PP
  <1>1. /\ w \in Nat \ {0} /\ h \in Nat /\ p \in Nat /\ BYTES_PP \in Nat \ {0}
        /\ p * h + VMM_PAGE_SIZE < SPACE /\ p >= w * BYTES_PP
    BY MachineAssumption, DisplayAssumption DEF Usable
  <1>2. fb.addr \in Nat
    BY MachineAssumption DEF IsAbove
  <1> HIDE DEF w, h, p
  <1>3. p # 0
    <2>1. 1 * BYTES_PP <= w * BYTES_PP
      BY <1>1, MulMono
    <2>2. w * BYTES_PP \in Nat
      BY <1>1
    <2> QED BY <1>1, <2>1, <2>2
  <1>4. cap \in Nat /\ cap < SPACE /\ VMM_PAGE_SIZE <= cap /\ vmm_lfb_capacity = cap
    <2>1. (VMM_LFB_NPTS + 2) * FOURMB <= DIR_ENTRIES * FOURMB
      BY PagingAssumption, MulMono
    <2>2. 1 * FOURMB <= VMM_LFB_NPTS * FOURMB
      BY MulMono
    <2>3. 1 * VMM_PAGE_SIZE <= ENTRIES * VMM_PAGE_SIZE
      BY MulMono
    <2>4. /\ (VMM_LFB_NPTS + 2) * FOURMB = cap + 2 * FOURMB /\ SPACE = DIR_ENTRIES * FOURMB
          /\ ENTRIES * VMM_PAGE_SIZE = FOURMB /\ cap \in Nat
      BY DEF SPACE, FOURMB
    <2> QED BY <2>1, <2>2, <2>3, <2>4 DEF vmm_lfb_capacity
  <1>5. p * h \in Nat /\ (p * h + VMM_PAGE_SIZE) % SPACE = p * h + VMM_PAGE_SIZE
    <2>1. p * h \in Nat
      BY <1>1
    <2> QED BY <1>1, <2>1, ModSmall
  <1>6. Clamped(fb) = IF p * h + VMM_PAGE_SIZE > cap THEN (cap - VMM_PAGE_SIZE) \div p ELSE h
    BY <1>4, <1>5 DEF Clamped, h, p
  <1> HIDE DEF cap
  <1>7. H \in Nat /\ p * H \in Nat /\ p * H + VMM_PAGE_SIZE <= cap
    <2>1. CASE p * h + VMM_PAGE_SIZE > cap
      <3> DEFINE d == (cap - VMM_PAGE_SIZE) \div p
      <3>1. cap - VMM_PAGE_SIZE \in Nat /\ p \in Nat \ {0}
        BY <1>1, <1>3, <1>4
      <3>2. d \in Nat /\ d * p <= cap - VMM_PAGE_SIZE
        BY <3>1, DivBounds
      <3>3. H = d
        BY <1>6, <2>1
      <3> HIDE DEF d, H
      <3>4. p * d = d * p /\ p * d \in Nat
        BY <3>1, <3>2
      <3> QED BY <1>4, <3>2, <3>3, <3>4
    <2>2. CASE ~(p * h + VMM_PAGE_SIZE > cap)
      <3>1. H = h
        BY <1>6, <2>2
      <3> HIDE DEF H
      <3> QED BY <1>1, <1>4, <1>5, <2>2, <3>1
    <2> QED BY <2>1, <2>2
  <1>8. FbBytes(fb) = p * H + VMM_PAGE_SIZE
    <2>1. p * H + VMM_PAGE_SIZE \in Nat /\ p * H + VMM_PAGE_SIZE < SPACE
      BY <1>4, <1>7
    <2> QED BY <2>1, ModSmall DEF FbBytes, p
  <1> HIDE DEF H
  <1>9. P \in Nat /\ P * BYTES_PP <= p /\ p < P * BYTES_PP + BYTES_PP
    BY <1>1, DivBounds
  <1> HIDE DEF P
  <1>10. w <= P
    <2> SUFFICES ASSUME P + 1 <= w PROVE FALSE
      BY <1>1, <1>9
    <2>1. (P + 1) * BYTES_PP <= w * BYTES_PP
      BY <1>1, <1>9, MulMono
    <2>2. (P + 1) * BYTES_PP = P * BYTES_PP + BYTES_PP /\ P * BYTES_PP \in Nat
          /\ w * BYTES_PP \in Nat
      BY <1>1, <1>9
    <2> QED BY <1>1, <1>9, <2>1, <2>2
  <1>11. H * P * BYTES_PP <= p * H + VMM_PAGE_SIZE
    <2>1. (P * BYTES_PP) * H <= p * H
      <3>1. P * BYTES_PP \in Int
        BY <1>1, <1>9
      <3> QED BY <1>1, <1>7, <1>9, <3>1, MulMono
    <2>2. H * P * BYTES_PP = (P * BYTES_PP) * H /\ (P * BYTES_PP) * H \in Int
      BY <1>1, <1>7, <1>9
    <2> QED BY <1>7, <2>1, <2>2
  <1>12. /\ fb.addr \in Nat /\ w \in Nat /\ H \in Nat /\ P \in Nat /\ w <= P
         /\ FbBytes(fb) \in Nat /\ FbBytes(fb) <= vmm_lfb_capacity
         /\ H * P * BYTES_PP <= FbBytes(fb)
    BY <1>1, <1>2, <1>4, <1>7, <1>8, <1>9, <1>10, <1>11
  <1> QED BY <1>12 DEF w, H, P, p

\* Inductive: once a display is in use, its rows are mapped as far as the
\* window reaches, and the last call touched nothing else.
DrawInv ==
    lfb.active =>
        /\ stage = "up" /\ Sized /\ lfb.fbp \in Nat
        /\ WindowReaches(lfb.H * lfb.pitch_px * BYTES_PP) =>
              \A va \in lfb.fbp .. lfb.fbp + lfb.H * lfb.pitch_px * BYTES_PP - 1 : Mapped(va)
        /\ (call = <<"scroll">> => ConsoleFits) =>
              touched \subseteq 0 .. lfb.H * lfb.pitch_px - 1

\* The display as desktop_start leaves it.
LEMMA DisplayMapped ==
    ASSUME ShapeInv, NEW addr \in Nat, addr # 0, NEW w \in Nat, NEW h \in Nat, NEW P \in Nat,
           w <= P, NEW bytes \in Nat, bytes <= vmm_lfb_capacity, h * P * BYTES_PP <= bytes,
           IsAbove(addr, LfbTables(addr, bytes)), vmm_map_lfb(addr, bytes),
           use(addr, w, h, P), stage' = "up"
    PROVE  DrawInv'
  <1> USE Geometry
  <1> DEFINE npts == LfbTables(addr, bytes)
             sz == h * P * BYTES_PP
             b == WindowBase(addr)
             before == addr % FOURMB
  <1>1. /\ lfb' = [active |-> TRUE, fbp |-> addr, W |-> w, H |-> h, pitch_px |-> P]
        /\ touched' = 0 .. w * h - 1
    BY DEF use
  <1>2. lfb'.fbp = addr /\ lfb'.W = w /\ lfb'.H = h /\ lfb'.pitch_px = P
    BY <1>1
  <1>3. Sized' /\ lfb'.fbp \in Nat
    BY <1>2 DEF Sized
  <1>4. sz \in Nat
    <2>1. h * P \in Nat /\ BYTES_PP \in Nat
      BY DisplayAssumption
    <2> QED BY <2>1
  <1>5. touched' \subseteq 0 .. lfb'.H * lfb'.pitch_px - 1
    <2>1. w * h <= P * h
      BY MulMono
    <2>2. w * h \in Nat /\ h * P \in Nat /\ P * h = h * P
      OBVIOUS
    <2>3. 0 .. w * h - 1 \subseteq 0 .. h * P - 1
      BY <2>1, <2>2
    <2> QED BY <1>1, <1>2, <2>3
  <1>6. npts \in Nat /\ npts <= VMM_LFB_NPTS
    BY WindowFits, PoolSizes
  <1>7. map_window("lfb", b, npts, {})
    BY DEF vmm_map_lfb
  <1>8. before \in Nat /\ addr = b + before /\ b \in Int
    BY DEF WindowBase
  <1> HIDE DEF sz
  <1>9. ASSUME before = 0 \/ before + sz <= vmm_lfb_capacity,
               NEW va \in addr .. addr + sz - 1
        PROVE  Mapped(va)'
    <2>1. before + sz <= npts * FOURMB
      BY <1>4, <1>9, WindowCovers DEF sz
    <2>2. npts * FOURMB \in Nat
      BY <1>6
    <2> HIDE DEF npts, before
    <2>3. va \in Int /\ b <= va /\ va < b + npts * FOURMB
      BY <1>4, <1>8, <2>1, <2>2
    <2>4. IsAbove(addr, npts)
      BY DEF npts
    <2> QED BY <1>6, <1>7, <2>3, <2>4, WindowMapped
  <1>10. ASSUME WindowReaches(lfb.H * lfb.pitch_px * BYTES_PP)',
                NEW va \in lfb'.fbp .. lfb'.fbp + lfb'.H * lfb'.pitch_px * BYTES_PP - 1
         PROVE  Mapped(va)'
    <2>1. before = 0 \/ before + sz <= vmm_lfb_capacity
      BY <1>2, <1>10 DEF WindowReaches, sz
    <2>2. va \in addr .. addr + sz - 1
      BY <1>2, <1>10 DEF sz
    <2> QED BY <1>9, <2>1, <2>2
  <1> QED BY <1>3, <1>5, <1>10 DEF DrawInv

\* A drawing call touches words of the framebuffer only.
LEMMA DrawTouches ==
    ASSUME Sized, draw
    PROVE  touched' \subseteq 0 .. lfb.H * lfb.pitch_px - 1
  <1> DEFINE R == 0 .. lfb.H * lfb.pitch_px - 1
  <1>0. /\ Coords \subseteq Int /\ Sizes \subseteq Int /\ Radii \subseteq Nat /\ Scales \subseteq Nat
        /\ Glyphs \subseteq SUBSET ((0 .. GLYPH_W - 1) \X (0 .. GLYPH_H - 1))
    BY DrawAssumption
  <1>f. \A px : px \subseteq Screen => Words(px) \subseteq R
    BY WordsFit
  <1> HIDE DEF R
  <1>1. PICK x \in Coords, y \in Coords :
        \/ \E w, h \in Sizes :
              \/ draws(<<"fill", x, y, w, h>>, Words(lfb_fill(x, y, w, h)))
              \/ draws(<<"fill", x, y, w, h>>, Words(lfb_gradient_v(x, y, w, h)))
              \/ w > 0 /\ h > 0 /\ draws(<<"rect", x, y, w, h>>, Words(lfb_rect(x, y, w, h)))
              \/ \E r \in Radii :
                    draws(<<"round", x, y, w, h, r>>, Words(lfb_round_fill(x, y, w, h, r)))
        \/ \E r \in Radii : draws(<<"disc", x, y, r>>, Words(lfb_disc(x, y, r)))
        \/ \E x1, y1 \in Coords :
              draws(<<"line", x, y, x1, y1>>, Words(lfb_line(x, y, x1, y1)))
        \/ \E g \in Glyphs, opaque \in BOOLEAN, s \in Scales :
              draws(<<"char", x, y, g, opaque, s>>, Words(lfb_char(x, y, g, opaque, s)))
    BY Zenon DEF draw
  <1>2. x \in Int /\ y \in Int
    BY <1>0
  <1>d. \A c, ws : draws(c, ws) => touched' = ws
    BY DEF draws
  <1>3. ASSUME NEW w \in Sizes, NEW h \in Sizes,
               \/ draws(<<"fill", x, y, w, h>>, Words(lfb_fill(x, y, w, h)))
               \/ draws(<<"fill", x, y, w, h>>, Words(lfb_gradient_v(x, y, w, h)))
               \/ draws(<<"rect", x, y, w, h>>, Words(lfb_rect(x, y, w, h)))
        PROVE  touched' \subseteq R
    <2>1. w \in Int /\ h \in Int
      BY <1>0
    <2>2. /\ lfb_fill(x, y, w, h) \subseteq Screen /\ lfb_gradient_v(x, y, w, h) \subseteq Screen
          /\ lfb_rect(x, y, w, h) \subseteq Screen
      BY <1>2, <2>1, FillClips, RectClips
    <2> QED BY <1>3, <1>d, <1>f, <2>2, Zenon
  <1>4. ASSUME NEW w \in Sizes, NEW h \in Sizes, NEW r \in Radii,
               draws(<<"round", x, y, w, h, r>>, Words(lfb_round_fill(x, y, w, h, r)))
        PROVE  touched' \subseteq R
    <2>1. w \in Int /\ h \in Int /\ r \in Nat
      BY <1>0
    <2>2. lfb_round_fill(x, y, w, h, r) \subseteq Screen
      BY <1>2, <2>1, RoundClips
    <2> QED BY <1>4, <1>d, <1>f, <2>2, Zenon
  <1>5. ASSUME NEW r \in Radii, draws(<<"disc", x, y, r>>, Words(lfb_disc(x, y, r)))
        PROVE  touched' \subseteq R
    <2>1. r \in Nat
      BY <1>0
    <2>2. lfb_disc(x, y, r) \subseteq Screen
      BY <1>2, <2>1, DiscClips
    <2> QED BY <1>5, <1>d, <1>f, <2>2, Zenon
  <1>6. ASSUME NEW x1, NEW y1,
               draws(<<"line", x, y, x1, y1>>, Words(lfb_line(x, y, x1, y1)))
        PROVE  touched' \subseteq R
    <2>1. lfb_line(x, y, x1, y1) \subseteq Screen
      BY LineClips
    <2> QED BY <1>6, <1>d, <1>f, <2>1, Zenon
  <1>7. ASSUME NEW g \in Glyphs, NEW o \in BOOLEAN, NEW s \in Scales,
               draws(<<"char", x, y, g, o, s>>, Words(lfb_char(x, y, g, o, s)))
        PROVE  touched' \subseteq R
    <2>1. s \in Nat /\ g \in SUBSET ((0 .. GLYPH_W - 1) \X (0 .. GLYPH_H - 1))
      BY <1>0
    <2>2. lfb_char(x, y, g, o, s) \subseteq Screen
      BY <1>2, <2>1, CharClips
    <2> QED BY <1>7, <1>d, <1>f, <2>2, Zenon
  <1>8. touched' \subseteq R
    BY <1>1, <1>3, <1>4, <1>5, <1>6, <1>7, Zenon
  <1> QED BY <1>8 DEF R

LEMMA DrawStep == PagingInv /\ DrawInv /\ [BootNext]_bootVars => DrawInv'
  <1> SUFFICES ASSUME PagingInv, DrawInv, [BootNext]_bootVars PROVE DrawInv'
    OBVIOUS
  <1>0. machine \in Machines /\ ShapeInv
    BY DEF PagingInv
  <1>k. ASSUME lfb' = lfb, UNCHANGED vmmVars, stage' = stage
        PROVE  /\ Sized' = Sized /\ ConsoleFits' = ConsoleFits
               /\ \A va : Mapped(va)' = Mapped(va)
               /\ \A sz : WindowReaches(sz)' = WindowReaches(sz)
    BY <1>k DEF Sized, ConsoleFits, Mapped, Pte, WindowReaches, vmmVars
  <1>1. CASE lfb' = lfb /\ stage # "up"
    BY <1>1 DEF DrawInv
  <1>2. CASE memory \/ paging \/ xhci_init
    BY <1>1, <1>2 DEF memory, paging, xhci_init, vmm_init, vmm_enable, lfbVars
  <1>3. CASE desktop_start
    <2> DEFINE vga == pci_find_vga_lfb(machine.slots, VGA_DEFAULT)
               fb == machine.fb
    <2>1. stage = "display" /\ stage' = "up" /\ lfb_init_auto(fb, vga)
      BY <1>3 DEF desktop_start
    <2>2. CASE lfb' = lfb
      BY <1>1, <2>1, <2>2
    <2>3. CASE Usable(fb) /\ lfb_init_fb(fb)
      <3> DEFINE P == fb.pitch \div BYTES_PP
                 bytes == FbBytes(fb)
                 H == Clamped(fb)
      <3>1. /\ fb.addr \in Nat /\ fb.w \in Nat /\ H \in Nat /\ P \in Nat /\ fb.w <= P
            /\ bytes \in Nat /\ bytes <= vmm_lfb_capacity /\ H * P * BYTES_PP <= bytes
        BY <1>0, <2>3, FbFits
      <3>2. /\ fb.addr # 0 /\ vmm_map_lfb(fb.addr, bytes) /\ use(fb.addr, fb.w, H, P)
            /\ IsAbove(fb.addr, LfbTables(fb.addr, bytes))
        BY <1>0, <2>3, MachineAssumption DEF Usable, lfb_init_fb
      <3> HIDE DEF P, bytes, H
      <3> QED BY <1>0, <2>1, <3>1, <3>2, DisplayMapped
    <2>4. ASSUME vga # 0, vmm_map_lfb(vga, VbeBytes), use(vga, VBE_W, VBE_H, VBE_W)
          PROVE  DrawInv'
      <3>1. /\ VBE_W \in Nat /\ VBE_H \in Nat /\ BYTES_PP \in Nat /\ VMM_PAGE_SIZE \in Nat
        BY DisplayAssumption, Geometry
      <3>2. /\ VbeBytes \in Nat /\ VBE_H * VBE_W * BYTES_PP <= VbeBytes
        <4>1. VBE_W * VBE_H \in Nat /\ VBE_H * VBE_W = VBE_W * VBE_H
          BY <3>1
        <4>2. (VBE_W * VBE_H) * BYTES_PP \in Nat
          BY <3>1, <4>1
        <4> QED BY <3>1, <4>1, <4>2 DEF VbeBytes
      <3>3. IsAbove(vga, LfbTables(vga, VbeBytes))
        BY <1>0, MachineAssumption
      <3>4. vga \in Nat
        BY <3>3 DEF IsAbove
      <3>5. VbeBytes <= vmm_lfb_capacity /\ VBE_W <= VBE_W
        BY ModeAssumption, <3>1
      <3> HIDE DEF vga
      <3> QED BY <1>0, <2>1, <2>4, <3>1, <3>2, <3>3, <3>4, <3>5, DisplayMapped
    <2>5. CASE lfb_init(vga)
      BY <2>2, <2>4, <2>5 DEF lfb_init, lfbVars
    <2> QED BY <2>1, <2>3, <2>5 DEF lfb_init_auto
  <1>4. CASE draw \/ scroll \/ drawn
    <2>1. UNCHANGED vmmVars /\ lfb' = lfb /\ stage' = stage
      BY <1>4 DEF draw, scroll, drawn, draws
    <2> SUFFICES ASSUME lfb.active, Sized, call' = <<"scroll">> => ConsoleFits
                 PROVE  touched' \subseteq 0 .. lfb.H * lfb.pitch_px - 1
      BY <1>k, <2>1 DEF DrawInv
    <2>2. CASE draw
      BY <2>2, DrawTouches
    <2>3. CASE scroll
      <3>1. /\ call' = <<"scroll">>
            /\ touched' = lfb_scroll_up(ConsoleX, CON_Y, CON_W, CON_H, CON_LINE)
        BY <2>3 DEF scroll, draws
      <3> QED BY <3>1, ScrollFits
    <2>4. CASE drawn
      BY <2>4 DEF drawn
    <2> QED BY <1>4, <2>2, <2>3, <2>4
  <1>5. CASE pages \/ UNCHANGED bootVars
    <2>1. UNCHANGED vmmVars /\ lfb' = lfb /\ stage' = stage /\ call' = call /\ touched' = touched
      BY <1>5 DEF pages, bootVars, lfbVars
    <2> QED BY <1>k, <2>1 DEF DrawInv
  <1> QED BY <1>2, <1>3, <1>4, <1>5 DEF BootNext

\* Whatever the desktop draws and wherever, it touches mapped words of the
\* framebuffer only, for every machine whose framebuffer lies above low memory
\* (lfb_init_fb's clamp, the clipping of the primitives, vmm_map_lfb); the
\* unclipped lfb_scroll_up where the screen holds the terminal.
THEOREM DrawingStaysInWindow == BootSpec => []DrawsInWindow
  <1>1. BootInit => DrawInv
    BY DEF BootInit, LfbInit, DrawInv
  <1>2. DrawInv => DrawsInWindow
    <2> DEFINE N == lfb.H * lfb.pitch_px
               sz == N * BYTES_PP
    <2> SUFFICES ASSUME DrawInv, call = <<"scroll">> => ConsoleFits, lfb.active,
                        WindowReaches(sz), NEW k \in touched
                 PROVE  /\ k * BYTES_PP \in 0 .. sz - 1
                        /\ \A b \in 0 .. BYTES_PP - 1 : Mapped(lfb.fbp + k * BYTES_PP + b)
      BY DEF DrawsInWindow, ScreenIsMapped
    <2>1. /\ lfb.H \in Nat /\ lfb.pitch_px \in Nat /\ lfb.fbp \in Nat
          /\ \A va \in lfb.fbp .. lfb.fbp + sz - 1 : Mapped(va)
          /\ k \in 0 .. N - 1 /\ BYTES_PP \in Nat \ {0}
      BY DisplayAssumption DEF DrawInv, Sized
    <2>2. N \in Nat
      BY <2>1
    <2> HIDE DEF N
    <2>3. sz \in Nat /\ k * BYTES_PP \in Nat
      BY <2>1, <2>2
    <2>4. k * BYTES_PP + BYTES_PP <= sz
      <3>1. (k + 1) * BYTES_PP <= N * BYTES_PP
        BY <2>1, <2>2, MulMono
      <3>2. (k + 1) * BYTES_PP = k * BYTES_PP + BYTES_PP
        BY <2>1
      <3> QED BY <3>1, <3>2
    <2> HIDE DEF sz
    <2>5. k * BYTES_PP \in 0 .. sz - 1
      BY <2>1, <2>3, <2>4
    <2>6. ASSUME NEW b \in 0 .. BYTES_PP - 1
          PROVE  lfb.fbp + k * BYTES_PP + b \in lfb.fbp .. lfb.fbp + sz - 1
      BY <2>1, <2>3, <2>4
    <2> QED BY <2>1, <2>5, <2>6
  <1> QED BY <1>1, <1>2, DrawStep, PagingInit, PagingStep, PTL DEF BootSpec

----------------------------------------------------------------------------
(* What is drawn is exactly the part of the shape that is on the screen.   *)

Area(x, y, w, h) == (x .. x + w - 1) \X (y .. y + h - 1)

\* Clipping takes away what is off the screen, and nothing else.
LEMMA FillExact ==
    ASSUME Sized, NEW x \in Int, NEW y \in Int, NEW w \in Int, NEW h \in Int
    PROVE  lfb_fill(x, y, w, h) = Area(x, y, w, h) \cap Screen
  <1> DEFINE x0 == IF x < 0 THEN 0 ELSE x
             y0 == IF y < 0 THEN 0 ELSE y
             w0 == IF x < 0 THEN w + x ELSE w
             h0 == IF y < 0 THEN h + y ELSE h
             w1 == IF x0 + w0 > lfb.W THEN lfb.W - x0 ELSE w0
             h1 == IF y0 + h0 > lfb.H THEN lfb.H - y0 ELSE h0
  <1>1. lfb.W \in Nat /\ lfb.H \in Nat
    BY DEF Sized
  <1>2. /\ x0 \in Int /\ y0 \in Int /\ w1 \in Int /\ h1 \in Int
        /\ \A a \in Int : a \in x0 .. x0 + w1 - 1 <=> a \in x .. x + w - 1 /\ a \in 0 .. lfb.W - 1
        /\ \A a \in Int : a \in y0 .. y0 + h1 - 1 <=> a \in y .. y + h - 1 /\ a \in 0 .. lfb.H - 1
    BY <1>1
  <1>3. lfb_fill(x, y, w, h) = {<<x0 + i, y0 + j>> : i \in 0 .. w1 - 1, j \in 0 .. h1 - 1}
    BY DEF lfb_fill
  <1> HIDE DEF x0, y0, w0, h0, w1, h1
  <1>4. lfb_fill(x, y, w, h) = (x0 .. x0 + w1 - 1) \X (y0 .. y0 + h1 - 1)
    <2>1. ASSUME NEW i \in 0 .. w1 - 1, NEW j \in 0 .. h1 - 1
          PROVE  x0 + i \in x0 .. x0 + w1 - 1 /\ y0 + j \in y0 .. y0 + h1 - 1
      BY <1>2
    <2>2. ASSUME NEW a \in x0 .. x0 + w1 - 1, NEW b \in y0 .. y0 + h1 - 1
          PROVE  \E i \in 0 .. w1 - 1, j \in 0 .. h1 - 1 : <<a, b>> = <<x0 + i, y0 + j>>
      <3>1. a - x0 \in 0 .. w1 - 1 /\ b - y0 \in 0 .. h1 - 1
            /\ a = x0 + (a - x0) /\ b = y0 + (b - y0)
        BY <1>2
      <3> QED BY <3>1
    <2> QED BY <1>3, <2>1, <2>2
  <1>5. (x0 .. x0 + w1 - 1) = (x .. x + w - 1) \cap (0 .. lfb.W - 1)
    BY <1>1, <1>2
  <1>6. (y0 .. y0 + h1 - 1) = (y .. y + h - 1) \cap (0 .. lfb.H - 1)
    BY <1>1, <1>2
  <1> QED BY <1>4, <1>5, <1>6 DEF Area, Screen

\* The same, pixel by pixel.
LEMMA FillPixel ==
    ASSUME Sized, NEW x \in Int, NEW y \in Int, NEW w \in Int, NEW h \in Int,
           NEW p \in Screen
    PROVE  p \in lfb_fill(x, y, w, h) <=> p[1] \in x .. x + w - 1 /\ p[2] \in y .. y + h - 1
  BY FillExact DEF Area, Screen

LEMMA OnGrid ==
    ASSUME NEW p \in Screen
    PROVE  p[1] \in Int /\ p[2] \in Int /\ p = <<p[1], p[2]>>
  BY DEF Screen

\* lfb_fill and lfb_gradient_v paint the rectangle, lfb_rect its outline.
LEMMA RectExact ==
    ASSUME Sized, NEW x \in Int, NEW y \in Int, NEW w \in Int, NEW h \in Int
    PROVE  /\ lfb_fill(x, y, w, h) = Shape(<<"fill", x, y, w, h>>) \cap Screen
           /\ lfb_gradient_v(x, y, w, h) = Shape(<<"fill", x, y, w, h>>) \cap Screen
           /\ w > 0 /\ h > 0 => lfb_rect(x, y, w, h) = Shape(<<"rect", x, y, w, h>>) \cap Screen
  <1>1. /\ Shape(<<"fill", x, y, w, h>>) = Area(x, y, w, h)
        /\ Shape(<<"rect", x, y, w, h>>) =
              {p \in Area(x, y, w, h) : p[1] \in {x, x + w - 1} \/ p[2] \in {y, y + h - 1}}
    BY DEF Shape, Area
  <1>2. lfb_gradient_v(x, y, w, h) \subseteq Screen /\ lfb_rect(x, y, w, h) \subseteq Screen
    BY RectClips
  <1>3. ASSUME NEW p \in Screen
        PROVE  p \in lfb_gradient_v(x, y, w, h) <=> p \in Area(x, y, w, h)
    <2>1. p \in lfb_gradient_v(x, y, w, h) <=> \E j \in 0 .. h - 1 : p \in lfb_fill(x, y + j, w, 1)
      BY DEF lfb_gradient_v
    <2>2. ASSUME NEW j \in 0 .. h - 1
          PROVE  p \in lfb_fill(x, y + j, w, 1) <=> p[1] \in x .. x + w - 1 /\ p[2] = y + j
      <3>1. y + j \in Int /\ 1 \in Int
        OBVIOUS
      <3>2. p \in lfb_fill(x, y + j, w, 1)
               <=> p[1] \in x .. x + w - 1 /\ p[2] \in y + j .. y + j + 1 - 1
        BY <3>1, FillPixel
      <3> QED BY <3>1, <3>2, OnGrid
    <2>3. (\E j \in 0 .. h - 1 : p[2] = y + j) <=> p[2] \in y .. y + h - 1
      <3>1. p[2] \in y .. y + h - 1 => p[2] - y \in 0 .. h - 1 /\ p[2] = y + (p[2] - y)
        BY OnGrid
      <3> QED BY <3>1, OnGrid
    <2>4. p \in Area(x, y, w, h) <=> p[1] \in x .. x + w - 1 /\ p[2] \in y .. y + h - 1
      BY OnGrid DEF Area
    <2> QED BY <2>1, <2>2, <2>3, <2>4
  <1>4. ASSUME w > 0, h > 0, NEW p \in Screen
        PROVE  p \in lfb_rect(x, y, w, h) <=>
                 p \in Area(x, y, w, h) /\ (p[1] \in {x, x + w - 1} \/ p[2] \in {y, y + h - 1})
    <2>1. y + h - 1 \in Int /\ x + w - 1 \in Int /\ 1 \in Int
      OBVIOUS
    <2>2. p \in lfb_rect(x, y, w, h) <=>
             \/ p \in lfb_fill(x, y, w, 1) \/ p \in lfb_fill(x, y + h - 1, w, 1)
             \/ p \in lfb_fill(x, y, 1, h) \/ p \in lfb_fill(x + w - 1, y, 1, h)
      BY DEF lfb_rect
    <2>3. p \in lfb_fill(x, y, w, 1) <=> p[1] \in x .. x + w - 1 /\ p[2] \in y .. y + 1 - 1
      BY <2>1, FillPixel
    <2>4. p \in lfb_fill(x, y + h - 1, w, 1)
             <=> p[1] \in x .. x + w - 1 /\ p[2] \in (y + h - 1) .. (y + h - 1) + 1 - 1
      BY <2>1, FillPixel
    <2>5. p \in lfb_fill(x, y, 1, h) <=> p[1] \in x .. x + 1 - 1 /\ p[2] \in y .. y + h - 1
      BY <2>1, FillPixel
    <2>6. p \in lfb_fill(x + w - 1, y, 1, h)
             <=> p[1] \in (x + w - 1) .. (x + w - 1) + 1 - 1 /\ p[2] \in y .. y + h - 1
      BY <2>1, FillPixel
    <2>7. p \in Area(x, y, w, h) <=> p[1] \in x .. x + w - 1 /\ p[2] \in y .. y + h - 1
      BY OnGrid DEF Area
    <2>8. p[1] \in Int /\ p[2] \in Int
      BY OnGrid
    <2> QED BY <1>4, <2>2, <2>3, <2>4, <2>5, <2>6, <2>7, <2>8
  <1>5. lfb_gradient_v(x, y, w, h) = Area(x, y, w, h) \cap Screen
    BY <1>2, <1>3
  <1>6. ASSUME w > 0, h > 0
        PROVE  lfb_rect(x, y, w, h) = Shape(<<"rect", x, y, w, h>>) \cap Screen
    BY <1>1, <1>2, <1>4, <1>6
  <1> QED BY <1>1, <1>5, <1>6, FillExact

\* A row of a disc or of a corner: the numbers whose square is in reach.
LEMMA IsqrtReach ==
    ASSUME NEW n \in Nat, NEW d \in Int
    PROVE  d \in -isqrt(n) .. isqrt(n) <=> d * d <= n
  <1> DEFINE q == isqrt(n)
  <1>1. q \in Nat /\ q * q <= n /\ (q + 1) * (q + 1) > n
    BY IsqrtExact
  <1> HIDE DEF q
  <1>2. ASSUME NEW a \in Nat PROVE a <= q <=> a * a <= n
    <2>0. a * a \in Nat /\ q * q \in Nat /\ (q + 1) * (q + 1) \in Nat /\ q * a \in Nat /\ (q + 1) * a \in Nat
      BY <1>1
    <2>1. CASE a <= q
      <3>1. a * a <= q * a
        BY <1>1, <2>1, MulMono
      <3>2. a * q <= q * q /\ a * q = q * a
        BY <1>1, <2>1, MulMono
      <3> QED BY <1>1, <2>0, <2>1, <3>1, <3>2
    <2>2. CASE q + 1 <= a
      <3>1. (q + 1) * a <= a * a
        BY <1>1, <2>2, MulMono
      <3>2. (q + 1) * (q + 1) <= a * (q + 1) /\ a * (q + 1) = (q + 1) * a
        BY <1>1, <2>2, MulMono
      <3> QED BY <1>1, <2>0, <2>2, <3>1, <3>2
    <2> QED BY <1>1, <2>1, <2>2
  <1>3. CASE d >= 0
    <2>1. d <= q <=> d * d <= n
      BY <1>2, <1>3
    <2>2. d \in -q .. q <=> d <= q
      BY <1>1, <1>3
    <2> QED BY <2>1, <2>2 DEF q
  <1>4. CASE d < 0
    <2>1. -d \in Nat /\ (-d) * (-d) = d * d
      BY <1>4
    <2>2. -d <= q <=> d * d <= n
      BY <1>2, <2>1
    <2>3. d \in -q .. q <=> -d <= q
      BY <1>1, <1>4
    <2> QED BY <2>2, <2>3 DEF q
  <1> QED BY <1>3, <1>4 DEF q

LEMMA SquareNat ==
    ASSUME NEW d \in Int
    PROVE  d * d \in Nat
  OBVIOUS

\* The middle row of a disc reaches as far as its radius.
LEMMA IsqrtSquare ==
    ASSUME NEW r \in Nat
    PROVE  isqrt(r * r) = r
  <1> DEFINE q == isqrt(r * r)
  <1>1. r * r \in Nat
    OBVIOUS
  <1>2. q \in Nat /\ q * q <= r * r
    BY <1>1, IsqrtExact
  <1>3. r \in -q .. q
    BY <1>1, IsqrtReach
  <1> HIDE DEF q
  <1>4. ~(r + 1 <= q)
    <2> SUFFICES ASSUME r + 1 <= q PROVE FALSE
      OBVIOUS
    <2>1. (r + 1) * (r + 1) <= q * (r + 1) /\ (r + 1) * q <= q * q
      BY <1>2, MulMono
    <2>2. (r + 1) * (r + 1) = r * r + 2 * r + 1 /\ q * (r + 1) = (r + 1) * q
          /\ r * r \in Nat /\ q * q \in Nat /\ (r + 1) * q \in Nat
      BY <1>2
    <2> QED BY <1>2, <2>1, <2>2
  <1>5. q = r
    BY <1>2, <1>3, <1>4
  <1> QED BY <1>5 DEF q

\* lfb_disc, row by row with isqrt_i, paints the disc.
LEMMA DiscExact ==
    ASSUME Sized, NEW x \in Int, NEW y \in Int, NEW r \in Nat
    PROVE  lfb_disc(x, y, r) = Shape(<<"disc", x, y, r>>) \cap Screen
  <1> DEFINE In(p) == (p[1] - x) * (p[1] - x) + (p[2] - y) * (p[2] - y) <= r * r
             half(dy) == isqrt(r * r - dy * dy)
  <1>1. Shape(<<"disc", x, y, r>>) = {p \in (x - r .. x + r) \X (y - r .. y + r) : In(p)}
    BY DEF Shape
  <1>2. lfb_disc(x, y, r) \subseteq Screen
    BY DiscClips
  <1>3. lfb_disc(x, y, r) =
          UNION {lfb_fill(x - half(dy), y + dy, 2 * half(dy) + 1, 1) : dy \in (-r) .. r}
    BY DEF lfb_disc
  <1>4. ASSUME NEW p \in Screen, NEW dy \in (-r) .. r
        PROVE  p \in lfb_fill(x - half(dy), y + dy, 2 * half(dy) + 1, 1) <=>
                 p[2] = y + dy /\ p[1] \in x - r .. x + r /\ In(p)
    <2> DEFINE n == r * r - dy * dy
               q == isqrt(n)
               d == p[1] - x
    <2>0. p[1] \in Int /\ p[2] \in Int /\ d \in Int /\ dy \in Int
      BY OnGrid
    <2>1. n \in Nat
      BY SquareGap
    <2>2. q \in Nat
      BY <2>1, IsqrtExact
    <2>3. d \in -q .. q <=> d * d <= n
      BY <2>0, <2>1, IsqrtReach
    <2>4. d * d <= n <=> d * d + dy * dy <= r * r
      <3>1. d * d \in Int /\ dy * dy \in Int /\ r * r \in Int
        BY <2>0
      <3> QED BY <3>1
    <2>5. d * d <= n => d \in -r .. r
      <3>1. dy * dy \in Nat /\ r * r \in Nat /\ d * d \in Nat
        BY <2>0, SquareNat
      <3>2. d * d <= n => d * d <= r * r
        BY <3>1
      <3>3. isqrt(r * r) = r
        BY IsqrtSquare
      <3> QED BY <2>0, <3>1, <3>2, <3>3, IsqrtReach
    <2> HIDE DEF q, n
    <2>6. x - q \in Int /\ y + dy \in Int /\ 2 * q + 1 \in Int /\ 1 \in Int
      BY <2>0, <2>2
    <2>7. p \in lfb_fill(x - q, y + dy, 2 * q + 1, 1) <=>
            p[1] \in (x - q) .. (x - q) + (2 * q + 1) - 1 /\ p[2] \in (y + dy) .. (y + dy) + 1 - 1
      BY <2>6, FillPixel
    <2>8. /\ p[1] \in (x - q) .. (x - q) + (2 * q + 1) - 1 <=> d \in -q .. q
          /\ p[2] \in (y + dy) .. (y + dy) + 1 - 1 <=> p[2] = y + dy
          /\ p[1] \in x - r .. x + r <=> d \in -r .. r
      BY <2>0, <2>2
    <2>9. p[2] = y + dy => (In(p) <=> d * d + dy * dy <= r * r)
      <3>1. p[2] = y + dy => p[2] - y = dy
        BY <2>0
      <3> QED BY <3>1
    <2>10. p \in lfb_fill(x - q, y + dy, 2 * q + 1, 1) <=>
             p[2] = y + dy /\ p[1] \in x - r .. x + r /\ In(p)
      BY <2>3, <2>4, <2>5, <2>7, <2>8, <2>9
    <2> QED BY <2>10 DEF q, n
  <1> HIDE DEF In, half
  <1>5. ASSUME NEW p \in Screen
        PROVE  p \in lfb_disc(x, y, r) <=> p \in Shape(<<"disc", x, y, r>>)
    <2>1. p[1] \in Int /\ p[2] \in Int /\ p = <<p[1], p[2]>>
      BY OnGrid
    <2>2. p[2] \in y - r .. y + r <=> \E dy \in (-r) .. r : p[2] = y + dy
      <3>1. p[2] \in y - r .. y + r => p[2] - y \in (-r) .. r /\ p[2] = y + (p[2] - y)
        BY <2>1
      <3> QED BY <2>1, <3>1
    <2>3. p \in lfb_disc(x, y, r) <=>
            \E dy \in (-r) .. r : p \in lfb_fill(x - half(dy), y + dy, 2 * half(dy) + 1, 1)
      BY <1>3
    <2>4. p \in Shape(<<"disc", x, y, r>>) <=>
            p[1] \in x - r .. x + r /\ p[2] \in y - r .. y + r /\ In(p)
      BY <1>1, <2>1
    <2> QED BY <1>4, <2>2, <2>3, <2>4
  <1> QED BY <1>2, <1>5

\* How far a cell lies inside the corners of a side.
Reach(r, i, n) == IF r - i > 0 THEN IF r - i >= r - (n - 1 - i) THEN r - i ELSE r - (n - 1 - i)
                  ELSE IF r - (n - 1 - i) > 0 THEN r - (n - 1 - i) ELSE 0

\* The radius is cut to half the sides, so that the corners do not meet.
LEMMA CornerRow ==
    ASSUME NEW w \in Nat, NEW h \in Nat, NEW r \in Nat, 2 * r <= w, 2 * r <= h,
           NEW i \in 0 .. w - 1, NEW j \in 0 .. h - 1
    PROVE  LET dx == Reach(r, i, w)  dy == Reach(r, j, h)
               in == corner_inset(j, h, r)
           IN /\ in \in Nat
              /\ i \in in .. w - 1 - in <=> dx = 0 \/ dy = 0 \/ dx * dx + dy * dy <= r * r
  <1> DEFINE dx == Reach(r, i, w)
             dy == Reach(r, j, h)
             cy == IF j < r THEN r - j ELSE IF j >= h - r THEN r - (h - 1 - j) ELSE -1
             n == r * r - dy * dy
             q == isqrt(n)
  <1>0. i \in Int /\ j \in Int /\ i >= 0 /\ j >= 0 /\ i <= w - 1 /\ j <= h - 1
    OBVIOUS
  <1>1. dx \in 0 .. r /\ dy \in 0 .. r
    BY <1>0 DEF Reach
  <1>2. corner_inset(j, h, r) = IF cy < 0 THEN 0 ELSE r - isqrt(r * r - cy * cy)
    BY DEF corner_inset
  <1>3. IF dy = 0 THEN cy = -1 ELSE cy = dy
    BY <1>0 DEF Reach
  <1>4. CASE dy = 0
    <2>1. corner_inset(j, h, r) = 0
      BY <1>2, <1>3, <1>4
    <2> QED BY <1>0, <1>4, <2>1
  <1>5. CASE dy # 0
    <2>1. corner_inset(j, h, r) = r - q
      BY <1>1, <1>2, <1>3, <1>5
    <2>2. n \in Nat
      BY <1>1, SquareGap
    <2>3. q \in Nat /\ q <= r
      <3>1. dy * dy \in Nat /\ r * r \in Nat
        BY <1>1
      <3>2. q \in Nat /\ q * q <= n
        BY <2>2, IsqrtExact
      <3>3. q * q \in Nat /\ q * q <= r * r
        BY <3>1, <3>2
      <3>4. isqrt(r * r) = r
        BY IsqrtSquare
      <3>5. q \in -r .. r
        BY <3>1, <3>2, <3>3, <3>4, IsqrtReach
      <3> QED BY <3>2, <3>5
    <2>4. dx \in -q .. q <=> dx * dx <= n
      BY <1>1, <2>2, IsqrtReach
    <2>5. dx * dx <= n <=> dx * dx + dy * dy <= r * r
      <3>1. dx * dx \in Int /\ dy * dy \in Int /\ r * r \in Int
        BY <1>1
      <3> QED BY <3>1
    <2>6. dx = 0 => dx * dx <= n
      BY <1>1, <2>2
    <2> HIDE DEF q, n
    <2>7. dx \in -q .. q <=> i \in (r - q) .. w - 1 - (r - q)
      BY <1>0, <2>3 DEF Reach
    <2>8. r - q \in Nat
      BY <2>3
    <2> HIDE DEF dx, dy
    <2>9. i \in (r - q) .. w - 1 - (r - q) <=> dx = 0 \/ dy = 0 \/ dx * dx + dy * dy <= r * r
      BY <1>5, <2>4, <2>5, <2>6, <2>7
    <2> QED BY <2>1, <2>8, <2>9 DEF dx, dy
  <1> QED BY <1>4, <1>5

LEMMA LargestOfThree ==
    ASSUME NEW r \in Int, NEW i \in Int, NEW n \in Int
    PROVE  Max({r - i, r - (n - 1 - i), 0}) = Reach(r, i, n)
  <1> DEFINE S == {r - i, r - (n - 1 - i), 0}
             m == Reach(r, i, n)
  <1>1. m \in S /\ (\A y \in S : m >= y) /\ S \subseteq Int
    BY DEF Reach
  <1> HIDE DEF S, m
  <1>2. \A z \in S : (\A y \in S : z >= y) => z = m
    BY <1>1
  <1>3. Max(S) = m
    BY <1>1, <1>2 DEF Max
  <1> QED BY <1>3 DEF S, m

LEMMA SmallestOfThree ==
    ASSUME NEW a \in Int, NEW b \in Int, NEW c \in Int, NEW m \in {a, b, c},
           m <= a, m <= b, m <= c
    PROVE  Min({a, b, c}) = m
  <1> DEFINE S == {a, b, c}
  <1>1. m \in S /\ (\A y \in S : m <= y) /\ S \subseteq Int
    OBVIOUS
  <1> HIDE DEF S
  <1>2. \A z \in S : (\A y \in S : z <= y) => z = m
    BY <1>1
  <1>3. Min(S) = m
    BY <1>1, <1>2 DEF Min
  <1> QED BY <1>3 DEF S

\* lfb_round_fill, whose radius is clamped and whose corner rows are inset,
\* paints the rounded rectangle.
LEMMA RoundExact ==
    ASSUME Sized, NEW x \in Int, NEW y \in Int, NEW w \in Int, NEW h \in Int, NEW r \in Nat
    PROVE  lfb_round_fill(x, y, w, h, r) = Shape(<<"round", x, y, w, h, r>>) \cap Screen
  <1> DEFINE r1 == IF r * 2 > h THEN h \div 2 ELSE r
             r2 == IF r1 * 2 > w THEN w \div 2 ELSE r1
             m == Min({r, w \div 2, h \div 2})
             In(p) == LET dx == Max({m - (p[1] - x), m - (w - 1 - (p[1] - x)), 0})
                          dy == Max({m - (p[2] - y), m - (h - 1 - (p[2] - y)), 0})
                      IN dx = 0 \/ dy = 0 \/ dx * dx + dy * dy <= m * m
             in(j) == corner_inset(j, h, r2)
  <1>1. Shape(<<"round", x, y, w, h, r>>) = {p \in Area(x, y, w, h) : In(p)}
    BY DEF Shape, Area
  <1>2. lfb_round_fill(x, y, w, h, r) \subseteq Screen
    BY RoundClips
  <1>3. lfb_round_fill(x, y, w, h, r) =
          UNION {lfb_fill(x + in(j), y + j, w - 2 * in(j), 1) : j \in 0 .. h - 1}
    BY DEF lfb_round_fill
  <1>4. /\ r2 \in Int
        /\ w <= 0 /\ h > 0 => r2 <= 0
        /\ w > 0 /\ h > 0 => r2 \in Nat /\ 2 * r2 <= w /\ 2 * r2 <= h /\ r2 = m
    <2> DEFINE hh == h \div 2
               hw == w \div 2
    <2>1. /\ hh \in Int /\ 2 * hh <= h /\ h <= 2 * hh + 1
          /\ hw \in Int /\ 2 * hw <= w /\ w <= 2 * hw + 1
      OBVIOUS
    <2>2. /\ r1 = IF r * 2 > h THEN hh ELSE r
          /\ r2 = IF r1 * 2 > w THEN hw ELSE r1
          /\ m = Min({r, hw, hh})
      OBVIOUS
    <2> HIDE DEF hh, hw, r1, r2, m
    <2>3. r1 \in Int /\ r2 \in Int
      BY <2>1, <2>2
    <2>4. w <= 0 /\ h > 0 => r2 <= 0
      BY <2>1, <2>2, <2>3
    <2>5. ASSUME w > 0, h > 0
          PROVE  /\ r2 \in Nat /\ 2 * r2 <= w /\ 2 * r2 <= h
                 /\ r2 \in {r, hw, hh} /\ r2 <= r /\ r2 <= hw /\ r2 <= hh
      <3>1. r1 \in Nat /\ 2 * r1 <= h /\ r1 <= r /\ r1 <= hh /\ r1 \in {r, hh}
        BY <2>1, <2>2, <2>5
      <3>2. r2 \in Nat /\ 2 * r2 <= w /\ r2 <= r1 /\ r2 <= hw /\ r2 \in {r1, hw}
        BY <2>1, <2>2, <2>5, <3>1
      <3> QED BY <2>1, <3>1, <3>2
    <2>6. w > 0 /\ h > 0 => r2 = m
      BY <2>1, <2>2, <2>5, SmallestOfThree
    <2> QED BY <2>3, <2>4, <2>5, <2>6
  <1> HIDE DEF r1, r2, m
  <1>5. ASSUME NEW p \in Screen, NEW j \in 0 .. h - 1
        PROVE  p \in lfb_fill(x + in(j), y + j, w - 2 * in(j), 1) <=>
                 p[2] = y + j /\ p[1] \in x .. x + w - 1 /\ In(p)
    <2> DEFINE i == p[1] - x
               n == in(j)
    <2>0. p[1] \in Int /\ p[2] \in Int /\ i \in Int /\ j \in Int /\ h > 0
      BY OnGrid
    <2>1. CASE w <= 0
      <3>1. n = 0
        BY <1>4, <2>0, <2>1 DEF corner_inset
      <3>2. x + n \in Int /\ y + j \in Int /\ w - 2 * n \in Int /\ 1 \in Int
        BY <2>0, <3>1
      <3> HIDE DEF n
      <3>3. p \in lfb_fill(x + n, y + j, w - 2 * n, 1) => p[1] \in x + n .. (x + n) + (w - 2 * n) - 1
        BY <3>2, FillPixel
      <3>4. p \notin lfb_fill(x + n, y + j, w - 2 * n, 1)
        BY <2>0, <2>1, <3>1, <3>3
      <3>5. p[1] \notin x .. x + w - 1
        BY <2>0, <2>1
      <3> QED BY <3>4, <3>5 DEF n
    <2>2. CASE w > 0
      <3>0. r2 \in Nat /\ 2 * r2 <= w /\ 2 * r2 <= h /\ r2 = m /\ w \in Nat /\ h \in Nat
        BY <1>4, <2>0, <2>2
      <3>1. n \in Nat
        <4>1. 0 \in 0 .. w - 1
          BY <2>2
        <4> QED BY <3>0, <4>1, CornerRow
      <3>2. x + n \in Int /\ y + j \in Int /\ w - 2 * n \in Int /\ 1 \in Int
        BY <2>0, <3>1
      <3>3. p[2] = y + j /\ i \in 0 .. w - 1 => (i \in n .. w - 1 - n <=> In(p))
        <4> SUFFICES ASSUME p[2] = y + j, i \in 0 .. w - 1
                     PROVE  i \in n .. w - 1 - n <=> In(p)
          OBVIOUS
        <4> DEFINE dx == Reach(r2, i, w)
                   dy == Reach(r2, j, h)
        <4>1. i \in n .. w - 1 - n <=> dx = 0 \/ dy = 0 \/ dx * dx + dy * dy <= r2 * r2
          BY <3>0, CornerRow
        <4>2. p[2] - y = j
          BY <2>0
        <4>3. m \in Int
          BY <3>0
        <4>4. Max({m - i, m - (w - 1 - i), 0}) = dx /\ Max({m - j, m - (h - 1 - j), 0}) = dy
          BY <2>0, <3>0, <4>3, LargestOfThree
        <4> HIDE DEF dx, dy, n
        <4>5. In(p) <=> dx = 0 \/ dy = 0 \/ dx * dx + dy * dy <= m * m
          BY <4>2, <4>4, Zenon
        <4> QED BY <3>0, <4>1, <4>5
      <3> HIDE DEF n, In
      <3>4. p \in lfb_fill(x + n, y + j, w - 2 * n, 1) <=>
              /\ p[1] \in x + n .. (x + n) + (w - 2 * n) - 1
              /\ p[2] \in y + j .. (y + j) + 1 - 1
        BY <3>2, FillPixel
      <3>5. /\ p[1] \in x + n .. (x + n) + (w - 2 * n) - 1 <=> i \in n .. w - 1 - n
            /\ p[2] \in y + j .. (y + j) + 1 - 1 <=> p[2] = y + j
            /\ p[1] \in x .. x + w - 1 <=> i \in 0 .. w - 1
            /\ i \in n .. w - 1 - n => i \in 0 .. w - 1
        BY <2>0, <3>1
      <3>6. p \in lfb_fill(x + n, y + j, w - 2 * n, 1) <=>
              p[2] = y + j /\ p[1] \in x .. x + w - 1 /\ In(p)
        BY <3>3, <3>4, <3>5
      <3> QED BY <3>6 DEF n
    <2> QED BY <2>1, <2>2
  <1> HIDE DEF In, in
  <1>6. ASSUME NEW p \in Screen
        PROVE  p \in lfb_round_fill(x, y, w, h, r) <=> p \in Shape(<<"round", x, y, w, h, r>>)
    <2>1. p[1] \in Int /\ p[2] \in Int /\ p = <<p[1], p[2]>>
      BY OnGrid
    <2>2. p[2] \in y .. y + h - 1 <=> \E j \in 0 .. h - 1 : p[2] = y + j
      <3>1. p[2] \in y .. y + h - 1 => p[2] - y \in 0 .. h - 1 /\ p[2] = y + (p[2] - y)
        BY <2>1
      <3> QED BY <2>1, <3>1
    <2>3. p \in lfb_round_fill(x, y, w, h, r) <=>
            \E j \in 0 .. h - 1 : p \in lfb_fill(x + in(j), y + j, w - 2 * in(j), 1)
      BY <1>3
    <2>4. p \in Shape(<<"round", x, y, w, h, r>>) <=>
            p[1] \in x .. x + w - 1 /\ p[2] \in y .. y + h - 1 /\ In(p)
      BY <1>1, <2>1 DEF Area
    <2> QED BY <1>5, <2>2, <2>3, <2>4
  <1> QED BY <1>2, <1>6

\* lfb_char, one scaled cell per bit of the glyph, paints its cells.
LEMMA CharExact ==
    ASSUME Sized, NEW x \in Int, NEW y \in Int, NEW s \in Nat, NEW o \in BOOLEAN,
           NEW g \in SUBSET ((0 .. GLYPH_W - 1) \X (0 .. GLYPH_H - 1))
    PROVE  lfb_char(x, y, g, o, s) = Shape(<<"char", x, y, g, o, s>>) \cap Screen
  <1> DEFINE C == IF o THEN (0 .. GLYPH_W - 1) \X (0 .. GLYPH_H - 1) ELSE g
             Cell(c) == (x + c[1] * s .. x + (c[1] + 1) * s - 1)
                            \X (y + c[2] * s .. y + (c[2] + 1) * s - 1)
  <1>1. C \subseteq (0 .. GLYPH_W - 1) \X (0 .. GLYPH_H - 1)
    OBVIOUS
  <1>2. lfb_char(x, y, g, o, s) = UNION {lfb_fill(x + c[1] * s, y + c[2] * s, s, s) : c \in C}
    BY DEF lfb_char
  <1>3. Shape(<<"char", x, y, g, o, s>>) = UNION {Cell(c) : c \in C}
    BY DEF Shape
  <1> HIDE DEF C
  <1>4. ASSUME NEW c \in C
        PROVE  lfb_fill(x + c[1] * s, y + c[2] * s, s, s) = Cell(c) \cap Screen
    <2>1. c[1] \in Int /\ c[2] \in Int
      BY <1>1
    <2> DEFINE a == c[1] * s
               b == c[2] * s
    <2>2. a \in Int /\ b \in Int /\ (c[1] + 1) * s = a + s /\ (c[2] + 1) * s = b + s
      BY <2>1
    <2> HIDE DEF a, b
    <2>3. lfb_fill(x + a, y + b, s, s) = Area(x + a, y + b, s, s) \cap Screen
      <3>1. x + a \in Int /\ y + b \in Int /\ s \in Int
        BY <2>2
      <3> QED BY <3>1, FillExact
    <2>4. /\ x + (a + s) - 1 = (x + a) + s - 1
          /\ y + (b + s) - 1 = (y + b) + s - 1
      BY <2>2
    <2>5. Area(x + a, y + b, s, s) = (x + a .. x + (a + s) - 1) \X (y + b .. y + (b + s) - 1)
      BY <2>4 DEF Area
    <2> QED BY <2>2, <2>3, <2>5 DEF a, b
  <1> HIDE DEF Cell
  <1> QED BY <1>2, <1>3, <1>4

----------------------------------------------------------------------------
(* Lines.  Along the longer axis, of n steps, each turn of the loop moves  *)
(* by one; along the other, of m steps, when the error term runs out.      *)

\* What is left of the error term after k turns, and the steps made.
Left(n, m, k) == IF n = 0 THEN 0 ELSE (n \div 2 - k * m) % n

Side(n, m, k) == IF n = 0 THEN 0 ELSE -((n \div 2 - k * m) \div n)

\* Quotient and remainder are unique.
LEMMA DivisionUnique ==
    ASSUME NEW n \in Nat \ {0}, NEW a \in Int, NEW q \in Int, NEW e \in 0 .. n - 1,
           a = q * n + e
    PROVE  a \div n = q /\ a % n = e
  <1> DEFINE d == a \div n
             f == a % n
  <1>1. d \in Int /\ f \in 0 .. n - 1 /\ a = d * n + f
    BY Z3
  <1> HIDE DEF d, f
  <1>2. d * n \in Int /\ q * n \in Int
    BY <1>1
  <1>3. ~(d + 1 <= q)
    <2> SUFFICES ASSUME d + 1 <= q PROVE FALSE
      OBVIOUS
    <2>1. (d + 1) * n <= q * n /\ (d + 1) * n = d * n + n
      BY <1>1, MulMono
    <2> QED BY <1>1, <1>2, <2>1
  <1>4. ~(q + 1 <= d)
    <2> SUFFICES ASSUME q + 1 <= d PROVE FALSE
      OBVIOUS
    <2>1. (q + 1) * n <= d * n /\ (q + 1) * n = q * n + n
      BY <1>1, MulMono
    <2> QED BY <1>1, <1>2, <2>1
  <1>5. d = q
    BY <1>1, <1>3, <1>4
  <1>6. f = e
    BY <1>1, <1>2, <1>5
  <1> QED BY <1>5, <1>6 DEF d, f

\* The loop keeps the error term the remainder of a division.
LEMMA Turns ==
    ASSUME NEW n \in Nat \ {0}, NEW m \in 0 .. n, NEW k \in Nat
    PROVE  /\ Left(n, m, k) \in 0 .. n - 1 /\ Side(n, m, k) \in Int
           /\ k * m - Side(n, m, k) * n = n \div 2 - Left(n, m, k)
           /\ Left(n, m, 0) = n \div 2 /\ Side(n, m, 0) = 0
           /\ IF Left(n, m, k) < m
              THEN Left(n, m, k + 1) = Left(n, m, k) - m + n /\ Side(n, m, k + 1) = Side(n, m, k) + 1
              ELSE Left(n, m, k + 1) = Left(n, m, k) - m /\ Side(n, m, k + 1) = Side(n, m, k)
           /\ Side(n, m, n) = m
           /\ k <= n => Side(n, m, k) \in 0 .. m
  <1> DEFINE a(j) == n \div 2 - j * m
             e == Left(n, m, k)
             s == Side(n, m, k)
             half == n \div 2
  <1>0. n \in Int /\ m \in Int /\ m >= 0 /\ m <= n /\ half \in 0 .. n - 1 /\ 2 * half <= n
    BY Z3
  <1> HIDE DEF half
  <1>1. \A j \in Nat : a(j) \in Int /\ Left(n, m, j) = a(j) % n /\ Side(n, m, j) = -(a(j) \div n)
    <2> SUFFICES ASSUME NEW j \in Nat
                 PROVE a(j) \in Int /\ Left(n, m, j) = a(j) % n /\ Side(n, m, j) = -(a(j) \div n)
      OBVIOUS
    <2>1. j * m \in Int
      BY <1>0
    <2>2. a(j) = half - j * m
      BY DEF half
    <2> QED BY <1>0, <2>1, <2>2 DEF Left, Side
  <1>2. \A j \in Nat, q \in Int, f \in 0 .. n - 1 :
           a(j) = q * n + f => Left(n, m, j) = f /\ Side(n, m, j) = -q
    BY <1>1, DivisionUnique
  <1>a. \A j \in Nat : a(j) = half - j * m
    BY DEF half
  <1>3. e \in 0 .. n - 1 /\ s \in Int /\ a(k) = (-s) * n + e
    <2> DEFINE b == a(k)
    <2>1. b \in Int
      BY <1>1
    <2> HIDE DEF b
    <2>2. b \div n \in Int /\ b % n \in 0 .. n - 1 /\ b = (b \div n) * n + (b % n)
      BY <2>1, Z3
    <2>3. e = b % n /\ s = -(b \div n)
      BY <1>1 DEF b
    <2>4. -s = b \div n
      BY <2>2, <2>3
    <2> QED BY <2>2, <2>3, <2>4 DEF b
  <1> HIDE DEF e, s, a
  <1>p. k * m \in Nat /\ s * n \in Int /\ (-s) * n = -(s * n) /\ (k + 1) * m = k * m + m
    BY <1>0, <1>3
  <1>4. k * m - s * n = half - e
    BY <1>0, <1>3, <1>p, <1>a
  <1>5. Left(n, m, 0) = half /\ Side(n, m, 0) = 0
    <2>1. a(0) = 0 * n + half
      BY <1>0, <1>a
    <2>2. Left(n, m, 0) = half /\ Side(n, m, 0) = -0
      BY <1>0, <1>2, <2>1
    <2> QED BY <2>2
  <1>6. ASSUME e < m
        PROVE  Left(n, m, k + 1) = e - m + n /\ Side(n, m, k + 1) = s + 1
    <2>1. a(k + 1) = (-(s + 1)) * n + (e - m + n)
      <3>1. (-(s + 1)) * n = -(s * n) - n
        BY <1>0, <1>3
      <3> QED BY <1>0, <1>3, <1>4, <1>p, <1>a, <3>1
    <2>2. e - m + n \in 0 .. n - 1 /\ -(s + 1) \in Int /\ k + 1 \in Nat
      BY <1>0, <1>3, <1>6
    <2>3. Left(n, m, k + 1) = e - m + n /\ Side(n, m, k + 1) = -(-(s + 1))
      BY <1>2, <2>1, <2>2
    <2> QED BY <1>3, <2>3
  <1>7. ASSUME ~(e < m)
        PROVE  Left(n, m, k + 1) = e - m /\ Side(n, m, k + 1) = s
    <2>1. a(k + 1) = (-s) * n + (e - m)
      BY <1>0, <1>3, <1>4, <1>p, <1>a
    <2>2. e - m \in 0 .. n - 1 /\ -s \in Int /\ k + 1 \in Nat
      BY <1>0, <1>3, <1>7
    <2>3. Left(n, m, k + 1) = e - m /\ Side(n, m, k + 1) = -(-s)
      BY <1>2, <2>1, <2>2
    <2> QED BY <1>3, <2>3
  <1>8. Side(n, m, n) = m
    <2>1. a(n) = (-m) * n + half
      <3>1. (-m) * n = -(n * m) /\ n * m \in Int
        BY <1>0
      <3> QED BY <1>0, <1>a, <3>1
    <2>2. -m \in Int /\ n \in Nat
      BY <1>0
    <2>3. Side(n, m, n) = -(-m)
      BY <1>0, <1>2, <2>1, <2>2
    <2> QED BY <1>0, <2>3
  <1>9. ASSUME k <= n PROVE s \in 0 .. m
    <2>1. k * m <= n * m /\ n * m = m * n /\ m * n \in Int
      BY <1>0, <1>9, MulMono
    <2>2. ~(s <= -1)
      <3> SUFFICES ASSUME s <= -1 PROVE FALSE
        OBVIOUS
      <3>1. s * n <= (-1) * n /\ (-1) * n = -n
        BY <1>0, <1>3, MulMono
      <3> QED BY <1>0, <1>3, <1>4, <1>p, <3>1
    <2>3. ~(m + 1 <= s)
      <3> SUFFICES ASSUME m + 1 <= s PROVE FALSE
        OBVIOUS
      <3>1. (m + 1) * n <= s * n /\ (m + 1) * n = m * n + n
        BY <1>0, <1>3, MulMono
      <3> QED BY <1>0, <1>3, <1>4, <1>p, <2>1, <3>1
    <2> QED BY <1>0, <1>3, <2>2, <2>3
  <1> QED BY <1>3, <1>4, <1>5, <1>6, <1>7, <1>8, <1>9 DEF e, s, half

\* A turn of the loop crosses to the next row or column exactly when the
\* error term runs out.
LEMMA TurnsNext ==
    ASSUME NEW n \in Nat \ {0}, NEW m \in 0 .. n, NEW k \in Nat
    PROVE  /\ Left(n, m, k) \in 0 .. n - 1 /\ Side(n, m, k) \in Int
           /\ IF Left(n, m, k) < m
              THEN Left(n, m, k + 1) = Left(n, m, k) - m + n /\ Side(n, m, k + 1) = Side(n, m, k) + 1
              ELSE Left(n, m, k + 1) = Left(n, m, k) - m /\ Side(n, m, k + 1) = Side(n, m, k)
  BY Turns, Zenon

LEMMA TurnsEnds ==
    ASSUME NEW n \in Nat \ {0}, NEW m \in 0 .. n
    PROVE  Left(n, m, 0) = n \div 2 /\ Side(n, m, 0) = 0 /\ Side(n, m, n) = m
  <1>1. 0 \in Nat
    OBVIOUS
  <1> QED BY <1>1, Turns, Zenon

\* The loop of lfb_line: where it starts, and one turn.
Gap(a, b) == IF b < a THEN a - b ELSE b - a

Way(a, b) == IF b < a THEN -1 ELSE 1

Origin(x0, y0, adx, ady) ==
    [x |-> x0, y |-> y0, err |-> Half(IF adx > ady THEN adx ELSE -ady)]

Turn(p, x1, y1, adx, ady, sx, sy) ==
    LET h == p.err > -adx
        v == p.err < ady
    IN IF p.x = x1 /\ p.y = y1 THEN p
       ELSE [x |-> IF h THEN p.x + sx ELSE p.x,
             y |-> IF v THEN p.y + sy ELSE p.y,
             err |-> p.err - (IF h THEN ady ELSE 0) + (IF v THEN adx ELSE 0)]

\* lfb_line paints the points its loop passes, for any solution of the
\* recursion that describes the loop.
LEMMA LineIsLoop ==
    ASSUME NEW x0 \in Int, NEW y0 \in Int, NEW x1 \in Int, NEW y1 \in Int,
           NEW sol, sol = [k \in Nat |->
              IF k = 0 THEN Origin(x0, y0, Gap(x0, x1), Gap(y0, y1))
              ELSE Turn(sol[k - 1], x1, y1, Gap(x0, x1), Gap(y0, y1), Way(x0, x1), Way(y0, y1))]
    PROVE  lfb_line(x0, y0, x1, y1) =
             UNION {lfb_pixel(sol[k].x, sol[k].y) : k \in 0 .. Gap(x0, x1) + Gap(y0, y1)}
  <1> DEFINE adx == IF x1 < x0 THEN x0 - x1 ELSE x1 - x0
             ady == IF y1 < y0 THEN y0 - y1 ELSE y1 - y0
             sx  == IF x1 < x0 THEN -1 ELSE 1
             sy  == IF y1 < y0 THEN -1 ELSE 1
             F(f) == [k \in Nat |->
                IF k = 0
                THEN [x |-> x0, y |-> y0, err |-> Half(IF adx > ady THEN adx ELSE -ady)]
                ELSE LET p == f[k - 1]
                         h == p.err > -adx
                         v == p.err < ady
                     IN IF p.x = x1 /\ p.y = y1 THEN p
                        ELSE [x |-> IF h THEN p.x + sx ELSE p.x,
                              y |-> IF v THEN p.y + sy ELSE p.y,
                              err |-> p.err - (IF h THEN ady ELSE 0) + (IF v THEN adx ELSE 0)]]
             at == CHOOSE f : f = F(f)
  <1>1. lfb_line(x0, y0, x1, y1) = UNION {lfb_pixel(at[k].x, at[k].y) : k \in 0 .. adx + ady}
    BY DEF lfb_line
  <1>2. sol = F(sol)
    BY DEF Origin, Turn, Gap, Way
  <1>3. at = F(at)
    BY <1>2, Zenon
  <1> DEFINE G(p) == Turn(p, x1, y1, adx, ady, sx, sy)
  <1>4. /\ sol[0] = Origin(x0, y0, adx, ady) /\ at[0] = Origin(x0, y0, adx, ady)
        /\ \A k \in Nat : sol[k + 1] = G(sol[k]) /\ at[k + 1] = G(at[k])
    <2>1. \A f : f = F(f) => f[0] = Origin(x0, y0, adx, ady) /\ \A k \in Nat : f[k + 1] = G(f[k])
      <3> HIDE DEF adx, ady, sx, sy
      <3> SUFFICES ASSUME NEW f, f = F(f)
                   PROVE  f[0] = Origin(x0, y0, adx, ady) /\ \A k \in Nat : f[k + 1] = G(f[k])
        OBVIOUS
      <3>1. f[0] = Origin(x0, y0, adx, ady)
        BY DEF Origin
      <3>2. ASSUME NEW k \in Nat PROVE f[k + 1] = G(f[k])
        <4>1. k + 1 \in Nat /\ k + 1 # 0 /\ (k + 1) - 1 = k
          OBVIOUS
        <4> QED BY <4>1 DEF Turn
      <3> QED BY <3>1, <3>2
    <2> QED BY <1>2, <1>3, <2>1, Zenon
  <1> HIDE DEF F, at, G
  <1>5. \A k \in Nat : at[k] = sol[k]
    <2> DEFINE T == {k \in Nat : at[k] # sol[k]}
    <2> SUFFICES ASSUME T # {} PROVE FALSE
      OBVIOUS
    <2>1. PICK k \in T : \A j \in T : k <= j
      BY LeastNat
    <2>2. k \in Nat /\ at[k] # sol[k] /\ k # 0
      BY <1>4
    <2>3. k - 1 \in Nat /\ k - 1 \notin T /\ k = (k - 1) + 1
      BY <2>1, <2>2
    <2>4. at[k - 1] = sol[k - 1]
      BY <2>3
    <2> QED BY <1>4, <2>2, <2>3, <2>4
  <1>6. adx = Gap(x0, x1) /\ ady = Gap(y0, y1)
    BY DEF Gap
  <1>7. adx + ady \in Int
    OBVIOUS
  <1> HIDE DEF adx, ady, sx, sy
  <1>8. \A k \in 0 .. adx + ady : at[k] = sol[k]
    BY <1>5, <1>7
  <1> QED BY <1>1, <1>6, <1>8

\* The point after k turns, in closed form.
Point(x0, y0, adx, ady, sx, sy, k) ==
    IF adx > ady
    THEN [x |-> x0 + sx * k, y |-> y0 + sy * Side(adx, ady, k), err |-> Left(adx, ady, k)]
    ELSE [x |-> x0 + sx * Side(ady, adx, k), y |-> y0 + sy * k, err |-> -Left(ady, adx, k)]

LEMMA Signed ==
    ASSUME NEW s \in {-1, 1}, NEW a \in Int, NEW b \in Int
    PROVE  /\ s * a \in Int /\ s * (a + 1) = s * a + s
           /\ s * a = s * b <=> a = b
  OBVIOUS

LEMMA GapWay ==
    ASSUME NEW a \in Int, NEW b \in Int
    PROVE  /\ Gap(a, b) \in Nat /\ Way(a, b) \in {-1, 1}
           /\ b = a + Way(a, b) * Gap(a, b)
  BY DEF Gap, Way

LEMMA HalfOf ==
    ASSUME NEW n \in Nat
    PROVE  Half(n) = n \div 2 /\ Half(-n) = -(n \div 2)
  BY DEF Half

\* The pixels of lfb_line are the points in closed form.
LEMMA LinePoints ==
    ASSUME NEW x0 \in Int, NEW y0 \in Int, NEW x1 \in Int, NEW y1 \in Int
    PROVE  LET n == IF Gap(x0, x1) > Gap(y0, y1) THEN Gap(x0, x1) ELSE Gap(y0, y1)
               P(k) == Point(x0, y0, Gap(x0, x1), Gap(y0, y1), Way(x0, x1), Way(y0, y1), k)
           IN lfb_line(x0, y0, x1, y1) = UNION {lfb_pixel(P(k).x, P(k).y) : k \in 0 .. n}
  <1> DEFINE adx == Gap(x0, x1)
             ady == Gap(y0, y1)
             sx == Way(x0, x1)
             sy == Way(y0, y1)
             n == IF adx > ady THEN adx ELSE ady
             P(k) == Point(x0, y0, adx, ady, sx, sy, k)
             sol == [k \in Nat |-> IF k <= n THEN P(k) ELSE P(n)]
             G(p) == Turn(p, x1, y1, adx, ady, sx, sy)
  <1>1. /\ adx \in Nat /\ ady \in Nat /\ sx \in {-1, 1} /\ sy \in {-1, 1}
        /\ x1 = x0 + sx * adx /\ y1 = y0 + sy * ady
    BY GapWay
  <1>2. n \in Nat /\ n <= adx + ady
    BY <1>1
  <1> HIDE DEF adx, ady, sx, sy
  <1> USE <1>1
  <1>n. n = IF adx > ady THEN adx ELSE ady
    OBVIOUS
  <1> HIDE DEF n
  <1>3. n \in Nat /\ sx \in Int /\ sy \in Int /\ sx * 0 = 0 /\ sy * 0 = 0
    BY <1>n
  <1>4. P(0) = Origin(x0, y0, adx, ady)
    <2>1. CASE adx > ady
      <3>1. Side(adx, ady, 0) = 0 /\ Left(adx, ady, 0) = adx \div 2
        <4>1. adx \in Nat \ {0} /\ ady \in 0 .. adx /\ 0 \in Nat
          BY <2>1
        <4> QED BY <4>1, TurnsEnds
      <3> QED BY <1>3, <2>1, <3>1, HalfOf DEF Point, Origin
    <2>2. CASE ~(adx > ady) /\ ady # 0
      <3>1. Side(ady, adx, 0) = 0 /\ Left(ady, adx, 0) = ady \div 2
        <4>1. ady \in Nat \ {0} /\ adx \in 0 .. ady /\ 0 \in Nat
          BY <2>2
        <4> QED BY <4>1, TurnsEnds
      <3>2. Half(-ady) = -(ady \div 2)
        BY HalfOf
      <3> QED BY <1>3, <2>2, <3>1, <3>2 DEF Point, Origin
    <2>3. CASE ~(adx > ady) /\ ady = 0
      <3>1. Side(ady, adx, 0) = 0 /\ Left(ady, adx, 0) = 0
        BY <2>3 DEF Side, Left
      <3>2. Half(-ady) = 0
        BY <2>3 DEF Half
      <3> QED BY <1>3, <2>3, <3>1, <3>2 DEF Point, Origin
    <2> QED BY <2>1, <2>2, <2>3
  <1>5. ASSUME NEW k \in 0 .. n - 1
        PROVE  P(k + 1) = G(P(k))
    <2>0. k \in Nat /\ k < n /\ k + 1 \in Nat
      BY <1>3
    <2>1. CASE adx > ady
      <3> DEFINE L == Left(adx, ady, k)
                 S == Side(adx, ady, k)
      <3>1. adx \in Nat \ {0} /\ ady \in 0 .. adx /\ n = adx
        BY <1>n, <2>1
      <3>2. /\ L \in 0 .. adx - 1 /\ S \in Int
            /\ IF L < ady
               THEN Left(adx, ady, k + 1) = L - ady + adx /\ Side(adx, ady, k + 1) = S + 1
               ELSE Left(adx, ady, k + 1) = L - ady /\ Side(adx, ady, k + 1) = S
        BY <2>0, <3>1, TurnsNext
      <3> HIDE DEF L, S
      <3>3. /\ sx * k \in Int /\ sx * (k + 1) = sx * k + sx /\ sx * k # sx * adx
            /\ sy * S \in Int /\ sy * (S + 1) = sy * S + sy /\ sx * adx \in Int
        BY <1>3, <2>0, <3>1, <3>2, Signed
      <3>4. /\ P(k).x = x0 + sx * k /\ P(k).y = y0 + sy * S /\ P(k).err = L
        BY <2>1 DEF Point, L, S
      <3>5. P(k + 1) = [x |-> x0 + sx * (k + 1), y |-> y0 + sy * Side(adx, ady, k + 1),
                        err |-> Left(adx, ady, k + 1)]
        BY <2>1 DEF Point
      <3>6. P(k).x # x1 /\ P(k).err > -adx
        BY <3>1, <3>2, <3>3, <3>4
      <3>7. Turn(P(k), x1, y1, adx, ady, sx, sy) =
              [x |-> P(k).x + sx, y |-> IF L < ady THEN P(k).y + sy ELSE P(k).y,
               err |-> L - ady + (IF L < ady THEN adx ELSE 0)]
        BY <3>4, <3>6 DEF Turn
      <3> HIDE DEF P
      <3>8. /\ P(k).x + sx = x0 + sx * (k + 1)
            /\ (IF L < ady THEN P(k).y + sy ELSE P(k).y) = y0 + sy * Side(adx, ady, k + 1)
            /\ L - ady + (IF L < ady THEN adx ELSE 0) = Left(adx, ady, k + 1)
        BY <1>3, <3>1, <3>2, <3>3, <3>4
      <3> QED BY <3>5, <3>7, <3>8
    <2>2. CASE ~(adx > ady)
      <3> DEFINE L == Left(ady, adx, k)
                 S == Side(ady, adx, k)
      <3>1. ady \in Nat \ {0} /\ adx \in 0 .. ady /\ n = ady
        BY <1>n, <2>0, <2>2
      <3>2. /\ L \in 0 .. ady - 1 /\ S \in Int
            /\ IF L < adx
               THEN Left(ady, adx, k + 1) = L - adx + ady /\ Side(ady, adx, k + 1) = S + 1
               ELSE Left(ady, adx, k + 1) = L - adx /\ Side(ady, adx, k + 1) = S
        BY <2>0, <3>1, TurnsNext
      <3> HIDE DEF L, S
      <3>3. /\ sy * k \in Int /\ sy * (k + 1) = sy * k + sy /\ sy * k # sy * ady
            /\ sx * S \in Int /\ sx * (S + 1) = sx * S + sx /\ sy * ady \in Int
        BY <1>3, <2>0, <3>1, <3>2, Signed
      <3>4. /\ P(k).x = x0 + sx * S /\ P(k).y = y0 + sy * k /\ P(k).err = -L
        BY <2>2 DEF Point, L, S
      <3>5. P(k + 1) = [x |-> x0 + sx * Side(ady, adx, k + 1), y |-> y0 + sy * (k + 1),
                        err |-> -Left(ady, adx, k + 1)]
        BY <2>2 DEF Point
      <3>6. P(k).y # y1 /\ P(k).err < ady /\ (P(k).err > -adx <=> L < adx)
        BY <3>1, <3>2, <3>3, <3>4
      <3>7. Turn(P(k), x1, y1, adx, ady, sx, sy) =
              [x |-> IF L < adx THEN P(k).x + sx ELSE P(k).x, y |-> P(k).y + sy,
               err |-> (-L) - (IF L < adx THEN ady ELSE 0) + adx]
        BY <3>4, <3>6 DEF Turn
      <3> HIDE DEF P
      <3>8. P(k).y + sy = y0 + sy * (k + 1)
        BY <1>3, <3>3, <3>4
      <3>9. (IF L < adx THEN P(k).x + sx ELSE P(k).x) = x0 + sx * Side(ady, adx, k + 1)
        BY <1>3, <3>2, <3>3, <3>4
      <3>10. (-L) - (IF L < adx THEN ady ELSE 0) + adx = -Left(ady, adx, k + 1)
        BY <3>1, <3>2
      <3> QED BY <3>5, <3>7, <3>8, <3>9, <3>10
    <2> QED BY <2>1, <2>2
  <1>6. P(n).x = x1 /\ P(n).y = y1
    <2>1. CASE adx > ady
      <3>1. Side(adx, ady, n) = ady
        <4>1. adx \in Nat \ {0} /\ ady \in 0 .. adx /\ 0 \in Nat /\ n = adx
          BY <1>n, <2>1
        <4> QED BY <4>1, TurnsEnds
      <3> QED BY <1>n, <2>1, <3>1 DEF Point
    <2>2. CASE ~(adx > ady)
      <3>1. Side(ady, adx, n) = adx
        <4>1. CASE ady # 0
          <5>1. ady \in Nat \ {0} /\ adx \in 0 .. ady /\ 0 \in Nat /\ n = ady
            BY <1>n, <2>2, <4>1
          <5> QED BY <5>1, TurnsEnds
        <4>2. CASE ady = 0
          BY <2>2, <4>2 DEF Side
        <4> QED BY <4>1, <4>2
      <3> QED BY <1>n, <2>2, <3>1 DEF Point
    <2> QED BY <2>1, <2>2
  <1>7. P(n) = G(P(n))
    BY <1>6 DEF Turn
  <1>8. sol = [k \in Nat |-> IF k = 0 THEN Origin(x0, y0, adx, ady) ELSE G(sol[k - 1])]
    <2> HIDE DEF P, G
    <2>1. ASSUME NEW k \in Nat
          PROVE  sol[k] = IF k = 0 THEN Origin(x0, y0, adx, ady) ELSE G(sol[k - 1])
      <3>1. CASE k = 0
        BY <1>2, <1>4, <3>1
      <3>2. CASE k # 0 /\ k <= n
        <4>1. k - 1 \in 0 .. n - 1 /\ k - 1 \in Nat /\ k - 1 <= n /\ k = (k - 1) + 1
          BY <1>2, <3>2
        <4>2. sol[k - 1] = P(k - 1) /\ sol[k] = P(k)
          BY <3>2, <4>1
        <4>3. P((k - 1) + 1) = G(P(k - 1))
          BY <1>5, <4>1, Zenon
        <4>4. P(k) = G(P(k - 1))
          BY <4>1, <4>3
        <4> QED BY <3>2, <4>2, <4>4
      <3>3. CASE k > n
        <4>1. k - 1 \in Nat /\ sol[k] = P(n) /\ k # 0
          BY <1>2, <3>3
        <4>2. sol[k - 1] = P(n)
          <5>1. CASE k - 1 <= n
            <6>1. k - 1 = n
              BY <1>2, <3>3, <4>1, <5>1
            <6> QED BY <4>1, <5>1, <6>1
          <5>2. CASE ~(k - 1 <= n)
            BY <4>1, <5>2
          <5> QED BY <5>1, <5>2
        <4> QED BY <1>7, <4>1, <4>2
      <3> QED BY <1>2, <3>1, <3>2, <3>3
    <2> DEFINE rhs == [k \in Nat |-> IF k = 0 THEN Origin(x0, y0, adx, ady) ELSE G(sol[k - 1])]
    <2>2. \A k \in Nat : sol[k] = rhs[k]
      BY <2>1
    <2> QED BY <2>2
  <1>9. lfb_line(x0, y0, x1, y1) =
          UNION {lfb_pixel(sol[k].x, sol[k].y) : k \in 0 .. adx + ady}
    <2> HIDE DEF sol
    <2> QED BY <1>8, LineIsLoop DEF adx, ady, sx, sy
  <1> HIDE DEF P
  <1>10. ASSUME NEW k \in 0 .. adx + ady
        PROVE  \E j \in 0 .. n : sol[k] = P(j)
    <2>1. CASE k <= n
      BY <1>1, <1>2, <2>1
    <2>2. CASE ~(k <= n)
      BY <1>1, <1>2, <2>2
    <2> QED BY <2>1, <2>2
  <1>11. ASSUME NEW j \in 0 .. n
        PROVE  j \in 0 .. adx + ady /\ sol[j] = P(j)
    BY <1>1, <1>2
  <1> HIDE DEF sol, adx, ady, sx, sy
  <1>12. lfb_line(x0, y0, x1, y1) = UNION {lfb_pixel(P(k).x, P(k).y) : k \in 0 .. n}
    BY <1>9, <1>10, <1>11
  <1> QED BY <1>12 DEF P, n, adx, ady, sx, sy

\* The direction of a line does not change its distance from a point.
LEMMA OffLine ==
    ASSUME NEW s \in {-1, 1}, NEW t \in {-1, 1}, NEW a \in Int, NEW b \in Int,
           NEW c \in Int, NEW d \in Int
    PROVE  (s * a) * (t * d) - (t * b) * (s * c) \in {a * d - b * c, -(a * d - b * c)}
  <1>1. a * d \in Int /\ b * c \in Int /\ -1 * a = -a /\ -1 * b = -b /\ -1 * c = -c /\ -1 * d = -d
    OBVIOUS
  <1>2. a * (-d) = -(a * d) /\ (-a) * d = -(a * d) /\ (-a) * (-d) = a * d
    OBVIOUS
  <1>3. b * (-c) = -(b * c) /\ (-b) * c = -(b * c) /\ (-b) * (-c) = b * c
    OBVIOUS
  <1>4. CASE s = 1 /\ t = 1
    BY <1>1, <1>4
  <1>5. CASE s = -1 /\ t = 1
    BY <1>1, <1>2, <1>3, <1>5
  <1>6. CASE s = 1 /\ t = -1
    BY <1>1, <1>2, <1>3, <1>6
  <1>7. CASE s = -1 /\ t = -1
    BY <1>1, <1>2, <1>3, <1>7
  <1> QED BY <1>4, <1>5, <1>6, <1>7

\* A step of either sign stays between its ends.
LEMMA StepsBetween ==
    ASSUME NEW u \in Int, NEW s \in {-1, 1}, NEW g \in Nat, NEW a \in 0 .. g, NEW W \in Int,
           u \in 0 .. W, u + s * g \in 0 .. W
    PROVE  u + s * a \in 0 .. W
  <1>1. CASE s = 1
    BY <1>1
  <1>2. CASE s = -1
    BY <1>2
  <1> QED BY <1>1, <1>2

LEMMA LargestOfFour ==
    ASSUME NEW a \in Nat, NEW b \in Nat, NEW s \in {-1, 1}, NEW t \in {-1, 1}
    PROVE  Max({s * a, -(s * a), t * b, -(t * b)}) = IF a > b THEN a ELSE b
  <1> DEFINE S == {s * a, -(s * a), t * b, -(t * b)}
             m == IF a > b THEN a ELSE b
  <1>1. S = {a, -a, b, -b}
    OBVIOUS
  <1> HIDE DEF S
  <1>2. m \in S /\ (\A y \in S : m >= y) /\ S \subseteq Int
    BY <1>1
  <1> HIDE DEF m
  <1>3. \A z \in S : (\A y \in S : z >= y) => z = m
    BY <1>2
  <1>4. Max(S) = m
    BY <1>2, <1>3 DEF Max
  <1> QED BY <1>4 DEF S, m

\* A set with one member for each number of an interval.
LEMMA CountPoints ==
    ASSUME NEW n \in Nat, NEW f, f = [k \in 0 .. n |-> f[k]],
           \A j, k \in 0 .. n : f[j] = f[k] => j = k
    PROVE  Cardinality({f[k] : k \in 0 .. n}) = n + 1
  <1> DEFINE T == {f[k] : k \in 0 .. n}
  <1>1. f \in [0 .. n -> T]
    OBVIOUS
  <1>2. f \in Bijection(0 .. n, T)
    BY <1>1 DEF Bijection, Injection, Surjection, IsInjective
  <1>3. ExistsBijection(0 .. n, T)
    BY <1>2 DEF ExistsBijection
  <1>4. 0 \in Int /\ n \in Int /\ ~(0 > n) /\ n - 0 + 1 = n + 1
    OBVIOUS
  <1>5. IsFiniteSet(0 .. n) /\ Cardinality(0 .. n) = n + 1
    BY <1>4, FS_Interval
  <1> HIDE DEF T
  <1>6. Cardinality(T) = n + 1
    BY <1>3, <1>5, FS_Bijection
  <1> QED BY <1>6 DEF T

\* One pixel per step of the longer axis, none more than half a pixel off.
LEMMA LineExact ==
    ASSUME Sized, NEW x0 \in Int, NEW y0 \in Int, NEW x1 \in Int, NEW y1 \in Int,
           <<x0, y0>> \in Screen, <<x1, y1>> \in Screen
    PROVE  IsLine(lfb_line(x0, y0, x1, y1), x0, y0, x1, y1)
  <1> DEFINE adx == Gap(x0, x1)
             ady == Gap(y0, y1)
             sx == Way(x0, x1)
             sy == Way(y0, y1)
             n == IF adx > ady THEN adx ELSE ady
             P(k) == Point(x0, y0, adx, ady, sx, sy, k)
             px == lfb_line(x0, y0, x1, y1)
             dx == x1 - x0
             dy == y1 - y0
             off(p) == (p[1] - x0) * dy - (p[2] - y0) * dx
  <1>1. /\ adx \in Nat /\ ady \in Nat /\ sx \in {-1, 1} /\ sy \in {-1, 1}
        /\ x1 = x0 + sx * adx /\ y1 = y0 + sy * ady
    BY GapWay
  <1>2. px = UNION {lfb_pixel(P(k).x, P(k).y) : k \in 0 .. n}
    BY LinePoints
  <1>e. /\ x0 \in 0 .. lfb.W - 1 /\ y0 \in 0 .. lfb.H - 1
        /\ x1 \in 0 .. lfb.W - 1 /\ y1 \in 0 .. lfb.H - 1
        /\ lfb.W - 1 \in Int /\ lfb.H - 1 \in Int
    BY DEF Screen, Sized
  <1> HIDE DEF adx, ady, sx, sy, px
  <1>3. n \in Nat /\ adx \in Int /\ ady \in Int
    BY <1>1
  <1>4. ASSUME NEW k \in 0 .. n
        PROVE  \E a \in 0 .. adx, b \in 0 .. ady :
                  /\ P(k).x = x0 + sx * a /\ P(k).y = y0 + sy * b
                  /\ IF adx > ady THEN a = k ELSE b = k
                  /\ 2 * (a * ady - b * adx) <= n /\ -2 * (a * ady - b * adx) <= n
    <2>0. k \in Nat /\ k <= n
      BY <1>3
    <2>1. CASE adx > ady
      <3> DEFINE b == Side(adx, ady, k)
                 L == Left(adx, ady, k)
      <3>1. adx \in Nat \ {0} /\ ady \in 0 .. adx /\ n = adx
        BY <1>1, <2>1
      <3>2. L \in 0 .. adx - 1 /\ b \in 0 .. ady /\ k * ady - b * adx = adx \div 2 - L
        BY <2>0, <3>1, Turns
      <3>3. P(k).x = x0 + sx * k /\ P(k).y = y0 + sy * b
        BY <2>1 DEF Point
      <3> HIDE DEF b, L
      <3>4. k \in 0 .. adx
        BY <3>1
      <3>5. 2 * (k * ady - b * adx) <= n /\ -2 * (k * ady - b * adx) <= n
        BY <3>1, <3>2
      <3> QED BY <2>1, <3>2, <3>3, <3>4, <3>5
    <2>2. CASE ~(adx > ady) /\ ady # 0
      <3> DEFINE a == Side(ady, adx, k)
                 L == Left(ady, adx, k)
      <3>1. ady \in Nat \ {0} /\ adx \in 0 .. ady /\ n = ady
        BY <1>1, <2>2
      <3>2. L \in 0 .. ady - 1 /\ a \in 0 .. adx /\ k * adx - a * ady = ady \div 2 - L
        BY <2>0, <3>1, Turns
      <3>3. P(k).x = x0 + sx * a /\ P(k).y = y0 + sy * k
        BY <2>2 DEF Point
      <3> HIDE DEF a, L
      <3>4. k \in 0 .. ady
        BY <3>1
      <3>5. k * adx \in Int /\ a * ady \in Int
        BY <1>3, <2>0, <3>2
      <3>6. 2 * (k * adx - a * ady) <= n /\ -2 * (k * adx - a * ady) <= n
        BY <3>1, <3>2
      <3>7. 2 * (a * ady - k * adx) <= n /\ -2 * (a * ady - k * adx) <= n
        BY <1>3, <3>5, <3>6
      <3> QED BY <2>2, <3>2, <3>3, <3>4, <3>7
    <2>3. CASE ~(adx > ady) /\ ady = 0
      <3>1. adx = 0 /\ ady = 0 /\ k = 0 /\ n = 0
        BY <1>1, <2>0, <2>3
      <3>2. Side(ady, adx, k) = 0
        BY <3>1 DEF Side
      <3>3. P(k).x = x0 + sx * 0 /\ P(k).y = y0 + sy * 0
        BY <2>3, <3>1, <3>2 DEF Point
      <3>4. 0 \in 0 .. adx /\ 0 \in 0 .. ady
            /\ 2 * (0 * ady - 0 * adx) <= n /\ -2 * (0 * ady - 0 * adx) <= n
        BY <3>1
      <3> QED BY <2>3, <3>1, <3>3, <3>4
    <2> QED BY <2>1, <2>2, <2>3
  <1> DEFINE f == [k \in 0 .. n |-> <<P(k).x, P(k).y>>]
  <1>5. ASSUME NEW k \in 0 .. n
        PROVE  /\ P(k).x \in 0 .. lfb.W - 1 /\ P(k).y \in 0 .. lfb.H - 1
               /\ 2 * off(f[k]) <= n /\ -2 * off(f[k]) <= n
    <2> DEFINE X == P(k).x
               Y == P(k).y
    <2>1. PICK a \in 0 .. adx, b \in 0 .. ady :
             /\ X = x0 + sx * a /\ Y = y0 + sy * b
             /\ 2 * (a * ady - b * adx) <= n /\ -2 * (a * ady - b * adx) <= n
      BY <1>4
    <2>2. f[k] = <<X, Y>>
      OBVIOUS
    <2> HIDE DEF X, Y, P, f
    <2>3. X \in 0 .. lfb.W - 1 /\ Y \in 0 .. lfb.H - 1
      BY <1>1, <1>e, <2>1, StepsBetween
    <2>4. sx * a \in Int /\ sy * b \in Int /\ sx * adx \in Int /\ sy * ady \in Int
          /\ a \in Int /\ b \in Int
      BY <1>1, <1>3
    <2>5. X - x0 = sx * a /\ Y - y0 = sy * b /\ dx = sx * adx /\ dy = sy * ady
      BY <1>1, <2>1, <2>4
    <2> DEFINE D == a * ady - b * adx
    <2>6. (sx * a) * (sy * ady) - (sy * b) * (sx * adx) \in {D, -D}
      BY <1>1, <1>3, <2>4, OffLine
    <2>7. off(f[k]) = (sx * a) * (sy * ady) - (sy * b) * (sx * adx)
      BY <2>2, <2>5
    <2>8. D \in Int
      <3>1. a * ady \in Int /\ b * adx \in Int
        BY <1>3, <2>4
      <3> QED BY <3>1
    <2>9. 2 * D <= n /\ -2 * D <= n
      BY <2>1
    <2> HIDE DEF D
    <2> DEFINE o == off(f[k])
    <2>10. o \in {D, -D}
      BY <2>6, <2>7
    <2> HIDE DEF o
    <2>11. 2 * o <= n /\ -2 * o <= n
      BY <1>3, <2>8, <2>9, <2>10
    <2> QED BY <2>3, <2>11 DEF X, Y, o
  <1>6. \A j, k \in 0 .. n : f[j] = f[k] => j = k
    <2> SUFFICES ASSUME NEW j \in 0 .. n, NEW k \in 0 .. n, f[j] = f[k] PROVE j = k
      BY Zenon
    <2>1. P(j).x = P(k).x /\ P(j).y = P(k).y
      <3> HIDE DEF P
      <3>1. <<P(j).x, P(j).y>> = <<P(k).x, P(k).y>>
        OBVIOUS
      <3> QED BY <3>1
    <2>2. j \in Int /\ k \in Int
      BY <1>3
    <2>3. CASE adx > ady
      <3>1. x0 + sx * j = x0 + sx * k
        BY <2>1, <2>3 DEF Point
      <3> QED BY <1>1, <2>2, <3>1, Signed
    <2>4. CASE ~(adx > ady)
      <3>1. y0 + sy * j = y0 + sy * k
        BY <2>1, <2>4 DEF Point
      <3> QED BY <1>1, <2>2, <3>1, Signed
    <2> QED BY <2>3, <2>4
  <1>7. px = {f[k] : k \in 0 .. n}
    <2>1. ASSUME NEW k \in 0 .. n PROVE lfb_pixel(P(k).x, P(k).y) = {f[k]}
      BY <1>5 DEF lfb_pixel
    <2> HIDE DEF P, f
    <2> QED BY <1>2, <2>1
  <1>8. <<x0, y0>> \in px /\ <<x1, y1>> \in px
    <2>1. 0 \in 0 .. n /\ n \in 0 .. n
      BY <1>3
    <2>2. f[0] = <<x0, y0>>
      <3>1. PICK a \in 0 .. adx, b \in 0 .. ady :
               /\ P(0).x = x0 + sx * a /\ P(0).y = y0 + sy * b
               /\ IF adx > ady THEN a = 0 ELSE b = 0
               /\ 2 * (a * ady - b * adx) <= n /\ -2 * (a * ady - b * adx) <= n
        BY <1>4, <2>1
      <3>2. a = 0 /\ b = 0
        <4>1. CASE adx > ady
          <5>1. a = 0 /\ b \in Nat /\ n = adx /\ adx > 0
            BY <1>1, <3>1, <4>1
          <5>2. 0 * ady = 0 /\ b * adx \in Nat
            BY <1>1, <5>1
          <5>3. 2 * (b * adx) <= adx
            BY <1>3, <3>1, <5>1, <5>2
          <5>4. ~(1 <= b)
            <6> SUFFICES ASSUME 1 <= b PROVE FALSE
              OBVIOUS
            <6>1. 1 * adx <= b * adx
              BY <1>1, <5>1, MulMono
            <6> QED BY <1>1, <5>1, <5>2, <5>3, <6>1
          <5> QED BY <5>1, <5>4
        <4>2. CASE ~(adx > ady)
          <5>1. b = 0 /\ a \in Nat /\ n = ady /\ (ady = 0 => a = 0)
            BY <1>1, <3>1, <4>2
          <5>2. 0 * adx = 0 /\ a * ady \in Nat
            BY <1>1, <5>1
          <5>3. 2 * (a * ady) <= ady
            BY <1>3, <3>1, <5>1, <5>2
          <5>4. ~(1 <= a)
            <6> SUFFICES ASSUME 1 <= a PROVE FALSE
              OBVIOUS
            <6>1. 1 * ady <= a * ady
              BY <1>1, <5>1, MulMono
            <6> QED BY <1>1, <5>1, <5>2, <5>3, <6>1
          <5> QED BY <5>1, <5>4
        <4> QED BY <4>1, <4>2
      <3>3. P(0).x = x0 /\ P(0).y = y0
        BY <1>1, <3>1, <3>2
      <3> QED BY <2>1, <3>3
    <2>3. f[n] = <<x1, y1>>
      <3>1. P(n).x = x1 /\ P(n).y = y1
        <4>1. CASE adx > ady
          <5>1. Side(adx, ady, n) = ady
            <6>1. adx \in Nat \ {0} /\ ady \in 0 .. adx /\ n = adx
              BY <1>1, <4>1
            <6> QED BY <6>1, TurnsEnds
          <5> QED BY <1>1, <4>1, <5>1 DEF Point
        <4>2. CASE ~(adx > ady)
          <5>1. Side(ady, adx, n) = adx
            <6>1. CASE ady # 0
              <7>1. ady \in Nat \ {0} /\ adx \in 0 .. ady /\ n = ady
                BY <1>1, <4>2, <6>1
              <7> QED BY <7>1, TurnsEnds
            <6>2. CASE ady = 0
              BY <1>1, <4>2, <6>2 DEF Side
            <6> QED BY <6>1, <6>2
          <5> QED BY <1>1, <4>2, <5>1 DEF Point
        <4> QED BY <4>1, <4>2
      <3> QED BY <2>1, <3>1
    <2> HIDE DEF f, n
    <2> QED BY <1>7, <2>1, <2>2, <2>3
  <1>9. Cardinality(px) = n + 1
    <2>1. f = [k \in 0 .. n |-> f[k]]
      <3> HIDE DEF P, n
      <3> QED OBVIOUS
    <2> HIDE DEF f, n
    <2> QED BY <1>3, <1>6, <1>7, <2>1, CountPoints
  <1>10. Max({dx, -dx, dy, -dy}) = n
    <2>1. dx = sx * adx /\ dy = sy * ady
      <3>1. sx * adx \in Int /\ sy * ady \in Int
        BY <1>1
      <3> QED BY <1>1, <3>1
    <2>2. Max({sx * adx, -(sx * adx), sy * ady, -(sy * ady)}) = n
      BY <1>1, LargestOfFour
    <2> HIDE DEF dx, dy, n
    <2> QED BY <2>1, <2>2, Zenon
  <1>11. \A p \in px : 2 * off(p) <= n /\ -2 * off(p) <= n
    <2> HIDE DEF off, f, n
    <2> QED BY <1>5, <1>7
  <1> HIDE DEF n, f
  <1>12. IsLine(px, x0, y0, x1, y1)
    BY <1>8, <1>9, <1>10, <1>11 DEF IsLine
  <1> QED BY <1>12 DEF px

\* ShapesAreExact for a call and the words it touched.
Exactly(c, words) ==
    CASE c[1] \in {"none", "clear", "scroll"} -> TRUE
      [] c[1] = "line" ->
           <<c[2], c[3]>> \in Screen /\ <<c[4], c[5]>> \in Screen =>
               \E px \in SUBSET Screen :
                   /\ Words(px) = words
                   /\ IsLine(px, c[2], c[3], c[4], c[5])
      [] OTHER -> words = Words(Shape(c) \cap Screen)

\* A call that painted the visible part of its shape is exact.
LEMMA ExactShape ==
    ASSUME NEW c, c[1] \notin {"none", "clear", "scroll", "line"},
           NEW px, px = Shape(c) \cap Screen
    PROVE  Exactly(c, Words(px))
  BY DEF Exactly

\* So is a line between two points of the screen.
LEMMA ExactLine ==
    ASSUME Sized, NEW x0 \in Int, NEW y0 \in Int, NEW x1 \in Int, NEW y1 \in Int
    PROVE  Exactly(<<"line", x0, y0, x1, y1>>, Words(lfb_line(x0, y0, x1, y1)))
  <1> DEFINE c == <<"line", x0, y0, x1, y1>>
             px == lfb_line(x0, y0, x1, y1)
  <1>1. c[1] = "line" /\ c[2] = x0 /\ c[3] = y0 /\ c[4] = x1 /\ c[5] = y1
    OBVIOUS
  <1>2. px \in SUBSET Screen
    BY LineClips
  <1>3. <<x0, y0>> \in Screen /\ <<x1, y1>> \in Screen => IsLine(px, x0, y0, x1, y1)
    BY LineExact
  <1> HIDE DEF c, px
  <1>4. c[1] \notin {"none", "clear", "scroll"}
    BY <1>1
  <1>5. Exactly(c, Words(px)) <=>
          (<<c[2], c[3]>> \in Screen /\ <<c[4], c[5]>> \in Screen =>
             \E q \in SUBSET Screen : Words(q) = Words(px) /\ IsLine(q, c[2], c[3], c[4], c[5]))
    BY <1>1, <1>4 DEF Exactly
  <1>6. Exactly(c, Words(px))
    BY <1>1, <1>2, <1>3, <1>5, Zenon
  <1> QED BY <1>6 DEF c, px

\* Every call of draw is exact.
LEMMA DrawExact ==
    ASSUME Sized, draw
    PROVE  Exactly(call', touched')
  <1>0. /\ Coords \subseteq Int /\ Sizes \subseteq Int /\ Radii \subseteq Nat /\ Scales \subseteq Nat
        /\ Glyphs \subseteq SUBSET ((0 .. GLYPH_W - 1) \X (0 .. GLYPH_H - 1))
    BY DrawAssumption
  <1>1. PICK x \in Coords, y \in Coords :
        \/ \E w, h \in Sizes :
              \/ draws(<<"fill", x, y, w, h>>, Words(lfb_fill(x, y, w, h)))
              \/ draws(<<"fill", x, y, w, h>>, Words(lfb_gradient_v(x, y, w, h)))
              \/ w > 0 /\ h > 0 /\ draws(<<"rect", x, y, w, h>>, Words(lfb_rect(x, y, w, h)))
              \/ \E r \in Radii :
                    draws(<<"round", x, y, w, h, r>>, Words(lfb_round_fill(x, y, w, h, r)))
        \/ \E r \in Radii : draws(<<"disc", x, y, r>>, Words(lfb_disc(x, y, r)))
        \/ \E x1, y1 \in Coords :
              draws(<<"line", x, y, x1, y1>>, Words(lfb_line(x, y, x1, y1)))
        \/ \E g \in Glyphs, opaque \in BOOLEAN, s \in Scales :
              draws(<<"char", x, y, g, opaque, s>>, Words(lfb_char(x, y, g, opaque, s)))
    BY Zenon DEF draw
  <1>2. x \in Int /\ y \in Int
    BY <1>0
  <1>3. \A c, ws : draws(c, ws) => call' = c /\ touched' = ws
    BY DEF draws
  <1>4. \A c, ws : draws(c, ws) /\ Exactly(c, ws) => Exactly(call', touched')
    BY <1>3, Zenon
  <1>5. ASSUME NEW w \in Sizes, NEW h \in Sizes
        PROVE  /\ Exactly(<<"fill", x, y, w, h>>, Words(lfb_fill(x, y, w, h)))
               /\ Exactly(<<"fill", x, y, w, h>>, Words(lfb_gradient_v(x, y, w, h)))
               /\ w > 0 /\ h > 0 => Exactly(<<"rect", x, y, w, h>>, Words(lfb_rect(x, y, w, h)))
    <2> DEFINE c == <<"fill", x, y, w, h>>
               d == <<"rect", x, y, w, h>>
    <2>1. w \in Int /\ h \in Int
      BY <1>0
    <2>2. /\ lfb_fill(x, y, w, h) = Shape(c) \cap Screen
          /\ lfb_gradient_v(x, y, w, h) = Shape(c) \cap Screen
          /\ w > 0 /\ h > 0 => lfb_rect(x, y, w, h) = Shape(d) \cap Screen
      BY <1>2, <2>1, RectExact
    <2>3. c[1] \notin {"none", "clear", "scroll", "line"} /\ d[1] \notin {"none", "clear", "scroll", "line"}
      OBVIOUS
    <2> HIDE DEF c, d
    <2>4. /\ Exactly(c, Words(lfb_fill(x, y, w, h))) /\ Exactly(c, Words(lfb_gradient_v(x, y, w, h)))
          /\ w > 0 /\ h > 0 => Exactly(d, Words(lfb_rect(x, y, w, h)))
      BY <2>2, <2>3, ExactShape
    <2> QED BY <2>4 DEF c, d
  <1>6. ASSUME NEW w \in Sizes, NEW h \in Sizes, NEW r \in Radii
        PROVE  Exactly(<<"round", x, y, w, h, r>>, Words(lfb_round_fill(x, y, w, h, r)))
    <2> DEFINE c == <<"round", x, y, w, h, r>>
    <2>1. w \in Int /\ h \in Int /\ r \in Nat
      BY <1>0
    <2>2. lfb_round_fill(x, y, w, h, r) = Shape(c) \cap Screen
      BY <1>2, <2>1, RoundExact
    <2>3. c[1] \notin {"none", "clear", "scroll", "line"}
      OBVIOUS
    <2> HIDE DEF c
    <2>4. Exactly(c, Words(lfb_round_fill(x, y, w, h, r)))
      BY <2>2, <2>3, ExactShape
    <2> QED BY <2>4 DEF c
  <1>7. ASSUME NEW r \in Radii PROVE Exactly(<<"disc", x, y, r>>, Words(lfb_disc(x, y, r)))
    <2> DEFINE c == <<"disc", x, y, r>>
    <2>1. r \in Nat
      BY <1>0
    <2>2. lfb_disc(x, y, r) = Shape(c) \cap Screen
      BY <1>2, <2>1, DiscExact
    <2>3. c[1] \notin {"none", "clear", "scroll", "line"}
      OBVIOUS
    <2> HIDE DEF c
    <2>4. Exactly(c, Words(lfb_disc(x, y, r)))
      BY <2>2, <2>3, ExactShape
    <2> QED BY <2>4 DEF c
  <1>8. ASSUME NEW x1 \in Coords, NEW y1 \in Coords
        PROVE  Exactly(<<"line", x, y, x1, y1>>, Words(lfb_line(x, y, x1, y1)))
    <2>1. x1 \in Int /\ y1 \in Int
      BY <1>0
    <2> QED BY <1>2, <2>1, ExactLine
  <1>9. ASSUME NEW g \in Glyphs, NEW o \in BOOLEAN, NEW s \in Scales
        PROVE  Exactly(<<"char", x, y, g, o, s>>, Words(lfb_char(x, y, g, o, s)))
    <2> DEFINE c == <<"char", x, y, g, o, s>>
    <2>1. s \in Nat /\ g \in SUBSET ((0 .. GLYPH_W - 1) \X (0 .. GLYPH_H - 1))
      BY <1>0
    <2>2. lfb_char(x, y, g, o, s) = Shape(c) \cap Screen
      BY <1>2, <2>1, CharExact
    <2>3. c[1] \notin {"none", "clear", "scroll", "line"}
      OBVIOUS
    <2> HIDE DEF c
    <2>4. Exactly(c, Words(lfb_char(x, y, g, o, s)))
      BY <2>2, <2>3, ExactShape
    <2> QED BY <2>4 DEF c
  <1>a. ASSUME NEW w \in Sizes, NEW h \in Sizes,
               \/ draws(<<"fill", x, y, w, h>>, Words(lfb_fill(x, y, w, h)))
               \/ draws(<<"fill", x, y, w, h>>, Words(lfb_gradient_v(x, y, w, h)))
               \/ w > 0 /\ h > 0 /\ draws(<<"rect", x, y, w, h>>, Words(lfb_rect(x, y, w, h)))
        PROVE  Exactly(call', touched')
    BY <1>a, <1>4, <1>5, Zenon
  <1>b. ASSUME NEW w \in Sizes, NEW h \in Sizes, NEW r \in Radii,
               draws(<<"round", x, y, w, h, r>>, Words(lfb_round_fill(x, y, w, h, r)))
        PROVE  Exactly(call', touched')
    BY <1>b, <1>4, <1>6, Zenon
  <1>c. ASSUME NEW r \in Radii, draws(<<"disc", x, y, r>>, Words(lfb_disc(x, y, r)))
        PROVE  Exactly(call', touched')
    BY <1>c, <1>4, <1>7, Zenon
  <1>d. ASSUME NEW x1 \in Coords, NEW y1 \in Coords,
               draws(<<"line", x, y, x1, y1>>, Words(lfb_line(x, y, x1, y1)))
        PROVE  Exactly(call', touched')
    BY <1>d, <1>4, <1>8, Zenon
  <1>e. ASSUME NEW g \in Glyphs, NEW o \in BOOLEAN, NEW s \in Scales,
               draws(<<"char", x, y, g, o, s>>, Words(lfb_char(x, y, g, o, s)))
        PROVE  Exactly(call', touched')
    BY <1>e, <1>4, <1>9, Zenon
  <1> QED BY <1>1, <1>a, <1>b, <1>c, <1>d, <1>e, Zenon

\* Nothing is drawn before the display is up.
ExactInv == (stage # "up" => call = <<"none">>) /\ ShapesAreExact

\* Every step of the boot and the display keeps the last call exact.
LEMMA ExactStep == DrawInv /\ ExactInv /\ [BootNext]_bootVars => ExactInv'
  <1> SUFFICES ASSUME DrawInv, ExactInv, [BootNext]_bootVars PROVE ExactInv'
    OBVIOUS
  <1>1. CASE UNCHANGED lfbVars /\ (stage' # "up" => stage # "up")
    <2>1. ShapesAreExact' <=> ShapesAreExact
      BY <1>1 DEF ShapesAreExact, lfbVars, Screen, Words
    <2> QED BY <1>1, <2>1 DEF ExactInv, lfbVars
  <1>2. CASE call'[1] \in {"none", "clear", "scroll"} /\ stage' = "up"
    BY <1>2 DEF ExactInv, ShapesAreExact
  <1>3. CASE memory \/ paging \/ xhci_init
    BY <1>1, <1>3 DEF memory, paging, xhci_init
  <1>4. CASE desktop_start
    BY <1>1, <1>2, <1>4 DEF desktop_start, lfb_init_auto, lfb_init_fb, lfb_init, use
  <1>5. CASE draw
    <2>1. lfb.active /\ stage = "up" /\ stage' = stage /\ lfb' = lfb
      BY <1>5 DEF draw, draws
    <2>2. Exactly(call', touched')
      BY <1>5, <2>1, DrawExact DEF DrawInv
    <2>3. ShapesAreExact' <=> Exactly(call', touched')
      BY <2>1 DEF ShapesAreExact, Exactly, Screen, Words
    <2> QED BY <2>1, <2>2, <2>3 DEF ExactInv
  <1>6. CASE scroll \/ drawn
    BY <1>2, <1>6 DEF scroll, drawn, draws
  <1>7. CASE pages \/ UNCHANGED bootVars
    BY <1>1, <1>7 DEF pages, bootVars, lfbVars
  <1> QED BY <1>3, <1>4, <1>5, <1>6, <1>7 DEF BootNext

\* Every primitive of lfb.c paints the visible part of its shape, no pixel more
\* or less, for every screen, coordinate, size and radius; a line on the screen
\* has one pixel for each step of its longer axis, within half a pixel.
THEOREM ShapesDrawnExactly == BootSpec => []ShapesAreExact
  <1>1. BootInit => DrawInv /\ ExactInv
    BY DEF BootInit, LfbInit, DrawInv, ExactInv, ShapesAreExact
  <1>2. ExactInv => ShapesAreExact
    BY DEF ExactInv
  <1> QED BY <1>1, <1>2, ExactStep, DrawStep, PagingInit, PagingStep, PTL DEF BootSpec
=============================================================================
