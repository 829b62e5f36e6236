-------------------------------- MODULE Pmm --------------------------------
(***************************************************************************)
(* The physical memory manager: kernel/mm/pmm.c over the frame bitmap of   *)
(* kernel/mm/frame_bitmap.c.                                               *)
(*                                                                         *)
(* pmm_init walks the Multiboot memory map once, before interrupts are on, *)
(* and is modelled one loop iteration and one reserve_range call per step; *)
(* afterwards the kernel and the shell call pmm_alloc_frame and            *)
(* pmm_free_frame.  The bitmap is the set `free' of frames whose bit is    *)
(* clear; addresses are naturals below 2^32 = MAX_FRAMES * PAGE_SIZE.      *)
(***************************************************************************)
EXTENDS Integers, Sequences, FiniteSets

CONSTANTS
    PAGE_SIZE,      \* bytes in a frame
    MAX_FRAMES,     \* frames the bitmap covers (4 GiB / 4 KiB in the kernel)
    LOW_MEMORY,     \* the first 1 MiB, always protected
    KernelStart,    \* thuos_kernel_start and
    KernelEnd,      \*   thuos_kernel_end, from linker.ld
    MbInfoSize,     \* sizeof(multiboot_info_t)
    BootInfos       \* the Multiboot information the boot loader may pass

AddrSpace == MAX_FRAMES * PAGE_SIZE

MAX_PROT == 6

(* A Multiboot boot: `magic' is false when the magic word or the address   *)
(* test at pmm.c:63 fails.  Region addresses are 64 bits, so they may lie  *)
(* beyond AddrSpace; `upper' is mem_upper in bytes.                        *)
Region == [addr : Nat, len : Nat, avail : BOOLEAN]

BootInfo == [magic : BOOLEAN, addr : Nat, mem : BOOLEAN, upper : Nat,
             map : BOOLEAN, mmap_addr : Nat, mmap_len : Nat,
             entries : Seq(Region)]

ASSUME GeometryAssumption ==
    /\ PAGE_SIZE \in Nat \ {0}
    /\ MAX_FRAMES \in Nat \ {0}
    /\ LOW_MEMORY \in Nat \ {0}

\* linker.ld places the image at 1 MiB, on a page boundary.
ASSUME ImageAssumption ==
    /\ KernelStart \in Nat /\ KernelEnd \in Nat
    /\ KernelStart < KernelEnd
    /\ KernelStart % PAGE_SIZE = 0

ASSUME BootAssumption ==
    /\ MbInfoSize \in Nat \ {0}
    /\ BootInfos \subseteq BootInfo

\* What is protected ends below the last frame and regions start within 2^32
\* frames: no sum and no conversion of pmm.c:42, 91 and 115-117 wraps.
ASSUME NoWrapAssumption ==
    /\ KernelEnd <= AddrSpace - PAGE_SIZE
    /\ \A b \in BootInfos :
          /\ b.addr + MbInfoSize <= AddrSpace - PAGE_SIZE
          /\ b.mmap_addr + b.mmap_len <= AddrSpace - PAGE_SIZE
          /\ \A k \in DOMAIN b.entries :
                b.entries[k].addr \div PAGE_SIZE < AddrSpace

\* The entries lie in the mmap_len bytes the loop of pmm_init walks.
ASSUME MapAssumption ==
    \A b \in BootInfos : b.mmap_len = 0 => b.entries = <<>>

VARIABLES
    mbi,              \* what the boot loader passed (never changes)
    phase,            \* where pmm_init stands; "ready" once it has returned
    step,             \* next map entry, or next reserve_range call
    highest,          \* local of pmm_init
    free,             \* frames whose bit in frame_bitmap is clear
    total_frames,
    usable_frames,
    reserved_frames,
    prot,             \* recorded protected ranges
    owned,            \* history: frames returned by alloc and not freed since
    stray,            \* history: frames freed by a caller that did not hold them
    ret               \* value returned by the last call

vars == <<mbi, phase, step, highest, free, total_frames, usable_frames,
          reserved_frames, prot, owned, stray, ret>>

Frames == 0 .. MAX_FRAMES - 1

AddrRange == [start : Nat, end : Nat]

\* What fb_alloc and fb_count_free see: clear bits below total_frames.
FreeFrames == {f \in free : f < total_frames}

\* Frames touched by reserve_range(start, end): start rounds down, end up.
FramesOf(r) == {f \in Frames : /\ f >= r.start \div PAGE_SIZE
                               /\ f < (r.end + PAGE_SIZE - 1) \div PAGE_SIZE}

----------------------------------------------------------------------------
(* pmm_init.                                                               *)

Init ==
    /\ mbi \in BootInfos
    /\ phase = "boot" /\ step = 1
    /\ highest = 0
    /\ free = {}
    /\ total_frames = 0 /\ usable_frames = 0 /\ reserved_frames = 0
    /\ prot = <<>>
    /\ owned = {} /\ stray = {}
    /\ ret = 0

\* The magic test, then the choice between memory map, mem_upper and neither.
pmm_init_begin ==
    /\ phase = "boot"
    /\ phase' = IF ~mbi.magic \/ mbi.addr = 0 THEN "ready"
                ELSE IF mbi.map THEN "map" ELSE "count"
    /\ LET fallback == phase' = "count" /\ mbi.mem
           top == (LOW_MEMORY + mbi.upper) % AddrSpace
       IN /\ highest' = IF fallback THEN top ELSE 0
          /\ free' = IF fallback
                     THEN {f \in Frames : /\ f >= LOW_MEMORY \div PAGE_SIZE
                                          /\ f < top \div PAGE_SIZE}
                     ELSE {}
    /\ UNCHANGED <<mbi, step, total_frames, usable_frames, reserved_frames,
                   prot, owned, stray, ret>>

\* The end of a region, capped to 4 GiB in 64 bits.
RegionEnd(e) == IF e.addr + e.len > AddrSpace THEN AddrSpace ELSE e.addr + e.len

\* `highest' keeps 32 bits of the end.
NewHighest(e) ==
    IF RegionEnd(e) > highest THEN RegionEnd(e) % AddrSpace ELSE highest

\* Definitions named Mut_... are faults seeded to show that a property can
\* fail; nothing else uses them.
Mut_RegionFrames_RoundsUp(e) ==
    {f \in Frames : /\ f >= e.addr \div PAGE_SIZE
                    /\ f < (RegionEnd(e) + PAGE_SIZE - 1) \div PAGE_SIZE}

\* Both bounds round down.
RegionFrames(e) == {f \in Frames : /\ f >= e.addr \div PAGE_SIZE
                                   /\ f < RegionEnd(e) \div PAGE_SIZE}

\* One entry of the map.
pmm_init_entry ==
    /\ phase = "map" /\ step <= Len(mbi.entries)
    /\ LET e == mbi.entries[step]
       IN IF e.avail
          THEN /\ highest' = NewHighest(e)
               /\ free' = free \cup RegionFrames(e)
          ELSE UNCHANGED <<highest, free>>
    /\ step' = step + 1
    /\ UNCHANGED <<mbi, phase, total_frames, usable_frames, reserved_frames,
                   prot, owned, stray, ret>>

pmm_init_count ==
    /\ \/ phase = "map" /\ step > Len(mbi.entries)
       \/ phase = "count"
    /\ total_frames' = IF highest \div PAGE_SIZE > MAX_FRAMES THEN MAX_FRAMES
                       ELSE highest \div PAGE_SIZE
    /\ usable_frames' = Cardinality({f \in free : f < total_frames'})
    /\ phase' = "reserve" /\ step' = 1
    /\ UNCHANGED <<mbi, highest, free, reserved_frames, prot, owned, stray, ret>>

\* The calls of reserve_range at the end of pmm_init, in order; the last one
\* only when a map was saved (mmap_len_saved is 0 without MB_FLAG_MMAP).
LowRange    == [start |-> 0, end |-> LOW_MEMORY]
KernelRange == [start |-> KernelStart, end |-> KernelEnd]
MbInfoRange == [start |-> mbi.addr, end |-> mbi.addr + MbInfoSize]
MmapRange   == [start |-> mbi.mmap_addr, end |-> mbi.mmap_addr + mbi.mmap_len]

ReserveCalls == IF mbi.map /\ mbi.mmap_len # 0 THEN 4 ELSE 3

ReserveArg(k) == CASE k = 1 -> LowRange
                   [] k = 2 -> KernelRange
                   [] k = 3 -> MbInfoRange
                   [] OTHER -> MmapRange

Mut_reserve_range_RoundsDown(r) ==
    LET F == {f \in FreeFrames : /\ f >= r.start \div PAGE_SIZE
                                 /\ f < r.end \div PAGE_SIZE}
    IN /\ free' = free \ F
       /\ reserved_frames' = reserved_frames + Cardinality(F)
       /\ prot' = Append(prot, r)

Mut_reserve_range_CountsUsed(r) ==
    LET F == {f \in FramesOf(r) : f < total_frames}
    IN /\ free' = free \ F
       /\ reserved_frames' = reserved_frames + Cardinality(F)
       /\ prot' = Append(prot, r)

reserve_range(r) ==
    IF r.end <= r.start
    THEN UNCHANGED <<free, reserved_frames, prot>>
    ELSE LET F == FreeFrames \cap FramesOf(r)
         IN /\ free' = free \ F
            /\ reserved_frames' = reserved_frames + Cardinality(F)
            /\ prot' = IF Len(prot) < MAX_PROT THEN Append(prot, r) ELSE prot

pmm_init_reserve ==
    /\ phase = "reserve"
    /\ reserve_range(ReserveArg(step))
    /\ step' = step + 1
    /\ phase' = IF step = ReserveCalls THEN "ready" ELSE phase
    /\ UNCHANGED <<mbi, highest, total_frames, usable_frames, owned, stray, ret>>

----------------------------------------------------------------------------
(* Run time.                                                               *)

Mut_is_protected_Strict(a) ==
    \E i \in 1 .. Len(prot) : a > prot[i].start /\ a < prot[i].end

pmm_is_protected(a) ==
    \E i \in 1 .. Len(prot) : a >= prot[i].start /\ a < prot[i].end

Mut_alloc_NoMark ==
    /\ phase = "ready"
    /\ \E f \in FreeFrames : /\ ret' = f * PAGE_SIZE
                             /\ owned' = owned \cup {f}
    /\ UNCHANGED <<mbi, phase, step, highest, total_frames, usable_frames,
                   reserved_frames, prot, free, stray>>

\* 0 when the manager is inactive or full, else the lowest free frame.
pmm_alloc_frame ==
    /\ phase = "ready"
    /\ \/ /\ FreeFrames = {}
          /\ ret' = 0
          /\ UNCHANGED <<free, owned>>
       \/ \E f \in FreeFrames :
              /\ \A g \in FreeFrames : f <= g
              /\ ret' = f * PAGE_SIZE
              /\ free' = free \ {f}
              /\ owned' = owned \cup {f}
    /\ UNCHANGED <<mbi, phase, step, highest, total_frames, usable_frames,
                   reserved_frames, prot, stray>>

\* The checks of pmm_free_frame, in order.
FreeResult(a) ==
    LET f == a \div PAGE_SIZE
    IN IF a % PAGE_SIZE # 0 \/ f >= total_frames THEN -1
       ELSE IF pmm_is_protected(a) THEN -2
       ELSE IF f \in free THEN -3
       ELSE 0

pmm_free_frame(a) ==
    /\ phase = "ready"
    /\ ret' = FreeResult(a)
    /\ free'  = IF ret' = 0 THEN free \cup {a \div PAGE_SIZE} ELSE free
    /\ owned' = IF ret' = 0 THEN owned \ {a \div PAGE_SIZE} ELSE owned
    /\ stray' = IF ret' = 0 THEN stray \cup ({a \div PAGE_SIZE} \ owned) ELSE stray
    /\ UNCHANGED <<mbi, phase, step, highest, total_frames, usable_frames,
                   reserved_frames, prot>>

pmm_init ==
    pmm_init_begin \/ pmm_init_entry \/ pmm_init_count \/ pmm_init_reserve

\* The shell's freepage passes any 32-bit address the user types.
Next ==
    \/ pmm_init
    \/ pmm_alloc_frame
    \/ \E a \in 0 .. AddrSpace - 1 : pmm_free_frame(a)

Spec == Init /\ [][Next]_vars

----------------------------------------------------------------------------
(* Properties.                                                             *)

TypeOK ==
    /\ mbi \in BootInfos
    /\ phase \in {"boot", "map", "count", "reserve", "ready"}
    /\ step \in Nat \ {0}
    /\ highest \in Nat
    /\ free \subseteq Frames
    /\ total_frames \in Nat
    /\ usable_frames \in Nat /\ reserved_frames \in Nat
    /\ prot \in Seq(AddrRange)
    /\ owned \subseteq Frames /\ stray \subseteq Frames
    /\ ret \in Int

Overlaps(f, r) == f * PAGE_SIZE < r.end /\ r.start < (f + 1) * PAGE_SIZE

\* Frames a caller holds, or could be handed next.
Reachable == FreeFrames \cup owned

\* Whatever addresses freepage is given, no frame overlapping the first 1 MiB
\* or the kernel image (which holds the bitmap itself and the boot stack) is
\* ever free or handed out once pmm_init has returned (pmm.c:112-118, 127-141).
KernelProtected ==
    phase = "ready" =>
        \A f \in Reachable : ~Overlaps(f, LowRange) /\ ~Overlaps(f, KernelRange)

\* pmm_alloc_frame's 0 means "no memory" and nothing else: frame 0 is never
\* allocatable or allocated (pmm.h: "frame 0 is always reserved"), and a frame
\* in a caller's hands is never free, so it is not handed out a second time.
NoAmbiguousOrSharedFrame ==
    /\ owned \cap FreeFrames = {}
    /\ phase = "ready" => 0 \notin Reachable

\* Frames holding the Multiboot info or the memory map, which the kernel reads
\* again after pmm_init (pmm_print_mmap), are never free or handed out, as long
\* as callers free only what they hold.
BootStructsProtected ==
    phase = "ready" /\ prot # <<>> /\ stray = {} =>
        \A f \in Reachable : /\ ~Overlaps(f, MbInfoRange)
                             /\ mbi.map => ~Overlaps(f, MmapRange)

\* pmm_used_frames = usable - free is "reserved + allocated" (pmm.c:147,191),
\* as long as callers free only what they hold.
UsedIsReservedPlusAllocated ==
    phase = "ready" /\ stray = {} =>
        usable_frames - Cardinality(FreeFrames)
            = reserved_frames + Cardinality(owned)

AlignedMap ==
    \A i \in 1 .. Len(mbi.entries) : mbi.entries[i].addr % PAGE_SIZE = 0

\* With regions that start on a frame boundary and callers that free only what
\* they hold, only memory the boot loader reported AVAILABLE is handed out, and
\* only in whole frames (pmm.c:92).
OnlyWholeRamFrames ==
    phase = "ready" /\ mbi.map /\ stray = {} /\ AlignedMap =>
        \A f \in Reachable : \A b \in f * PAGE_SIZE .. (f + 1) * PAGE_SIZE - 1 :
            \E i \in 1 .. Len(mbi.entries) :
                LET e == mbi.entries[i]
                IN e.avail /\ e.addr <= b /\ b < e.addr + e.len

\* total_frames spans usable RAM up to its highest address, capped to 4 GiB
\* (pmm.c:74, pmm.h).
SpansUsableRam ==
    phase = "ready" /\ mbi.magic /\ mbi.addr # 0 /\ mbi.map =>
        \A i \in 1 .. Len(mbi.entries) :
            LET e == mbi.entries[i]
            IN e.avail => total_frames >= RegionEnd(e) \div PAGE_SIZE
============================================================================
