-------------------------------- MODULE Vmm --------------------------------
(***************************************************************************)
(* Paging: kernel/mm/vmm.c over the table logic of kernel/mm/vmm_core.c.   *)
(* One page directory; three pools of page tables: the identity map of low *)
(* memory, the framebuffer window and the window for device registers.     *)
(*                                                                         *)
(* A directory entry holds the table it points to, a table entry the page  *)
(* address; flags are sets of names.  Addresses are computed modulo SPACE  *)
(* (2^32).  The operations are composed in the order of kernel_main by     *)
(* module Boot.                                                            *)
(***************************************************************************)
EXTENDS Integers

CONSTANTS
    VMM_PAGE_SIZE,    \* bytes of a page
    ENTRIES,          \* entries of a page table (1024)
    DIR_ENTRIES,      \* entries of the directory (1024)
    VMM_IDMAP_BYTES,  \* low memory to map
    VMM_NPTS,         \* tables of each pool
    VMM_LFB_NPTS,
    VMM_MMIO_NPTS

ASSUME PagingAssumption ==
    /\ {VMM_PAGE_SIZE, ENTRIES, DIR_ENTRIES} \subseteq Nat \ {0}
    /\ {VMM_IDMAP_BYTES, VMM_NPTS, VMM_LFB_NPTS, VMM_MMIO_NPTS} \subseteq Nat \ {0}
    /\ VMM_NPTS <= DIR_ENTRIES /\ VMM_LFB_NPTS + 2 <= DIR_ENTRIES

FOURMB == VMM_PAGE_SIZE * ENTRIES

SPACE == FOURMB * DIR_ENTRIES

VARIABLES
    page_dir,   \* the directory
    tabs,       \* page_tabs, lfb_tabs and mmio_tabs
    ready,      \* the identity map has been built
    enabled     \* CR0.PG

vmmVars == <<page_dir, tabs, ready, enabled>>

Pool == [low |-> VMM_NPTS, lfb |-> VMM_LFB_NPTS, mmio |-> VMM_MMIO_NPTS]

NotPresent == [addr |-> 0, flags |-> {}]

VmmInit ==
    /\ page_dir = [i \in 0 .. DIR_ENTRIES - 1 |-> [tab |-> <<>>, flags |-> {}]]
    /\ tabs = [p \in DOMAIN Pool |->
                 [t \in 0 .. Pool[p] - 1 |-> [e \in 0 .. ENTRIES - 1 |-> NotPresent]]]
    /\ ready = FALSE /\ enabled = FALSE

vmm_pde_index(va) == va \div FOURMB

vmm_pte_index(va) == (va \div VMM_PAGE_SIZE) % ENTRIES

vmm_offset(va) == va % VMM_PAGE_SIZE

vmm_make_entry(phys, flags) == [addr |-> phys - vmm_offset(phys), flags |-> flags]

\* Pages and tables of a map of [0, bytes).
Pages(bytes) == (bytes + VMM_PAGE_SIZE - 1) \div VMM_PAGE_SIZE

NeedPts(bytes) == (Pages(bytes) + ENTRIES - 1) \div ENTRIES

\* vmm_identity_map into the low pool, and vmm_init's test of its result.
vmm_init ==
    LET flags == {"PRESENT", "RW", "USER"}
        need  == NeedPts(VMM_IDMAP_BYTES)
    IN /\ IF need > VMM_NPTS
          THEN UNCHANGED <<page_dir, tabs>>
          ELSE /\ page_dir' = [i \in DOMAIN page_dir |->
                                 IF i < need THEN [tab |-> <<"low", i>>, flags |-> flags]
                                 ELSE [tab |-> <<>>, flags |-> {}]]
               /\ tabs' = [tabs EXCEPT !.low = [t \in DOMAIN @ |->
                     IF t >= need THEN @[t]
                     ELSE [e \in 0 .. ENTRIES - 1 |->
                             LET page == t * ENTRIES + e
                             IN IF page < Pages(VMM_IDMAP_BYTES)
                                THEN vmm_make_entry(page * VMM_PAGE_SIZE, flags)
                                ELSE NotPresent]]]
       /\ ready' = (need = VMM_NPTS)
       /\ UNCHANGED enabled

vmm_enable ==
    /\ enabled' = (enabled \/ ready)
    /\ UNCHANGED <<page_dir, tabs, ready>>

vmm_lfb_capacity == VMM_LFB_NPTS * FOURMB

\* Definitions named Mut_... are faults seeded to show that a property can
\* fail; nothing else uses them.
Mut_WindowBase_Unaligned(phys) == phys

WindowBase(phys) == phys - (phys % FOURMB)

\* Tables a window over [phys, phys + bytes) needs, in 32-bit arithmetic.
WindowTables(phys, bytes) ==
    ((phys - WindowBase(phys) + bytes + FOURMB - 1) % SPACE) \div FOURMB

\* vmm_map_lfb maps what its tables reach; vmm_map_mmio maps all or nothing.
LfbTables(phys, bytes) ==
    IF WindowTables(phys, bytes) > VMM_LFB_NPTS THEN VMM_LFB_NPTS
    ELSE WindowTables(phys, bytes)

MmioTables(bar, bytes) ==
    IF WindowTables(bar, bytes) > VMM_MMIO_NPTS THEN 0 ELSE WindowTables(bar, bytes)

\* The loops of vmm_map_lfb and vmm_map_mmio: directory entries from the one of
\* base on are pointed to tables 0 .. npts-1 of pool p, and these are filled.
map_window(p, base, npts, pteFlags) ==
    LET nth(i) == (i - vmm_pde_index(base)) % DIR_ENTRIES
    IN /\ page_dir' = [i \in DOMAIN page_dir |->
                         IF nth(i) < npts
                         THEN [tab |-> <<p, nth(i)>>, flags |-> {"PRESENT", "RW"}]
                         ELSE page_dir[i]]
       /\ tabs' = [tabs EXCEPT ![p] = [t \in DOMAIN @ |->
                     IF t >= npts THEN @[t]
                     ELSE [e \in 0 .. ENTRIES - 1 |->
                             vmm_make_entry((base + t * FOURMB + e * VMM_PAGE_SIZE) % SPACE,
                                            pteFlags \cup {"PRESENT", "RW"})]]]
       /\ UNCHANGED <<ready, enabled>>

LfbMaps(phys, bytes) == ready /\ LfbTables(phys, bytes) > 0

vmm_map_lfb(phys, bytes) ==
    map_window("lfb", WindowBase(phys), LfbTables(phys, bytes), {})

MmioMaps(bar, bytes) == ready /\ MmioTables(bar, bytes) > 0

vmm_map_mmio(bar, bytes) ==
    map_window("mmio", WindowBase(bar), MmioTables(bar, bytes), {"PCD"})

(* vmm_translate, as vmm_phys_of and the processor use it.                 *)

Pte(va) ==
    LET pde == page_dir[vmm_pde_index(va)]
    IN IF "PRESENT" \in pde.flags
       THEN tabs[pde.tab[1]][pde.tab[2]][vmm_pte_index(va)]
       ELSE NotPresent

Mapped(va) == "PRESENT" \in Pte(va).flags

vmm_phys_of(va) == Pte(va).addr + vmm_offset(va)

\* Ring 3 needs the USER bit at both levels.
UserMapped(va) ==
    Mapped(va) /\ "USER" \in Pte(va).flags \cap page_dir[vmm_pde_index(va)].flags

----------------------------------------------------------------------------
(* Property.                                                               *)

\* Once paging is on, every address that is mapped is mapped to itself (the
\* kernel hands physical addresses to devices and takes the framebuffer's and
\* the registers' as pointers), and all of low memory stays mapped and usable
\* from ring 3: the windows laid over the directory later take nothing of it
\* (vmm.c:25-34, 73-112).
IdentityKept ==
    enabled =>
        /\ \A va \in 0 .. SPACE - 1 : Mapped(va) => vmm_phys_of(va) = va
        /\ \A va \in 0 .. VMM_IDMAP_BYTES - 1 : UserMapped(va)
============================================================================
