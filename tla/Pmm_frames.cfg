SPECIFICATION BootSpec
CONSTANTS
    PAGE_SIZE = 4
    MAX_FRAMES = 8
    LOW_MEMORY = 4
    KernelStart = 4
    KernelEnd = 10
    MbInfoSize = 2
    BootInfos <- MCBootInfos
    VMM_PAGE_SIZE = 4
    ENTRIES = 4
    DIR_ENTRIES = 8
    VMM_IDMAP_BYTES = 32
    VMM_NPTS = 2
    VMM_LFB_NPTS = 2
    VMM_MMIO_NPTS = 1
    BYTES_PP = 2
    VBE_W = 3
    VBE_H = 2
    GLYPH_W = 2
    GLYPH_H = 2
    Machines <- MCMachines
    XHCI_BYTES = 4
    VGA_DEFAULT = 96
    Coords <- MCCoords
    Sizes = {0, 1, 3, 4}
    Radii = {0, 1, 2}
    Glyphs <- MCGlyphs
    Scales = {1, 2}
    CON_W = 2
    CON_H = 2
    CON_Y = 1
    CON_LINE = 1
INVARIANTS
    KernelProtected
    NoAmbiguousOrSharedFrame
    BootStructsProtected
    UsedIsReservedPlusAllocated
    OnlyWholeRamFrames
    IdentityKept
    DrawsInWindow
    ShapesAreExact
