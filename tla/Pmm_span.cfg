SPECIFICATION Spec
CONSTANTS
    PAGE_SIZE = 4
    MAX_FRAMES = 8
    LOW_MEMORY = 4
    KernelStart = 4
    KernelEnd = 10
    MbInfoSize = 2
    BootInfos <- MCBootInfos
INVARIANT
    SpansUsableRam
