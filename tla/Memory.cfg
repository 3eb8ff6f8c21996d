CONSTANTS
    BITS = 4
    MIN_INDEX = 5
    MAX_INDEX = 35
    NUM_PAGE_DIRS = 2
    ENTRIES = 2
    PAGES = 16
    KERNEL_START = 6
    PROGRAM_START = 0
    USER_HEAP_START = 2
    USER_HEAP_PAGES = 2
    USER_STACK_TOP = 6
    STACK_PAGES = 1
    EXTRA_PAGES = 1
    NEWLIB_HEAP = 6
    NEWLIB_PAGES = 2
    HEAP_START = 8
    INITIAL_BLOCKS = 2
    RAMDISK_VIRTUAL = 12
    RAMDISK_FRAMES <- MCRamdisk
    LAPIC = 14
    LAPIC_FRAME = 50
    ProgramSizes = {1, 3}
    MaxHeapBlocks = 3
SPECIFICATION Spec
INVARIANTS
    FramesOwned
    KernelHalfInSync
    CurrentLoaded
    
CHECK_DEADLOCK FALSE
