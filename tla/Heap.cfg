CONSTANTS
    INITIAL_BLOCKS = 4
    FRAMES = 8
    Requests <- MCRequests
    NilColor <- MCNilColor
    NilLinks <- MCNilLinks
    Garbage <- MCGarbage
SPECIFICATION Spec
INVARIANTS
    TypeOK
    LiveDisjoint
    TableMatchesLive
    HeapBacked
    NullMeansNoFrames
PROPERTIES
    ContractedAfterFree
    ImplementsAllocator
