CONSTANTS
    INITIAL_BLOCKS = 4
    FRAMES = 20
    Requests <- KernelRequests
    NilColor <- KernelNilColor
    NilLinks <- KernelNilLinks
    Garbage <- KernelGarbage
SPECIFICATION Spec
INVARIANT NilIsBlack
