CONSTANTS
    CPUS <- MCCPUS
    BSP <- MCBSP
    TIME_SLICE_TICKS = 2
    WORD = 16
    MaxRounds = 2
SPECIFICATION Spec
INVARIANT PidsUnique
CHECK_DEADLOCK FALSE
