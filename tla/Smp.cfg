CONSTANTS
    CPUS <- MCCPUS
    BSP <- MCBSP
    TIME_SLICE_TICKS = 2
    WORD = 16
    MaxRounds = 2
SPECIFICATION Spec
INVARIANTS
    SearchNeverNil
    OnlyFinishedThreads
    
    
    EnqueuedThreadsKept
    
PROPERTIES
    EveryAPRuns
    
CHECK_DEADLOCK FALSE
