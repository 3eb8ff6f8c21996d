CONSTANTS
    CPUS <- MCCPUS
    BSP <- MCBSP
    TIME_SLICE_TICKS = 2
    WORD = 16
    MaxRounds = 2
SPECIFICATION Spec
PROPERTY RunningIsPreempted
CHECK_DEADLOCK FALSE
