CONSTANTS
    CPUS <- MCCPUS
    BSP <- MCBSP
    MaxNesting = 1
SPECIFICATION Spec
INVARIANT ReleaseCheckTruthful
