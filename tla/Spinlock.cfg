CONSTANTS
    CPUS <- MCCPUS
    BSP <- MCBSP
    MaxNesting = 1
SPECIFICATION Spec
INVARIANTS
    TypeOK
    MutualExclusion
    NoSelfDeadlock
    ChecksTruthful
PROPERTIES
    LockProgress
    InterruptsComeBack
    ImplementsMutex
