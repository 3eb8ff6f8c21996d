CONSTANTS
    CPUS <- MCCPUS
    Threads = {t1, t2, t3, t4, t5}
    NoThread = NoThread
    MAX_PRIORITY = 3
    MAX_RUNQUEUE_SIZE = 4
    AGE_THRESHOLD = 0
    WORD = 8
SPECIFICATION Spec
INVARIANTS
    CountsMatchQueues
    
    
SYMMETRY ThreadSymmetry
CHECK_DEADLOCK FALSE
