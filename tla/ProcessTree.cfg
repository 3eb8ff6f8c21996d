CONSTANTS
    Processes <- MCProcesses
    PidOf <- MCPidOf
    NIL <- MCNIL
    NULL <- MCNULL
SPECIFICATION Spec
INVARIANTS
    LinksAgree
    Ordered
    RedBlack
    SearchCorrect
PROPERTIES
    FixupEnds
    ImplementsProcessSet
