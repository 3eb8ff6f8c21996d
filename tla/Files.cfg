CONSTANTS
    Names = {a, b}
    NoName = NoName
    Clusters = {c1, c2}
    NoCluster = NoCluster
    CLUSTER = 2
    STD_FDS = 1
    MAX_FILES = 3
SPECIFICATION Spec
INVARIANTS
    VolumeSound
    LengthSaved
    DescriptorsTruthful
SYMMETRY Symmetry
CHECK_DEADLOCK FALSE
