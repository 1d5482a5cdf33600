SPECIFICATION Spec
CONSTANTS
    Node = {n1, n2, n3}
    Session = {s1, s2}
    None = None
    Environment <- AllEnvironments
    MaxPending = 2
SYMMETRY Symmetry
CHECK_DEADLOCK FALSE
INVARIANTS
    MirrorSettles
    ArchivedHasTombstone
    PromptKeepsWorld
    MirrorIsOwn
    NoZombieBin
PROPERTY StagedInItsOwnBin
