SPECIFICATION Spec
CONSTANTS
    Node = {n1, n2}
    Session = {s1, s2}
    None = None
    Environment <- SlowEnvironment
    MaxPending = 3
SYMMETRY Symmetry
CHECK_DEADLOCK FALSE
INVARIANT TombstoneKeepsWorld
