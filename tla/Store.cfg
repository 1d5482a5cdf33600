SPECIFICATION Spec
CONSTANTS
    Session = {s1, s2, s3}
    Image = {i}
    NoImage = NoImage
    None = None
    Faults = {"graph", "blob", "manifest", "mark", "move", "trash", "restore"}
    MaxSpoilt = 1
SYMMETRY Symmetry
INVARIANTS
    OwnGraph
    ImagesKept
    NoGraphForgotten
    CrashLosesNothing
    RestartReturns
