SPECIFICATION ServicesSpec
CONSTANTS
    Part = {"sidecar", "lanes", "knot"}
    Values = {v1, v2, v3}
    None = None
    Torn = Torn
    MaxOps = 4
    Doc = {d}
    e1 = e1
    e2 = e2
    Editor = {e1, e2}
    ClipTarget = d
    NoDoc = NoDoc
    Environments <- KnotEnvironments
    MaxEdits = 2
    MaxCommands = 1
    MaxEvents = 0
CHECK_DEADLOCK FALSE
INVARIANTS
    TypesHold
    NeverTorn
    SavedWasStored
PROPERTIES
    RenamesAtomically
    WatchedArrivalsAreShown
    AuthoringSettles
