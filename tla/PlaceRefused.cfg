SPECIFICATION Spec
CONSTANTS
    Sessions = {s1, s2}
    Places = {p, q}
    None = None
    Lost = Lost
    AckTimeouts = FALSE
    Crashes = FALSE
    MaxGen = 3
    MaxFacts = 1
    MaxPending = 2
CHECK_DEADLOCK FALSE
INVARIANT RefusedCommandDidNotHappen
