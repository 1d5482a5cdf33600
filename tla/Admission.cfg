SPECIFICATION Spec
CONSTANTS
    Guests = {g1, g2}
    None = None
    MaxRosters = 3
    MaxIds = 3
    MaxEpochs = 3
CHECK_DEADLOCK FALSE
SYMMETRY Symmetry
INVARIANTS
    PublishedIdentityKept
    InvitationsFollowed
    AdmittedCanReopen
PROPERTIES
    AdmittedOnNewestEvidence
