SPECIFICATION Spec
CONSTANTS
    Part = {"panes", "content", "denizens", "input", "endpoint"}
    p1 = p1
    p2 = p2
    Tile = {m}
    Summoned = {"Gloss"}
    Section = {"recent"}
    MaxPaneId = 3
    MaxEdited = 1
    MaxDragged = 2
    MaxLens = 2
    Page = {p1, p2}
    Address = {"u", "v"}
    Web = {"u"}
    AddressOf <- NodeAddresses
    Workspace = {"a", "b"}
    Viewer = {"reader"}
    Managed = {p1}
    NoPage = NoPage
    MaxAsked = 2
    Pack = {k1}
    Lane <- EitherLane
    Bearer = {b1, b2}
    Root = {"vault", "first"}
    VaultRoot = "vault"
    NoPack = NoPack
    NoRoot = "none"
    Old = {k1}
    Session = {"a", "b"}
    Hosted = {"p"}
    Editor = {"p"}
    Helper = {"h", "k"}
    NoHelper = "no helper"
    MaxText = 2
    Card = {c1, c2, c3}
    NewCard = n
    MaxAudit = 4
CHECK_DEADLOCK FALSE
INVARIANTS
    ArrangementSound
    OnlyDragsUnsaved
    SessionsAreShown
    AnswersMeetRequesters
    EnrichmentIsStored
    AuthorityWasReviewed
    LineSound
    ReviewedIsConfirmed
    DragsEnd
    ViewersOnlyCurate
PROPERTY StartsKeepGrants
