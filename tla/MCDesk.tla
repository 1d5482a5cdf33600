-------------------------------- MODULE MCDesk --------------------------------
(***************************************************************************)
(* Instances for TLC of what the app does on its UI thread alone: the      *)
(* arrangement of panes and windows, the content lane, the resident        *)
(* helpers, the line and the pointer, and the disclosed projection.        *)
(*                                                                         *)
(* One behaviour is of one part, and the variables of the others stay      *)
(* off, those of the content and the endpoint as they begin.  Where two    *)
(* parts meet (a press that adopts a session, a pane that opens content),  *)
(* each has the step as it sees it.                                        *)
(***************************************************************************)
EXTENDS ContentLane, Endpoint

CONSTANTS
    Part,       \* the parts a run looks at
    p1, p2      \* two nodes, of different addresses
CONSTANTS Tile, Summoned, Section, MaxPaneId, MaxEdited, MaxDragged, MaxLens
CONSTANTS Pack, Lane, Bearer, Root, VaultRoot, NoPack, NoRoot, Old
CONSTANTS Session, Hosted, Editor, Helper, NoHelper, MaxText

VARIABLES
    part,     \* the part this behaviour is of
    layout, active, maximized, nextPane, tiled, front, saved, pending,
    windows, seam, lensSeam,
    staged, node, stored, records, world, archive, certs, authority, root,
    seed, owed, unsigned, torn, confirmed, ran,
    line, focus, capture, held, drag, review, session, live, granted

\* The keyboard's and the pointer's places are no pages, there are finitely many
\* sessions to list, and no graph is summoned: every window has its own.
ASSUME DeskAssumption ==
    /\ NoPack \notin Pack /\ Old \subseteq Pack
    /\ MaxLens \in Nat /\ "Orrery" \notin Summoned
    /\ IsFiniteSet(Session) /\ Hosted \cap {"canvas", "nowhere"} = {}

P == INSTANCE Panes
D == INSTANCE Denizens
I == INSTANCE Input

panesVars == <<layout, active, maximized, nextPane, tiled, front, saved,
               pending, windows, seam, lensSeam>>
denizensVars == <<staged, node, stored, records, world, archive, certs,
                  authority, root, seed, owed, unsigned, torn, confirmed,
                  ran>>
inputVars == <<line, focus, capture, held, drag, review, session, live,
               granted>>

Off == "off"
PanesOff ==
    /\ layout = Off /\ active = Off /\ maximized = Off /\ nextPane = Off
    /\ tiled = Off /\ front = Off /\ saved = Off /\ pending = Off
    /\ windows = Off /\ seam = Off /\ lensSeam = Off
DenizensOff ==
    /\ staged = Off /\ node = Off /\ stored = Off /\ records = Off
    /\ world = Off /\ archive = Off /\ certs = Off /\ authority = Off
    /\ root = Off /\ seed = Off /\ owed = Off /\ unsigned = Off /\ torn = Off
    /\ confirmed = Off /\ ran = Off
InputOff ==
    /\ line = Off /\ focus = Off /\ capture = Off /\ held = Off /\ drag = Off
    /\ review = Off /\ session = Off /\ live = Off /\ granted = Off
First == CHOOSE s \in Workspace : TRUE

Init ==
    /\ part \in Part
    /\ ContentInit /\ (part = "content" \/ here = First)
    /\ EndpointInit
    /\ IF part = "panes" THEN P!PanesInit ELSE PanesOff
    /\ IF part = "denizens" THEN D!DenizensInit ELSE DenizensOff
    /\ IF part = "input" THEN I!InputInit ELSE InputOff

Next ==
    /\ UNCHANGED part
    /\ IF part = "panes" THEN P!PanesNext ELSE UNCHANGED panesVars
    /\ IF part = "content" THEN ContentNext ELSE UNCHANGED contentVars
    /\ IF part = "denizens" THEN D!DenizensNext ELSE UNCHANGED denizensVars
    /\ IF part = "input" THEN I!InputNext ELSE UNCHANGED inputVars
    /\ IF part = "endpoint" THEN EndpointNext ELSE UNCHANGED endpointVars

Spec ==
    Init /\ [][Next]_<<part, panesVars, contentVars, denizensVars, inputVars,
                       endpointVars>>

\* The address of each node.
NodeAddresses == [p \in Page |-> IF p = p2 THEN "v" ELSE "u"]
\* A pack's body is a control script or a component.
EitherLane == [k \in Pack |-> {"lua", "wasm"}]

-----------------------------------------------------------------------------
(***************************************************************************)
(* The properties of each part, stated and explained in its module; those  *)
(* of ContentLane and Endpoint are their own.                              *)
(***************************************************************************)
\* Panes: every pane is in one place, every window has its graph and its tree.
ArrangementSound == part = "panes" => P!ArrangementSound

\* Panes: only a drag in progress is not on disk.
OnlyDragsUnsaved == part = "panes" => P!OnlyDragsUnsaved

\* Denizens: a subject is covered for no more than a review named.
AuthorityWasReviewed == part = "denizens" => D!AuthorityWasReviewed

\* Denizens: a start covers every resident for what its world records, but for an
\* install cut short.
StartsKeepGrants ==
    [][part = "denizens" /\ D!Restart => D!GrantsSurviveRestart]_<<part, denizensVars>>

\* Input: caret and highlight stay on the line.
LineSound == part = "input" => I!LineSound

\* Input: the install confirmed is the one the chosen row shows.
ReviewedIsConfirmed == part = "input" => I!ReviewedIsConfirmed

\* Input: no drag outlives the buttons.
DragsEnd == part = "input" => I!DragsEnd

=============================================================================
