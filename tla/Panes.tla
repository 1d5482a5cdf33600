-------------------------------- MODULE Panes --------------------------------
(***************************************************************************)
(* The arrangement: one split tree of panes per window (panes/layout.rs,   *)
(* app/pane_arms.rs), the lens windows that show all but the first         *)
(* (shell/lens.rs), the seams being dragged (shell/input.rs), what of it   *)
(* is in frame.json and windows.json, and the surfaces the two plans       *)
(* compose from it (Shell::surface_plan, Shell::lens_plan).                *)
(*                                                                         *)
(* A tree is a function from the paths of its leaves: a path is a sequence *)
(* of 1 (first) and 2 (second), and the splits are the proper prefixes.    *)
(* A ratio is told apart only by whether it was moved from the even one a  *)
(* split starts with.  Slot 1 is the primary window's tree, slot n + 1 the *)
(* one of the n-th lens, counted from 1; a lens that was closed leaves     *)
(* its slot behind.  The tiling inside a Workbench pane is platen's; of it *)
(* only the tiled nodes and those in front are kept.  Which node is        *)
(* focused, and which sessions are live, is ContentLane's: here any may be.*)
(***************************************************************************)
EXTENDS Integers, FiniteSets, SequencesExt

CONSTANTS
    Tile,       \* nodes that can be tiled
    Summoned,   \* contents a pane can be summoned with
    Section,    \* list sections a pane can compose
    MaxPaneId,  \* bound: pane ids minted in a session
    MaxEdited,  \* bound: pane ids minted when sections are edited
    MaxDragged, \* bound: pane ids minted when a seam is pressed
    MaxLens     \* bound: lens slots of a session

VARIABLES
    layout,    \* frisket and lenses: the trees, from slot 0 on
    active,    \* active_pane: its id, or NoPane
    maximized, \* the pane that takes the whole primary window, or NoPane
    nextPane,  \* next_pane_id
    tiled, front,  \* nodes tiled in the workbench, and those in front
    saved,     \* frame.json, windows.json and workbench.json of the session
    pending, windows,  \* lens windows asked for, and how many show each lens
    seam, lensSeam     \* the seams held: the path of a split, with its slot in a lens

panesVars == <<layout, active, maximized, nextPane, tiled, front, saved,
               pending, windows, seam, lensSeam>>
tree == <<layout, active, maximized, nextPane>>
bench == <<tiled, front>>
seams == <<seam, lensSeam>>

None == <<>>
NoPane == -1
Slots == 1..MaxLens
Pane(id, content, node) == [id |-> id, content |-> content, node |-> node,
                            sections |-> {}]
Leaf(pane) == [panes |-> [p \in {<<>>} |-> pane], moved |-> {}]
Gone == [panes |-> <<>>, moved |-> {}]
Desk == <<Leaf(Pane(0, "Orrery", None))>>   \* the primary's default, no lens

-----------------------------------------------------------------------------
(***************************************************************************)
(* Trees.                                                                  *)
(***************************************************************************)
Leaves(l) == DOMAIN l.panes
Splits(l) == {p \in UNION {Prefixes(q) : q \in Leaves(l)} : p \notin Leaves(l)}
Ids(l) == {l.panes[p].id : p \in Leaves(l)}
Shows(l, content) == {p \in Leaves(l) : l.panes[p].content = content}
Live == {s \in DOMAIN layout : layout[s] # Gone}

\* path_of and space_of: ids are minted from one counter, so there is one.
PathOf(l, id) == CHOOSE p \in Leaves(l) : l.panes[p].id = id
Spaces(id) == {s \in Live : id \in Ids(layout[s])}

\* Depth first, first child first.
Later(p, q) == \E k \in 1..Len(q) : /\ k <= Len(p) /\ q[k] < p[k]
                                   /\ SubSeq(p, 1, k - 1) = SubSeq(q, 1, k - 1)
IsLastLeaf(l, p) == p \in Leaves(l) /\ \A q \in Leaves(l) \ {p} : Later(p, q)

\* summon_leaf on the right of a leaf: the leaf becomes an even split.
SummonLeaf(l, at, pane) ==
    [l EXCEPT !.panes =
        [p \in (Leaves(l) \ {at}) \cup {Append(at, 1), Append(at, 2)} |->
            IF p = Append(at, 1) THEN l.panes[at]
            ELSE IF p = Append(at, 2) THEN pane ELSE l.panes[p]]]

\* close_leaf: the sibling takes its parent's place, with all it holds.  The
\* root is never removed.
CloseLeaf(l, at) ==
    LET parent == Front(at)
        sibling == Append(parent, 3 - Last(at))
        Lifted(p) == IF IsPrefix(sibling, p)
                     THEN parent \o SubSeq(p, Len(sibling) + 1, Len(p)) ELSE p
        rest == Leaves(l) \ {at}
    IN [panes |-> [q \in {Lifted(p) : p \in rest} |->
                      l.panes[CHOOSE p \in rest : Lifted(p) = q]],
        moved |-> {Lifted(p) : p \in l.moved \ {parent}}]

SetRatio(l, at) == IF at \in Splits(l) THEN [l EXCEPT !.moved = @ \cup {at}] ELSE l

-----------------------------------------------------------------------------
(***************************************************************************)
(* Saving, and the steps of the arrangement.                               *)
(***************************************************************************)
Image(l, t, f) == [layout |-> l, tiled |-> t, front |-> f]

\* Every arrangement edit ends in SaveSession, except the moves of a drag.
Saved == saved' = Image(layout', tiled', front')
SaveSession == UNCHANGED <<tree, bench, pending, windows, seams>> /\ Saved

\* Where a summoned pane goes: beside the active pane, in its own window, else
\* beside the primary's graph.
Anchor ==
    IF active # NoPane /\ Spaces(active) # {}
    THEN LET s == CHOOSE s \in Spaces(active) : TRUE
         IN <<s, PathOf(layout[s], active)>>
    ELSE <<1, IF Shows(layout[1], "Orrery") = {} THEN <<>>
              ELSE CHOOSE p \in Shows(layout[1], "Orrery") : TRUE>>

Summoning(content) ==
    LET s == Anchor[1] IN
    /\ nextPane <= MaxPaneId
    /\ layout' = [layout EXCEPT ![s] =
                    SummonLeaf(@, Anchor[2], Pane(nextPane, content, None))]
    /\ active' = nextPane
    /\ nextPane' = nextPane + 1
    /\ UNCHANGED maximized

SummonPane(content) ==
    /\ Summoning(content)
    /\ UNCHANGED <<bench, pending, windows, seams>>
    /\ Saved

\* The active pane, where it may be closed: not when it is all its window has.
Closable(s, p) ==
    /\ active # NoPane /\ s \in Spaces(active)
    /\ p = PathOf(layout[s], active) /\ p # <<>>

CloseActivePane ==
    /\ \E s \in Live : \E p \in Leaves(layout[s]) :
        /\ Closable(s, p)
        /\ layout' = [layout EXCEPT ![s] = CloseLeaf(@, p)]
    /\ active' = NoPane
    /\ maximized' = IF maximized = active THEN NoPane ELSE maximized
    /\ UNCHANGED <<nextPane, bench, pending, windows, seams>>
    /\ Saved

\* seed_lens_space: one more slot with a graph of its own, and its window.
Seeded(id) == Leaf(Pane(id, "Orrery", None))

IsGreatest(x, S) == x \in S /\ \A y \in S : y <= x

\* land_leaf_in_lens, with ls the trees and id the next id: in the newest lens
\* that is not the one left, behind its last leaf, else in a new one.
Landing(ls, id, pane, left) ==
    LET there == {s \in DOMAIN ls : s > 1 /\ s # left /\ ls[s] # Gone} IN
    \/ /\ there = {} /\ Len(ls) <= MaxLens /\ id <= MaxPaneId
       /\ layout' = Append(ls, SummonLeaf(Seeded(id), <<>>, pane))
       /\ nextPane' = id + 1
       /\ pending' = Append(pending, Len(ls))
    \/ /\ id <= MaxPaneId + 1
       /\ \E s \in DOMAIN ls : \E at \in Leaves(ls[s]) :
            /\ IsGreatest(s, there) /\ IsLastLeaf(ls[s], at)
            /\ layout' = [ls EXCEPT ![s] = SummonLeaf(@, at, pane)]
       /\ nextPane' = id
       /\ UNCHANGED pending

TearOutActivePane ==
    /\ \E s \in Live : \E p \in Leaves(layout[s]) :
        /\ Closable(s, p)
        /\ Landing([layout EXCEPT ![s] = CloseLeaf(@, p)], nextPane,
                   layout[s].panes[p], s)
    /\ maximized' = IF maximized = active THEN NoPane ELSE maximized
    /\ UNCHANGED <<active, bench, windows, seams>>
    /\ Saved

\* platen's own affair which tiles are in front, but something is.
Fronted(m) == front' \in {f \in SUBSET tiled' : m \in f}
Untiled(m) ==
    /\ m \in tiled
    /\ tiled' = tiled \ {m}
    /\ front' \in {f \in SUBSET tiled' : front \ {m} \subseteq f /\ (f = {} => tiled' = {})}

TearOutTile(m) ==
    /\ Untiled(m)
    /\ Landing(layout, nextPane + 1, Pane(nextPane, "Tile", m), 0)
    /\ active' = nextPane
    /\ UNCHANGED <<maximized, windows, seams>>
    /\ Saved

\* The pane is summoned when the primary has none, wherever else there is one.
OpenInWorkbench(m) ==
    /\ tiled' = tiled \cup {m} /\ Fronted(m)
    /\ IF Shows(layout[1], "Workbench") = {}
       THEN Summoning("Workbench") ELSE UNCHANGED tree
    /\ UNCHANGED <<pending, windows, seams>>
    /\ Saved

CloseWorkbenchTile(m) ==
    /\ Untiled(m)
    /\ UNCHANGED <<tree, pending, windows, seams>>
    /\ Saved

\* Activating a tab, stacking or splitting: m comes to the front.
RaiseTile(m) ==
    /\ m \in tiled
    /\ UNCHANGED tiled /\ Fronted(m)
    /\ UNCHANGED <<tree, pending, windows, seams>>
    /\ Saved

\* The primary window only; never saved.
ToggleMaximizePane ==
    /\ active # NoPane /\ 1 \in Spaces(active)
    /\ maximized' = IF maximized = active THEN NoPane ELSE active
    /\ UNCHANGED <<layout, active, nextPane, bench, saved, pending, windows, seams>>

SetActivePaneDivider ==
    /\ \E s \in Live : \E p \in Leaves(layout[s]) :
        Closable(s, p) /\ layout' = [layout EXCEPT ![s] = SetRatio(@, Front(p))]
    /\ UNCHANGED <<active, maximized, nextPane, bench, pending, windows, seams>>
    /\ Saved

\* A section is added or taken away in the pane's own leaf; the order of the
\* sections is left out.
Toggled(sections, x) == IF x \in sections THEN sections \ {x} ELSE sections \cup {x}

EditSections ==
    /\ nextPane <= MaxEdited + 1
    /\ \E s \in Live : \E p \in Shows(layout[s], "Gloss") :
        \E x \in Section : layout' = [layout EXCEPT ![s].panes[p].sections = Toggled(@, x)]
    /\ UNCHANGED <<active, maximized, nextPane, bench, pending, windows, seams>>
    /\ Saved

\* The one arrangement edit that does not save.
NewWindow ==
    /\ Len(layout) <= MaxLens /\ nextPane <= MaxPaneId
    /\ layout' = Append(layout, Seeded(nextPane))
    /\ nextPane' = nextPane + 1
    /\ pending' = Append(pending, Len(layout))
    /\ UNCHANGED <<active, maximized, bench, saved, windows, seams>>

-----------------------------------------------------------------------------
(***************************************************************************)
(* The shell: windows, presses and drags.                                  *)
(***************************************************************************)
\* The newest request first.  A window that cannot be made is not tried again.
DrainPendingWindow ==
    /\ pending # <<>>
    /\ pending' = Front(pending)
    /\ \/ windows' = [windows EXCEPT ![Last(pending)] = @ + 1]
       \/ UNCHANGED windows
    /\ UNCHANGED <<tree, bench, saved, seams>>

\* Mutant: the slot is removed, and every later ordinal shifts.
CloseLensShifting(o) ==
    /\ windows[o] > 0
    /\ windows' = [windows EXCEPT ![o] = @ - 1]
    /\ layout' = RemoveAt(layout, o + 1)
    /\ UNCHANGED <<active, maximized, nextPane, bench, pending, seams>>
    /\ Saved

CloseLens(o) ==
    /\ windows[o] > 0
    /\ windows' = [windows EXCEPT ![o] = @ - 1]
    /\ layout' = [layout EXCEPT ![o + 1] = Gone]
    /\ UNCHANGED <<active, maximized, nextPane, bench, pending, seams>>
    /\ Saved

\* Spaces a press can land in, and the leaves that show there.
Shown == {s \in Live : s = 1 \/ windows[s - 1] > 0}
Visible(s) ==
    IF s = 1 /\ maximized \in Ids(layout[1]) THEN {PathOf(layout[1], maximized)}
    ELSE Leaves(layout[s])

PressPane ==
    /\ \E s \in Shown : \E p \in Visible(s) :
        /\ layout[s].panes[p].content # "Orrery"
        /\ active' = layout[s].panes[p].id
    /\ UNCHANGED <<layout, maximized, nextPane, bench, saved, pending, windows, seams>>

\* A maximized pane hides the seams of the primary.  There is one pointer.
PressSeam ==
    /\ seam = None /\ lensSeam = None /\ nextPane <= MaxDragged + 1
    /\ \E s \in Shown : \E p \in Splits(layout[s]) :
        IF s = 1
        THEN /\ maximized \notin Ids(layout[1])
             /\ seam' = <<p>> /\ UNCHANGED lensSeam
        ELSE lensSeam' = <<s, p>> /\ UNCHANGED seam
    /\ UNCHANGED <<tree, bench, saved, pending, windows>>

\* The ratio goes to whatever is at that path now, and is not saved.
MoveSeam ==
    /\ \/ seam # None /\ layout' = [layout EXCEPT ![1] = SetRatio(@, seam[1])]
       \/ /\ lensSeam # None /\ lensSeam[1] \in Live
          /\ layout' = [layout EXCEPT ![lensSeam[1]] = SetRatio(@, lensSeam[2])]
    /\ UNCHANGED <<active, maximized, nextPane, bench, saved, pending, windows, seams>>

\* Mutant: the settled ratio is never persisted.
ReleaseUnsaved ==
    /\ \/ seam # None /\ seam' = None /\ UNCHANGED lensSeam
       \/ lensSeam # None /\ lensSeam' = None /\ UNCHANGED seam
    /\ UNCHANGED <<tree, bench, saved, pending, windows>>

ReleaseSeam ==
    /\ \/ seam # None /\ seam' = None /\ UNCHANGED lensSeam
       \/ lensSeam # None /\ lensSeam' = None /\ UNCHANGED seam
    /\ UNCHANGED <<tree, bench, pending, windows>>
    /\ Saved

-----------------------------------------------------------------------------
(***************************************************************************)
(* Adopting a session: at a switch, after saving, and at a restart.        *)
(***************************************************************************)
\* Every lens that is there is asked for, in their order.
Asked(l) ==
    LET lenses == {o \in 1..(Len(l) - 1) : l[o + 1] # Gone} IN
    {q \in [1..Cardinality(lenses) -> lenses] : \A i, j \in DOMAIN q : i < j => q[i] < q[j]}
PaneIds(l) == UNION {Ids(l[s]) : s \in DOMAIN l}

Adopt(disk) ==
    /\ saved' = disk
    /\ layout' = disk.layout
    /\ tiled' = disk.tiled /\ front' = disk.front
    /\ \E id \in PaneIds(layout') : IsGreatest(id, PaneIds(layout')) /\ nextPane' = id + 1
    /\ active' = NoPane /\ maximized' = NoPane
    /\ pending' \in Asked(layout')
    /\ windows' = [o \in Slots |-> 0]
    /\ lensSeam' = None

\* Saved, left, and another session adopted: one arranged alike, or a fresh
\* one.  A seam of the primary stays held.
Default == Image(Desk, {}, {})
SwitchSession ==
    /\ Adopt(Image(layout, tiled, front)) \/ Adopt(Default)
    /\ UNCHANGED seam

\* The process ends without a last save, and is started again.
Restart == Adopt(saved) /\ seam' = None

PanesInit ==
    /\ saved = Default
    /\ layout = Desk /\ active = NoPane /\ maximized = NoPane /\ nextPane = 1
    /\ tiled = {} /\ front = {}
    /\ pending = <<>> /\ windows = [o \in Slots |-> 0]
    /\ seam = None /\ lensSeam = None

PanesNext ==
    \/ \E c \in Summoned : SummonPane(c)
    \/ CloseActivePane \/ TearOutActivePane
    \/ \E m \in Tile : OpenInWorkbench(m) \/ CloseWorkbenchTile(m) \/ TearOutTile(m)
                       \/ RaiseTile(m)
    \/ ToggleMaximizePane \/ SetActivePaneDivider \/ EditSections \/ NewWindow
    \/ SaveSession \/ DrainPendingWindow
    \/ \E o \in Slots : CloseLens(o)
    \/ PressPane \/ PressSeam \/ MoveSeam \/ ReleaseSeam
    \/ SwitchSession \/ Restart

PanesSpec == PanesInit /\ [][PanesNext]_panesVars

-----------------------------------------------------------------------------
(***************************************************************************)
(* What an arrangement has to be.                                          *)
(***************************************************************************)
\* No pane is in two places, and no id is minted twice (App::space_of: "Pane
\* ids are minted from one counter, so the answer is unique").
PlacedOnce ==
    /\ \A s \in Live : \A p, q \in Leaves(layout[s]) :
        layout[s].panes[p].id = layout[s].panes[q].id => p = q
    /\ \A s, t \in Live : s # t => Ids(layout[s]) \cap Ids(layout[t]) = {}
    /\ \A id \in PaneIds(layout) : id < nextPane

\* Every window keeps the graph it was opened with, through every close and
\* tear-out (close_leaf, tear_out_active_pane).
GraphKept == \A s \in Live : Cardinality(Shows(layout[s], "Orrery")) = 1

\* No space has two windows, and no window shows a closed one
\* (drain_pending_windows, the lens's CloseRequested, adopt_session).
OneWindowEach ==
    \A o \in Slots :
        LET shown == windows[o] + Cardinality({i \in DOMAIN pending : pending[i] = o})
        IN shown <= (IF o + 1 \in Live THEN 1 ELSE 0)

ArrangementSound == PlacedOnce /\ GraphKept /\ OneWindowEach

\* With no seam held, a crash loses nothing of the arrangement but windows
\* just opened and still bare (SaveSession at the end of each arm; frame.json
\* and windows.json "survive a restart").
OnlyDragsUnsaved ==
    seam = None /\ lensSeam = None =>
        /\ saved.tiled = tiled /\ saved.front = front
        /\ IsPrefix(saved.layout, layout)
        /\ \A s \in DOMAIN layout \ DOMAIN saved.layout :
            Leaves(layout[s]) = {<<>>} /\ Shows(layout[s], "Orrery") # {}

=============================================================================
