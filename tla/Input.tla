--------------------------------- MODULE Input ---------------------------------
(***************************************************************************)
(* What the user's hands reach: the omnibar and the catalog it offers      *)
(* (ui.rs, app/omnibar_arms.rs, app/palette.rs, commit_omnibar), the lane   *)
(* a key takes (shell/keys.rs) and the surface a press, a move and a        *)
(* release go to (shell/input.rs, shell/gestures.rs, lens presses).         *)
(*                                                                         *)
(* The line's text is a sequence of three characters: the mark of the      *)
(* actions lane, one that is two bytes wide and matches a node and the     *)
(* labels of the session rows, and one that makes the text an address.  A  *)
(* row is its kind and what its label names, which its action need not     *)
(* carry.  What a committed action does is its own arm's; here it moves    *)
(* the review, the session, the focus and the line.  What the canvas makes *)
(* of the presses and releases it gets is its own.                         *)
(***************************************************************************)
EXTENDS Integers, Sequences, SequencesExt, FiniteSets

CONSTANTS
    Session,
    Hosted,     \* nodes whose content can have a session
    Editor,     \* those of them that are knot documents
    Helper,     \* packs that can be dropped on the window
    NoHelper,
    MaxText

VARIABLES
    line,       \* the omnibar: whether it is open, its mode, text, caret, rows
    focus,      \* the canvas, the chrome, or a page
    capture,    \* the page or the canvas, if the last press hit it, until a release
    held,       \* buttons that are down
    drag,       \* the workbench tab, workbench seam or pane seam being dragged
    review,     \* the install whose review is pending
    session,    \* the current one
    live,       \* pages with a session
    granted     \* the review that the return key has just granted, and the one its
                \* row showed

inputVars == <<line, focus, capture, held, drag, review, session, live, granted>>
pointer == <<capture, held, drag>>

Ungranted == granted' = <<>>

Nowhere == "nowhere"
Chars == {">", "w", "/"}
Width(c) == IF c = "w" THEN 2 ELSE 1
Bytes(text) == Len(text) + Cardinality({k \in DOMAIN text : text[k] = "w"})
Boundaries(text) == {Bytes(SubSeq(text, 1, k)) : k \in 0..Len(text)}
Before(text, cursor) == CHOOSE k \in 0..Len(text) : Bytes(SubSeq(text, 1, k)) = cursor

Shut == [open |-> FALSE, mode |-> Nowhere, text |-> <<>>, cursor |-> 0,
         rows |-> <<>>, selected |-> 0]

-----------------------------------------------------------------------------
(***************************************************************************)
(* The catalog and the rows.                                               *)
(***************************************************************************)
Row(kind, of) == [kind |-> kind, of |-> of]
Hint == Row("hint", Nowhere)

\* palette_actions: of the fixed verbs one opens the line again, the others leave
\* the line be.
Verbs == <<Row("rename", Nowhere), Row("command", Nowhere)>>

\* The other sessions, their labels what the wide character is looked for in.
Switches(here) == SetToSeq({Row("switch", s) : s \in Session \ {here}})

\* available_actions: a pending review leads, then what is done with the
\* residents, the other sessions and the sections, then the fixed verbs.
Catalog(staged, here) ==
    (IF staged = NoHelper THEN <<>> ELSE <<Row("confirm", staged), Row("cancel", staged)>>)
        \o Switches(here) \o Verbs

\* recompute_suggestions for a text that is not a new name.
Rows(text, staged, here) ==
    LET found ==
            IF text = <<>> THEN <<>>
            ELSE IF Head(text) = ">"
            THEN CASE Tail(text) = <<>> -> Catalog(staged, here)
                   [] Tail(text) = <<"w">> -> Switches(here)
                   [] OTHER -> <<>>
            ELSE (IF text = <<"w">> THEN <<Row("node", here)>> ELSE <<>>)
                     \o (IF Contains(text, "/") THEN <<Row("go", Nowhere)>> ELSE <<>>)
    IN IF found = <<>> THEN <<Hint>> ELSE found

Least(a, b) == IF a < b THEN a ELSE b
Recomputed(l, staged, here) ==
    LET rows == IF l.mode = Nowhere THEN Rows(l.text, staged, here) ELSE <<Hint>>
    IN [l EXCEPT !.rows = rows, !.selected = Least(@, Len(rows) - 1)]

\* What a commit takes: the highlighted row, or the address the text spells.
Committed(l) ==
    LET row == IF l.rows = <<>> THEN Hint ELSE l.rows[l.selected + 1] IN
    IF row.kind # "hint" THEN row
    ELSE IF Contains(l.text, "/") THEN Row("go", Nowhere) ELSE Hint

-----------------------------------------------------------------------------
(***************************************************************************)
(* The line.                                                               *)
(***************************************************************************)
Opened(text, cursor, staged, here) ==
    Recomputed([Shut EXCEPT !.open = TRUE, !.text = text, !.cursor = cursor], staged, here)
Handed == IF focus = "chrome" THEN "canvas" ELSE focus

OmnibarOpen(command) ==
    LET text == IF command THEN <<">">> ELSE <<>> IN
    /\ line' = Opened(text, Bytes(text), review, session)
    /\ focus' = "chrome"
    /\ UNCHANGED <<review, session, live>> /\ Ungranted

OmnibarClose ==
    /\ line' = Shut
    /\ focus' = Handed
    /\ UNCHANGED <<review, session, live>> /\ Ungranted

\* Every edit that changed the text recomputes the rows, the first one chosen.
Edited(text, cursor) ==
    line' = Recomputed([line EXCEPT !.text = text, !.cursor = cursor, !.selected = 0],
                       review, session)

OmnibarInsert(c) ==
    LET k == Before(line.text, line.cursor) IN
    /\ Len(line.text) < MaxText
    /\ Edited(InsertAt(line.text, k + 1, c), line.cursor + Width(c))
    /\ UNCHANGED <<focus, review, session, live>> /\ Ungranted

OmnibarBackspace ==
    LET k == Before(line.text, line.cursor) IN
    /\ IF k = 0 THEN UNCHANGED line
       ELSE Edited(RemoveAt(line.text, k), line.cursor - Width(line.text[k]))
    /\ UNCHANGED <<focus, review, session, live>> /\ Ungranted

OmnibarDelete ==
    LET k == Before(line.text, line.cursor) IN
    /\ IF k = Len(line.text) THEN UNCHANGED line
       ELSE Edited(RemoveAt(line.text, k + 1), line.cursor)
    /\ UNCHANGED <<focus, review, session, live>> /\ Ungranted

\* Mutant: a step to the right is one byte.
CaretByByte(move) ==
    /\ line' = [line EXCEPT !.cursor =
           CASE move = "home" -> 0
             [] move = "end" -> Bytes(line.text)
             [] move = "left" -> IF @ = 0 THEN 0 ELSE @ - 1
             [] move = "right" -> Least(@ + 1, Bytes(line.text))]
    /\ UNCHANGED <<focus, review, session, live>> /\ Ungranted

OmnibarCaret(move) ==
    LET k == Before(line.text, line.cursor) IN
    /\ line' = [line EXCEPT !.cursor =
           CASE move = "home" -> 0
             [] move = "end" -> Bytes(line.text)
             [] move = "left" -> IF k = 0 THEN 0 ELSE @ - Width(line.text[k])
             [] move = "right" -> IF k = Len(line.text) THEN @ ELSE @ + Width(line.text[k + 1])]
    /\ UNCHANGED <<focus, review, session, live>> /\ Ungranted

OmnibarMove(delta) ==
    /\ line' = IF line.rows = <<>> THEN line
               ELSE [line EXCEPT !.selected = (@ + delta) % Len(line.rows)]
    /\ UNCHANGED <<focus, review, session, live>> /\ Ungranted

\* Mutant: a second review takes the place of the first under the same rows.
InstallUnlisted(p) ==
    /\ review' = p
    /\ line' = IF line.open THEN line ELSE Opened(<<">">>, 0, p, session)
    /\ focus' = "chrome"
    /\ UNCHANGED <<session, live>> /\ Ungranted

\* A dropped pack is staged and its review put before the user, caret first.
InstallDenizen(p) ==
    /\ review' = p
    /\ line' = Opened(<<">">>, 0, p, session)
    /\ focus' = "chrome"
    /\ UNCHANGED <<session, live>> /\ Ungranted

\* adopt_session: another session has no pending review and a closed line.
Adopted(s) ==
    /\ session' = s
    /\ review' = NoHelper
    /\ live' = {}
    /\ line' = Shut
    /\ focus' = "canvas"

\* The arm of a committed row's action, the line already closed and the focus
\* handed back.  The action of a review names no pack.  The row shown is
\* the one the return key took; what a press saw, of the rows last drawn, is not
\* kept.
Lowered(row, shown) ==
    \/ /\ row.kind = "confirm"
       /\ review' = NoHelper /\ line' = Shut /\ focus' = "canvas"
       /\ granted' = IF review = NoHelper \/ shown = Hint THEN <<>>
                     ELSE <<[done |-> review, shown |-> shown.of]>>
       /\ UNCHANGED <<session, live>>
    \/ /\ row.kind = "cancel"
       /\ review' = NoHelper /\ line' = Shut /\ focus' = Handed
       /\ UNCHANGED <<session, live>> /\ Ungranted
    \/ /\ row.kind = "switch"
       /\ IF row.of = session
          THEN line' = Shut /\ focus' = Handed /\ UNCHANGED <<review, session, live>>
          ELSE Adopted(row.of)
       /\ Ungranted
    \/ /\ row.kind = "rename"
       /\ line' = Recomputed([Shut EXCEPT !.open = TRUE, !.mode = session], review, session)
       /\ focus' = "chrome"
       /\ UNCHANGED <<review, session, live>> /\ Ungranted
    \/ /\ row.kind \in {"command", "node", "go", "hint"}
       /\ line' = Shut /\ focus' = Handed
       /\ UNCHANGED <<review, session, live>> /\ Ungranted

\* A new name is the whole line; anything else is a row.
Commit(l, shown) ==
    IF l.mode # Nowhere
    THEN line' = Shut /\ focus' = Handed /\ UNCHANGED <<review, session, live>> /\ Ungranted
    ELSE Lowered(Committed(l), shown)
OmnibarCommit == Commit(line, Committed(line))

\* A press on a row commits the row that has its number by then.
OmnibarCommitRow(i) ==
    IF i \in DOMAIN line.rows
    THEN Commit([line EXCEPT !.selected = i - 1], Hint)
    ELSE UNCHANGED <<line, focus, review, session, live>> /\ Ungranted

-----------------------------------------------------------------------------
(***************************************************************************)
(* Keys: the editor, the page that reads, the line, the canvas.            *)
(***************************************************************************)
Nothing == UNCHANGED <<line, focus, review, session, live>> /\ Ungranted

\* on_key while the line is open.
LineKey ==
    /\ line.open
    /\ \/ OmnibarClose \/ OmnibarCommit \/ OmnibarBackspace \/ OmnibarDelete
       \/ \E delta \in {-1, 1} : OmnibarMove(delta)
       \/ \E move \in {"left", "right", "home", "end"} : OmnibarCaret(move)
       \/ \E c \in Chars : OmnibarInsert(c)
    /\ UNCHANGED pointer

\* A composition is only drawn; its commit is an insertion.
LineIme ==
    /\ line.open
    /\ \E c \in Chars : OmnibarInsert(c)
    /\ UNCHANGED pointer

\* A page's scroll keys stay in the page and Escape gives the keyboard back; an
\* editor with a focused widget takes every key first, Escape and the chords too.
PageKey(key) ==
    /\ ~line.open /\ focus \in Hosted
    /\ \/ focus \in live \cap Editor /\ Nothing
       \/ key = "escape" /\ focus' = "canvas" /\ UNCHANGED <<line, review, session, live>> /\ Ungranted
       \/ key = "scroll" /\ Nothing
       \/ key = "summon" /\ \E command \in BOOLEAN : OmnibarOpen(command)
    /\ UNCHANGED pointer

\* The canvas's hotkeys, with the focus on the canvas or left on the chrome.
CanvasKey(key) ==
    /\ ~line.open /\ focus \notin Hosted
    /\ \/ key = "summon" /\ \E command \in BOOLEAN : OmnibarOpen(command)
       \/ key = "letter" /\ Nothing
    /\ UNCHANGED pointer

-----------------------------------------------------------------------------
(***************************************************************************)
(* The pointer.                                                            *)
(***************************************************************************)
\* With the line open a press commits the row that is drawn under it or
\* dismisses the line, and goes no further.  The rows drawn are those of the
\* last frame, as many as they were then: the number pressed can be any.
Drawn == Cardinality(Session) + 3
PressLine(button) ==
    /\ line.open /\ button \notin held
    /\ held' = held \cup {button} /\ capture' = Nowhere
    /\ \/ OmnibarClose
       \/ \E i \in 1..Drawn : OmnibarCommitRow(i)
    /\ UNCHANGED drag

\* The context menu.
PressRight ==
    /\ ~line.open /\ "right" \notin held
    /\ held' = held \cup {"right"} /\ capture' = Nowhere
    /\ OmnibarOpen(TRUE)
    /\ UNCHANGED drag

PressPage(button, p) ==
    /\ ~line.open /\ button \notin held \cup {"right"} /\ p \in live
    /\ held' = held \cup {button} /\ capture' = p
    /\ focus' = p
    /\ UNCHANGED <<line, review, session, live, drag>> /\ Ungranted

\* What a pane's rows do: an address or a node of the bin, the canvas expanded,
\* another session.
PaneClicked ==
    \/ Nothing
    \/ focus' = "canvas" /\ UNCHANGED <<line, review, session, live>> /\ Ungranted
    \/ (\E s \in Session \ {session} : Adopted(s)) /\ Ungranted

\* A pane: its rows act, the workbench begins a drag.  A seam begins one too.
PressPane(button, on) ==
    /\ ~line.open /\ button \notin held \cup {"right"}
    /\ held' = held \cup {button} /\ capture' = Nowhere
    /\ \/ /\ on \in {"tab", "workbench seam"} /\ button = "left"
          /\ drag' = drag \cup {on} /\ Nothing
       \/ on = "seam" /\ drag' = drag \cup {on} /\ Nothing
       \/ on = "row" /\ UNCHANGED drag /\ IF button = "left" THEN PaneClicked ELSE Nothing

PressCanvas(button) ==
    /\ ~line.open /\ button \notin held \cup {"right"}
    /\ held' = held \cup {button} /\ capture' = "canvas"
    /\ focus' = "canvas"
    /\ UNCHANGED <<line, review, session, live, drag>> /\ Ungranted

DragEnds ==
    drag' = drag \ {IF "workbench seam" \in drag THEN "workbench seam"
                    ELSE IF "tab" \in drag THEN "tab" ELSE "seam"}

\* Mutant: a release under an open line is swallowed as the press is.
ReleaseSwallowed(button) ==
    /\ button \in held
    /\ held' = held \ {button} /\ capture' = Nowhere
    /\ IF line.open \/ (button = "left" /\ capture \in Hosted) THEN UNCHANGED drag ELSE DragEnds
    /\ Nothing

\* The release goes to the page that was pressed, to the drag under way, or to
\* the canvas if the press that is captured was the canvas's.
Release(button) ==
    /\ button \in held
    /\ held' = held \ {button} /\ capture' = Nowhere
    /\ IF button = "left" /\ capture \in Hosted THEN UNCHANGED drag ELSE DragEnds
    /\ Nothing

\* A press in another window reaches the shared panes and pages, whatever the
\* primary's line shows.
PressLens ==
    /\ \/ \E p \in live \cup {"canvas"} :
            focus' = p /\ UNCHANGED <<line, review, session, live>> /\ Ungranted
       \/ PaneClicked
    /\ UNCHANGED pointer

DropFile ==
    /\ \/ \E p \in Helper : InstallDenizen(p)
       \/ Nothing
    /\ UNCHANGED pointer

-----------------------------------------------------------------------------
\* Sessions of pages come and go behind the keyboard's back.
ContentChanges ==
    /\ \E p \in Hosted : live' = IF p \in live THEN live \ {p} ELSE live \cup {p}
    /\ UNCHANGED <<line, focus, review, session, pointer>> /\ Ungranted

\* A first launch opens the line by itself.
InputInit ==
    /\ session \in Session /\ review = NoHelper /\ live = {} /\ granted = <<>>
    /\ \/ line = Shut /\ focus = "canvas"
       \/ line = Opened(<<>>, 0, NoHelper, session) /\ focus = "chrome"
    /\ capture = Nowhere /\ held = {} /\ drag = {}

InputNext ==
    \/ LineKey \/ LineIme \/ PressRight \/ PressLens \/ DropFile \/ ContentChanges
    \/ \E key \in {"letter", "scroll", "escape", "summon"} : PageKey(key) \/ CanvasKey(key)
    \/ \E button \in {"left", "middle"} :
        \/ PressLine(button) \/ PressCanvas(button) \/ Release(button)
        \/ \E p \in Hosted : PressPage(button, p)
        \/ \E on \in {"tab", "workbench seam", "seam", "row"} : PressPane(button, on)
    \/ Release("right")

InputSpec == InputInit /\ [][InputNext]_inputVars

-----------------------------------------------------------------------------
(***************************************************************************)
(* Properties.                                                             *)
(***************************************************************************)
\* The caret is on a character boundary of the text and the highlight on a row:
\* inserting, removing and committing never index out of the line, whatever
\* mixes of keys, compositions, drops and switches came before.
LineSound ==
    line.open =>
        /\ line.cursor \in Boundaries(line.text)
        /\ line.selected \in 0..(Len(line.rows) - 1)

\* The install that the return key confirms is the one whose review the chosen
\* row shows, although the row's action names none.
ReviewedIsConfirmed ==
    granted # <<>> => granted[1].done = granted[1].shown

\* No drag of a tab or a seam outlives the buttons: whichever was pressed beside
\* it, and whatever the release was delivered to, the last one up ends it.
DragsEnd == held = {} => drag = {}

=============================================================================
