----------------------------- MODULE ContentLane -----------------------------
(***************************************************************************)
(* The content lane and the browse lane: a node's document from the intent *)
(* to show it to its engine session and back (content.rs,                  *)
(* app/node_arms.rs, the content port of shell/effects.rs), its page and   *)
(* favicon from the request to the node's face (browse.rs), and what of it *)
(* comes back when a session is adopted (app/session_lifecycle.rs).        *)
(*                                                                         *)
(* The app and the shell share one thread, and an action's effects run     *)
(* before the next event: an action here is the arm with all its effects,  *)
(* so a spawn succeeds or fails within it.  The fetch actor answers later, *)
(* in any order.  A document is told apart by the engine it was routed to, *)
(* a face by what of the page reached it.  The engine registry, the fetch  *)
(* actor, the canvas and the stored facets are external.  When the bin     *)
(* lists its records is RecycleBin's: here the app sees those of the session*)
(* shown.                                                                  *)
(***************************************************************************)
EXTENDS Integers, Sequences, SequencesExt

CONSTANTS
    Page,         \* nodes, ever
    Address,
    Web,          \* the addresses that can be fetched
    AddressOf,    \* [Page -> Address]
    Workspace,    \* sessions of the profile
    Viewer,       \* engines a node can be pinned to
    Managed,      \* bound: nodes that are pinned to a viewer and deleted
    NoPage,
    MaxAsked      \* bound: requests in flight

VARIABLES
    here, pages, chosen,      \* session, its nodes, and the focused one
    content, facts,           \* ContentStates: lifecycle and mirrored engine
    engines,                  \* content_sessions: the engine of each session
    browser, facets,          \* BrowserNodeStates, and the web facets of a node
    face,                     \* what of its page a node shows
    disk,                     \* graph.json and facets.json of each session
    binned,                   \* records of each session's bin
    waiting, chasing,         \* PendingFetches: the requesters by address
    askedPages, askedIcons,   \* requests the fetch actor has not answered
    minted                    \* the nodes that were ever in a graph

contentVars == <<here, pages, chosen, content, facts, engines, browser, facets,
                 face, disk, binned, waiting, chasing,
                 askedPages, askedIcons, minted>>
documents == <<content, facts, engines>>
fetches == <<waiting, chasing, askedPages, askedIcons>>

None == "none"
Unkept == [on |-> FALSE, viewer |-> None]   \* no entry in the browser states
Unpinned == "auto"

\* A viewer that is pinned is an engine's.
ASSUME ContentAssumption ==
    /\ NoPage \notin Page /\ Managed \subseteq Page
    /\ None \notin Viewer /\ Unpinned \notin Viewer

-----------------------------------------------------------------------------
(***************************************************************************)
(* The sidecar.                                                            *)
(***************************************************************************)
FlipSpawns(p) == content[p] \notin {"live", "requested"}

\* refresh_browser_states: entries of vanished nodes drop, and content-on
\* mirrors the lifecycle.
Refreshed(b, ps, states) ==
    [p \in Page |->
        LET on == states[p] \in {"live", "requested"} IN
        IF p \notin ps \/ (~on /\ b[p] = Unkept) THEN Unkept
        ELSE [on |-> on, viewer |-> IF b[p] = Unkept THEN Unpinned ELSE b[p].viewer]]

\* The facets f with the entries written over them.
Written(b, f) == [p \in Page |-> IF b[p] # Unkept THEN b[p] ELSE f[p]]

\* save_session, from the states b and the facets f.
Save(b, f) ==
    /\ browser' = Refreshed(b, pages', content')
    /\ facets' = Written(browser', f)
    /\ disk' = [disk EXCEPT ![here] = [pages |-> pages', face |-> face', web |-> facets']]

Unsaved == UNCHANGED <<browser, facets, disk>>

-----------------------------------------------------------------------------
(***************************************************************************)
(* The content port.                                                       *)
(***************************************************************************)
\* The pinned viewer, or where the policy routes an unpinned node.
Routed(states, p) == IF states[p].viewer \in Viewer THEN states[p].viewer ELSE "routed"

\* SpawnContent for the nodes ps, run and folded; those of up come up.
\* A failure leaves the session that was there.
Spawned(ps, up, kept, states) ==
    /\ content' = [p \in Page |-> IF p \in up THEN "live"
                                  ELSE IF p \in ps THEN "failed" ELSE content[p]]
    /\ facts' = [p \in Page |-> IF p \in up THEN Routed(states, p)
                                ELSE IF p \in ps THEN None ELSE facts[p]]
    /\ engines' = [p \in Page |-> IF p \in up THEN Routed(states, p) ELSE kept[p]]

Closed(p) == [engines EXCEPT ![p] = None]   \* CloseContent

\* Mutant: the session shown is not closed before the spawn.
RespawnUnclosed(p, states) ==
    IF FlipSpawns(p) THEN UNCHANGED documents
    ELSE \E up \in SUBSET {p} : Spawned({p}, up, engines, states)

\* The close and the spawn that make a shown node pick up its route again.
Respawn(p, states) ==
    IF FlipSpawns(p) THEN UNCHANGED documents
    ELSE \E up \in SUBSET {p} : Spawned({p}, up, Closed(p), states)

ToggleNodeContent ==
    /\ chosen # NoPage
    /\ IF FlipSpawns(chosen)
       THEN \E up \in SUBSET {chosen} : Spawned({chosen}, up, engines, browser)
       ELSE /\ content' = [content EXCEPT ![chosen] = "absent"]
            /\ facts' = [facts EXCEPT ![chosen] = None]
            /\ engines' = Closed(chosen)
    /\ UNCHANGED <<here, pages, chosen, face, minted, binned, fetches>>
    /\ Unsaved

\* The tile itself is of Panes.
OpenInWorkbench ==
    /\ chosen # NoPage
    /\ IF FlipSpawns(chosen)
       THEN \E up \in SUBSET {chosen} : Spawned({chosen}, up, engines, browser)
       ELSE UNCHANGED documents
    /\ UNCHANGED <<here, pages, chosen, face, minted, binned, fetches>>
    /\ Save(browser, facets)

SetViewerOverride(p, viewer) ==
    LET states == [browser EXCEPT ![p].viewer = viewer] IN
    /\ p \in pages \cap Managed
    /\ Respawn(p, states)
    /\ UNCHANGED <<here, pages, chosen, face, minted, binned, fetches>>
    /\ Save(states, facets)

-----------------------------------------------------------------------------
(***************************************************************************)
(* Fetches.                                                                *)
(***************************************************************************)
InFlight == SumFunction(askedPages) + SumFunction(askedIcons)

\* FetchPage: the requester is noted before the actor is told.
Fetching(p) ==
    LET a == AddressOf[p] IN
    IF a \in Web
    THEN /\ InFlight < MaxAsked
         /\ waiting' = [waiting EXCEPT ![a] = Append(@, p)]
         /\ askedPages' = [askedPages EXCEPT ![a] = @ + 1]
         /\ UNCHANGED <<chasing, askedIcons>>
    ELSE UNCHANGED fetches

Chase(p) ==
    LET a == AddressOf[p] IN
    /\ chasing' = [chasing EXCEPT ![a] = Append(@, p)]
    /\ askedIcons' = [askedIcons EXCEPT ![a] = @ + 1]

\* take_one: the last requester of the address, if any.
Requester(table, a) == IF table[a] = <<>> THEN NoPage ELSE Last(table[a])
\* Mutant: the first answer answers every requester.
TakeAll(table, a) == [table EXCEPT ![a] = <<>>]

TakeOne(table, a) == [table EXCEPT ![a] = IF @ = <<>> THEN @ ELSE Front(@)]

StillCurrent(p, a) == p \in pages /\ AddressOf[p] = a

\* A page's answer: a title for HTML, and an icon to chase if it has one.
PageFetched(a, outcome) ==
    LET p == Requester(waiting, a) IN
    /\ askedPages[a] > 0
    /\ askedPages' = [askedPages EXCEPT ![a] = @ - 1]
    /\ waiting' = TakeOne(waiting, a)
    /\ UNCHANGED <<here, pages, chosen, documents, minted, binned>>
    /\ IF StillCurrent(p, a)
       THEN /\ face' = IF outcome \in {"titled", "linked"}
                       THEN [face EXCEPT ![p] = @ \cup {"title"}] ELSE face
            /\ IF outcome = "linked" THEN InFlight <= MaxAsked /\ Chase(p)
               ELSE UNCHANGED <<chasing, askedIcons>>
            /\ Save(browser, facets)
       ELSE UNCHANGED <<face, chasing, askedIcons>> /\ Unsaved

\* Mutant: the icon reaches the face and not the disk.
FaviconUnsaved(a, decodes) ==
    LET p == Requester(chasing, a) IN
    /\ askedIcons[a] > 0
    /\ askedIcons' = [askedIcons EXCEPT ![a] = @ - 1]
    /\ chasing' = TakeOne(chasing, a)
    /\ face' = IF decodes /\ StillCurrent(p, a)
               THEN [face EXCEPT ![p] = @ \cup {"icon"}] ELSE face
    /\ UNCHANGED <<here, pages, chosen, documents, minted, binned, waiting, askedPages>>
    /\ Unsaved

\* An icon's answer: saved when the node's face changed.
FaviconFetched(a, decodes) ==
    LET p == Requester(chasing, a)
        lands == decodes /\ StillCurrent(p, a)
    IN
    /\ askedIcons[a] > 0
    /\ askedIcons' = [askedIcons EXCEPT ![a] = @ - 1]
    /\ chasing' = TakeOne(chasing, a)
    /\ UNCHANGED <<here, pages, chosen, documents, minted, binned, waiting, askedPages>>
    /\ face' = IF lands THEN [face EXCEPT ![p] = @ \cup {"icon"}] ELSE face
    /\ IF face' # face THEN Save(browser, facets) ELSE Unsaved

-----------------------------------------------------------------------------
(***************************************************************************)
(* Navigation.                                                             *)
(***************************************************************************)
\* The canvas's visit: a node at the address, or a new one, focused.
Visit(a, p) ==
    /\ AddressOf[p] = a
    /\ \/ p \in pages
       \/ p \notin minted /\ \A q \in pages : AddressOf[q] # a
    /\ pages' = pages \cup {p}
    /\ minted' = minted \cup {p}
    /\ chosen' = p

OpenAddress(a) ==
    \E p \in Page :
        /\ Visit(a, p)
        /\ Fetching(p)
        /\ UNCHANGED <<here, documents, face, binned>>
        /\ Unsaved

\* Back and forward: a revisit of an address opened before, never a fetch.
\* Which the history holds, and where it stands, is its own.
Revisit(a) ==
    /\ \E p \in minted : AddressOf[p] = a
    /\ \E p \in Page : Visit(a, p)
    /\ UNCHANGED <<here, documents, face, binned, fetches>>
    /\ Unsaved

SelectNode(p) ==
    /\ p \in pages \ {chosen}
    /\ chosen' = p
    /\ UNCHANGED <<here, pages, documents, face, minted, binned, fetches>>
    /\ Unsaved

ReloadFocused ==
    /\ chosen # NoPage
    /\ Fetching(chosen)
    /\ Respawn(chosen, browser)
    /\ UNCHANGED <<here, pages, chosen, face, minted, binned>>
    /\ Unsaved

-----------------------------------------------------------------------------
(***************************************************************************)
(* Deleting, recovering, and adopting a session.                           *)
(***************************************************************************)
\* The record keeps the facets; the session closes; the lifecycle state stays.
DeleteFocusedNode ==
    /\ chosen \in Managed
    /\ pages' = pages \ {chosen}
    /\ chosen' = NoPage
    /\ engines' = Closed(chosen)
    /\ binned' = [binned EXCEPT ![here][chosen] = <<facets[chosen]>>]
    /\ UNCHANGED <<here, content, facts, face, minted, fetches>>
    /\ Save(browser, [facets EXCEPT ![chosen] = Unkept])

\* The node comes back with its id, its title and its facets, and refetches.
RecoverDeletedNode(p) ==
    /\ binned[here][p] # <<>>
    /\ pages' = pages \cup {p}
    /\ chosen' = p
    /\ Fetching(p)
    /\ face' = IF p \in pages THEN face ELSE [face EXCEPT ![p] = @ \ {"icon"}]
    /\ UNCHANGED <<here, documents, minted, binned>>
    /\ Save(browser, [facets EXCEPT ![p] = binned[here][p][1]])

\* adopt_session: everything is as stored, the nodes whose content was on
\* respawn, and the most recently visited node is focused.
Adopt(s, stored) ==
    LET on == {p \in stored.pages : stored.web[p].on} IN
    /\ here' = s
    /\ pages' = stored.pages
    /\ face' = stored.face
    /\ facets' = [p \in Page |-> IF p \in stored.pages THEN stored.web[p] ELSE Unkept]
    /\ browser' = facets'
    /\ \E up \in SUBSET on :
        /\ content' = [p \in Page |-> IF p \in up THEN "live"
                                      ELSE IF p \in on THEN "failed" ELSE "absent"]
        /\ facts' = [p \in Page |-> IF p \in up THEN Routed(facets', p) ELSE None]
        /\ engines' = facts'
    /\ IF stored.pages = {} THEN chosen' = NoPage ELSE chosen' \in stored.pages
    /\ UNCHANGED <<minted, binned>>

\* SwitchSession saves what it leaves; the fetches asked for it stay asked.
SwitchSession(s) ==
    /\ disk' = [disk EXCEPT ![here] =
                   [pages |-> pages, face |-> face,
                    web |-> Written(Refreshed(browser, pages, content), facets)]]
    /\ s # here
    /\ Adopt(s, disk[s])
    /\ UNCHANGED fetches

\* The process ends and starts again; nothing was saved for it.
Restart ==
    /\ Adopt(here, disk[here])
    /\ waiting' = [a \in Address |-> <<>>]
    /\ chasing' = [a \in Address |-> <<>>]
    /\ askedPages' = [a \in Address |-> 0]
    /\ askedIcons' = [a \in Address |-> 0]
    /\ UNCHANGED disk

-----------------------------------------------------------------------------
ContentInit ==
    /\ here \in Workspace
    /\ pages = {} /\ chosen = NoPage /\ minted = {}
    /\ content = [p \in Page |-> "absent"]
    /\ facts = [p \in Page |-> None] /\ engines = facts
    /\ browser = [p \in Page |-> Unkept] /\ facets = browser
    /\ face = [p \in Page |-> {}]
    /\ disk = [s \in Workspace |-> [pages |-> {}, face |-> face, web |-> facets]]
    /\ binned = [s \in Workspace |-> [p \in Page |-> <<>>]]
    /\ waiting = [a \in Address |-> <<>>] /\ chasing = waiting
    /\ askedPages = [a \in Address |-> 0] /\ askedIcons = askedPages

ContentNext ==
    \/ ToggleNodeContent \/ OpenInWorkbench \/ ReloadFocused
    \/ DeleteFocusedNode \/ Restart
    \/ \E p \in Page : SelectNode(p) \/ RecoverDeletedNode(p)
    \/ \E p \in Page, viewer \in Viewer \cup {Unpinned} : SetViewerOverride(p, viewer)
    \/ \E a \in Address : OpenAddress(a) \/ Revisit(a)
    \/ \E a \in Address, outcome \in {"titled", "linked", "plain", "failed"} :
           PageFetched(a, outcome)
    \/ \E a \in Address, decodes \in BOOLEAN : FaviconFetched(a, decodes)
    \/ \E s \in Workspace : SwitchSession(s)

ContentSpec == ContentInit /\ [][ContentNext]_contentVars

-----------------------------------------------------------------------------
(***************************************************************************)
(* Properties.                                                             *)
(***************************************************************************)
\* Between two events no node is left requested, and every engine session the
\* shell holds is of a node of the graph whose content is live, is the one its
\* facts tell of, and runs the viewer the node is pinned to: none composes
\* nowhere, and a changed setting never shows the old route.
SessionsAreShown ==
    \A p \in Page :
        /\ content[p] # "requested"
        /\ engines[p] # None => /\ p \in pages /\ content[p] = "live"
                                /\ engines[p] = facts[p]
                                /\ engines[p] = Routed(browser, p)

\* Every request the fetch actor holds has its requester in the table, and no
\* requester waits for an answer that was already given: an answer is never
\* dropped as unmatched, and a scenario that waits for the table to empty does
\* not wait for ever.
AnswersMeetRequesters ==
    \A a \in Address : /\ Len(waiting[a]) = askedPages[a]
                       /\ Len(chasing[a]) = askedIcons[a]

\* What a fetch put on a node's face is on disk as soon as it shows, with the
\* node itself: a crash costs no enrichment.
EnrichmentIsStored ==
    \A p \in pages : face[p] # {} => p \in disk[here].pages /\ disk[here].face[p] = face[p]

\* As content.rs:26-27 says of Live: a live session exists in the shell.
LiveHasSession == \A p \in pages : content[p] = "live" => engines[p] # None

=============================================================================
