----------------------------- MODULE ContentProofs -----------------------------
(***************************************************************************)
(* ContentLane, whatever nodes, addresses, viewers and sessions there are  *)
(* and however many requests are in flight.  The table of requesters is    *)
(* what the fetch actor holds; the engine sessions are those of the nodes  *)
(* shown; and what a fetch put on a face is on disk.                       *)
(***************************************************************************)
EXTENDS ContentLane, TLAPS

\* Requesters of an address, in the order they asked.
Requesters == Seq(Page \cup {NoPage})

FetchTypes ==
    /\ waiting \in [Address -> Requesters] /\ chasing \in [Address -> Requesters]
    /\ askedPages \in [Address -> Nat] /\ askedIcons \in [Address -> Nat]
\* Sessions hold nodes, and one of them is focused or none.
NodeTypes ==
    /\ here \in Workspace
    /\ pages \subseteq Page /\ chosen \in Page \cup {NoPage}
    /\ \A s \in Workspace : disk[s].pages \subseteq Page

FInv == FetchTypes /\ AnswersMeetRequesters
CInv == NodeTypes /\ FInv

-----------------------------------------------------------------------------
(***************************************************************************)
(* The table.                                                              *)
(***************************************************************************)
\* Taking one requester off a list that is not empty makes it one shorter.
LEMMA FrontShorter ==
    ASSUME NEW S, NEW q \in Seq(S), q # <<>>
    PROVE  Front(q) \in Seq(S) /\ Len(Front(q)) = Len(q) - 1
BY DEF Front

\* Noting a requester, and telling the actor.
AddOne(table, a, p) == [table EXCEPT ![a] = Append(@, p)]
OneMore(asked, a) == [asked EXCEPT ![a] = @ + 1]

\* A request of an address adds one requester and one question.
LEMMA AddOneKeeps ==
    ASSUME NEW table \in [Address -> Requesters], NEW asked \in [Address -> Nat],
           \A b \in Address : Len(table[b]) = asked[b],
           NEW a \in Address, NEW p \in Page \cup {NoPage}
    PROVE  /\ AddOne(table, a, p) \in [Address -> Requesters]
           /\ OneMore(asked, a) \in [Address -> Nat]
           /\ \A b \in Address : Len(AddOne(table, a, p)[b]) = OneMore(asked, a)[b]
<1>1. Append(table[a], p) \in Requesters /\ Len(Append(table[a], p)) = Len(table[a]) + 1
    BY DEF Requesters
<1> QED
    BY <1>1 DEF AddOne, OneMore

\* Asking for a page adds one requester and one request, or neither.
LEMMA FetchingKeeps ==
    ASSUME FInv, NEW p \in Page \cup {NoPage}, Fetching(p)
    PROVE  FInv'
<1> DEFINE a == AddressOf[p]
<1>1. CASE a \in Web
    <2>1. /\ waiting' = [waiting EXCEPT ![a] = Append(@, p)]
          /\ askedPages' = [askedPages EXCEPT ![a] = @ + 1]
          /\ UNCHANGED <<chasing, askedIcons>>
        BY <1>1 DEF Fetching
    <2>4. waiting' = AddOne(waiting, a, p) /\ askedPages' = OneMore(askedPages, a)
        BY <2>1 DEF AddOne, OneMore
    <2>2. CASE a \in Address
        <3>1. /\ waiting' \in [Address -> Requesters] /\ askedPages' \in [Address -> Nat]
              /\ \A b \in Address : Len(waiting'[b]) = askedPages'[b]
            BY <2>2, <2>4, AddOneKeeps DEF FInv, FetchTypes, AnswersMeetRequesters
        <3> QED
            BY <2>1, <3>1 DEF FInv, FetchTypes, AnswersMeetRequesters
    <2>3. CASE a \notin Address
        <3>1. waiting' = waiting /\ askedPages' = askedPages
            BY <2>1, <2>3 DEF FInv, FetchTypes
        <3> QED
            BY <2>1, <3>1 DEF FInv, FetchTypes, AnswersMeetRequesters
    <2> QED
        BY <2>2, <2>3
<1>2. CASE a \notin Web
    BY <1>2 DEF Fetching, fetches, FInv, FetchTypes, AnswersMeetRequesters
<1> QED
    BY <1>1, <1>2

\* An answer to an address takes one requester and one request away.
LEMMA TakeOneKeeps ==
    ASSUME NEW table \in [Address -> Requesters], NEW asked \in [Address -> Nat],
           \A b \in Address : Len(table[b]) = asked[b],
           NEW a \in Address, asked[a] > 0
    PROVE  LET rest == TakeOne(table, a)
               left == [asked EXCEPT ![a] = @ - 1]
           IN  /\ rest \in [Address -> Requesters] /\ left \in [Address -> Nat]
               /\ \A b \in Address : Len(rest[b]) = left[b]
<1>1. table[a] # <<>> /\ table[a] \in Requesters
    BY DEF Requesters
<1>2. Front(table[a]) \in Requesters /\ Len(Front(table[a])) = Len(table[a]) - 1
    BY <1>1, FrontShorter DEF Requesters
<1>3. TakeOne(table, a) = [table EXCEPT ![a] = Front(table[a])]
    BY <1>1 DEF TakeOne
<1> QED
    BY <1>2, <1>3

\* A page's answer, with the icon it may set the app after.
LEMMA PageFetchedKeeps ==
    ASSUME FInv, pages \subseteq Page, NEW a \in Address, NEW outcome,
           PageFetched(a, outcome)
    PROVE  FInv'
<1> DEFINE p == Requester(waiting, a)
<1>1. /\ waiting' = TakeOne(waiting, a)
      /\ askedPages' = [askedPages EXCEPT ![a] = @ - 1]
      /\ askedPages[a] > 0
    BY DEF PageFetched
<1>2. /\ waiting' \in [Address -> Requesters] /\ askedPages' \in [Address -> Nat]
      /\ \A b \in Address : Len(waiting'[b]) = askedPages'[b]
    BY <1>1, TakeOneKeeps DEF FInv, FetchTypes, AnswersMeetRequesters
<1>3. /\ chasing' \in [Address -> Requesters] /\ askedIcons' \in [Address -> Nat]
      /\ \A b \in Address : Len(chasing'[b]) = askedIcons'[b]
    <2>1. CASE UNCHANGED <<chasing, askedIcons>>
        BY <2>1 DEF FInv, FetchTypes, AnswersMeetRequesters
    <2>2. CASE StillCurrent(p, a) /\ Chase(p)
        <3>1. p \in Page /\ AddressOf[p] = a
            BY <2>2 DEF StillCurrent
        <3>2. chasing' = AddOne(chasing, a, p) /\ askedIcons' = OneMore(askedIcons, a)
            BY <2>2, <3>1 DEF Chase, AddOne, OneMore
        <3>3. /\ chasing \in [Address -> Requesters] /\ askedIcons \in [Address -> Nat]
              /\ \A b \in Address : Len(chasing[b]) = askedIcons[b]
            BY DEF FInv, FetchTypes, AnswersMeetRequesters
        <3> HIDE DEF p
        <3> QED
            BY <3>1, <3>2, <3>3, AddOneKeeps
    <2> QED
        BY <2>1, <2>2 DEF PageFetched
<1> QED
    BY <1>2, <1>3 DEF FInv, FetchTypes, AnswersMeetRequesters

\* An icon's answer.
LEMMA FaviconFetchedKeeps ==
    ASSUME FInv, NEW a \in Address, NEW decodes \in BOOLEAN, FaviconFetched(a, decodes)
    PROVE  FInv'
<1>1. /\ chasing' = TakeOne(chasing, a)
      /\ askedIcons' = [askedIcons EXCEPT ![a] = @ - 1]
      /\ askedIcons[a] > 0
      /\ UNCHANGED <<waiting, askedPages>>
    BY DEF FaviconFetched
<1>2. /\ chasing' \in [Address -> Requesters] /\ askedIcons' \in [Address -> Nat]
      /\ \A b \in Address : Len(chasing'[b]) = askedIcons'[b]
    BY <1>1, TakeOneKeeps DEF FInv, FetchTypes, AnswersMeetRequesters
<1> QED
    BY <1>1, <1>2 DEF FInv, FetchTypes, AnswersMeetRequesters

\* What leaves the table alone keeps it.
LEMMA UnfetchedKeeps == ASSUME FInv, UNCHANGED fetches PROVE FInv'
BY DEF fetches, FInv, FetchTypes, AnswersMeetRequesters

-----------------------------------------------------------------------------
(***************************************************************************)
(* Sessions, and the theorem.                                              *)
(***************************************************************************)
\* Saving keeps the nodes of sessions nodes.
LEMMA SaveKeeps ==
    ASSUME NodeTypes, pages' \subseteq Page, NEW b, NEW f, Save(b, f)
    PROVE  \A s \in Workspace : disk'[s].pages \subseteq Page
BY DEF Save, NodeTypes

\* Nor does saving nothing change them.
LEMMA UnsavedKeeps ==
    ASSUME NodeTypes, Unsaved
    PROVE  \A s \in Workspace : disk'[s].pages \subseteq Page
BY DEF Unsaved, NodeTypes

\* A visit focuses a node, and adds none but nodes.
LEMMA VisitKeeps ==
    ASSUME NodeTypes, NEW a, NEW p \in Page, Visit(a, p)
    PROVE  pages' \subseteq Page /\ chosen' \in Page \cup {NoPage}
BY DEF Visit, NodeTypes

\* Adopting what a session stored.
LEMMA AdoptKeeps ==
    ASSUME NEW s \in Workspace, NEW stored, stored.pages \subseteq Page, Adopt(s, stored)
    PROVE  here' \in Workspace /\ pages' \subseteq Page /\ chosen' \in Page \cup {NoPage}
BY DEF Adopt

\* Every step keeps the nodes of sessions nodes.
LEMMA NodeStep == ASSUME CInv, [ContentNext]_contentVars PROVE NodeTypes'
<1> USE DEF CInv
<1>1. ASSUME ToggleNodeContent \/ ReloadFocused PROVE NodeTypes'
    BY <1>1, UnsavedKeeps DEF ToggleNodeContent, ReloadFocused, NodeTypes
<1>2. ASSUME OpenInWorkbench PROVE NodeTypes'
    <2>1. UNCHANGED <<here, pages, chosen>>
        BY <1>2 DEF OpenInWorkbench
    <2> QED
        BY <1>2, <2>1, SaveKeeps DEF OpenInWorkbench, NodeTypes
<1>3. ASSUME DeleteFocusedNode PROVE NodeTypes'
    <2>1. here' = here /\ pages' \subseteq Page /\ chosen' \in Page \cup {NoPage}
        BY <1>3 DEF DeleteFocusedNode, NodeTypes
    <2> QED
        BY <1>3, <2>1, SaveKeeps DEF DeleteFocusedNode, NodeTypes
<1>4. ASSUME Restart PROVE NodeTypes'
    <2>1. disk[here].pages \subseteq Page /\ here \in Workspace
        BY DEF NodeTypes
    <2> QED
        BY <1>4, <2>1, AdoptKeeps DEF Restart, NodeTypes
<1>5. ASSUME NEW p \in Page, SelectNode(p) PROVE NodeTypes'
    BY <1>5, UnsavedKeeps DEF SelectNode, NodeTypes
<1>6. ASSUME NEW p \in Page, RecoverDeletedNode(p) PROVE NodeTypes'
    <2>1. here' = here /\ pages' \subseteq Page /\ chosen' \in Page \cup {NoPage}
        BY <1>6 DEF RecoverDeletedNode, NodeTypes
    <2> QED
        BY <1>6, <2>1, SaveKeeps DEF RecoverDeletedNode, NodeTypes
<1>7. ASSUME NEW p \in Page, NEW viewer \in Viewer \cup {Unpinned}, SetViewerOverride(p, viewer)
      PROVE  NodeTypes'
    <2>1. UNCHANGED <<here, pages, chosen>>
        BY <1>7 DEF SetViewerOverride
    <2> QED
        BY <1>7, <2>1, SaveKeeps DEF SetViewerOverride, NodeTypes
<1>8. ASSUME NEW a \in Address, OpenAddress(a) PROVE NodeTypes'
    BY <1>8, VisitKeeps, UnsavedKeeps DEF OpenAddress, NodeTypes
<1>9. ASSUME NEW a \in Address, Revisit(a) PROVE NodeTypes'
    BY <1>9, VisitKeeps, UnsavedKeeps DEF Revisit, NodeTypes
<1>10. ASSUME NEW a \in Address, NEW outcome, PageFetched(a, outcome) PROVE NodeTypes'
    <2>1. UNCHANGED <<here, pages, chosen>>
        BY <1>10 DEF PageFetched
    <2>2. Save(browser, facets) \/ Unsaved
        BY <1>10 DEF PageFetched
    <2> QED
        BY <2>1, <2>2, SaveKeeps, UnsavedKeeps DEF NodeTypes
<1>11. ASSUME NEW a \in Address, NEW decodes \in BOOLEAN, FaviconFetched(a, decodes)
       PROVE  NodeTypes'
    <2>1. UNCHANGED <<here, pages, chosen>>
        BY <1>11 DEF FaviconFetched
    <2>2. Save(browser, facets) \/ Unsaved
        BY <1>11 DEF FaviconFetched
    <2> QED
        BY <2>1, <2>2, SaveKeeps, UnsavedKeeps DEF NodeTypes
<1>12. ASSUME NEW s \in Workspace, SwitchSession(s) PROVE NodeTypes'
    <2>1. disk[s].pages \subseteq Page
        BY DEF NodeTypes
    <2>2. \A w \in Workspace : disk'[w].pages \subseteq Page
        BY <1>12 DEF SwitchSession, NodeTypes
    <2>3. here' \in Workspace /\ pages' \subseteq Page /\ chosen' \in Page \cup {NoPage}
        BY <1>12, <2>1, AdoptKeeps DEF SwitchSession
    <2> QED
        BY <2>2, <2>3 DEF NodeTypes
<1>13. CASE UNCHANGED contentVars
    BY <1>13 DEF contentVars, NodeTypes
<1> QED
    BY <1>1, <1>2, <1>3, <1>4, <1>5, <1>6, <1>7, <1>8, <1>9, <1>10, <1>11, <1>12, <1>13
    DEF ContentNext

\* Every step keeps the table.
LEMMA FetchStep == ASSUME CInv, [ContentNext]_contentVars PROVE FInv'
<1> USE DEF CInv
<1>1. ASSUME ToggleNodeContent \/ OpenInWorkbench \/ DeleteFocusedNode PROVE FInv'
    BY <1>1, UnfetchedKeeps DEF ToggleNodeContent, OpenInWorkbench, DeleteFocusedNode, fetches
<1>2. ASSUME ReloadFocused PROVE FInv'
    BY <1>2, FetchingKeeps DEF ReloadFocused, NodeTypes
<1>3. ASSUME Restart PROVE FInv'
    BY <1>3 DEF Restart, FInv, FetchTypes, AnswersMeetRequesters, Requesters
<1>4. ASSUME NEW p \in Page, SelectNode(p) PROVE FInv'
    BY <1>4, UnfetchedKeeps DEF SelectNode
<1>5. ASSUME NEW p \in Page, RecoverDeletedNode(p) PROVE FInv'
    BY <1>5, FetchingKeeps DEF RecoverDeletedNode
<1>6. ASSUME NEW p \in Page, NEW viewer \in Viewer \cup {Unpinned}, SetViewerOverride(p, viewer)
      PROVE  FInv'
    BY <1>6, UnfetchedKeeps DEF SetViewerOverride
<1>7. ASSUME NEW a \in Address, OpenAddress(a) PROVE FInv'
    BY <1>7, FetchingKeeps DEF OpenAddress
<1>8. ASSUME NEW a \in Address, Revisit(a) PROVE FInv'
    BY <1>8, UnfetchedKeeps DEF Revisit
<1>9. ASSUME NEW a \in Address, NEW outcome, PageFetched(a, outcome) PROVE FInv'
    BY <1>9, PageFetchedKeeps DEF NodeTypes
<1>10. ASSUME NEW a \in Address, NEW decodes \in BOOLEAN, FaviconFetched(a, decodes)
       PROVE  FInv'
    BY <1>10, FaviconFetchedKeeps
<1>11. ASSUME NEW s \in Workspace, SwitchSession(s) PROVE FInv'
    BY <1>11, UnfetchedKeeps DEF SwitchSession
<1>12. CASE UNCHANGED contentVars
    BY <1>12, UnfetchedKeeps DEF contentVars, fetches
<1> QED
    BY <1>1, <1>2, <1>3, <1>4, <1>5, <1>6, <1>7, <1>8, <1>9, <1>10, <1>11, <1>12
    DEF ContentNext

\* Nothing is asked for at first.
LEMMA ContentBegins == ContentInit => CInv
BY DEF ContentInit, CInv, NodeTypes, FInv, FetchTypes, AnswersMeetRequesters, Requesters

\* Whatever is asked for, answered, deleted, recovered or switched, and in
\* whatever order, the table of pending fetches is what the actor holds.
THEOREM AnswersAreExpected == ContentSpec => []AnswersMeetRequesters
<1>1. CInv /\ [ContentNext]_contentVars => CInv'
    BY NodeStep, FetchStep DEF CInv
<1>2. CInv => AnswersMeetRequesters
    BY DEF CInv, FInv
<1> QED
    BY ContentBegins, <1>1, <1>2, PTL DEF ContentSpec

-----------------------------------------------------------------------------
(***************************************************************************)
(* The documents.  What keeps an engine session with its node is that a    *)
(* spawn comes after a close or where there was none, and that refreshing  *)
(* the sidecar reroutes nothing; what keeps a face on disk is that a node  *)
(* is new, or saved, whenever it comes into the graph.                     *)
(***************************************************************************)
USE ContentAssumption

\* What the documents, the sidecar, the sessions on disk and the bins hold.
Entry == [on : BOOLEAN, viewer : Viewer \cup {Unpinned, None}]
Engine == Viewer \cup {"routed", None}
Faces == [Page -> SUBSET {"title", "icon"}]
Stored == [pages : SUBSET Page, face : Faces, web : [Page -> Entry]]

DocumentTypes ==
    /\ content \in [Page -> {"absent", "live", "failed"}]
    /\ facts \in [Page -> Engine] /\ engines \in [Page -> Engine]
    /\ browser \in [Page -> Entry] /\ facets \in [Page -> Entry]
    /\ face \in Faces
    /\ disk \in [Workspace -> Stored]
    /\ binned \in [Workspace -> [Page -> Seq(Entry)]]

\* A node was made before it is in a graph, in a session on disk or in a bin,
\* and has nothing on its face before.
MadeFirst ==
    /\ pages \subseteq minted
    /\ \A s \in Workspace : disk[s].pages \subseteq minted
    /\ \A s \in Workspace, p \in Page : binned[s][p] # <<>> => p \in minted
    /\ \A p \in Page \ minted : face[p] = {} /\ \A s \in Workspace : disk[s].face[p] = {}

\* What is focused is in the graph.
Focused == chosen \in pages \cup {NoPage}

\* Every engine session in e is shown, for the sidecar b, the nodes ps and the
\* documents c and f.
Shows(b, ps, c, f, e) ==
    \A p \in Page :
        /\ c[p] # "requested"
        /\ e[p] # None => /\ p \in ps /\ c[p] = "live"
                          /\ e[p] = f[p] /\ e[p] = Routed(b, p)

\* The inductive invariant of the documents.
DInv == /\ DocumentTypes /\ MadeFirst /\ Focused
        /\ SessionsAreShown /\ EnrichmentIsStored

-----------------------------------------------------------------------------
(***************************************************************************)
(* The sidecar and the content port.                                       *)
(***************************************************************************)
\* A node is routed to an engine.
LEMMA RoutedType ==
    ASSUME NEW b, NEW p
    PROVE  Routed(b, p) \in Engine /\ Routed(b, p) # None
BY DEF Routed, Engine, None

\* Refreshing the states of the nodes routes none of them elsewhere.
LEMMA RefreshedKeeps ==
    ASSUME NEW b \in [Page -> Entry], NEW ps, NEW c
    PROVE  /\ Refreshed(b, ps, c) \in [Page -> Entry]
           /\ \A p \in Page \cap ps : Routed(Refreshed(b, ps, c), p) = Routed(b, p)
<1> DEFINE r == Refreshed(b, ps, c)
           on(p) == c[p] \in {"live", "requested"}
<1>1. Unkept \in Entry /\ Unkept.viewer = None
    BY DEF Unkept, Entry
<1>2. ASSUME NEW p \in Page, ~ (p \notin ps \/ (~on(p) /\ b[p] = Unkept))
      PROVE  /\ r[p] = [on |-> on(p), viewer |-> IF b[p] = Unkept THEN Unpinned ELSE b[p].viewer]
             /\ r[p].viewer = IF b[p] = Unkept THEN Unpinned ELSE b[p].viewer
             /\ r[p] \in Entry
    <2>1. r[p] = [on |-> on(p), viewer |-> IF b[p] = Unkept THEN Unpinned ELSE b[p].viewer]
        BY <1>2 DEF Refreshed
    <2>2. b[p] \in Entry /\ on(p) \in BOOLEAN
        OBVIOUS
    <2> QED
        BY <2>1, <2>2 DEF Entry
<1>3. ASSUME NEW p \in Page, p \notin ps \/ (~on(p) /\ b[p] = Unkept)
      PROVE  r[p] = Unkept
    BY <1>3 DEF Refreshed
<1>4. \A p \in Page : r[p] \in Entry
    BY <1>1, <1>2, <1>3
<1>5. ASSUME NEW p \in Page \cap ps
      PROVE  Routed(r, p) = Routed(b, p)
    <2>1. CASE b[p] = Unkept
        <3>1. r[p].viewer \in {None, Unpinned}
            BY <1>1, <1>2, <1>3, <2>1
        <3> QED
            BY <1>1, <2>1, <3>1 DEF Routed
    <2>2. CASE b[p] # Unkept
        BY <1>2, <2>2 DEF Routed
    <2> QED
        BY <2>1, <2>2
<1> QED
    BY <1>4, <1>5 DEF Refreshed

\* What is written over facets are entries.
LEMMA WrittenKeeps ==
    ASSUME NEW b \in [Page -> Entry], NEW f \in [Page -> Entry]
    PROVE  Written(b, f) \in [Page -> Entry]
BY DEF Written

\* What a save leaves.
LEMMA SaveDoes ==
    ASSUME NodeTypes, DocumentTypes, NEW b \in [Page -> Entry], NEW f \in [Page -> Entry],
           Save(b, f), here' = here, pages' \subseteq Page, face' \in Faces
    PROVE  /\ browser' \in [Page -> Entry] /\ facets' \in [Page -> Entry]
           /\ disk' \in [Workspace -> Stored]
           /\ disk'[here].pages = pages' /\ disk'[here].face = face'
           /\ \A s \in Workspace : s # here => disk'[s] = disk[s]
           /\ \A p \in Page \cap pages' : Routed(browser', p) = Routed(b, p)
           /\ EnrichmentIsStored'
<1>1. /\ browser' \in [Page -> Entry]
      /\ \A p \in Page \cap pages' : Routed(browser', p) = Routed(b, p)
    BY RefreshedKeeps DEF Save
<1>2. facets' \in [Page -> Entry]
    BY <1>1, WrittenKeeps DEF Save
<1> DEFINE new == [pages |-> pages', face |-> face', web |-> facets']
<1>3. /\ new \in Stored /\ new.pages = pages' /\ new.face = face'
    BY <1>2 DEF Stored
<1>4. disk' = [disk EXCEPT ![here] = new] /\ here \in Workspace
    BY DEF Save, NodeTypes
<1> HIDE DEF new
<1>5. /\ disk' \in [Workspace -> Stored] /\ disk'[here] = new
      /\ \A s \in Workspace : s # here => disk'[s] = disk[s]
    BY <1>3, <1>4 DEF DocumentTypes
<1> QED
    BY <1>1, <1>2, <1>3, <1>5 DEF EnrichmentIsStored

\* A save keeps what was made first.
LEMMA SaveMadeFirst ==
    ASSUME NodeTypes, MadeFirst, minted \subseteq minted', pages' \subseteq minted',
           \A s \in Workspace, p \in Page : binned'[s][p] # <<>> => p \in minted',
           \A p \in Page \ minted' : face'[p] = {},
           disk'[here].pages = pages', disk'[here].face = face',
           \A s \in Workspace : s # here => disk'[s] = disk[s]
    PROVE  MadeFirst'
BY DEF MadeFirst, NodeTypes

\* A step that saves nothing and shows no less.
LEMMA UnsavedDoes ==
    ASSUME NodeTypes, DInv, Unsaved, UNCHANGED <<here, face, binned>>,
           pages' \subseteq Page, minted \subseteq minted', pages' \subseteq minted',
           \A p \in pages' : p \in pages \/ p \notin minted
    PROVE  /\ MadeFirst' /\ EnrichmentIsStored'
           /\ browser' = browser
<1>1. UNCHANGED <<browser, facets, disk, here, face, binned>>
    BY DEF Unsaved
<1>2. MadeFirst'
    BY <1>1 DEF DInv, MadeFirst
<1>3. EnrichmentIsStored'
    <2> SUFFICES ASSUME NEW p \in pages', face[p] # {}
                 PROVE  p \in disk[here].pages /\ disk[here].face[p] = face[p]
        BY <1>1 DEF EnrichmentIsStored
    <2>1. p \in pages
        BY DEF DInv, MadeFirst
    <2> QED
        BY <2>1 DEF DInv, EnrichmentIsStored
<1> QED
    BY <1>1, <1>2, <1>3

\* Sessions spawned for the nodes ps, where none of ps has one that is kept.
LEMMA SpawnedShows ==
    ASSUME NEW ps \in SUBSET Page, NEW up \in SUBSET ps, NEW kept \in [Page -> Engine],
           NEW states \in [Page -> Entry], NEW b \in [Page -> Entry],
           DocumentTypes, Spawned(ps, up, kept, states),
           Shows(b, pages, content, facts, engines),
           \A p \in ps : kept[p] = None, ps \subseteq pages,
           \A p \in Page \ ps : kept[p] = engines[p] /\ Routed(states, p) = Routed(b, p)
    PROVE  /\ content' \in [Page -> {"absent", "live", "failed"}]
           /\ facts' \in [Page -> Engine] /\ engines' \in [Page -> Engine]
           /\ Shows(states, pages, content', facts', engines')
<1>1. /\ content' \in [Page -> {"absent", "live", "failed"}]
      /\ facts' \in [Page -> Engine] /\ engines' \in [Page -> Engine]
    <2>1. None \in Engine
        BY DEF Engine
    <2> QED
        BY <2>1, RoutedType DEF Spawned, DocumentTypes
<1>2. ASSUME NEW p \in Page
      PROVE  /\ content'[p] # "requested"
             /\ engines'[p] # None => /\ p \in pages /\ content'[p] = "live"
                                      /\ engines'[p] = facts'[p]
                                      /\ engines'[p] = Routed(states, p)
    <2>1. CASE p \in up
        BY <2>1 DEF Spawned
    <2>2. CASE p \in ps \ up
        BY <2>2 DEF Spawned
    <2>3. CASE p \notin ps
        <3>1. content'[p] = content[p] /\ facts'[p] = facts[p] /\ engines'[p] = engines[p]
            BY <2>3 DEF Spawned
        <3> QED
            BY <2>3, <3>1 DEF Shows
    <2> QED
        BY <2>1, <2>2, <2>3
<1> QED
    BY <1>1, <1>2 DEF Shows

\* Showing a node that was not shown.
LEMMA FlipShows ==
    ASSUME NodeTypes, DInv, NEW p \in Page \cap pages, FlipSpawns(p), NEW up \in SUBSET {p},
           Spawned({p}, up, engines, browser)
    PROVE  /\ content' \in [Page -> {"absent", "live", "failed"}]
           /\ facts' \in [Page -> Engine] /\ engines' \in [Page -> Engine]
           /\ Shows(browser, pages, content', facts', engines')
<1>1. engines[p] = None /\ Shows(browser, pages, content, facts, engines)
    BY DEF FlipSpawns, DInv, SessionsAreShown, Shows
<1>2. /\ {p} \in SUBSET Page /\ engines \in [Page -> Engine] /\ browser \in [Page -> Entry]
      /\ DocumentTypes
    BY DEF DInv, DocumentTypes
<1> QED
    BY <1>1, <1>2, SpawnedShows

\* What a close leaves.
LEMMA ClosedIs ==
    ASSUME DocumentTypes, NEW p \in Page
    PROVE  /\ Closed(p) \in [Page -> Engine] /\ Closed(p)[p] = None
           /\ \A q \in Page : q # p => Closed(p)[q] = engines[q]
<1>1. None \in Engine
    BY DEF Engine
<1> QED
    BY <1>1 DEF Closed, DocumentTypes

\* A node shown picks up its route again.
LEMMA RespawnShows ==
    ASSUME NodeTypes, DInv, NEW p \in Page \cap pages, NEW states \in [Page -> Entry],
           \A q \in Page : q # p => Routed(states, q) = Routed(browser, q),
           Respawn(p, states)
    PROVE  /\ content' \in [Page -> {"absent", "live", "failed"}]
           /\ facts' \in [Page -> Engine] /\ engines' \in [Page -> Engine]
           /\ Shows(states, pages, content', facts', engines')
<1>1. Shows(browser, pages, content, facts, engines)
    BY DEF DInv, SessionsAreShown, Shows
<1>2. CASE FlipSpawns(p)
    <2>1. UNCHANGED <<content, facts, engines>> /\ engines[p] = None
        BY <1>1, <1>2 DEF Respawn, documents, FlipSpawns, Shows
    <2> QED
        BY <1>1, <2>1 DEF Shows, DInv, DocumentTypes
<1>3. CASE ~ FlipSpawns(p)
    <2>1. PICK up \in SUBSET {p} : Spawned({p}, up, Closed(p), states)
        BY <1>3 DEF Respawn
    <2>2. /\ {p} \in SUBSET Page /\ browser \in [Page -> Entry] /\ DocumentTypes
        BY DEF DInv, DocumentTypes
    <2>3. /\ Closed(p) \in [Page -> Engine] /\ Closed(p)[p] = None
          /\ \A q \in Page : q # p => Closed(p)[q] = engines[q]
        BY <2>2, ClosedIs
    <2> QED
        BY <1>1, <2>1, <2>2, <2>3, SpawnedShows
<1> QED
    BY <1>2, <1>3

\* What is shown is shown by a sidecar that routes the nodes alike, and with
\* more nodes.
LEMMA ShowsAlike ==
    ASSUME NEW b, NEW ps, NEW c, NEW f, NEW e, Shows(b, ps, c, f, e), NEW d, NEW qs,
           ps \subseteq qs, \A p \in Page \cap ps : Routed(d, p) = Routed(b, p)
    PROVE  Shows(d, qs, c, f, e)
BY DEF Shows

-----------------------------------------------------------------------------
(***************************************************************************)
(* What is shown, and what is on disk.                                     *)
(***************************************************************************)
\* What the engines may be after a step.
DocumentsAfter(b) ==
    /\ content' \in [Page -> {"absent", "live", "failed"}]
    /\ facts' \in [Page -> Engine] /\ engines' \in [Page -> Engine]
    /\ Shows(b, pages', content', facts', engines')

\* A step that saves nothing.
LEMMA UnsavedStep ==
    ASSUME NodeTypes, NodeTypes', DInv, Unsaved, UNCHANGED <<here, face, binned>>,
           minted \subseteq minted', pages' \subseteq minted',
           \A p \in pages' : p \in pages \/ p \notin minted,
           DocumentsAfter(browser), chosen' \in pages' \cup {NoPage}
    PROVE  DInv'
<1>1. /\ MadeFirst' /\ EnrichmentIsStored' /\ browser' = browser
    BY UnsavedDoes DEF NodeTypes
<1>2. SessionsAreShown'
    BY <1>1 DEF DocumentsAfter, Shows, SessionsAreShown
<1>3. DocumentTypes'
    BY DEF DocumentsAfter, Unsaved, DInv, DocumentTypes
<1> QED
    BY <1>1, <1>2, <1>3 DEF DInv, Focused

\* A step that saves.
LEMMA SavedStep ==
    ASSUME NodeTypes, NodeTypes', DInv, here' = here,
           NEW b \in [Page -> Entry], NEW f \in [Page -> Entry], Save(b, f),
           minted \subseteq minted', pages' \subseteq minted',
           binned' \in [Workspace -> [Page -> Seq(Entry)]],
           \A s \in Workspace, p \in Page : binned'[s][p] # <<>> => p \in minted',
           face' \in Faces, \A p \in Page \ minted' : face'[p] = {},
           DocumentsAfter(b), chosen' \in pages' \cup {NoPage}
    PROVE  DInv'
<1>1. /\ browser' \in [Page -> Entry] /\ facets' \in [Page -> Entry]
      /\ disk' \in [Workspace -> Stored]
      /\ disk'[here].pages = pages' /\ disk'[here].face = face'
      /\ \A s \in Workspace : s # here => disk'[s] = disk[s]
      /\ \A p \in Page \cap pages' : Routed(browser', p) = Routed(b, p)
      /\ EnrichmentIsStored'
    BY SaveDoes DEF NodeTypes, DInv
<1>2. MadeFirst'
    BY <1>1, SaveMadeFirst DEF DInv
<1>3. SessionsAreShown'
    BY <1>1 DEF DocumentsAfter, Shows, SessionsAreShown
<1>4. DocumentTypes'
    BY <1>1 DEF DocumentsAfter, DocumentTypes
<1> QED
    BY <1>1, <1>2, <1>3, <1>4 DEF DInv, Focused

\* The session that is shown again, as it was stored.
LEMMA AdoptStep ==
    ASSUME NodeTypes, NodeTypes', DInv, NEW s \in Workspace, Adopt(s, disk[s]),
           disk' \in [Workspace -> Stored], disk'[s] = disk[s],
           \A w \in Workspace : disk'[w].pages \subseteq minted,
           \A w \in Workspace, p \in Page \ minted : disk'[w].face[p] = {}
    PROVE  DInv'
<1> DEFINE stored == disk[s]
           on == {p \in stored.pages : stored.web[p].on}
<1>1. /\ stored \in Stored
      /\ here' = s /\ pages' = stored.pages /\ face' = stored.face
      /\ facets' = [p \in Page |-> IF p \in stored.pages THEN stored.web[p] ELSE Unkept]
      /\ browser' = facets'
      /\ UNCHANGED <<minted, binned>>
    BY DEF Adopt, DInv, DocumentTypes
<1>2. PICK up \in SUBSET on :
        /\ content' = [p \in Page |-> IF p \in up THEN "live"
                                      ELSE IF p \in on THEN "failed" ELSE "absent"]
        /\ facts' = [p \in Page |-> IF p \in up THEN Routed(facets', p) ELSE None]
        /\ engines' = facts'
    BY DEF Adopt
<1>3. stored.pages \subseteq Page /\ stored.face \in Faces /\ stored.web \in [Page -> Entry]
    BY <1>1 DEF Stored
<1>4. chosen' \in pages' \cup {NoPage}
    BY <1>1 DEF Adopt
<1> HIDE DEF stored
<1>5. facets' \in [Page -> Entry]
    <2>1. Unkept \in Entry
        BY DEF Unkept, Entry
    <2> QED
        BY <1>1, <1>3, <2>1
<1>6. DocumentTypes'
    <2>1. /\ content' \in [Page -> {"absent", "live", "failed"}]
          /\ facts' \in [Page -> Engine]
        <3>1. None \in Engine
            BY DEF Engine
        <3> QED
            BY <1>2, <3>1, RoutedType
    <2> QED
        BY <1>1, <1>2, <1>3, <1>5, <2>1 DEF DInv, DocumentTypes
<1>7. SessionsAreShown'
    <2> SUFFICES ASSUME NEW p \in Page
                 PROVE  /\ content'[p] # "requested"
                        /\ engines'[p] # None => /\ p \in pages' /\ content'[p] = "live"
                                                 /\ engines'[p] = facts'[p]
                                                 /\ engines'[p] = Routed(facets', p)
        BY <1>1 DEF SessionsAreShown
    <2>1. CASE p \in up
        BY <1>1, <1>2, <2>1
    <2>2. CASE p \notin up
        BY <1>2, <2>2
    <2> QED
        BY <2>1, <2>2
<1>8. EnrichmentIsStored'
    BY <1>1 DEF stored, EnrichmentIsStored
<1>9. MadeFirst'
    BY <1>1 DEF stored, DInv, MadeFirst
<1> QED
    BY <1>4, <1>6, <1>7, <1>8, <1>9 DEF DInv, Focused

\* The documents as they were, for as many nodes or more.
LEMMA DocumentsStay ==
    ASSUME DInv, UNCHANGED documents, pages \subseteq pages'
    PROVE  DocumentsAfter(browser)
BY DEF DInv, DocumentTypes, SessionsAreShown, DocumentsAfter, Shows, documents

\* The node in focus is one of the graph.
LEMMA FocusedNode ==
    ASSUME NodeTypes, DInv, chosen # NoPage
    PROVE  chosen \in Page \cap pages
BY DEF NodeTypes, DInv, Focused

\* Content is shown, and closed again.
LEMMA TogglingKeeps ==
    ASSUME NodeTypes, NodeTypes', DInv, ToggleNodeContent
    PROVE  DInv'
<1>1. chosen \in Page \cap pages /\ UNCHANGED <<here, pages, chosen, face, minted, binned>>
    BY FocusedNode DEF ToggleNodeContent
<1>2. DocumentsAfter(browser)
    <2>1. CASE FlipSpawns(chosen)
        BY <1>1, <2>1, FlipShows DEF ToggleNodeContent, DocumentsAfter
    <2>2. CASE ~ FlipSpawns(chosen)
        <3>1. /\ content' = [content EXCEPT ![chosen] = "absent"]
              /\ facts' = [facts EXCEPT ![chosen] = None]
              /\ engines' = Closed(chosen)
            BY <2>2 DEF ToggleNodeContent
        <3>2. /\ engines' \in [Page -> Engine] /\ engines'[chosen] = None
              /\ \A q \in Page : q # chosen => engines'[q] = engines[q]
            BY <1>1, <3>1, ClosedIs DEF DInv
        <3>3. /\ content' \in [Page -> {"absent", "live", "failed"}]
              /\ facts' \in [Page -> Engine]
            <4>1. None \in Engine
                BY DEF Engine
            <4> QED
                BY <3>1, <4>1 DEF DInv, DocumentTypes
        <3>4. Shows(browser, pages, content', facts', engines')
            BY <1>1, <3>1, <3>2 DEF DInv, DocumentTypes, SessionsAreShown, Shows
        <3> QED
            BY <1>1, <3>2, <3>3, <3>4 DEF DocumentsAfter
    <2> QED
        BY <2>1, <2>2
<1>3. Unsaved
    BY DEF ToggleNodeContent
<1> QED
    BY <1>1, <1>2, <1>3, UnsavedStep DEF DInv, MadeFirst

\* Opening in the workbench shows, and saves.
LEMMA OpeningKeeps ==
    ASSUME NodeTypes, NodeTypes', DInv, OpenInWorkbench
    PROVE  DInv'
<1>1. chosen \in Page \cap pages /\ UNCHANGED <<here, pages, chosen, face, minted, binned>>
    BY FocusedNode DEF OpenInWorkbench
<1>2. DocumentsAfter(browser)
    <2>1. CASE FlipSpawns(chosen)
        BY <1>1, <2>1, FlipShows DEF OpenInWorkbench, DocumentsAfter
    <2>2. CASE ~ FlipSpawns(chosen)
        BY <1>1, <2>2, DocumentsStay DEF OpenInWorkbench
    <2> QED
        BY <2>1, <2>2
<1>3. Save(browser, facets) /\ browser \in [Page -> Entry] /\ facets \in [Page -> Entry]
    BY DEF OpenInWorkbench, DInv, DocumentTypes
<1> QED
    BY <1>1, <1>2, <1>3, SavedStep DEF DInv, DocumentTypes, MadeFirst

\* A viewer is pinned.
LEMMA PinningKeeps ==
    ASSUME NodeTypes, NodeTypes', DInv, NEW p \in Page, NEW viewer \in Viewer \cup {Unpinned},
           SetViewerOverride(p, viewer)
    PROVE  DInv'
<1> DEFINE states == [browser EXCEPT ![p].viewer = viewer]
<1>1. p \in Page \cap pages /\ UNCHANGED <<here, pages, chosen, face, minted, binned>>
    BY DEF SetViewerOverride
<1>2. /\ states \in [Page -> Entry]
      /\ \A q \in Page : q # p => states[q] = browser[q]
    BY DEF DInv, DocumentTypes, Entry
<1>3. Respawn(p, states) /\ Save(states, facets)
    BY DEF SetViewerOverride
<1> HIDE DEF states
<1>4. DocumentsAfter(states)
    <2>1. \A q \in Page : q # p => Routed(states, q) = Routed(browser, q)
        BY <1>2 DEF Routed
    <2> QED
        BY <1>1, <1>2, <1>3, <2>1, RespawnShows DEF DocumentsAfter
<1>5. /\ facets \in [Page -> Entry] /\ minted \subseteq minted' /\ pages' \subseteq minted'
      /\ binned' \in [Workspace -> [Page -> Seq(Entry)]]
      /\ \A s \in Workspace, q \in Page : binned'[s][q] # <<>> => q \in minted'
      /\ face' \in Faces /\ \A q \in Page \ minted' : face'[q] = {}
      /\ chosen' \in pages' \cup {NoPage} /\ here' = here
    BY <1>1 DEF SetViewerOverride, DInv, DocumentTypes, MadeFirst, Focused
<1> QED
    BY <1>2, <1>3, <1>4, <1>5, SavedStep

\* The focused node is fetched, and routed, again.
LEMMA ReloadingKeeps ==
    ASSUME NodeTypes, NodeTypes', DInv, ReloadFocused
    PROVE  DInv'
<1>1. chosen \in Page \cap pages /\ UNCHANGED <<here, pages, chosen, face, minted, binned>>
    BY FocusedNode DEF ReloadFocused
<1>2. DocumentsAfter(browser)
    <2>1. Respawn(chosen, browser) /\ browser \in [Page -> Entry]
        BY DEF ReloadFocused, DInv, DocumentTypes
    <2> QED
        BY <1>1, <2>1, RespawnShows DEF DocumentsAfter
<1>3. Unsaved
    BY DEF ReloadFocused
<1> QED
    BY <1>1, <1>2, <1>3, UnsavedStep DEF DInv, MadeFirst

\* A visit finds its node, or makes one nobody had.
LEMMA VisitMakes ==
    ASSUME DInv, NEW a, NEW p \in Page, Visit(a, p)
    PROVE  /\ pages \subseteq pages' /\ minted \subseteq minted' /\ pages' \subseteq minted'
           /\ \A q \in pages' : q \in pages \/ q \notin minted
           /\ chosen' \in pages' \cup {NoPage}
BY DEF Visit, DInv, MadeFirst

\* Opening an address, going back and forward, selecting.
LEMMA NavigatingKeeps ==
    ASSUME NodeTypes, NodeTypes', DInv,
           \/ \E a \in Address : OpenAddress(a) \/ Revisit(a)
           \/ \E p \in Page : SelectNode(p)
    PROVE  DInv'
<1>1. /\ UNCHANGED <<here, face, binned>> /\ UNCHANGED documents /\ Unsaved
    BY DEF OpenAddress, Revisit, SelectNode
<1>2. /\ pages \subseteq pages' /\ minted \subseteq minted' /\ pages' \subseteq minted'
      /\ \A q \in pages' : q \in pages \/ q \notin minted
      /\ chosen' \in pages' \cup {NoPage}
    <2>1. CASE \E a \in Address, p \in Page : Visit(a, p)
        BY <2>1, VisitMakes
    <2>2. CASE \E p \in Page : SelectNode(p)
        BY <2>2 DEF SelectNode, DInv, MadeFirst
    <2> QED
        BY <2>1, <2>2 DEF OpenAddress, Revisit
<1>3. DocumentsAfter(browser)
    BY <1>1, <1>2, DocumentsStay
<1> QED
    BY <1>1, <1>2, <1>3, UnsavedStep

\* What an answer puts on a node's face is saved with it.
LEMMA AnswerKeeps ==
    ASSUME NodeTypes, NodeTypes', DInv,
           UNCHANGED <<here, pages, chosen, documents, minted, binned>>,
           \/ face' = face /\ Unsaved
           \/ /\ Save(browser, facets)
              /\ \/ face' = face
                 \/ \E p \in pages : \E what \in {"title", "icon"} :
                        face' = [face EXCEPT ![p] = @ \cup {what}]
    PROVE  DInv'
<1>1. DocumentsAfter(browser)
    BY DocumentsStay
<1>2. CASE face' = face /\ Unsaved
    BY <1>1, <1>2, UnsavedStep DEF DInv, MadeFirst, Focused
<1>3. CASE Save(browser, facets)
    <2>1. face' \in Faces /\ \A p \in Page \ minted : face'[p] = {}
        <3>1. CASE face' = face
            BY <3>1 DEF DInv, DocumentTypes, MadeFirst
        <3>2. ASSUME NEW p \in pages, NEW what \in {"title", "icon"},
                     face' = [face EXCEPT ![p] = @ \cup {what}]
              PROVE  face' \in Faces /\ \A q \in Page \ minted : face'[q] = {}
            BY <3>2 DEF DInv, DocumentTypes, MadeFirst, Faces
        <3> QED
            BY <1>3, <3>1, <3>2 DEF Save, Unsaved
    <2>2. browser \in [Page -> Entry] /\ facets \in [Page -> Entry]
        BY DEF DInv, DocumentTypes
    <2> QED
        BY <1>1, <1>3, <2>1, <2>2, SavedStep DEF DInv, DocumentTypes, MadeFirst, Focused
<1> QED
    BY <1>2, <1>3

\* A page's answer, and an icon's.
LEMMA EnrichingKeeps ==
    ASSUME NodeTypes, NodeTypes', DInv,
           \/ \E a \in Address, outcome \in {"titled", "linked", "plain", "failed"} :
                  PageFetched(a, outcome)
           \/ \E a \in Address, decodes \in BOOLEAN : FaviconFetched(a, decodes)
    PROVE  DInv'
<1>1. ASSUME NEW a \in Address, NEW outcome, PageFetched(a, outcome)
      PROVE  DInv'
    BY <1>1, AnswerKeeps DEF PageFetched, StillCurrent
<1>2. ASSUME NEW a \in Address, NEW decodes \in BOOLEAN, FaviconFetched(a, decodes)
      PROVE  DInv'
    BY <1>2, AnswerKeeps DEF FaviconFetched, StillCurrent
<1> QED
    BY <1>1, <1>2

\* A node deleted takes its session with it.
LEMMA DeletingKeeps ==
    ASSUME NodeTypes, NodeTypes', DInv, DeleteFocusedNode
    PROVE  DInv'
<1> DEFINE p == chosen
           f == [facets EXCEPT ![p] = Unkept]
<1>1. /\ p \in Page \cap pages
      /\ UNCHANGED <<here, content, facts, face, minted>>
      /\ pages' = pages \ {p} /\ chosen' = NoPage /\ engines' = Closed(p)
      /\ binned' = [binned EXCEPT ![here][p] = <<facets[p]>>]
      /\ Save(browser, f)
    <2>1. chosen # NoPage
        BY DEF DeleteFocusedNode
    <2> QED
        BY <2>1, FocusedNode DEF DeleteFocusedNode
<1>2. f \in [Page -> Entry] /\ browser \in [Page -> Entry]
    BY DEF Unkept, Entry, DInv, DocumentTypes
<1>3. DocumentsAfter(browser)
    <2>1. /\ engines' \in [Page -> Engine] /\ engines'[p] = None
          /\ \A q \in Page : q # p => engines'[q] = engines[q]
        BY <1>1, ClosedIs DEF DInv
    <2>2. Shows(browser, pages', content', facts', engines')
        BY <1>1, <2>1 DEF DInv, SessionsAreShown, Shows
    <2> QED
        BY <1>1, <2>1, <2>2 DEF DInv, DocumentTypes, DocumentsAfter
<1>4. /\ binned' \in [Workspace -> [Page -> Seq(Entry)]]
      /\ \A s \in Workspace, q \in Page : binned'[s][q] # <<>> => q \in minted'
    <2>1. <<facets[p]>> \in Seq(Entry) /\ here \in Workspace
        BY <1>1 DEF DInv, DocumentTypes, NodeTypes
    <2>2. binned \in [Workspace -> [Page -> Seq(Entry)]]
        BY DEF DInv, DocumentTypes
    <2> DEFINE new == <<facets[p]>>
    <2>3. binned' = [binned EXCEPT ![here] = [binned[here] EXCEPT ![p] = new]]
        BY <1>1, <2>1, <2>2
    <2>4. new \in Seq(Entry)
        BY <2>1
    <2> HIDE DEF new
    <2>5. binned' \in [Workspace -> [Page -> Seq(Entry)]]
        BY <1>1, <2>1, <2>2, <2>3, <2>4
    <2>6. ASSUME NEW s \in Workspace, NEW q \in Page, binned'[s][q] # <<>>
          PROVE  q \in minted'
        <3>1. binned'[s][q] = binned[s][q] \/ q = p
            BY <1>1, <2>1, <2>2, <2>3
        <3> QED
            BY <1>1, <2>6, <3>1 DEF DInv, MadeFirst
    <2> QED
        BY <2>5, <2>6
<1> HIDE DEF p, f
<1> QED
    BY <1>1, <1>2, <1>3, <1>4, SavedStep DEF DInv, DocumentTypes, MadeFirst

\* A node recovered is as it was, but for its icon.
LEMMA RecoveringKeeps ==
    ASSUME NodeTypes, NodeTypes', DInv, NEW p \in Page, RecoverDeletedNode(p)
    PROVE  DInv'
<1> DEFINE kept == binned[here][p]
           f == [facets EXCEPT ![p] = kept[1]]
<1>1. /\ kept # <<>> /\ Save(browser, f)
      /\ UNCHANGED <<here, documents, minted, binned>>
      /\ pages' = pages \cup {p} /\ chosen' = p
      /\ face' = IF p \in pages THEN face ELSE [face EXCEPT ![p] = @ \ {"icon"}]
    BY DEF RecoverDeletedNode
<1>2. f \in [Page -> Entry] /\ browser \in [Page -> Entry]
    <2>1. kept \in Seq(Entry)
        BY DEF DInv, DocumentTypes, NodeTypes
    <2> HIDE DEF kept
    <2>2. kept[1] \in Entry
        BY <1>1, <2>1
    <2> QED
        BY <2>2 DEF DInv, DocumentTypes
<1>3. p \in minted
    BY <1>1 DEF DInv, MadeFirst, NodeTypes
<1>4. DocumentsAfter(browser)
    BY <1>1, DocumentsStay
<1>5. face' \in Faces /\ \A q \in Page \ minted : face'[q] = {}
    <2>1. face \in Faces /\ \A q \in Page \ minted : face[q] = {}
        BY DEF DInv, DocumentTypes, MadeFirst
    <2> QED
        BY <1>1, <1>3, <2>1 DEF Faces
<1> HIDE DEF f, kept
<1> QED
    BY <1>1, <1>2, <1>3, <1>4, <1>5, SavedStep DEF DInv, DocumentTypes, MadeFirst

\* A session left is saved, and the one adopted is as it was left.
LEMMA SwitchingKeeps ==
    ASSUME NodeTypes, NodeTypes', DInv, NEW s \in Workspace, SwitchSession(s)
    PROVE  DInv'
<1> DEFINE new == [pages |-> pages, face |-> face,
                   web |-> Written(Refreshed(browser, pages, content), facets)]
<1>1. new \in Stored /\ new.pages = pages /\ new.face = face
    <2>1. Written(Refreshed(browser, pages, content), facets) \in [Page -> Entry]
        BY RefreshedKeeps, WrittenKeeps DEF DInv, DocumentTypes
    <2> QED
        BY <2>1 DEF Stored, DInv, DocumentTypes, NodeTypes
<1>2. disk' = [disk EXCEPT ![here] = new] /\ s # here /\ Adopt(s, disk[s]) /\ here \in Workspace
    BY DEF SwitchSession, NodeTypes
<1> HIDE DEF new
<1>3. /\ disk' \in [Workspace -> Stored] /\ disk'[s] = disk[s] /\ disk'[here] = new
      /\ \A w \in Workspace : w # here => disk'[w] = disk[w]
    BY <1>1, <1>2 DEF DInv, DocumentTypes
<1>4. /\ \A w \in Workspace : disk'[w].pages \subseteq minted
      /\ \A w \in Workspace, p \in Page \ minted : disk'[w].face[p] = {}
    BY <1>1, <1>3 DEF DInv, MadeFirst
<1> QED
    BY <1>2, <1>3, <1>4, AdoptStep

\* A start of the app.
LEMMA RestartingKeeps ==
    ASSUME NodeTypes, NodeTypes', DInv, Restart
    PROVE  DInv'
<1>1. here \in Workspace /\ Adopt(here, disk[here]) /\ disk' = disk
    BY DEF Restart, NodeTypes
<1>2. /\ disk \in [Workspace -> Stored]
      /\ \A w \in Workspace : disk[w].pages \subseteq minted
      /\ \A w \in Workspace, p \in Page \ minted : disk[w].face[p] = {}
    BY DEF DInv, DocumentTypes, MadeFirst
<1> QED
    BY <1>1, <1>2, AdoptStep

\* Every step keeps what is shown shown, and what is on a face on disk.
LEMMA DocumentStep == ASSUME CInv, DInv, [ContentNext]_contentVars PROVE DInv'
<1>1. NodeTypes /\ NodeTypes'
    BY NodeStep DEF CInv
<1>2. CASE UNCHANGED contentVars
    BY <1>2 DEF contentVars, DInv, DocumentTypes, MadeFirst, Focused, SessionsAreShown,
       EnrichmentIsStored, Routed
<1>3. CASE ContentNext
    BY <1>1, <1>3, TogglingKeeps, OpeningKeeps, PinningKeeps, ReloadingKeeps, NavigatingKeeps,
       EnrichingKeeps, DeletingKeeps, RecoveringKeeps, SwitchingKeeps, RestartingKeeps
    DEF ContentNext
<1> QED
    BY <1>2, <1>3

\* Nothing is shown at first, and nothing is on disk.
LEMMA DocumentsBegin == ContentInit => DInv
<1> SUFFICES ASSUME ContentInit PROVE DInv
    OBVIOUS
<1> USE DEF ContentInit
<1>1. None \in Engine /\ Unkept \in Entry
    BY DEF Engine, Unkept, Entry
<1>2. browser \in [Page -> Entry] /\ facets \in [Page -> Entry] /\ face \in Faces
    BY <1>1 DEF Faces
<1>3. disk \in [Workspace -> Stored]
    BY <1>2 DEF Stored
<1>4. binned \in [Workspace -> [Page -> Seq(Entry)]]
    OBVIOUS
<1>5. DocumentTypes
    BY <1>1, <1>2, <1>3, <1>4 DEF DocumentTypes
<1>6. MadeFirst /\ Focused
    BY DEF MadeFirst, Focused
<1>7. SessionsAreShown /\ EnrichmentIsStored
    BY DEF SessionsAreShown, EnrichmentIsStored
<1> QED
    BY <1>5, <1>6, <1>7 DEF DInv

\* The invariant of the lane.
LEMMA ContentInvariant == ContentSpec => [](CInv /\ DInv)
<1>1. CInv /\ DInv /\ [ContentNext]_contentVars => (CInv /\ DInv)'
    BY NodeStep, FetchStep, DocumentStep DEF CInv
<1> QED
    BY ContentBegins, DocumentsBegin, <1>1, PTL DEF ContentSpec

\* Whatever is toggled, pinned, reloaded, deleted and adopted, no engine session
\* composes nowhere, and none shows a route its node has left.
THEOREM SessionsFollowNodes == ContentSpec => []SessionsAreShown
<1>1. CInv /\ DInv => SessionsAreShown
    BY DEF DInv
<1> QED
    BY ContentInvariant, <1>1, PTL

\* Whatever is answered, and in whatever order with switches, deletions and
\* restarts, what a fetch put on a node's face is on disk as soon as it shows.
THEOREM EnrichmentOutlivesCrashes == ContentSpec => []EnrichmentIsStored
<1>1. CInv /\ DInv => EnrichmentIsStored
    BY DEF DInv
<1> QED
    BY ContentInvariant, <1>1, PTL

===============================================================================
