----------------------------- MODULE SessionStore -----------------------------
(***************************************************************************)
(* The sessions of a profile on disk and the one the app shows (session.rs,*)
(* app/session_lifecycle.rs and the effects that save, switch and close).  *)
(*                                                                         *)
(* What the user does sets a program of durable steps going, in the order  *)
(* of the code; every step may fail, which is logged and no more, and the  *)
(* process may die between any two.  A graph is the set of its nodes, told *)
(* apart by the image they refer to, if any, and every one named with the  *)
(* session it was made in; titles and the like are saved with it.          *)
(***************************************************************************)
EXTENDS Naturals, Sequences, FiniteSets

CONSTANTS
    Session, Image,
    NoImage,   \* what a node without an image has
    None,      \* no session, no graph file
    Faults,    \* the calls that may fail: graph, blob, manifest, mark, move, trash, restore
    MaxSpoilt  \* bound: failed writes not made good since

ASSUME SessionStoreAssumption ==
    /\ None \notin Session
    /\ NoImage \notin Image
    /\ \A g \in SUBSET (Session \X (Image \cup {NoImage})) : g # None  \* no file is no graph
    /\ Faults \subseteq {"graph", "blob", "manifest", "mark", "move", "trash", "restore"}
    /\ MaxSpoilt \in Nat

VARIABLES
    flat,        \* the graph.json of a layout older than sessions, if any
    graphs,      \* graph.json of every session
    blobs,       \* image files of every session
    manifests,   \* sessions with a manifest
    trash,       \* sessions moved to the trash, directory and all
    mark,        \* current_session
    sess,        \* the session the app shows, None when it does not run
    graph,       \* its graph
    listed,      \* the manifests the app holds, written or not
    todo,        \* steps still to be taken
    moved,       \* history: graphs a migration has moved and not yet listed
    opened,      \* history: nodes opened and not saved since
    spoilt       \* history: the writes that failed last time and for whom, and
                 \* the sweeps ("gc") that went by a graph not saved

disk    == <<flat, graphs, blobs, manifests, trash, mark>>
memory  == <<sess, graph, listed>>
history == <<moved, opened, spoilt>>
vars    == <<disk, memory, todo, history>>

Ref == Session \X Image
Node == Session \X (Image \cup {NoImage})
Step == [op : {"graph", "gc", "manifest", "blob", "trash", "adopt", "load", "copy", "move"},
         on : Session \cup Ref \cup {None}]
Do(op, x) == <<[op |-> op, on |-> x]>>

TypeOK ==
    /\ flat \in {{}, None}
    /\ graphs \in [Session -> (SUBSET Node) \cup {None}]
    /\ blobs \in [Session -> SUBSET Ref]
    /\ manifests \subseteq Session \ trash /\ trash \subseteq Session
    /\ mark \in Session \cup {None}
    /\ sess \in Session \cup {None}
    /\ graph \subseteq Node
    /\ listed \subseteq Session
    /\ todo \in Seq(Step)
    /\ moved \subseteq Session
    /\ opened \subseteq Node
    /\ spoilt \subseteq (Faults \cup {"gc"}) \X (Session \cup Ref \cup {None})

\* Mutant: orphans are swept before the graph is saved.
SweepFirst == Do("gc", None) \o Do("graph", None) \o Do("manifest", None)

\* Effect::SaveSession: the graph, then the sweep of orphan images, then the
\* sidecars of the view, then the manifest's time of last use.
SaveSession == Do("graph", None) \o Do("gc", None) \o Do("manifest", None)

\* adopt_session: the mark, the manifest's time of last use, the graph.
AdoptSession(s) == Do("adopt", s) \o Do("manifest", None) \o Do("load", None)

\* Mutant: the session changes before the departing one is saved.
AdoptFirst(s) == Do("adopt", s) \o SaveSession \o Do("load", None)

\* Effect::SwitchSession: the departing session is saved while it is live.
SwitchSession(s) == SaveSession \o AdoptSession(s)

\* An id nobody had before.
Fresh == {s \in Session : s \notin manifests \cup trash \cup listed /\ graphs[s] = None}

Ok(call, s) == <<call, s>> \notin spoilt
Failed(call, who) ==
    /\ call \in Faults
    /\ Cardinality(spoilt) < MaxSpoilt
    /\ spoilt' = spoilt \cup ({call} \X who)
Succeeded(call, who) == spoilt' = spoilt \ ({call} \X who)

-----------------------------------------------------------------------------
\* The steps.
Take(op) ==
    /\ todo # <<>> /\ Head(todo).op = op
    /\ todo' = Tail(todo)

\* save_session_graph
SaveGraph ==
    /\ Take("graph")
    /\ \/ /\ graphs' = [graphs EXCEPT ![sess] = graph]
          /\ opened' = {}
          /\ Succeeded("graph", {sess})
       \/ UNCHANGED <<graphs, opened>> /\ Failed("graph", {sess})
    /\ UNCHANGED <<flat, blobs, manifests, trash, mark, memory, moved>>

\* gc_orphan_image_blobs, by the graph in memory, saved or not.
SweepImages ==
    /\ Take("gc")
    /\ blobs' = [blobs EXCEPT ![sess] = @ \cap graph]
    /\ spoilt' = spoilt \cup (IF Ok("graph", sess) THEN {} ELSE {<<"gc", sess>>})
    /\ UNCHANGED <<flat, graphs, manifests, trash, mark, memory, moved, opened>>

\* ManifestStore::flush_dirty: every manifest not yet written.
FlushManifests ==
    /\ Take("manifest")
    /\ \/ /\ manifests' = manifests \cup listed
          /\ moved' = moved \ listed
          /\ Succeeded("manifest", listed)
       \/ UNCHANGED <<manifests, moved>> /\ Failed("manifest", listed \ manifests)
    /\ UNCHANGED <<flat, graphs, blobs, trash, mark, memory, opened>>

\* Effect::StoreImage, save_image_blob: a file there already is not written again.
StoreImage ==
    /\ Take("blob")
    /\ LET r == Head(todo).on IN
       \/ blobs' = [blobs EXCEPT ![sess] = @ \cup {r}] /\ Succeeded("blob", {r})
       \/ r \notin blobs[sess] /\ UNCHANGED blobs /\ Failed("blob", {r})
    /\ UNCHANGED <<flat, graphs, manifests, trash, mark, memory, moved, opened>>

\* apply_trash
ApplyTrash ==
    /\ Take("trash")
    /\ \/ /\ sess \in manifests
          /\ trash' = trash \cup {sess}
          /\ manifests' = manifests \ {sess}
          /\ listed' = listed \ {sess}
       \/ /\ "trash" \in Faults \/ sess \notin manifests
          /\ UNCHANGED <<trash, manifests, listed>>
    /\ UNCHANGED <<flat, graphs, blobs, mark, sess, graph, history>>

\* Mutant: the session adopted is not recorded.
AdoptUnmarked ==
    /\ Take("adopt")
    /\ sess' = Head(todo).on
    /\ UNCHANGED <<disk, graph, listed, history>>

\* record_current_session
Adopt ==
    /\ Take("adopt")
    /\ sess' = Head(todo).on
    /\ \/ mark' = sess' /\ Succeeded("mark", Session)
       \/ UNCHANGED mark /\ Failed("mark", {sess'})
    /\ UNCHANGED <<flat, graphs, blobs, manifests, trash, graph, listed, moved, opened>>

\* load_session_graph
Loaded(s) == IF graphs[s] = None THEN {} ELSE graphs[s]

LoadGraph ==
    /\ Take("load")
    /\ graph' = Loaded(sess)
    /\ opened' = {}
    /\ UNCHANGED <<disk, sess, listed, moved, spoilt>>

\* The fork's graph.json: the nodes copied, whose images are no files of the fork.
SaveFork ==
    /\ Take("copy")
    /\ LET s == Head(todo).on IN
       \/ /\ graphs' = [graphs EXCEPT ![s] = {<<s, NoImage>>}]
          /\ Succeeded("graph", {s})
       \/ UNCHANGED graphs /\ Failed("graph", {s})
    /\ UNCHANGED <<flat, blobs, manifests, trash, mark, memory, moved, opened>>

\* mint_session, when there is nothing to open.
Mint(s) ==
    /\ listed' = {s}
    /\ todo' = Do("manifest", None) \o AdoptSession(s)

\* The flat graph is moved before the session it goes to has its manifest.
MoveFlat ==
    /\ todo # <<>> /\ Head(todo).op = "move"
    /\ \/ LET s == Head(todo).on IN
          /\ graphs' = [graphs EXCEPT ![s] = flat]
          /\ flat' = None
          /\ moved' = moved \cup {s}
          /\ Mint(s)
          /\ UNCHANGED spoilt
       \/ /\ Failed("move", {None})
          /\ Mint(Head(todo).on)
          /\ UNCHANGED <<graphs, flat, moved>>
    /\ UNCHANGED <<blobs, manifests, trash, mark, sess, graph, opened>>

-----------------------------------------------------------------------------
\* What the user and the network set going, once the steps before are done.
Running == sess # None /\ todo = <<>>

\* open_address, nav_back, nav_forward and reconcile_shared_graph, and the address
\* or the sample graph of a start: nodes are made and nothing is saved.
Visit ==
    /\ Running
    /\ graph' = graph \cup {<<sess, NoImage>>}
    /\ opened' = opened \cup {<<sess, NoImage>>}
    /\ UNCHANGED <<disk, sess, listed, todo, moved, spoilt>>

\* apply_page, Action::SaveSession and whatever else changes no node's image.
Save ==
    /\ Running
    /\ todo' = SaveSession
    /\ UNCHANGED <<disk, memory, history>>

\* recover_deleted_node, confirm_install_denizen
AddNode ==
    /\ Running
    /\ graph' = graph \cup {<<sess, NoImage>>}
    /\ todo' = SaveSession
    /\ UNCHANGED <<disk, sess, listed, history>>

\* apply_favicon: the node's image is replaced and stored, and the session saved
\* if that changes anything.
ApplyFavicon(i, old) ==
    /\ Running
    /\ graph' = (graph \ old) \cup {<<sess, i>>}
    /\ todo' = Do("blob", <<sess, i>>) \o IF graph' = graph THEN <<>> ELSE SaveSession
    /\ UNCHANGED <<disk, sess, listed, history>>

\* Mutant: a removal waits for the next save.
RemoveUnsaved(r) ==
    /\ Running
    /\ r \in graph
    /\ graph' = graph \ {r}
    /\ UNCHANGED <<disk, sess, listed, todo, history>>

\* A node goes, and its image with it.
RemoveNode(r) ==
    /\ Running
    /\ r \in graph
    /\ graph' = graph \ {r}
    /\ todo' = SaveSession
    /\ UNCHANGED <<disk, sess, listed, history>>

Switch(s) ==
    /\ Running
    /\ s \in listed \ {sess}
    /\ todo' = SwitchSession(s)
    /\ UNCHANGED <<disk, memory, history>>

\* mint_session and the switch to what it minted.
NewSession(s) ==
    /\ Running
    /\ s \in Fresh
    /\ listed' = listed \cup {s}
    /\ todo' = Do("manifest", None) \o SwitchSession(s)
    /\ UNCHANGED <<disk, sess, graph, history>>

\* Mutant: the fork's graph is written before its manifest.
ForkUnlisted(s) ==
    /\ Running
    /\ s \in Fresh
    /\ listed' = listed \cup {s}
    /\ todo' = Do("copy", s) \o Do("manifest", None) \o SwitchSession(s)
    /\ UNCHANGED <<disk, sess, graph, history>>

\* fork_session_from: minted, given the copied component, and switched to.
Fork(s) ==
    /\ Running
    /\ s \in Fresh
    /\ listed' = listed \cup {s}
    /\ todo' = Do("manifest", None) \o Do("copy", s) \o SwitchSession(s)
    /\ UNCHANGED <<disk, sess, graph, history>>

\* close_session and Effect::TrashSession: no save, and the last session is
\* followed by a new one.
Close(next) ==
    /\ Running
    /\ IF listed = {sess} THEN next \in Fresh ELSE next \in listed \ {sess}
    /\ listed' = listed \cup {next}
    /\ todo' = (IF next \in listed THEN <<>> ELSE Do("manifest", None))
                 \o Do("trash", sess) \o AdoptSession(next)
    /\ UNCHANGED <<disk, sess, graph, history>>

Recover(s) ==
    /\ Running
    /\ s \in trash
    /\ \/ /\ trash' = trash \ {s}
          /\ manifests' = manifests \cup {s}
          /\ listed' = listed \cup {s}
          /\ todo' = SwitchSession(s)
       \/ "restore" \in Faults /\ UNCHANGED <<trash, manifests, listed, todo>>
    /\ UNCHANGED <<flat, graphs, blobs, mark, sess, graph, history>>

\* load_manifests, migrate_flat_layout, pick_session: the session marked, or
\* the one used last.
PickSession(s) ==
    /\ s \in manifests
    /\ mark \in manifests => s = mark

Boot ==
    /\ sess = None /\ todo = <<>>
    /\ \/ \E s \in Session :
            PickSession(s) /\ listed' = manifests /\ todo' = AdoptSession(s)
       \/ /\ manifests = {}
          /\ \E s \in Fresh :
               \/ flat = None /\ Mint(s)
               \/ flat # None /\ todo' = Do("move", s) /\ UNCHANGED listed
    /\ UNCHANGED <<disk, sess, graph, history>>

Crash ==
    /\ sess' = None
    /\ graph' = {}
    /\ listed' = {}
    /\ todo' = <<>>
    /\ opened' = {}
    /\ UNCHANGED <<disk, moved, spoilt>>

Init ==
    /\ flat \in {{}, None}
    /\ graphs = [s \in Session |-> None]
    /\ blobs = [s \in Session |-> {}]
    /\ manifests = {}
    /\ trash = {}
    /\ mark = None
    /\ sess = None /\ graph = {} /\ listed = {}
    /\ todo = <<>>
    /\ moved = {}
    /\ opened = {}
    /\ spoilt = {}

Steps ==
    \/ SaveGraph \/ SweepImages \/ FlushManifests \/ StoreImage
    \/ ApplyTrash \/ Adopt \/ LoadGraph \/ SaveFork \/ MoveFlat

User ==
    \/ Visit \/ Save \/ AddNode
    \/ \E i \in Image, old \in {{}} \cup {{r} : r \in graph} : ApplyFavicon(i, old)
    \/ \E r \in graph : RemoveNode(r)
    \/ \E s \in Session :
         Switch(s) \/ NewSession(s) \/ Fork(s) \/ Close(s) \/ Recover(s)

Next == Steps \/ User \/ Boot \/ Crash

Spec == Init /\ [][Next]_vars

-----------------------------------------------------------------------------
\* Every image the graph on disk refers to is on disk, at any moment a crash may
\* come, unless its own write failed or a sweep went by a graph whose save had
\* failed: images are stored before the graph is saved and swept after.
ImagesKept ==
    \A s \in Session :
        graphs[s] # None /\ Ok("gc", s) =>
            \A r \in graphs[s] \cap Ref : r \in blobs[s] \/ ~ Ok("blob", r)

\* No graph is on disk where no start of the app will find it, except the one a
\* migration was moving when the process died.
NoGraphForgotten ==
    /\ \A s \in Session \ moved :
         graphs[s] # None /\ Ok("manifest", s) => s \in manifests \cup trash
    /\ flat # None /\ Ok("move", None) => manifests = {}

\* No session is saved over another, whatever the order of saves and switches.
\* Types hold.
OwnGraph ==
    /\ TypeOK
    /\ \A s \in Session : graphs[s] # None => \A x \in graphs[s] : x[1] = s

\* Between the user's actions a crash brings back nothing that was removed, and
\* loses nothing but nodes opened since the last save: no enrichment ("run after
\* each enrichment (so a crash loses nothing)", session.rs), no node recovered or
\* installed ...
CrashLosesNothing ==
    Running /\ Ok("graph", sess) =>
        /\ Loaded(sess) \subseteq graph
        /\ graph \ Loaded(sess) \subseteq opened

\* ... and a restart opens the session that was shown.
RestartReturns ==
    Running /\ Ok("mark", sess) /\ Ok("manifest", sess) =>
        \A s \in Session : PickSession(s) <=> s = sess

=============================================================================
