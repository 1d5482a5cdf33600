----------------------------- MODULE RecycleBin -----------------------------
(***************************************************************************)
(* Deleted nodes and the worlds they bear (recycle.rs, with its ends in    *)
(* app/node_arms.rs, app/session_lifecycle.rs, shell/effects.rs and the    *)
(* world files of denizen.rs).                                             *)
(*                                                                         *)
(* Two actors.  The app moves world files between the live and the archive *)
(* slot at once, on its own thread.  The bin actor owns the store of       *)
(* tombstones of one session at a time, takes commands in order, answers   *)
(* with the whole list and removes the archived world of every tombstone   *)
(* it forgets.  The two meet in the queues and in the archive slot.        *)
(*                                                                         *)
(* Every node bears one world.  A record carries, besides its node, the    *)
(* session it was made in: the code has no such field, it is what the      *)
(* directory of the store stands for.                                      *)
(***************************************************************************)
EXTENDS Naturals, Sequences, FiniteSetsExt

CONSTANTS
    Node, Session,
    None,        \* no session: the store is closed, nobody waits for an ack
    Environment, \* what surrounds the two actors, one per behaviour:
                 \*   faults  what may fail: open, record, clear, list, crash
                 \*   prompt  the user waits until the bin has answered
                 \*   patient the close path gets its ack within its 1500 ms
                 \*   nodes   how many nodes there are
    MaxPending   \* bound: commands, and answers, under way

ASSUME RecycleBinAssumption ==
    /\ None \notin Session
    /\ Environment \subseteq [faults : SUBSET {"open", "record", "clear", "list", "crash"},
                               prompt : BOOLEAN, patient : BOOLEAN, nodes : Nat]
    /\ MaxPending \in Nat \ {0}

VARIABLES
    env,         \* the environment of this behaviour
    sess,        \* the session the app shows
    graph,       \* its nodes, in memory
    saved,       \* the nodes in every session's graph file
    live,        \* world files in the live slot
    archive,     \* world files in the archive slot
    removed,     \* the app's mirror of the bin: records
    told,        \* the bin's last word: the list, or that it failed
    ui,          \* idle, saving after a change, or blocked in a close
    cmds,        \* commands on the channel of the actor
    answers,     \* updates on their way back: lists and failures
    store,       \* the session whose store the actor has open
    bin,         \* the tombstones of every session
    oven,        \* what the actor is about to forget, its worlds purged
    trash,       \* sessions whose directory was trashed
    zombies      \* trashed sessions whose directory exists again

app    == <<sess, graph, removed, told, ui>>
worlds == <<live, archive>>
dirs   == <<trash, zombies>>
actor  == <<store, bin, oven>>
vars   == <<env, app, saved, worlds, cmds, answers, actor, dirs>>

Record == Session \X Node
Of(s, nodes) == {s} \X nodes

Command == [op : {"Record", "Empty", "Reopen", "Release"}, at : Session \cup {None},
            node : Node \cup {None}]
Cmd(op, s) == [op |-> op, at |-> s, node |-> None]
Stage(n) == [Cmd("Record", sess) EXCEPT !.node = n]

BinListed(s) == [ok |-> TRUE, records |-> Of(s, bin'[s])]
BinFailed == [ok |-> FALSE, records |-> {}]

Idle == [at |-> "idle", next |-> None]
Cold == [op |-> "none", nodes |-> {}]

TypeOK ==
    /\ env \in Environment
    /\ sess \in Session
    /\ graph \subseteq Node
    /\ saved \in [Session -> SUBSET Node]
    /\ live \subseteq Record
    /\ archive \subseteq Record
    /\ removed \subseteq Record
    /\ told \in {"listed", "failed"}
    /\ ui \in [at : {"idle", "saving", "closing", "acked"}, next : Session \cup {None}]
    /\ cmds \in Seq(Command)
    /\ answers \in Seq([ok : BOOLEAN, records : SUBSET Record])
    /\ store \in Session \cup {None}
    /\ bin \in [Session -> SUBSET Node]
    /\ oven \in [op : {"none", "retire", "Empty"}, nodes : SUBSET Node]
    /\ trash \subseteq Session \ {sess}
    /\ zombies \subseteq trash

Quiet == cmds = <<>> /\ answers = <<>> /\ oven = Cold

\* The user may act: the app's thread is free and the queues have room.
UserActs ==
    /\ ui = Idle
    /\ Len(cmds) < MaxPending
    /\ env.prompt => Quiet

Send(c) == cmds' = Append(cmds, c)

-----------------------------------------------------------------------------
\* The app: delete_focused_node.  The world moves before the node leaves.
Delete(n) ==
    /\ UserActs
    /\ n \in graph
    /\ graph' = graph \ {n}
    /\ live' = live \ {<<sess, n>>}
    /\ archive' = archive \cup (live \cap {<<sess, n>>})
    /\ Send(Stage(n))
    /\ ui' = [Idle EXCEPT !.at = "saving"]
    /\ UNCHANGED <<env, sess, saved, removed, told, answers, actor, dirs>>

\* Mutant: the tombstone is dropped from the mirror by hand.
RecoverByHand(n) ==
    /\ UserActs
    /\ \E r \in removed : r[2] = n
    /\ removed' = {r \in removed : r[2] # n}
    /\ graph' = graph \cup {n}
    /\ archive' = archive \ {<<sess, n>>}
    /\ live' = live \cup (archive \cap {<<sess, n>>})
    /\ ui' = [Idle EXCEPT !.at = "saving"]
    /\ UNCHANGED <<env, sess, saved, told, cmds, answers, actor, dirs>>

\* recover_deleted_node: by identity, from the mirror; the tombstone stays.
Recover(n) ==
    /\ UserActs
    /\ \E r \in removed : r[2] = n
    /\ graph' = graph \cup {n}
    /\ archive' = archive \ {<<sess, n>>}
    /\ live' = live \cup (archive \cap {<<sess, n>>})
    /\ ui' = [Idle EXCEPT !.at = "saving"]
    /\ UNCHANGED <<env, sess, saved, removed, told, cmds, answers, actor, dirs>>

\* Effect::SaveSession, the tail of both.
SaveSession ==
    /\ ui.at = "saving"
    /\ saved' = [saved EXCEPT ![sess] = graph]
    /\ ui' = Idle
    /\ UNCHANGED <<env, sess, graph, worlds, removed, told, cmds, answers, actor, dirs>>

EmptyRecycleBin ==
    /\ UserActs
    /\ removed # {}
    /\ Send(Cmd("Empty", sess))
    /\ UNCHANGED <<env, app, saved, worlds, answers, actor, dirs>>

\* Mutant: the mirror of the session before stays until the bin answers.
AdoptKeeping(s) ==
    /\ sess' = s
    /\ graph' = saved[s]
    /\ told' = "listed"
    /\ ui' = Idle
    /\ UNCHANGED removed

\* adopt_session; what is folded next decides what the mirror shows.
Adopt(s) ==
    /\ sess' = s
    /\ graph' = saved[s]
    /\ removed' = {}
    /\ told' = "listed"
    /\ ui' = Idle

SwitchSession(s) ==
    /\ UserActs
    /\ s \notin trash \cup {sess}
    /\ Adopt(s)
    /\ Send(Cmd("Reopen", s))
    /\ UNCHANGED <<env, saved, worlds, answers, actor, dirs>>

\* The close path: release the store, wait, move the directory, adopt.
CloseSession(next) ==
    /\ UserActs
    /\ next \notin trash \cup {sess}
    /\ Send(Cmd("Release", sess))
    /\ ui' = [at |-> "closing", next |-> next]
    /\ UNCHANGED <<env, sess, graph, saved, worlds, removed, told, answers, actor, dirs>>

\* Mutant: the move does not wait for the store to be released.
GoesAhead == ui.at \in {"closing", "acked"}

\* The ack came, or the wait timed out.
MayMove == ui.at = "acked" \/ (ui.at = "closing" /\ ~env.patient)

\* An ack nobody waits for any more.
Abandoned(q) == [i \in DOMAIN q |-> IF q[i].op = "Release" THEN [q[i] EXCEPT !.at = None]
                                    ELSE q[i]]

\* A directory whose store is open may refuse to move.
TrashSession ==
    /\ MayMove
    /\ \/ trash' = trash \cup {sess}
       \/ store = sess /\ trash' = trash
    /\ Adopt(ui.next)
    /\ cmds' = Append(Abandoned(cmds), Cmd("Reopen", ui.next))
    /\ UNCHANGED <<env, saved, worlds, answers, actor, zombies>>

\* update: the mirror is replaced wholesale, a failure is only reported.
Fold ==
    /\ ui = Idle
    /\ answers # <<>>
    /\ answers' = Tail(answers)
    /\ \/ /\ Head(answers).ok
          /\ removed' = Head(answers).records
          /\ told' = "listed"
       \/ /\ ~Head(answers).ok
          /\ told' = "failed"
          /\ UNCHANGED removed
    /\ UNCHANGED <<env, sess, graph, ui, saved, worlds, cmds, actor, dirs>>

-----------------------------------------------------------------------------
\* The bin actor.
Serve(op) ==
    /\ oven = Cold
    /\ Len(answers) < MaxPending
    /\ cmds # <<>> /\ Head(cmds).op = op
    /\ cmds' = Tail(cmds)

Emit(u) == answers' = Append(answers, u)

\* emit_list
EmitList(s) ==
    \/ Emit(BinListed(s))
    \/ "list" \in env.faults /\ Emit(BinFailed)

\* A command that needs the store and finds it closed.
ServeClosed(op) ==
    /\ Serve(op)
    /\ store = None
    /\ Emit(BinFailed)
    /\ UNCHANGED <<env, app, saved, worlds, actor, dirs>>

ServeRecord ==
    /\ Serve("Record")
    /\ store # None
    /\ \/ /\ bin' = [bin EXCEPT ![store] = @ \cup {Head(cmds).node}]
          /\ EmitList(store)
       \/ /\ "record" \in env.faults
          /\ UNCHANGED bin
          /\ Emit(BinFailed)
    /\ UNCHANGED <<env, app, saved, worlds, store, oven, dirs>>

\* Mutant: a purge clears the whole archive slot of the session.
PurgeAll(s, nodes) ==
    archive' = IF s \in trash THEN archive ELSE {r \in archive : r[1] # s}

\* purge_archived_world for the tombstones about to go.  The directory of a
\* trashed session is not there any more.
Purge(s, nodes) ==
    archive' = IF s \in trash THEN archive ELSE archive \ Of(s, nodes)

\* Mutant: emptying forgets the tombstones and leaves their worlds.
EmptyRecordsOnly ==
    /\ Serve("Empty")
    /\ store # None
    /\ oven' = [op |-> "Empty", nodes |-> bin[store]]
    /\ UNCHANGED <<env, app, saved, worlds, answers, store, bin, dirs>>

ServeEmpty ==
    /\ Serve("Empty")
    /\ store # None
    /\ \/ Purge(store, bin[store])
       \/ "list" \in env.faults /\ UNCHANGED archive   \* the purge finds no list
    /\ oven' = [op |-> "Empty", nodes |-> bin[store]]
    /\ UNCHANGED <<env, app, saved, live, answers, store, bin, dirs>>

\* Mutant: a failed reopen keeps the store of the session before.
ReopenFailsOpen ==
    /\ Serve("Reopen")
    /\ "open" \in env.faults
    /\ Emit(BinFailed)
    /\ UNCHANGED <<env, app, saved, worlds, actor, dirs>>

ReopenFails ==
    /\ Serve("Reopen")
    /\ "open" \in env.faults
    /\ store' = None
    /\ Emit(BinFailed)
    /\ UNCHANGED <<env, app, saved, worlds, bin, oven, dirs>>

\* open creates the directory, retire_then_list forgets what is too old.
ServeReopen ==
    /\ Serve("Reopen")
    /\ LET s == Head(cmds).at
           reborn == s \in trash \ zombies
       IN /\ store' = s
          /\ zombies' = zombies \cup ({s} \cap trash)
          /\ bin' = IF reborn THEN [bin EXCEPT ![s] = {}] ELSE bin
          /\ \E aged \in SUBSET bin'[s] :
               /\ oven' = [op |-> "retire", nodes |-> aged]
               /\ Purge(s, aged)
    /\ UNCHANGED <<env, app, saved, live, answers, trash>>

\* The tombstones go, their worlds purged; a failure ends an emptying, but a
\* failed retirement still lists.
Forget ==
    /\ oven # Cold
    /\ oven' = Cold
    /\ \/ /\ bin' = [bin EXCEPT ![store] = @ \ oven.nodes]
          /\ EmitList(store)
       \/ /\ "clear" \in env.faults
          /\ UNCHANGED bin
          /\ IF oven.op = "Empty" THEN Emit(BinFailed) ELSE EmitList(store)
    /\ UNCHANGED <<env, app, saved, worlds, cmds, store, dirs>>

ServeRelease ==
    /\ Serve("Release")
    /\ store' = None
    /\ ui' = IF Head(cmds).at = None THEN ui ELSE [ui EXCEPT !.at = "acked"]
    /\ UNCHANGED <<env, sess, graph, removed, told, saved, worlds, answers, bin, oven, dirs>>

\* The process dies and is started again: what is in memory or queued is gone,
\* spawn_bin opens the bin of the session it was in.
Crash ==
    /\ "crash" \in env.faults
    /\ graph' = saved[sess]
    /\ removed' = {}
    /\ told' = "listed"
    /\ ui' = Idle
    /\ cmds' = <<Cmd("Reopen", sess)>>
    /\ answers' = <<>>
    /\ store' = None
    /\ oven' = Cold
    /\ UNCHANGED <<env, sess, saved, worlds, bin, dirs>>

-----------------------------------------------------------------------------
\* Every node starts in some session, with its world in the live slot.
Init ==
    /\ env \in Environment
    /\ sess \in Session
    /\ \E nodes \in kSubset(env.nodes, Node) : \E home \in [nodes -> Session] :
         /\ saved = [s \in Session |-> {n \in nodes : home[n] = s}]
         /\ graph = {n \in nodes : home[n] = sess}
         /\ live = {<<home[n], n>> : n \in nodes}
    /\ archive = {}
    /\ removed = {}
    /\ told = "listed"
    /\ ui = Idle
    /\ cmds = <<Cmd("Reopen", sess)>>
    /\ answers = <<>>
    /\ store = None
    /\ bin = [s \in Session |-> {}]
    /\ oven = Cold
    /\ trash = {}
    /\ zombies = {}

App ==
    \/ \E n \in Node : Delete(n) \/ Recover(n)
    \/ \E s \in Session : SwitchSession(s) \/ CloseSession(s)
    \/ SaveSession \/ EmptyRecycleBin \/ TrashSession \/ Fold

BinActor ==
    \/ ServeRecord \/ ServeEmpty \/ ServeReopen \/ ReopenFails \/ ServeRelease \/ Forget
    \/ ServeClosed("Record") \/ ServeClosed("Empty")

Next == App \/ BinActor \/ Crash

Spec == Init /\ [][Next]_vars

-----------------------------------------------------------------------------
Graph(s) == IF s = sess THEN graph ELSE saved[s]

\* A tombstone lands in the bin of the session its node was deleted in,
\* however many switches, closes and failed reopens the channel holds.
StagedInItsOwnBin ==
    [][\A s \in Session : bin'[s] \ bin[s] # {} => Head(cmds).at = s]_vars

\* When the bin has nothing left to do, the app shows the bin of its session
\* or has been told last that the bin failed.
MirrorSettles ==
    Quiet /\ ui = Idle /\ store # None
      => told = "failed" \/ removed = Of(sess, bin[sess])

\* An archived world is never orphaned while nothing fails: its node is in the
\* graph, or a tombstone brings it back, in the bin or on its way there.
ArchivedHasTombstone ==
    env.faults = {} =>
      \A r \in archive :
          \/ r[1] \in trash
          \/ r[2] \in bin[r[1]]
          \/ \E i \in DOMAIN cmds :
               cmds[i].op = "Record" /\ cmds[i].at = r[1] /\ cmds[i].node = r[2]

\* A tombstone still in the bin keeps the world of its node for the recovery
\* ("the tombstone is already gone" when a world is purged, denizen.rs), unless
\* the actor is forgetting it right now.
TombstoneKeepsWorld ==
    \A s \in Session \ trash :
        \A n \in bin[s] \ Graph(s) :
            <<s, n>> \in archive \/ (store = s /\ n \in oven.nodes)

\* A user who waits for the bin's answers loses no world to a purge, and has
\* that of every node of the session shown in the live slot, through any number
\* of deletions and recoveries, stores that do not open and tombstones that are
\* not recorded.  (A crash between the move of a world and the save, tombstones
\* not cleared after their worlds are purged and a list that fails after an
\* emptying each lose one.)
PromptKeepsWorld ==
    env.prompt /\ env.faults \subseteq {"open", "record"} =>
        TombstoneKeepsWorld /\ Of(sess, graph) \subseteq live

\* What a user who waits for the bin's answers is offered for recovery was
\* deleted in the session shown ("the bin mirror empties until the reopened
\* session store answers", app/session_lifecycle.rs).
MirrorIsOwn == env.prompt => removed \subseteq Of(sess, Node)

\* The directory of a closed session stays in the trash: an actor whose release
\* is waited for does not create it again.  Types hold.
NoZombieBin == TypeOK /\ (env.patient => zombies = {})

=============================================================================
