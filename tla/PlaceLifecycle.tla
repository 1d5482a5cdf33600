--------------------------- MODULE PlaceLifecycle ---------------------------
(***************************************************************************)
(* The shared place of the running session: app state, shell, place worker *)
(* and session directories.                                                *)
(*                                                                         *)
(* Two threads.  The UI thread runs App and Shell (app/session_lifecycle,  *)
(* app/updates, shell/effects); it sends commands to the place worker, and *)
(* folds the worker's answers one at a time when it is woken.  The worker  *)
(* (place/worker.rs) executes commands in order and holds at most one open *)
(* place.  A third actor, the lane watcher of a live place, shares the     *)
(* answer channel.  The UI thread blocks only while it waits for a Release *)
(* to be acknowledged, for at most 1500 ms.                                *)
(*                                                                         *)
(* The contents of a place are abstracted to a count of the operations its *)
(* stores retain: a snapshot is the place it was folded from and the count *)
(* at that moment.  What admission checks is the subject of PlaceAdmission *)
(* and the calls that write place.json that of SidecarFile; here admission *)
(* and each write of place.json have an outcome: written, left alone, or   *)
(* removed and not put back.                                               *)
(***************************************************************************)
EXTENDS Naturals, Sequences

CONSTANTS
    Sessions,     \* session ids
    Places,       \* shared places a session can be bound to
    None,         \* no place, no session, nothing open
    Lost,         \* no place.json: a write removed it and put none in place
    AckTimeouts,  \* may the worker be too slow for the release wait?
    Crashes,      \* may the process die and be started again?
    MaxGen,       \* bound: generations per process lifetime
    MaxFacts,     \* bound: operations per place store
    MaxPending    \* bound: commands and answers under way when one is added

ASSUME PlaceLifecycleAssumption ==
    /\ None \notin Places
    /\ None \notin Sessions
    /\ Lost \notin Places /\ Lost # None
    /\ AckTimeouts \in BOOLEAN
    /\ Crashes \in BOOLEAN
    /\ {MaxGen, MaxFacts, MaxPending} \subseteq Nat

VARIABLES
    sess,      \* App.session_id
    place,     \* App.place: what the app shows of the session's place
    nextGen,   \* App.next_place_generation
    ui,        \* where the UI thread is inside an effect that waits
    cmds,      \* place_handle: the worker's command channel
    live,      \* the worker's open place, or None
    job,       \* the command the worker is in the middle of, or None
    upd,       \* place_rx: answers not yet folded
    listed,    \* the manifest store: sessions the switcher offers
    trash,     \* sessions whose directory was moved to the trash
    dir,       \* sessions/<id>/: never made or moved away, kept, or made
               \* anew after it was moved to the trash
    sidecar,   \* sessions/<id>/place.json
    facts      \* operations in sessions/<id>/place/

app   == <<sess, place, nextGen>>
chan  == <<cmds, upd>>
work  == <<live, job>>
disk  == <<listed, trash, dir, sidecar, facts>>
vars  == <<app, ui, chan, work, disk>>

Binding == Places \cup {None}
Sidecar == Binding \cup {Lost}
Generation == Nat \ {0}

-----------------------------------------------------------------------------
(* Place state, app/place.rs.  Generation 0 stands for "no generation".     *)

NoSnap == [place |-> None, facts |-> 0]
Snap(p, n) == [place |-> p, facts |-> n]

Personal          == [kind |-> "Personal", gen |-> 0, binding |-> None, snap |-> NoSnap]
Failed            == [kind |-> "Failed",   gen |-> 0, binding |-> None, snap |-> NoSnap]
Joining(g)        == [kind |-> "Joining",  gen |-> g, binding |-> None, snap |-> NoSnap]
Opening(b, g)     == [kind |-> "Opening",  gen |-> g, binding |-> b,    snap |-> NoSnap]
Offline(b, g, sn) == [kind |-> "Offline",  gen |-> g, binding |-> b,    snap |-> sn]
Degraded(b, g)    == [kind |-> "Degraded", gen |-> g, binding |-> b,    snap |-> NoSnap]

PlaceState ==
    {Personal, Failed} \cup
    [kind : {"Joining"}, gen : Generation, binding : {None}, snap : {NoSnap}] \cup
    [kind : {"Opening", "Offline", "Degraded"}, gen : Generation, binding : Places,
     snap : [place : Binding, facts : Nat]]

(* Commands to the worker; a Release is about no session in particular.     *)
Openers == {"Open", "Join"}

Open(s, g, b)  == [op |-> "Open",    session |-> s,    gen |-> g, place |-> b]
Join(s, g, p)  == [op |-> "Join",    session |-> s,    gen |-> g, place |-> p]
Resync(s, g)   == [op |-> "Resync",  session |-> s,    gen |-> g, place |-> None]
Author(s, g)   == [op |-> "Author",  session |-> s,    gen |-> g, place |-> None]
Release        == [op |-> "Release", session |-> None, gen |-> 0, place |-> None]

Command ==
    [op : Openers, session : Sessions, gen : Generation, place : Places] \cup
    [op : {"Resync", "Author"}, session : Sessions, gen : Generation, place : {None}] \cup
    {Release}

(* Answers.  place and facts are the snapshot of an Ok; wrote tells whether  *)
(* something durable came of the command (an annotation: no answer says so). *)
Update ==
    [op : {"Opened", "Joined", "Done", "Advanced"}, session : Sessions, gen : Generation,
     result : {"Ok"}, place : Places, facts : Nat, wrote : {FALSE}] \cup
    [op : {"Opened", "Joined", "Done"}, session : Sessions, gen : Generation,
     result : {"Err"}, place : {None}, facts : Nat, wrote : BOOLEAN]

Ok(op, c, p, n)   == [op |-> op, session |-> c.session, gen |-> c.gen,
                      result |-> "Ok", place |-> p, facts |-> n, wrote |-> FALSE]
Err(op, c, wrote) == [op |-> op, session |-> c.session, gen |-> c.gen,
                      result |-> "Err", place |-> None, facts |-> 0, wrote |-> wrote]

(* What the worker holds.  The generation is the one the place was opened   *)
(* under; news tells the watcher that operations arrived since it last spoke. *)
LivePlace == [session : Sessions, gen : Generation, place : Places,
              lanes : BOOLEAN, news : BOOLEAN]
JoinSteps   == {"admit", "commit", "reopen", "dial"}
AuthorSteps == {"author", "publish"}
Job == [step : JoinSteps \cup AuthorSteps, session : Sessions, gen : Generation,
        place : Places, facts : Nat]

ASSUME NothingAssumption == None \notin LivePlace /\ None \notin Job

\* A wait for a Release: to adopt next, to trash closing before that, or for
\* the ClosePlace of a session without a place.
Idle           == [at |-> "idle",      next |-> None, closing |-> None]
Switching(t)   == [at |-> "switching", next |-> t,    closing |-> None]
Trashing(t, c) == [at |-> "trashing",  next |-> t,    closing |-> c]
Closing        == [at |-> "closing",   next |-> None, closing |-> None]

Waits ==
    {Idle, Closing} \cup {Switching(t) : t \in Sessions}
    \cup {Trashing(t, c) : t \in Sessions, c \in Sessions}

TypeOK ==
    /\ sess \in Sessions
    /\ place \in PlaceState
    /\ nextGen \in Generation
    /\ ui \in Waits
    /\ cmds \in Seq(Command)
    /\ upd \in Seq(Update)
    /\ live \in LivePlace \cup {None}
    /\ job \in Job \cup {None}
    /\ listed \subseteq Sessions
    /\ trash \subseteq Sessions
    /\ dir \in [Sessions -> {"absent", "kept", "zombie"}]
    /\ sidecar \in [Sessions -> Sidecar]
    /\ facts \in [Sessions -> Nat]

-----------------------------------------------------------------------------
(* The UI thread: intents, and the effects they run.                         *)

Room == Len(cmds) + Len(upd) < MaxPending

\* adopt_session(t): a new generation, and the session is what its sidecar
\* says.  Without a binding the ClosePlace effect makes the shell wait for
\* one more Release.  queue is the command channel so far.
Adopt(t, g, queue) ==
    LET personal == /\ cmds' = Append(queue, Release)
                    /\ ui' = Closing
    IN  /\ sess' = t
        /\ nextGen' = g
        /\ \/ /\ sidecar[t] \in Places
              /\ place' = Opening(sidecar[t], g)
              /\ cmds' = Append(queue, Open(t, g, sidecar[t]))
              /\ ui' = Idle
           \/ /\ sidecar[t] \notin Places     \* there is no file
              /\ place' = Personal
              /\ personal
           \/ /\ sidecar[t] \in Places     \* present and unreadable
              /\ place' = Failed
              /\ personal

\* save_place_binding: the target is removed before the new file is renamed to
\* its name.  A call before the removal may fail, or the rename, or the process
\* dies in between.
Written(s, p) ==
    {sidecar, [sidecar EXCEPT ![s] = p]}
    \cup {[sidecar EXCEPT ![s] = Lost] : x \in {sidecar[s]} \cap Places}

\* save_session's share of this state: the binding the app holds is written
\* over the sidecar, if there is one (update_place_binding), and a failure is
\* warned of.
SavedSidecar ==
    IF place.binding # None /\ sidecar[sess] \in Places
    THEN Written(sess, place.binding)
    ELSE {sidecar}

SaveSession ==
    /\ ui = Idle
    /\ sidecar' \in SavedSidecar
    /\ UNCHANGED <<app, ui, chan, work, listed, trash, dir, facts>>

\* Mutant: the place bound so far stays on screen while another is joined.
JoinKeepsBinding(p) ==
    /\ ui = Idle
    /\ nextGen < MaxGen /\ Room
    /\ nextGen' = nextGen + 1
    /\ place' = IF place.binding = None THEN Joining(nextGen + 1)
                ELSE Opening(place.binding, nextGen + 1)
    /\ cmds' = Append(cmds, Join(sess, nextGen + 1, p))
    /\ UNCHANGED <<sess, ui, upd, work, disk>>

JoinPlace(p) ==
    /\ ui = Idle
    /\ nextGen < MaxGen /\ Room
    /\ nextGen' = nextGen + 1
    /\ place' = Joining(nextGen + 1)
    /\ cmds' = Append(cmds, Join(sess, nextGen + 1, p))
    /\ UNCHANGED <<sess, ui, upd, work, disk>>

RunPlaceCommand ==
    /\ ui = Idle
    /\ place.gen # 0 /\ Room
    /\ cmds' = Append(cmds, Author(sess, place.gen))
    /\ UNCHANGED <<app, ui, upd, work, disk>>

ResyncPlace ==
    /\ ui = Idle
    /\ place.gen # 0 /\ Room
    /\ cmds' = Append(cmds, Resync(sess, place.gen))
    /\ UNCHANGED <<app, ui, upd, work, disk>>

\* Effect::SwitchSession up to the release wait.
StartSwitch(t) ==
    /\ nextGen < MaxGen
    /\ sidecar' \in SavedSidecar
    /\ cmds' = Append(cmds, Release)
    /\ ui' = Switching(t)
    /\ UNCHANGED <<app, upd, work, facts>>

SwitchSession(t) ==
    /\ ui = Idle
    /\ t \in listed /\ t # sess
    /\ StartSwitch(t)
    /\ UNCHANGED <<listed, trash, dir>>

\* Session ids are fresh: neither a manifest nor a directory of that name.
Unused(t) == t \notin listed \cup trash /\ dir[t] = "absent"

Mint(t) ==
    /\ Unused(t)
    /\ listed' = listed \cup {t}
    /\ dir' = [dir EXCEPT ![t] = "kept"]

NewSession(t) ==
    /\ ui = Idle
    /\ Mint(t)
    /\ StartSwitch(t)
    /\ UNCHANGED trash

\* restore_from_trash moves the directory back; it cannot while something
\* stands in its place.
RecoverSession(t) ==
    /\ ui = Idle
    /\ t \in trash /\ dir[t] = "absent"
    /\ trash' = trash \ {t}
    /\ listed' = listed \cup {t}
    /\ dir' = [dir EXCEPT ![t] = "kept"]
    /\ StartSwitch(t)

\* close_session chooses the successor, Effect::TrashSession runs up to the
\* release wait: the departing session is not saved.
CloseSession(t) ==
    /\ ui = Idle
    /\ nextGen < MaxGen
    /\ \/ t \in listed \ {sess} /\ UNCHANGED <<listed, dir>>
       \/ listed = {sess} /\ Mint(t)
    /\ cmds' = Append(cmds, Release)
    /\ ui' = Trashing(t, sess)
    /\ UNCHANGED <<app, upd, work, trash, sidecar, facts>>

\* Mutant: the shell does not wait.
AcknowledgedAtOnce == TRUE

\* The wait in release_place_worker ends with the acknowledgement, the
\* Release being the last command sent, or by timeout.
Acknowledged == cmds = <<>> /\ job = None
ReleaseWaitEnds == Acknowledged \/ AckTimeouts

\* Mutant: a switch takes no generation of its own.
SwitchUncounted ==
    /\ ui.at = "switching"
    /\ ReleaseWaitEnds
    /\ Adopt(ui.next, nextGen, cmds)
    /\ UNCHANGED <<upd, work, disk>>

FinishSwitch ==
    /\ ui.at = "switching"
    /\ ReleaseWaitEnds
    /\ Adopt(ui.next, nextGen + 1, cmds)
    /\ UNCHANGED <<upd, work, disk>>

\* apply_trash moves the directory whole, or fails and leaves it; the
\* successor is adopted either way.
FinishTrash ==
    /\ ui.at = "trashing"
    /\ ReleaseWaitEnds
    /\ \/ /\ trash' = trash \cup {ui.closing}
          /\ listed' = listed \ {ui.closing}
          /\ dir' = [dir EXCEPT ![ui.closing] = "absent"]
       \/ UNCHANGED <<trash, listed, dir>>
    /\ Adopt(ui.next, nextGen + 1, cmds)
    /\ UNCHANGED <<upd, work, sidecar, facts>>

FinishClose ==
    /\ ui.at = "closing"
    /\ ReleaseWaitEnds
    /\ ui' = Idle
    /\ UNCHANGED <<app, chan, work, disk>>

-----------------------------------------------------------------------------
(* The UI thread: folding an answer, app/updates.rs.                         *)

\* Mutant: the session alone is compared.
CurrentSession(u) == u.session = sess

\* The guard every place update passes first.
Current(u) == u.session = sess /\ u.gen = place.gen

Fold(op) ==
    /\ ui = Idle
    /\ upd # <<>>
    /\ Head(upd).op = op
    /\ upd' = Tail(upd)
    /\ UNCHANGED <<sess, nextGen, ui, work, disk>>

FoldStale ==
    /\ \E op \in {"Opened", "Joined", "Done", "Advanced"} : Fold(op)
    /\ ~ Current(Head(upd))
    /\ UNCHANGED <<place, cmds>>

FoldAdvanced ==
    /\ Fold("Advanced")
    /\ Current(Head(upd))
    /\ cmds' = Append(cmds, Resync(sess, place.gen))
    /\ UNCHANGED place

\* An Ok without a binding to show it under is dropped, a refusal is an event.
DoneState(u) ==
    IF u.result = "Ok" /\ place.binding # None
    THEN Offline(place.binding, u.gen, Snap(u.place, u.facts))
    ELSE place

FoldDone ==
    /\ Fold("Done")
    /\ Current(Head(upd))
    /\ place' = DoneState(Head(upd))
    /\ UNCHANGED cmds

\* Mutant: a refused join is shown like an admitted one.
JoinedAnyway(u) == Offline(u.place, u.gen, Snap(u.place, u.facts))

JoinedState(u) ==
    IF u.result = "Ok" THEN Offline(u.place, u.gen, Snap(u.place, u.facts)) ELSE Failed

FoldJoined ==
    /\ Fold("Joined")
    /\ Current(Head(upd))
    /\ place' = JoinedState(Head(upd))
    /\ UNCHANGED cmds

OpenedState(u) ==
    IF place.binding = None THEN place
    ELSE IF u.result = "Ok" THEN Offline(place.binding, u.gen, Snap(u.place, u.facts))
    ELSE Degraded(place.binding, u.gen)

FoldOpened ==
    /\ Fold("Opened")
    /\ Current(Head(upd))
    /\ place' = OpenedState(Head(upd))
    /\ UNCHANGED cmds

-----------------------------------------------------------------------------
(* The place worker, place/worker.rs: one command at a time, in order.       *)

Take(op) ==
    /\ job = None
    /\ cmds # <<>>
    /\ Head(cmds).op = op
    /\ cmds' = Tail(cmds)

\* Mutant: answers overtake one another.
AnswerFirst(u) == upd' = <<u>> \o upd

Answer(u) == upd' = Append(upd, u)

OpenCached ==
    LET c == Head(cmds) IN
    /\ Take("Open")
    /\ \/ /\ dir[c.session] = "kept"
          /\ live' = [session |-> c.session, gen |-> c.gen, place |-> c.place,
                      lanes |-> FALSE, news |-> FALSE]
          /\ Answer(Ok("Opened", c, c.place, facts[c.session]))
       \/ /\ live' = None
          /\ Answer(Err("Opened", c, FALSE))
    /\ UNCHANGED <<app, ui, job, disk>>

BeginJoin ==
    LET c == Head(cmds) IN
    /\ Take("Join")
    /\ live' = None
    /\ job' = [step |-> "admit", session |-> c.session, gen |-> c.gen,
               place |-> c.place, facts |-> 0]
    /\ UNCHANGED <<app, ui, upd, disk>>

\* Admission makes the place store before most of its checks, and so makes a
\* moved session directory anew.
Remade(s) == [dir EXCEPT ![s] = IF dir[s] = "absent" THEN "zombie" ELSE @]

\* A refusal removes the store it made, not the directory above it.  The last
\* thing that can be refused is the write of place.json.
AdmitRefused ==
    /\ job # None /\ job.step \in {"admit", "commit"}
    /\ dir' \in {dir, Remade(job.session)}
    /\ \/ /\ dir' = dir
          /\ UNCHANGED sidecar
       \/ /\ dir' # dir
          /\ sidecar' = [sidecar EXCEPT ![job.session] = None]
       \/ /\ job.step = "commit" /\ dir' = dir /\ dir[job.session] # "absent"
          /\ sidecar[job.session] \in Places
          /\ sidecar' = [sidecar EXCEPT ![job.session] = Lost]
    /\ Answer(Err("Joined", job, FALSE))
    /\ job' = None
    /\ UNCHANGED <<app, ui, cmds, live, listed, trash, facts>>

\* Every check passed.  The sealed group session it loads is in the directory
\* the profile prepared: a directory made anew has none.
AdmitChecked ==
    /\ job # None /\ job.step = "admit"
    /\ dir[job.session] = "kept"
    /\ job' = [job EXCEPT !.step = "commit"]
    /\ UNCHANGED <<app, ui, chan, live, disk>>

\* Mutant: only the group session is saved.
CommitUnbound ==
    /\ job # None /\ job.step = "commit"
    /\ dir' = Remade(job.session)
    /\ job' = [job EXCEPT !.step = "reopen"]
    /\ UNCHANGED <<app, ui, chan, live, listed, trash, sidecar, facts>>

\* The group session and then place.json.
AdmitCommit ==
    /\ job # None /\ job.step = "commit"
    /\ dir' = Remade(job.session)
    /\ sidecar' = [sidecar EXCEPT ![job.session] = job.place]
    /\ job' = [job EXCEPT !.step = "reopen"]
    /\ UNCHANGED <<app, ui, chan, live, listed, trash, facts>>

\* open_cached_place on the admitted place, which folds the snapshot.
Reopen ==
    /\ job # None /\ job.step = "reopen"
    /\ dir[job.session] = "kept"
    /\ job' = [job EXCEPT !.step = "dial", !.facts = facts[job.session]]
    /\ UNCHANGED <<app, ui, chan, live, disk>>

\* join_live, when the invitation offers a ticket to dial.
JoinDone ==
    /\ job # None /\ job.step = "dial"
    /\ \E lanes \in BOOLEAN :
          live' = [session |-> job.session, gen |-> job.gen, place |-> job.place,
                   lanes |-> lanes, news |-> FALSE]
    /\ Answer(Ok("Joined", job, job.place, job.facts))
    /\ job' = None
    /\ UNCHANGED <<app, ui, cmds, disk>>

\* Mutant: a join that cannot be reopened returns without an answer.
JoinFailsSilently ==
    /\ job # None /\ job.step \in {"reopen", "dial"}
    /\ job' = None
    /\ UNCHANGED <<app, ui, chan, live, disk>>

\* The place is admitted and cannot be reopened, or not dialed.
JoinFails ==
    /\ job # None /\ job.step \in {"reopen", "dial"}
    /\ Answer(Err("Joined", job, TRUE))
    /\ job' = None
    /\ UNCHANGED <<app, ui, cmds, live, disk>>

WorkResync ==
    LET c == Head(cmds) IN
    /\ Take("Resync")
    /\ \/ live # None /\ Answer(Ok("Opened", c, live.place, facts[live.session]))
       \/ Answer(Err("Opened", c, FALSE))
    /\ UNCHANGED <<app, ui, work, disk>>

\* author_into_place: refused by the preflight or for a blank body ...
BeginAuthor ==
    LET c == Head(cmds) IN
    /\ Take("Author")
    /\ \/ /\ Answer(Err("Done", c, FALSE))
          /\ UNCHANGED job
       \/ /\ live # None
          /\ job' = [step |-> "author", session |-> c.session, gen |-> c.gen,
                     place |-> live.place, facts |-> 0]
          /\ UNCHANGED upd
    /\ UNCHANGED <<app, ui, live, disk>>

\* ... else the operation is stored, then published to the lanes, if any, and
\* the place folded again: either of which may fail.
AuthorStore ==
    /\ job # None /\ job.step = "author"
    /\ facts[live.session] < MaxFacts
    /\ facts' = [facts EXCEPT ![live.session] = @ + 1]
    /\ job' = [job EXCEPT !.step = "publish"]
    /\ UNCHANGED <<app, ui, chan, live, listed, trash, dir, sidecar>>

AuthorDone ==
    /\ job # None
    /\ \/ /\ job.step = "publish"
          /\ Answer(Ok("Done", job, live.place, facts[live.session]))
       \/ /\ job.step = "publish"
          /\ Answer(Err("Done", job, TRUE))
       \/ /\ job.step = "author"
          /\ Answer(Err("Done", job, FALSE))
    /\ job' = None
    /\ UNCHANGED <<app, ui, cmds, live, disk>>

\* Mutant: a Release is only taken up when there is a place to release.
ReleaseOfOpen ==
    /\ Take("Release")
    /\ live # None
    /\ live' = None
    /\ UNCHANGED <<app, ui, upd, job, disk>>

WorkRelease ==
    /\ Take("Release")
    /\ live' = None
    /\ UNCHANGED <<app, ui, upd, job, disk>>

-----------------------------------------------------------------------------
(* The lanes of a live place and their watcher, place/lanes.rs.              *)

\* A peer's operation is drained into the store.  It can arrive as soon as the
\* lanes run, the watcher only counts from its own first look on.
Arrive ==
    /\ \/ /\ live # None /\ live.lanes
          /\ facts[live.session] < MaxFacts
          /\ facts' = [facts EXCEPT ![live.session] = @ + 1]
          /\ live' = [live EXCEPT !.news = TRUE]
       \/ /\ job # None /\ job.step = "dial"
          /\ facts[job.session] < MaxFacts
          /\ facts' = [facts EXCEPT ![job.session] = @ + 1]
          /\ UNCHANGED live
    /\ UNCHANGED <<app, ui, chan, job, listed, trash, dir, sidecar>>

\* The watcher's nudge, under the generation of the join that started it.
Nudge ==
    /\ live # None /\ live.lanes /\ live.news
    /\ Room
    /\ Answer([op |-> "Advanced", session |-> live.session, gen |-> live.gen,
               result |-> "Ok", place |-> live.place, facts |-> 0, wrote |-> FALSE])
    /\ live' = [live EXCEPT !.news = FALSE]
    /\ UNCHANGED <<app, ui, cmds, job, disk>>

-----------------------------------------------------------------------------
\* Boot: current_session still names the session in use, since adopt records
\* it; the worker is new and so is the channel.
Boot(s) ==
    /\ Adopt(s, 1, <<>>)
    /\ upd' = <<>>
    /\ live' = None
    /\ job' = None

\* The process dies at any point and is started again.
Restart ==
    /\ Crashes
    /\ Boot(sess)
    /\ UNCHANGED disk

Init ==
    \E s \in Sessions :
        /\ sess = s
        /\ place = Personal
        /\ nextGen = 1
        /\ ui = Closing
        /\ cmds = <<Release>>
        /\ upd = <<>>
        /\ live = None
        /\ job = None
        /\ listed = {s}
        /\ trash = {}
        /\ dir = [t \in Sessions |-> IF t = s THEN "kept" ELSE "absent"]
        /\ sidecar = [t \in Sessions |-> None]
        /\ facts = [t \in Sessions |-> 0]

Intent ==
    \/ SaveSession
    \/ \E p \in Places : JoinPlace(p)
    \/ RunPlaceCommand
    \/ ResyncPlace
    \/ \E t \in Sessions : SwitchSession(t)
    \/ \E t \in Sessions : NewSession(t)
    \/ \E t \in Sessions : RecoverSession(t)
    \/ \E t \in Sessions : CloseSession(t)

Resume == FinishSwitch \/ FinishTrash \/ FinishClose

Folds == FoldStale \/ FoldAdvanced \/ FoldDone \/ FoldJoined \/ FoldOpened

WorkerStep ==
    \/ OpenCached
    \/ BeginJoin
    \/ AdmitRefused
    \/ AdmitChecked
    \/ AdmitCommit
    \/ Reopen
    \/ JoinDone
    \/ JoinFails
    \/ WorkResync
    \/ BeginAuthor
    \/ AuthorStore
    \/ AuthorDone
    \/ WorkRelease

Next == Intent \/ Resume \/ Folds \/ WorkerStep \/ Arrive \/ Nudge \/ Restart

Spec == Init /\ [][Next]_vars

\* Threads that have something to do get to run: the worker loop, the UI
\* thread after a wake (every answer is followed by one) or after a release
\* wait.  Nothing makes the user act, a peer send or the process die.
Fairness ==
    /\ WF_vars(WorkerStep)
    /\ WF_vars(Folds)
    /\ WF_vars(Resume)
    /\ WF_vars(Nudge)

FairSpec == Spec /\ Fairness

-----------------------------------------------------------------------------
(* What the system promises.                                                 *)

\* What the app shows as the session's place was folded from that very place:
\* answers asked for under an earlier open, join or session never end up under
\* the binding on screen.
SnapshotMatchesBinding ==
    place.kind = "Offline" => place.snap.place = place.binding

\* The app claims a binding only in a session whose directory admission has
\* given a place.json, whatever joins, switches, trash moves and restarts
\* happened in between.  (The file may be gone since, by a write that failed:
\* this is about where a binding comes from.)
BoundMeansAdmitted ==
    place.binding # None => dir[sess] = "kept" /\ sidecar[sess] # None

\* With prompt acknowledgements place.json names the binding the app holds, or
\* is missing because a write of it failed: a routine save never replaces an
\* admitted place by an older one.
BindingIsSidecar ==
    place.binding # None => sidecar[sess] \in {place.binding, Lost}

\* No session directory comes back while the session is in the trash.
NoZombieDirectory ==
    \A s \in Sessions : dir[s] # "zombie"

\* The view of an open place never goes back in time: within one generation
\* each snapshot holds at least what the one before it held.
SnapshotNeverRegresses ==
    [][place.kind = "Offline" /\ place'.kind = "Offline" /\ place'.gen = place.gen
         => place'.snap.facts >= place.snap.facts]_vars

\* A place that is being joined or opened does not stay so.
PlaceSettles ==
    place.kind \in {"Joining", "Opening"} ~> place.kind \notin {"Joining", "Opening"}

\* The UI thread does not wait for the worker for ever: every Release is
\* acknowledged.
ReleaseReturns ==
    ui # Idle ~> ui = Idle

(* What comments of the code say and the code does not do.                   *)

\* "A refusal changes no state ... the command simply did not happen"
\* (app/updates.rs): a refused command has stored nothing.
RefusedCommandDidNotHappen ==
    \A i \in DOMAIN upd : upd[i].op = "Done" /\ upd[i].result = "Err" => ~ upd[i].wrote

=============================================================================
