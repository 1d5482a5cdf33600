--------------------------- MODULE PlaceInvariant ---------------------------
(***************************************************************************)
(* The inductive invariant behind the safety of PlaceLifecycle.  It says   *)
(* what may be under way between the app and the worker: which generation  *)
(* and which place each command, open place and answer belongs to.         *)
(***************************************************************************)
EXTENDS PlaceLifecycle

\* Who asked, for whom, about which place.
Claim(r) == <<r.gen, r.session, r.place>>

\* Everything that ties a generation to a session and a place: an open or a
\* join not yet executed, an answer that carries a snapshot, the worker's open
\* place and job, and the binding the app holds.
CommandClaims == {Claim(cmds[i]) : i \in {j \in DOMAIN cmds : cmds[j].op \in Openers}}
AnswerClaims  == {Claim(upd[i]) : i \in {j \in DOMAIN upd : upd[j].result = "Ok"}}
WorkerClaims  == {Claim(r) : r \in {live, job} \ {None}}
AppClaims     == IF place.binding = None THEN {} ELSE {<<place.gen, sess, place.binding>>}

Claims == CommandClaims \cup AnswerClaims \cup WorkerClaims \cup AppClaims

\* A generation is about one session and one place.
ClaimsAgree == \A x, y \in Claims : x[1] = y[1] => x = y

\* The app's counter is ahead of every generation in use, and the app waits
\* for an answer under its newest generation only.
GenerationsBounded ==
    /\ \A x \in Claims : x[1] \in 1..nextGen
    /\ place.gen \in {0, nextGen}

\* What a command placed after the first n commands will find open: the place
\* of its own session and generation, or none.
FindsOwnPlace(n, s, g) ==
    \/ \E j \in 1..n :
         /\ cmds[j].op \in Openers
         /\ cmds[j].session = s /\ cmds[j].gen = g
         /\ \A k \in j+1..n : cmds[k].op \notin Openers
    \/ /\ \A k \in 1..n : cmds[k].op \notin Openers
       /\ \A r \in {live, job} \ {None} : r.session = s /\ r.gen = g

CommandsFindTheirPlace ==
    /\ \A i \in DOMAIN cmds :
         cmds[i].op \in {"Resync", "Author"}
           => FindsOwnPlace(i - 1, cmds[i].session, cmds[i].gen)
    /\ ui.at \in {"idle", "closing"} /\ place.gen # 0
         => FindsOwnPlace(Len(cmds), sess, place.gen)

\* An author job works on an open place; a join works with none open.
JobHasPlace ==
    job # None => (job.step \in AuthorSteps <=> live # None)

\* ... and the open place is the one the job was asked for.
JobsPlaceIsLive ==
    live # None /\ job # None => Claim(job) = Claim(live)

\* The switcher offers sessions whose directory is in place, the session in
\* use and the one about to be adopted among them.
ListedAreKept ==
    /\ \A s \in listed : dir[s] = "kept"
    /\ sess \in listed
    /\ ui.at \in {"switching", "trashing"} => ui.next \in listed /\ ui.next # sess
    /\ ui.at = "trashing" => ui.closing = sess

\* Once admission has written place.json, it is there, or known to be lost,
\* for as long as the directory is, in the trash or out of it: for every session
\* of which the worker has answered, or may come to answer, that the join is in.
Admitted(s) == dir[s] = "zombie" \/ sidecar[s] # None

JoinedAnswers == {i \in DOMAIN upd : upd[i].op = "Joined" /\ upd[i].result = "Ok"}

Promised ==
    {upd[i].session : i \in JoinedAnswers}
    \cup {j.session : j \in {k \in {job} \ {None} : k.step \in {"reopen", "dial"}}}

AdmittedKeepSidecar == \A s \in Promised : Admitted(s)

\* The generations the worker has answered under, and those of what it holds.
AnsweredGens == {upd[i].gen : i \in DOMAIN upd}
HeldGens     == {r.gen : r \in {live, job} \ {None}}

Asked == {i \in DOMAIN cmds : cmds[i].op # "Release"}

\* A command that opens a place comes with a generation of its own.
Before(g, op, h) == IF op \in Openers THEN g < h ELSE g <= h

\* Generations move through the queues in order: each command was sent under
\* one that is not older than those sent, taken up and answered before it.
InOrder ==
    /\ \A j \in Asked :
         /\ cmds[j].gen <= nextGen
         /\ \A g \in AnsweredGens \cup HeldGens : Before(g, cmds[j].op, cmds[j].gen)
         /\ \A i \in Asked : i < j => Before(cmds[i].gen, cmds[j].op, cmds[j].gen)
    /\ \A g \in AnsweredGens \cup HeldGens : g <= nextGen
    /\ job # None => \A g \in AnsweredGens :
         Before(g, IF job.step \in JoinSteps THEN "Join" ELSE "Author", job.gen)

\* A snapshot on screen is the end of opening: nothing is being opened after it.
ShownIsOpen ==
    place.kind = "Offline" =>
      /\ \A i \in DOMAIN cmds : cmds[i].op \notin Openers
      /\ job # None => job.step \in AuthorSteps

\* Snapshots on their way to the app, and on screen, were read from stores that
\* only grow, and stand in the order they were read in.
Snapshots == {i \in DOMAIN upd : upd[i].result = "Ok" /\ upd[i].op # "Advanced"}

SnapshotsGrow ==
    /\ \A k \in Snapshots :
         /\ upd[k].facts <= facts[upd[k].session]
         /\ \A i \in Snapshots :
              i < k /\ upd[i].gen = upd[k].gen => upd[i].facts <= upd[k].facts
    /\ place.kind = "Offline" =>
         /\ place.snap.facts <= facts[sess]
         /\ \A k \in Snapshots : upd[k].gen = place.gen => place.snap.facts <= upd[k].facts
    /\ job # None /\ job.step = "dial" => job.facts <= facts[job.session]

\* While Releases are waited for, the worker only works for the session in use
\* (no session is adopted before it is done), and a bound session joins nothing.
OwnWork ==
    /\ \A i \in Asked : cmds[i].session = sess
    /\ job # None => job.session = sess

BoundJoinsNothing ==
    place.binding # None =>
      /\ \A i \in DOMAIN cmds : cmds[i].op # "Join"
      /\ job # None => job.step \notin JoinSteps

\* A join that is in and not overtaken is what place.json says, if it says
\* anything.
JoinedIsSaved ==
    /\ \A i \in JoinedAnswers :
         upd[i].session = sess /\ upd[i].gen = nextGen
           => sidecar[sess] \in {upd[i].place, Lost}
    /\ job # None /\ job.step \in {"reopen", "dial"} => sidecar[job.session] = job.place

\* The inductive invariant, in the layers it is proved in: the types, whose
\* answer is whose, what the session directories hold, and in which order.
TypeInv == TypeOK /\ JobHasPlace

AnswerInv ==
    /\ ClaimsAgree
    /\ GenerationsBounded
    /\ CommandsFindTheirPlace
    /\ JobsPlaceIsLive
    /\ SnapshotMatchesBinding

AdmissionInv ==
    /\ ListedAreKept
    /\ AdmittedKeepSidecar
    /\ BoundMeansAdmitted

ViewInv ==
    /\ InOrder
    /\ ShownIsOpen
    /\ SnapshotsGrow

\* What holds besides when every Release is acknowledged in time.
PromptInv ==
    /\ OwnWork
    /\ BoundJoinsNothing
    /\ JoinedIsSaved
    /\ BindingIsSidecar
    /\ NoZombieDirectory

\* Together they say that the snapshot on screen is of the bound place and
\* that a bound session was admitted, and that every step of the app, the
\* shell and the worker keeps it so (worker.rs, updates.rs, effects.rs).
IInv ==
    /\ TypeInv /\ AnswerInv /\ AdmissionInv /\ ViewInv
    /\ AckTimeouts \/ PromptInv

=============================================================================
