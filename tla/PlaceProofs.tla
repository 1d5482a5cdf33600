----------------------------- MODULE PlaceProofs -----------------------------
(***************************************************************************)
(* PlaceLifecycle keeps IInv, for any number of sessions and places, slow  *)
(* or prompt acknowledgements, with or without restarts.                   *)
(*                                                                         *)
(* Five layers, each inductive given the ones before it.  Types: what the  *)
(* queues, the worker and the app can hold.  Answers: a generation is      *)
(* about one session and one place (ClaimsAgree); an answer that passes    *)
(* the app's guard carries the app's own generation, hence its place.  An  *)
(* open or join makes the only new claim, under a generation nobody has    *)
(* used (GenerationsBounded); a Resync or Author makes none, because it    *)
(* meets the place its asker was looking at or none at all                 *)
(* (CommandsFindTheirPlace: the queue is in order).  Admission: who may    *)
(* write into, move or remake a session directory.  View: generations move *)
(* through the queues in order (InOrder), so an answer the app takes up    *)
(* has no opening behind it, and the snapshots under way stand in the      *)
(* order they were read in from stores that only grow.  Prompt: when each  *)
(* Release is acknowledged in time the worker only works for the session   *)
(* in use (OwnWork), whose directory is in place, and what it has admitted *)
(* last is what the app goes on to show (JoinedIsSaved).                   *)
(***************************************************************************)
EXTENDS PlaceInvariant, TLAPS

LEMMA TailFacts ==
    ASSUME NEW S, NEW q \in Seq(S), q # <<>>
    PROVE  /\ Head(q) \in S
           /\ Tail(q) \in Seq(S)
           /\ Head(q) = q[1] /\ 1 \in DOMAIN q
           /\ Len(q) \in Nat \ {0} /\ Len(Tail(q)) = Len(q) - 1
           /\ \A i \in DOMAIN Tail(q) : i \in Nat /\ i + 1 \in DOMAIN q /\ Tail(q)[i] = q[i + 1]
  OBVIOUS

LEMMA AppendFacts ==
    ASSUME NEW S, NEW q \in Seq(S), NEW e \in S
    PROVE  /\ Append(q, e) \in Seq(S)
           /\ Len(q) \in Nat
           /\ Len(Append(q, e)) = Len(q) + 1
           /\ \A i \in DOMAIN Append(q, e) : 
                IF i = Len(q) + 1 THEN Append(q, e)[i] = e ELSE i \in DOMAIN q /\ Append(q, e)[i] = q[i]
           /\ \A i \in DOMAIN q : i \in DOMAIN Append(q, e)
  OBVIOUS

-----------------------------------------------------------------------------
(* The first layer: types.                                                   *)

USE DEF Openers, JoinSteps, AuthorSteps, Binding, Sidecar, Generation

LEMMA TypeInit == Init => TypeInv
  BY DEF Init, TypeInv, TypeOK, JobHasPlace, PlaceState, Personal, NoSnap,
         Waits, Closing, Idle, Command, Release, Update, LivePlace, Job

LEMMA PlaceParts ==
    ASSUME TypeOK
    PROVE  /\ place.gen \in Generation \cup {0}
           /\ place.binding \in Binding
           /\ place.binding # None => place.gen \in Generation
           /\ place.gen = 0 => place.binding = None
  BY DEF TypeOK, PlaceState, Personal, Failed, NoSnap

LEMMA PlaceForms ==
    ASSUME NEW b \in Places, NEW g \in Generation, NEW p \in Binding, NEW n \in Nat
    PROVE  Offline(b, g, Snap(p, n)) \in PlaceState /\ Degraded(b, g) \in PlaceState
  BY DEF PlaceState, Offline, Degraded, Snap, NoSnap

LEMMA UpdateParts ==
    ASSUME NEW u \in Update
    PROVE  /\ u.gen \in Generation /\ u.session \in Sessions
           /\ u.facts \in Nat /\ u.place \in Binding
           /\ u.result = "Ok" => u.place \in Places
  BY DEF Update

\* What the queue operations of a step keep, whatever was sent or answered.
LEMMA AdoptTypes ==
    ASSUME TypeOK, NEW t \in Sessions, NEW g \in Generation, NEW q \in Seq(Command),
           Adopt(t, g, q)
    PROVE  /\ sess' \in Sessions
           /\ nextGen' \in Generation
           /\ place' \in PlaceState
           /\ ui' \in Waits
           /\ cmds' \in Seq(Command)
  <1>1. Release \in Command
    BY DEF Command
  <1>2. sidecar[t] \in Places => Open(t, g, sidecar[t]) \in Command
    BY DEF Command, Open, TypeOK
  <1>3. place' \in PlaceState
    BY DEF Adopt, TypeOK, PlaceState, Personal, Failed, Opening, NoSnap
  <1>4. ui' \in Waits
    BY DEF Adopt, Waits
  <1>5. cmds' \in Seq(Command)
    BY <1>1, <1>2, AppendFacts DEF Adopt
  <1> QED
    BY <1>3, <1>4, <1>5 DEF Adopt

LEMMA SavedSidecarTypes ==
    ASSUME TypeOK
    PROVE  SavedSidecar \subseteq [Sessions -> Sidecar]
  <1>1. place.binding \in Binding
    BY DEF TypeOK, PlaceState, Personal, Failed, NoSnap
  <1> QED
    BY <1>1 DEF TypeOK, SavedSidecar, Written

LEMMA IntentTypes ==
    ASSUME TypeOK, Intent
    PROVE  TypeOK' /\ UNCHANGED work
  <1> USE DEF work, chan, app, disk
  <1>0. Release \in Command
    BY DEF Command
  <1>1. CASE SaveSession
    BY <1>1, SavedSidecarTypes DEF SaveSession, TypeOK
  <1>2. ASSUME NEW p \in Places, JoinPlace(p) PROVE TypeOK' /\ UNCHANGED work
    <2>1. Join(sess, nextGen + 1, p) \in Command
      BY DEF TypeOK, Join, Command
    <2>2. place' \in PlaceState
      BY <1>2 DEF TypeOK, JoinPlace, Joining, PlaceState, NoSnap
    <2> QED
      BY <1>2, <2>1, <2>2, AppendFacts DEF TypeOK, JoinPlace
  <1>3. CASE RunPlaceCommand
    <2>1. Author(sess, place.gen) \in Command
      BY <1>3, PlaceParts DEF RunPlaceCommand, TypeOK, Author, Command
    <2> QED
      BY <1>3, <2>1, AppendFacts DEF TypeOK, RunPlaceCommand
  <1>4. CASE ResyncPlace
    <2>1. Resync(sess, place.gen) \in Command
      BY <1>4, PlaceParts DEF ResyncPlace, TypeOK, Resync, Command
    <2> QED
      BY <1>4, <2>1, AppendFacts DEF TypeOK, ResyncPlace
  <1>5. ASSUME NEW t \in Sessions, StartSwitch(t)
        PROVE  /\ ui' \in Waits /\ cmds' \in Seq(Command)
               /\ sidecar' \in [Sessions -> Sidecar]
               /\ UNCHANGED <<app, upd, work, facts>>
    BY <1>0, <1>5, AppendFacts, SavedSidecarTypes DEF StartSwitch, TypeOK, Waits
  <1>6. ASSUME NEW t \in Sessions, SwitchSession(t) PROVE TypeOK' /\ UNCHANGED work
    BY <1>5, <1>6 DEF SwitchSession, TypeOK
  <1>7. ASSUME NEW t \in Sessions, NewSession(t) PROVE TypeOK' /\ UNCHANGED work
    BY <1>5, <1>7 DEF NewSession, Mint, TypeOK
  <1>8. ASSUME NEW t \in Sessions, RecoverSession(t) PROVE TypeOK' /\ UNCHANGED work
    BY <1>5, <1>8 DEF RecoverSession, TypeOK
  <1>9. ASSUME NEW t \in Sessions, CloseSession(t) PROVE TypeOK' /\ UNCHANGED work
    <2>1. cmds' \in Seq(Command)
      BY <1>0, <1>9, AppendFacts DEF CloseSession, TypeOK
    <2>2. ui' \in Waits
      BY <1>9 DEF CloseSession, TypeOK, Waits
    <2>3. listed' \subseteq Sessions /\ dir' \in [Sessions -> {"absent", "kept", "zombie"}]
      BY <1>9 DEF CloseSession, Mint, TypeOK
    <2> QED
      BY <1>9, <2>1, <2>2, <2>3 DEF CloseSession, TypeOK
  <1> QED
    BY <1>1, <1>2, <1>3, <1>4, <1>6, <1>7, <1>8, <1>9 DEF Intent

LEMMA ResumeTypes ==
    ASSUME TypeOK, Resume
    PROVE  TypeOK' /\ UNCHANGED work
  <1> USE DEF work, chan, app, disk
  <1>0. nextGen + 1 \in Generation /\ cmds \in Seq(Command)
    BY DEF TypeOK
  <1>1. CASE FinishSwitch
    <2>1. ui.next \in Sessions
      BY <1>1 DEF FinishSwitch, TypeOK, Waits, Idle, Closing, Switching, Trashing
    <2> QED
      BY <1>0, <1>1, <2>1, AdoptTypes DEF FinishSwitch, TypeOK
  <1>2. CASE FinishTrash
    <2>1. ui.next \in Sessions /\ ui.closing \in Sessions
      BY <1>2 DEF FinishTrash, TypeOK, Waits, Idle, Closing, Switching, Trashing
    <2> QED
      BY <1>0, <1>2, <2>1, AdoptTypes DEF FinishTrash, TypeOK
  <1>3. CASE FinishClose
    BY <1>3 DEF FinishClose, TypeOK, Waits
  <1> QED
    BY <1>1, <1>2, <1>3 DEF Resume

LEMMA FoldTypes ==
    ASSUME TypeOK, Folds
    PROVE  TypeOK' /\ UNCHANGED work
  <1> USE DEF work, chan, app, disk
  <1>1. \E op \in {"Opened", "Joined", "Done", "Advanced"} : Fold(op)
    BY DEF Folds, FoldStale, FoldAdvanced, FoldDone, FoldJoined, FoldOpened
  <1>2. upd # <<>> /\ upd' = Tail(upd) /\ UNCHANGED <<sess, nextGen, ui, work, disk>>
    BY <1>1 DEF Fold
  <1>3. Head(upd) \in Update /\ upd' \in Seq(Update)
    BY <1>2, TailFacts DEF TypeOK
  <1>4. Current(Head(upd)) => place.gen \in Generation
    BY <1>3 DEF Current, Update
  <1>5. Current(Head(upd)) => Resync(sess, place.gen) \in Command
    BY <1>4 DEF TypeOK, Command, Resync
  <1>6. cmds' = cmds \/ (Current(Head(upd)) /\ cmds' = Append(cmds, Resync(sess, place.gen)))
    <2>1. CASE FoldAdvanced
      BY <2>1 DEF FoldAdvanced
    <2>2. CASE FoldStale \/ FoldDone \/ FoldJoined \/ FoldOpened
      BY <2>2 DEF FoldStale, FoldDone, FoldJoined, FoldOpened
    <2> QED
      BY <2>1, <2>2 DEF Folds
  <1>7. cmds' \in Seq(Command)
    <2>1. cmds \in Seq(Command)
      BY DEF TypeOK
    <2> QED
      BY <1>5, <1>6, <2>1, AppendFacts
  <1>8. place' \in PlaceState
    <2> DEFINE u == Head(upd)
    <2>1. CASE UNCHANGED place
      BY <2>1 DEF TypeOK
    <2>2. CASE place' = DoneState(u)
      BY <2>2, <1>3, UpdateParts, PlaceParts, PlaceForms DEF TypeOK, DoneState
    <2>3. CASE place' = OpenedState(u)
      BY <2>3, <1>3, UpdateParts, PlaceParts, PlaceForms DEF TypeOK, OpenedState
    <2>4. CASE place' = JoinedState(u)
      BY <2>4, <1>3, UpdateParts, PlaceForms DEF JoinedState, PlaceState
    <2> QED
      BY <2>1, <2>2, <2>3, <2>4 DEF Folds, FoldStale, FoldAdvanced, FoldDone, FoldJoined, FoldOpened
  <1> QED
    BY <1>2, <1>3, <1>7, <1>8 DEF TypeOK

LEMMA TakeFacts ==
    ASSUME TypeOK, NEW op, Take(op)
    PROVE  /\ cmds # <<>> /\ cmds \in Seq(Command) /\ job = None
           /\ Head(cmds) \in Command /\ Head(cmds).op = op
           /\ cmds' = Tail(cmds) /\ cmds' \in Seq(Command)
  BY TailFacts DEF TypeOK, Take

LEMMA CommandParts ==
    ASSUME NEW c \in Command
    PROVE  /\ c.op \in Openers \cup {"Resync", "Author", "Release"}
           /\ c.op # "Release" => c.session \in Sessions /\ c.gen \in Generation
           /\ c.op \in Openers => c.place \in Places
  BY DEF Command, Release

LEMMA AnswerTypes ==
    ASSUME TypeOK, NEW r, r.session \in Sessions, r.gen \in Generation
    PROVE  /\ \A op \in {"Opened", "Joined", "Done"}, wrote \in BOOLEAN :
                Answer(Err(op, r, wrote)) => upd' \in Seq(Update)
           /\ \A op \in {"Opened", "Joined", "Done"}, p \in Places, n \in Nat :
                Answer(Ok(op, r, p, n)) => upd' \in Seq(Update)
  <1>1. \A op \in {"Opened", "Joined", "Done"}, wrote \in BOOLEAN : Err(op, r, wrote) \in Update
    BY DEF Err, Update
  <1>2. \A op \in {"Opened", "Joined", "Done"}, p \in Places, n \in Nat : Ok(op, r, p, n) \in Update
    BY DEF Ok, Update
  <1>3. upd \in Seq(Update) /\ (\A u \in Update : Append(upd, u) \in Seq(Update))
    BY AppendFacts DEF TypeOK
  <1> QED
    BY <1>1, <1>2, <1>3 DEF Answer

LEMMA WorkerTypes ==
    ASSUME TypeInv, WorkerStep
    PROVE  TypeInv'
  <1> USE DEF work, chan, app, disk
  <1> DEFINE c == Head(cmds)
  <1>t. TypeOK /\ upd \in Seq(Update) /\ facts \in [Sessions -> Nat]
    BY DEF TypeInv, TypeOK
  <1>l. live # None => live \in LivePlace /\ live.session \in Sessions /\ live.gen \in Generation
                       /\ live.place \in Places /\ facts[live.session] \in Nat
    BY DEF TypeInv, TypeOK, LivePlace
  <1>j. job # None => job \in Job /\ job.session \in Sessions /\ job.gen \in Generation
                      /\ job.place \in Places /\ job.facts \in Nat
                      /\ job.step \in JoinSteps \cup AuthorSteps
    BY DEF TypeInv, TypeOK, Job
  <1>d. job # None => Remade(job.session) \in [Sessions -> {"absent", "kept", "zombie"}]
    BY <1>j DEF Remade, TypeInv, TypeOK
  <1>h. job # None => (job.step \in AuthorSteps <=> live # None)
    BY DEF TypeInv, JobHasPlace
  <1>1. CASE OpenCached
    <2>1. Take("Open")
      BY <1>1 DEF OpenCached
    <2>2. /\ c.session \in Sessions /\ c.gen \in Generation /\ c.place \in Places
          /\ cmds' \in Seq(Command) /\ job = None
      BY <1>t, <2>1, TakeFacts, CommandParts
    <2>3. facts[c.session] \in Nat
      BY <1>t, <2>2
    <2>4. upd' \in Seq(Update)
      BY <1>1, <1>t, <2>2, <2>3, AnswerTypes DEF OpenCached
    <2>5. [session |-> c.session, gen |-> c.gen, place |-> c.place,
           lanes |-> FALSE, news |-> FALSE] \in LivePlace
      BY <2>2 DEF LivePlace
    <2>6. live' \in LivePlace \cup {None}
      BY <1>1, <2>5 DEF OpenCached
    <2> QED
      BY <1>1, <1>t, <2>2, <2>4, <2>6 DEF OpenCached, TypeInv, TypeOK, JobHasPlace
  <1>2. CASE BeginJoin
    <2>1. Take("Join")
      BY <1>2 DEF BeginJoin
    <2>2. /\ c.session \in Sessions /\ c.gen \in Generation /\ c.place \in Places
          /\ cmds' \in Seq(Command)
      BY <1>t, <2>1, TakeFacts, CommandParts
    <2>3. job' \in Job
      BY <1>2, <2>2 DEF BeginJoin, Job
    <2> QED
      BY <1>2, <1>t, <2>2, <2>3 DEF BeginJoin, TypeInv, TypeOK, JobHasPlace
  <1>3. CASE AdmitRefused
    <2>1. upd' \in Seq(Update)
      BY <1>3, <1>t, <1>j, AnswerTypes DEF AdmitRefused
    <2>2. dir' \in [Sessions -> {"absent", "kept", "zombie"}] /\ sidecar' \in [Sessions -> Sidecar]
      BY <1>3, <1>d DEF AdmitRefused, TypeInv, TypeOK
    <2> QED
      BY <1>3, <1>t, <2>1, <2>2 DEF AdmitRefused, TypeInv, TypeOK, JobHasPlace
  <1>4. CASE AdmitChecked
    <2>1. job' \in Job /\ job'.step \notin AuthorSteps
      BY <1>4, <1>j DEF AdmitChecked, Job
    <2> QED
      BY <1>4, <1>t, <1>h, <2>1 DEF AdmitChecked, TypeInv, TypeOK, JobHasPlace
  <1>5. CASE AdmitCommit
    <2>1. job' \in Job /\ job'.step \notin AuthorSteps
      BY <1>5, <1>j DEF AdmitCommit, Job
    <2> QED
      BY <1>5, <1>t, <1>h, <1>j, <1>d, <2>1 DEF AdmitCommit, TypeInv, TypeOK, JobHasPlace
  <1>6. CASE Reopen
    <2>1. job' \in Job /\ job'.step \notin AuthorSteps
      BY <1>6, <1>j, <1>t DEF Reopen, Job
    <2> QED
      BY <1>6, <1>t, <1>h, <2>1 DEF Reopen, TypeInv, TypeOK, JobHasPlace
  <1>7. CASE JoinDone
    <2>1. upd' \in Seq(Update)
      BY <1>7, <1>t, <1>j, AnswerTypes DEF JoinDone
    <2>2. live' \in LivePlace
      BY <1>7, <1>j DEF JoinDone, LivePlace
    <2> QED
      BY <1>7, <1>t, <2>1, <2>2 DEF JoinDone, TypeInv, TypeOK, JobHasPlace
  <1>8. CASE JoinFails
    <2>1. upd' \in Seq(Update)
      BY <1>8, <1>t, <1>j, AnswerTypes DEF JoinFails
    <2> QED
      BY <1>8, <1>t, <2>1 DEF JoinFails, TypeInv, TypeOK, JobHasPlace
  <1>9. CASE WorkResync
    <2>1. Take("Resync")
      BY <1>9 DEF WorkResync
    <2>2. c.session \in Sessions /\ c.gen \in Generation /\ cmds' \in Seq(Command) /\ job = None
      BY <1>t, <2>1, TakeFacts, CommandParts
    <2>3. upd' \in Seq(Update)
      BY <1>9, <1>t, <1>l, <2>2, AnswerTypes DEF WorkResync
    <2> QED
      BY <1>9, <1>t, <2>2, <2>3 DEF WorkResync, TypeInv, TypeOK, JobHasPlace
  <1>10. CASE BeginAuthor
    <2>1. Take("Author")
      BY <1>10 DEF BeginAuthor
    <2>2. c.session \in Sessions /\ c.gen \in Generation /\ cmds' \in Seq(Command) /\ job = None
      BY <1>t, <2>1, TakeFacts, CommandParts
    <2>3. upd' \in Seq(Update)
      BY <1>10, <1>t, <2>2, AnswerTypes DEF BeginAuthor
    <2>4. CASE UNCHANGED job
      BY <1>10, <1>t, <2>2, <2>3, <2>4 DEF BeginAuthor, TypeInv, TypeOK, JobHasPlace
    <2>5. CASE ~ UNCHANGED job
      <3>0. /\ live # None
            /\ job' = [step |-> "author", session |-> c.session, gen |-> c.gen,
                       place |-> live.place, facts |-> 0]
        BY <1>10, <2>5 DEF BeginAuthor
      <3>1. job' \in Job /\ job'.step \in AuthorSteps
        BY <1>l, <2>2, <3>0 DEF Job
      <3> QED
        BY <1>10, <1>t, <2>2, <2>3, <3>0, <3>1 DEF BeginAuthor, TypeInv, TypeOK, JobHasPlace
    <2> QED
      BY <2>4, <2>5
  <1>11. CASE AuthorStore
    <2>1. job' \in Job /\ job'.step \in AuthorSteps /\ live # None
      BY <1>11, <1>j, <1>h DEF AuthorStore, Job
    <2>2. facts' \in [Sessions -> Nat]
      BY <1>11, <1>t, <1>l, <2>1 DEF AuthorStore
    <2> QED
      BY <1>11, <1>t, <2>1, <2>2 DEF AuthorStore, TypeInv, TypeOK, JobHasPlace
  <1>12. CASE AuthorDone
    <2>1. live # None
      BY <1>12, <1>h DEF AuthorDone
    <2>2. upd' \in Seq(Update)
      BY <1>12, <1>t, <1>j, <1>l, <2>1, AnswerTypes DEF AuthorDone
    <2> QED
      BY <1>12, <1>t, <2>2 DEF AuthorDone, TypeInv, TypeOK, JobHasPlace
  <1>13. CASE WorkRelease
    <2>1. Take("Release")
      BY <1>13 DEF WorkRelease
    <2>2. cmds' \in Seq(Command) /\ job = None
      BY <1>t, <2>1, TakeFacts
    <2> QED
      BY <1>13, <1>t, <2>2 DEF WorkRelease, TypeInv, TypeOK, JobHasPlace
  <1> QED
    BY <1>1, <1>2, <1>3, <1>4, <1>5, <1>6, <1>7, <1>8, <1>9, <1>10, <1>11, <1>12, <1>13
    DEF WorkerStep

LEMMA LanesTypes ==
    ASSUME TypeInv, Arrive \/ Nudge
    PROVE  TypeInv'
  <1> USE DEF work, chan, app, disk
  <1>l. live # None => live \in LivePlace /\ live.session \in Sessions /\ live.gen \in Generation
                       /\ live.place \in Places
    BY DEF TypeInv, TypeOK, LivePlace
  <1>j. job # None => job.session \in Sessions
    BY DEF TypeInv, TypeOK, Job
  <1>1. CASE Arrive
    <2>1. live # None => [live EXCEPT !.news = TRUE] \in LivePlace
      BY <1>l DEF LivePlace
    <2>0. live' = live \/ (live # None /\ live' \in LivePlace)
      BY <1>1, <2>1 DEF Arrive
    <2>2. facts' \in [Sessions -> Nat]
      BY <1>1, <1>l, <1>j DEF Arrive, TypeInv, TypeOK
    <2> QED
      BY <1>1, <2>0, <2>2, NothingAssumption DEF Arrive, TypeInv, TypeOK, JobHasPlace
  <1>2. CASE Nudge
    <2>1. live' \in LivePlace /\ live # None
      BY <1>2, <1>l DEF Nudge, LivePlace
    <2>2. upd' \in Seq(Update)
      <3> DEFINE u == [op |-> "Advanced", session |-> live.session, gen |-> live.gen,
                       result |-> "Ok", place |-> live.place, facts |-> 0, wrote |-> FALSE]
      <3>1. u \in Update
        BY <1>l, <2>1 DEF Update
      <3>2. upd' = Append(upd, u)
        BY <1>2 DEF Nudge, Answer
      <3> QED
        BY <3>1, <3>2, AppendFacts DEF TypeInv, TypeOK
    <2> QED
      BY <1>2, <2>1, <2>2, NothingAssumption DEF Nudge, TypeInv, TypeOK, JobHasPlace
  <1> QED
    BY <1>1, <1>2

LEMMA RestartTypes ==
    ASSUME TypeInv, Restart
    PROVE  TypeInv'
  <1>1. <<>> \in Seq(Command) /\ <<>> \in Seq(Update) /\ 1 \in Generation
    OBVIOUS
  <1>2. TypeOK /\ sess \in Sessions
    BY DEF TypeInv, TypeOK
  <1> QED
    BY <1>1, <1>2, AdoptTypes DEF Restart, Boot, TypeInv, TypeOK, JobHasPlace, disk

LEMMA TypeStep == TypeInv /\ [Next]_vars => TypeInv'
  <1> SUFFICES ASSUME TypeInv, [Next]_vars PROVE TypeInv'
    OBVIOUS
  <1>1. CASE Intent \/ Resume \/ Folds
    BY <1>1, IntentTypes, ResumeTypes, FoldTypes DEF TypeInv, JobHasPlace, work
  <1>2. CASE UNCHANGED vars
    BY <1>2 DEF TypeInv, TypeOK, JobHasPlace, vars, app, chan, work, disk
  <1> QED
    BY <1>1, <1>2, WorkerTypes, LanesTypes, RestartTypes DEF Next

\* Every state the app, the shell, the worker and the disk reach has the
\* shape their Rust types give it, and an author command runs only against an
\* open place.
THEOREM TypeCorrect == Spec => []TypeOK
  <1>1. TypeInv => TypeOK
    BY DEF TypeInv
  <1> QED
    BY TypeInit, TypeStep, <1>1, PTL DEF Spec

-----------------------------------------------------------------------------
(* The second layer: whose answer is whose.                                  *)

LEMMA AnswerInit == Init => AnswerInv
  <1> SUFFICES ASSUME Init PROVE AnswerInv
    OBVIOUS
  <1>1. Claims = {}
    BY DEF Init, Claims, CommandClaims, AnswerClaims, WorkerClaims, AppClaims, Personal, Release
  <1>2. CommandsFindTheirPlace
    BY DEF Init, CommandsFindTheirPlace, Release, Closing, Personal
  <1> QED
    BY <1>1, <1>2 DEF Init, AnswerInv, ClaimsAgree, GenerationsBounded, JobsPlaceIsLive,
       SnapshotMatchesBinding, Personal

(* How the queues change the claims.                                         *)

LEMMA PopClaims ==
    ASSUME cmds \in Seq(Command), cmds # <<>>, cmds' = Tail(cmds)
    PROVE  /\ CommandClaims' \subseteq CommandClaims
           /\ Head(cmds).op \in Openers => Claim(Head(cmds)) \in CommandClaims
  BY TailFacts DEF CommandClaims, Claim

LEMMA SendClaims ==
    ASSUME cmds \in Seq(Command), NEW c \in Command, cmds' = Append(cmds, c)
    PROVE  /\ CommandClaims' \subseteq CommandClaims \cup {Claim(c)}
           /\ c.op \notin Openers => CommandClaims' \subseteq CommandClaims
  BY AppendFacts DEF CommandClaims, Claim

LEMMA FoldClaims ==
    ASSUME upd \in Seq(Update), upd # <<>>, upd' = Tail(upd)
    PROVE  /\ AnswerClaims' \subseteq AnswerClaims
           /\ Head(upd).result = "Ok" => Claim(Head(upd)) \in AnswerClaims
  BY TailFacts DEF AnswerClaims, Claim

LEMMA ReplyClaims ==
    ASSUME upd \in Seq(Update), NEW u \in Update, Answer(u)
    PROVE  /\ AnswerClaims' \subseteq AnswerClaims \cup {Claim(u)}
           /\ u.result = "Err" => AnswerClaims' \subseteq AnswerClaims
  BY AppendFacts DEF AnswerClaims, Claim, Answer

LEMMA ClaimsShrink ==
    ASSUME ClaimsAgree, GenerationsBounded, Claims' \subseteq Claims,
           nextGen' = nextGen, place'.gen \in {0, place.gen}
    PROVE  ClaimsAgree' /\ GenerationsBounded'
  BY DEF ClaimsAgree, GenerationsBounded

(* What a queued command will find open.                                     *)

\* Each thing the worker holds after the step was asked for as one before it.
Inherited == \A r \in {live', job'} \ {None} : \E q \in {live, job} \ {None} :
                r.session = q.session /\ r.gen = q.gen

LEMMA FindKeep ==
    ASSUME cmds \in Seq(Command), cmds' \in Seq(Command), NEW n \in Nat, NEW s, NEW g,
           n <= Len(cmds), \A i \in 1..n : cmds'[i] = cmds[i],
           Inherited, FindsOwnPlace(n, s, g)
    PROVE  FindsOwnPlace(n, s, g)'
  <1>1. CASE \E j \in 1..n : /\ cmds[j].op \in Openers
                             /\ cmds[j].session = s /\ cmds[j].gen = g
                             /\ \A k \in j+1..n : cmds[k].op \notin Openers
    BY <1>1 DEF FindsOwnPlace
  <1>2. CASE /\ \A k \in 1..n : cmds[k].op \notin Openers
             /\ \A r \in {live, job} \ {None} : r.session = s /\ r.gen = g
    BY <1>2 DEF FindsOwnPlace, Inherited
  <1> QED
    BY <1>1, <1>2 DEF FindsOwnPlace

LEMMA FindPop ==
    ASSUME cmds \in Seq(Command), cmds # <<>>, cmds' = Tail(cmds),
           NEW n \in Nat, n + 1 <= Len(cmds), NEW s, NEW g,
           IF Head(cmds).op \in Openers
           THEN \A r \in {live', job'} \ {None} :
                   r.session = Head(cmds).session /\ r.gen = Head(cmds).gen
           ELSE Inherited,
           FindsOwnPlace(n + 1, s, g)
    PROVE  FindsOwnPlace(n, s, g)'
  <1>0. /\ Head(cmds) = cmds[1]
        /\ \A i \in 1..n : cmds'[i] = cmds[i + 1]
    BY TailFacts
  <1>1. ASSUME NEW j \in 1..n+1, cmds[j].op \in Openers,
               cmds[j].session = s, cmds[j].gen = g,
               \A k \in j+1..n+1 : cmds[k].op \notin Openers
        PROVE  FindsOwnPlace(n, s, g)'
    <2>1. CASE j = 1
      <3>1. \A k \in 1..n : cmds'[k].op \notin Openers
        BY <1>0, <1>1, <2>1
      <3>2. \A r \in {live', job'} \ {None} : r.session = s /\ r.gen = g
        BY <1>0, <1>1, <2>1
      <3> QED
        BY <3>1, <3>2 DEF FindsOwnPlace
    <2>2. CASE j # 1
      <3>1. j - 1 \in 1..n /\ cmds'[j - 1] = cmds[j]
        BY <1>0, <2>2
      <3>2. \A k \in (j-1)+1..n : cmds'[k].op \notin Openers
        BY <1>0, <1>1, <2>2
      <3> QED
        BY <1>1, <3>1, <3>2 DEF FindsOwnPlace
    <2> QED
      BY <2>1, <2>2
  <1>2. CASE /\ \A k \in 1..n+1 : cmds[k].op \notin Openers
             /\ \A r \in {live, job} \ {None} : r.session = s /\ r.gen = g
    <2>1. Inherited
      BY <1>0, <1>2
    <2>2. \A k \in 1..n : cmds'[k].op \notin Openers
      BY <1>0, <1>2
    <2> QED
      BY <1>2, <2>1, <2>2 DEF FindsOwnPlace, Inherited
  <1> QED
    BY <1>1, <1>2 DEF FindsOwnPlace

\* Commands keep finding their place when the queue stays, when a command
\* that opens nothing is sent for the place in use, and when one is taken.
LEMMA CommandsKept ==
    ASSUME TypeOK, CommandsFindTheirPlace, Inherited,
           UNCHANGED <<cmds, sess, place>>,
           ui'.at \in {"idle", "closing"} => ui.at \in {"idle", "closing"}
    PROVE  CommandsFindTheirPlace'
  <1>1. ASSUME NEW n \in Nat, NEW s, NEW g, n <= Len(cmds), FindsOwnPlace(n, s, g)
        PROVE  FindsOwnPlace(n, s, g)'
    BY <1>1, FindKeep DEF TypeOK
  <1>2. cmds \in Seq(Command) /\ Len(cmds) \in Nat
    BY DEF TypeOK
  <1>3. \A i \in DOMAIN cmds : i - 1 \in Nat /\ i - 1 <= Len(cmds)
    BY <1>2
  <1> QED
    BY <1>1, <1>2, <1>3 DEF CommandsFindTheirPlace

LEMMA CommandsSent ==
    ASSUME TypeOK, CommandsFindTheirPlace, NEW c \in Command, cmds' = Append(cmds, c),
           UNCHANGED <<live, job>>,
           c.op \in {"Resync", "Author"} => FindsOwnPlace(Len(cmds), c.session, c.gen),
           ui'.at \in {"idle", "closing"} /\ place'.gen # 0 =>
              \/ /\ c.op \in Openers
                 /\ c.session = sess' /\ c.gen = place'.gen
              \/ /\ c.op \notin Openers
                 /\ UNCHANGED <<sess, place>>
                 /\ ui.at \in {"idle", "closing"}
    PROVE  CommandsFindTheirPlace'
  <1>0. /\ cmds \in Seq(Command) /\ cmds' \in Seq(Command)
        /\ Len(cmds) \in Nat /\ Len(cmds') = Len(cmds) + 1
        /\ DOMAIN cmds' = 1..Len(cmds) + 1
        /\ cmds'[Len(cmds) + 1] = c
        /\ \A i \in 1..Len(cmds) : i \in DOMAIN cmds /\ cmds'[i] = cmds[i]
    BY AppendFacts DEF TypeOK
  <1>1. Inherited
    BY DEF Inherited
  <1>2. ASSUME NEW n \in Nat, NEW s, NEW g, n <= Len(cmds), FindsOwnPlace(n, s, g)
        PROVE  FindsOwnPlace(n, s, g)'
    <2>1. \A i \in 1..n : cmds'[i] = cmds[i]
      BY <1>0, <1>2
    <2> QED
      BY <1>0, <1>1, <1>2, <2>1, FindKeep
  <1>3. ASSUME NEW i \in DOMAIN cmds', NEW s, NEW g,
               cmds'[i].op \in {"Resync", "Author"}, s = cmds'[i].session, g = cmds'[i].gen
        PROVE  FindsOwnPlace(i - 1, s, g)'
    <2>1. CASE i = Len(cmds) + 1
      <3>1. FindsOwnPlace(Len(cmds), s, g)
        BY <1>0, <1>3, <2>1
      <3>2. i - 1 = Len(cmds)
        BY <1>0, <2>1
      <3>3. ASSUME NEW n \in Nat, n = Len(cmds) PROVE FindsOwnPlace(n, s, g)'
        BY <1>2, <3>1, <3>3
      <3> QED
        BY <1>0, <3>2, <3>3
    <2>2. CASE i \in 1..Len(cmds)
      <3>1. FindsOwnPlace(i - 1, s, g) /\ i - 1 \in Nat /\ i - 1 <= Len(cmds)
        BY <1>0, <1>3, <2>2 DEF CommandsFindTheirPlace
      <3> QED
        BY <1>2, <3>1
    <2> QED
      BY <1>0, <2>1, <2>2
  <1>4. ASSUME NEW n \in Nat, n = Len(cmds'), NEW s, NEW g, s = sess', g = place'.gen,
               ui'.at \in {"idle", "closing"}, place'.gen # 0
        PROVE  FindsOwnPlace(n, s, g)'
    <2>1. CASE c.op \in Openers
      <3>1. c.session = s /\ c.gen = g
        BY <1>4, <2>1
      <3>2. /\ n \in 1..n /\ cmds'[n] = c
            /\ \A k \in n+1..n : cmds'[k].op \notin Openers
        BY <1>0, <1>4
      <3> QED
        BY <2>1, <3>1, <3>2 DEF FindsOwnPlace
    <2>2. CASE c.op \notin Openers
      <3>1. FindsOwnPlace(n - 1, s, g) /\ n - 1 \in Nat /\ n - 1 = Len(cmds)
        BY <1>0, <1>4, <2>2 DEF CommandsFindTheirPlace
      <3>2. ASSUME NEW m \in Nat, m = n - 1 PROVE FindsOwnPlace(m, s, g)'
        BY <1>2, <3>1, <3>2
      <3>3. FindsOwnPlace(n - 1, s, g)'
        BY <3>1, <3>2
      <3>4. cmds'[n] = c /\ 1..n = 1..n-1 \cup {n}
        BY <1>0, <1>4
      <3>5. CASE \E j \in 1..n-1 : /\ cmds'[j].op \in Openers
                                   /\ cmds'[j].session = s /\ cmds'[j].gen = g
                                   /\ \A k \in j+1..n-1 : cmds'[k].op \notin Openers
        <4>1. PICK j \in 1..n-1 : /\ cmds'[j].op \in Openers
                                  /\ cmds'[j].session = s /\ cmds'[j].gen = g
                                  /\ \A k \in j+1..n-1 : cmds'[k].op \notin Openers
          BY <3>5
        <4>2. \A k \in j+1..n : cmds'[k].op \notin Openers
          <5>1. \A k \in j+1..n : k = n \/ k \in j+1..n-1
            BY <1>0, <1>4
          <5> QED
            BY <2>2, <3>4, <4>1, <5>1
        <4> QED
          BY <3>4, <4>1, <4>2 DEF FindsOwnPlace
      <3>6. CASE /\ \A k \in 1..n-1 : cmds'[k].op \notin Openers
                 /\ \A r \in {live', job'} \ {None} : r.session = s /\ r.gen = g
        BY <2>2, <3>4, <3>6 DEF FindsOwnPlace
      <3> QED
        BY <3>3, <3>5, <3>6 DEF FindsOwnPlace
    <2> QED
      BY <2>1, <2>2
  <1>5. Len(cmds') \in Nat
    BY <1>0
  <1> QED
    BY <1>3, <1>4, <1>5 DEF CommandsFindTheirPlace

LEMMA CommandsTaken ==
    ASSUME TypeOK, CommandsFindTheirPlace, NEW op, Take(op), UNCHANGED <<sess, place, ui>>,
           IF op \in Openers
           THEN \A r \in {live', job'} \ {None} :
                   r.session = Head(cmds).session /\ r.gen = Head(cmds).gen
           ELSE Inherited
    PROVE  CommandsFindTheirPlace'
  <1>0. /\ cmds \in Seq(Command) /\ cmds # <<>> /\ cmds' = Tail(cmds)
        /\ Head(cmds).op = op /\ Len(cmds) \in Nat /\ Len(cmds') \in Nat
        /\ Len(cmds') + 1 = Len(cmds)
    BY TakeFacts, TailFacts
  <1>a. \A i \in DOMAIN cmds' : i \in Nat \ {0} /\ i + 1 \in DOMAIN cmds /\ cmds'[i] = cmds[i + 1]
    BY <1>0
  <1>1. ASSUME NEW n \in Nat, n + 1 <= Len(cmds), NEW s, NEW g, FindsOwnPlace(n + 1, s, g)
        PROVE  FindsOwnPlace(n, s, g)'
    BY <1>0, <1>1, FindPop
  <1>2. ASSUME NEW i \in DOMAIN cmds', NEW s, NEW g,
               cmds'[i].op \in {"Resync", "Author"}, s = cmds'[i].session, g = cmds'[i].gen
        PROVE  FindsOwnPlace(i - 1, s, g)'
    <2>1. FindsOwnPlace(i, s, g)
      BY <1>0, <1>a, <1>2 DEF CommandsFindTheirPlace
    <2>2. i - 1 \in Nat /\ (i - 1) + 1 = i /\ i <= Len(cmds)
      BY <1>0, <1>a
    <2> QED
      BY <1>1, <2>1, <2>2
  <1>3. ASSUME NEW n \in Nat, n = Len(cmds'), NEW s, NEW g, s = sess', g = place'.gen,
               ui'.at \in {"idle", "closing"}, place'.gen # 0
        PROVE  FindsOwnPlace(n, s, g)'
    <2>1. FindsOwnPlace(n + 1, s, g) /\ n + 1 <= Len(cmds)
      BY <1>0, <1>3 DEF CommandsFindTheirPlace
    <2> QED
      BY <1>1, <2>1
  <1>4. Len(cmds') \in Nat
    BY <1>0
  <1> QED
    BY <1>2, <1>3, <1>4 DEF CommandsFindTheirPlace

\* A step that opens the newest generation: everything else is older.
LEMMA NewGeneration ==
    ASSUME ClaimsAgree, GenerationsBounded, nextGen \in Nat, NEW x,
           x[1] = nextGen + 1, nextGen' = nextGen + 1,
           Claims' \subseteq Claims \cup {x},
           place'.gen \in {0, nextGen + 1}
    PROVE  ClaimsAgree' /\ GenerationsBounded'
  <1>1. \A y \in Claims : y[1] \in 1..nextGen
    BY DEF GenerationsBounded
  <1> QED
    BY <1>1 DEF ClaimsAgree, GenerationsBounded

LEMMA AdoptAnswers ==
    ASSUME TypeOK, AnswerInv, NEW t \in Sessions, Adopt(t, nextGen + 1, cmds),
           UNCHANGED <<upd, live, job, sidecar>>
    PROVE  AnswerInv'
  <1> DEFINE g == nextGen + 1
  <1> DEFINE c == IF place' = Opening(sidecar[t], g) THEN Open(t, g, sidecar[t]) ELSE Release
  <1> DEFINE x == <<g, t, sidecar[t]>>
  <1>0. /\ cmds \in Seq(Command) /\ nextGen \in Nat /\ g \in Generation
        /\ nextGen' = g /\ sess' = t
        /\ Personal # Opening(sidecar[t], g) /\ Failed # Opening(sidecar[t], g)
    BY DEF TypeOK, Adopt, Personal, Failed, Opening
  <1>1. c \in Command /\ cmds' = Append(cmds, c)
    BY <1>0 DEF Adopt, Command, Open, TypeOK
  <1>2. CommandClaims' \subseteq CommandClaims \cup {x}
    <2>1. CASE place' = Opening(sidecar[t], g)
      BY <1>0, <1>1, <2>1, SendClaims DEF Claim, Open
    <2>2. CASE place' # Opening(sidecar[t], g)
      BY <1>0, <1>1, <2>2, SendClaims DEF Release
    <2> QED
      BY <2>1, <2>2
  <1>3. AppClaims' \subseteq {x}
    BY <1>0 DEF Adopt, AppClaims, Opening, Personal, Failed
  <1>4. AnswerClaims' = AnswerClaims /\ WorkerClaims' = WorkerClaims
    BY DEF AnswerClaims, WorkerClaims
  <1>5. Claims' \subseteq Claims \cup {x}
    BY <1>2, <1>3, <1>4 DEF Claims
  <1>6. place'.gen \in {0, g} /\ place'.kind # "Offline"
    BY DEF Adopt, Opening, Personal, Failed
  <1>7. ClaimsAgree' /\ GenerationsBounded'
    BY <1>0, <1>5, <1>6, NewGeneration DEF AnswerInv
  <1>8. CommandsFindTheirPlace'
    <2>1. place'.gen # 0 => c.op \in Openers /\ c.session = sess' /\ c.gen = place'.gen
      BY <1>0 DEF Adopt, Open, Opening, Personal, Failed
    <2>2. c.op \notin {"Resync", "Author"}
      BY DEF Open, Release
    <2> HIDE DEF c
    <2> QED
      BY <1>1, <2>1, <2>2, CommandsSent DEF AnswerInv
  <1> QED
    BY <1>6, <1>7, <1>8 DEF AnswerInv, JobsPlaceIsLive, SnapshotMatchesBinding

\* A step that leaves the app's place alone and claims nothing new.
LEMMA NothingNew ==
    ASSUME AnswerInv, UNCHANGED <<sess, place, nextGen>>,
           CommandClaims' \subseteq Claims, AnswerClaims' \subseteq Claims,
           WorkerClaims' \subseteq Claims
    PROVE  ClaimsAgree' /\ GenerationsBounded' /\ SnapshotMatchesBinding'
  <1>1. AppClaims' = AppClaims
    BY DEF AppClaims
  <1>2. Claims' \subseteq Claims
    BY <1>1 DEF Claims
  <1>3. nextGen' = nextGen /\ place'.gen \in {0, place.gen}
    OBVIOUS
  <1>4. ClaimsAgree' /\ GenerationsBounded'
    BY <1>2, <1>3, ClaimsShrink DEF AnswerInv
  <1> QED
    BY <1>4 DEF AnswerInv, SnapshotMatchesBinding

LEMMA IntentAnswers ==
    ASSUME TypeOK, AnswerInv, Intent
    PROVE  AnswerInv'
  <1> USE DEF work, chan, app, disk
  <1>0. cmds \in Seq(Command) /\ Release \in Command /\ nextGen \in Generation /\ sess \in Sessions
    BY DEF TypeOK, Command
  <1>1. CASE SaveSession
    <2>1. UNCHANGED <<sess, place, nextGen, ui, cmds, upd, live, job>>
      BY <1>1 DEF SaveSession
    <2>2. CommandsFindTheirPlace'
      BY <2>1, CommandsKept DEF AnswerInv, Inherited
    <2>3. CommandClaims' = CommandClaims /\ AnswerClaims' = AnswerClaims /\ WorkerClaims' = WorkerClaims
      BY <2>1 DEF CommandClaims, AnswerClaims, WorkerClaims
    <2> QED
      BY <2>1, <2>2, <2>3, NothingNew DEF Claims, AnswerInv, JobsPlaceIsLive
  <1>2. ASSUME NEW p \in Places, JoinPlace(p) PROVE AnswerInv'
    <2> DEFINE g == nextGen + 1
    <2> DEFINE x == <<g, sess, p>>
    <2> DEFINE c == Join(sess, g, p)
    <2>1. c \in Command /\ c.op \in Openers /\ c.session = sess /\ c.gen = g /\ Claim(c) = x
      BY <1>0 DEF Command, Join, Claim
    <2>2. /\ cmds' = Append(cmds, c) /\ place' = Joining(g)
          /\ UNCHANGED <<sess, ui, upd, live, job>> /\ nextGen' = g
      BY <1>2 DEF JoinPlace
    <2>3. CommandClaims' \subseteq CommandClaims \cup {x}
      BY <1>0, <2>1, <2>2, SendClaims
    <2>4. AppClaims' = {} /\ AnswerClaims' = AnswerClaims /\ WorkerClaims' = WorkerClaims
      BY <2>2 DEF AppClaims, AnswerClaims, WorkerClaims, Joining
    <2>5. Claims' \subseteq Claims \cup {x}
      BY <2>3, <2>4 DEF Claims
    <2>6. place'.gen = g /\ place'.kind # "Offline"
      BY <2>2 DEF Joining
    <2>7. ClaimsAgree' /\ GenerationsBounded'
      BY <1>0, <2>2, <2>5, <2>6, NewGeneration DEF AnswerInv
    <2>8. CommandsFindTheirPlace'
      <3> HIDE DEF c, g
      <3> QED
        BY <2>1, <2>2, <2>6, CommandsSent DEF AnswerInv
    <2> QED
      BY <2>2, <2>6, <2>7, <2>8 DEF AnswerInv, JobsPlaceIsLive, SnapshotMatchesBinding
  <1>3. ASSUME NEW c \in Command, cmds' = Append(cmds, c),
               c.op \notin Openers,
               UNCHANGED <<sess, place, nextGen, upd, live, job>>,
               ui'.at \in {"idle", "closing"} => ui.at \in {"idle", "closing"},
               c.op # "Release" => /\ c.session = sess /\ c.gen = place.gen
                                   /\ ui = Idle /\ place.gen # 0
        PROVE  AnswerInv'
    <2>1. CommandClaims' \subseteq CommandClaims
      BY <1>0, <1>3, SendClaims
    <2>2. AnswerClaims' = AnswerClaims /\ WorkerClaims' = WorkerClaims
      BY <1>3 DEF AnswerClaims, WorkerClaims
    <2>3. c.op \in {"Resync", "Author"} => FindsOwnPlace(Len(cmds), c.session, c.gen)
      BY <1>3 DEF AnswerInv, CommandsFindTheirPlace, Idle
    <2>4. CommandsFindTheirPlace'
      BY <1>3, <2>3, CommandsSent DEF AnswerInv
    <2> QED
      BY <1>3, <2>1, <2>2, <2>4, NothingNew DEF Claims, AnswerInv, JobsPlaceIsLive
  <1>4. CASE RunPlaceCommand
    <2>1. /\ Author(sess, place.gen) \in Command
          /\ Author(sess, place.gen).op \notin Openers
          /\ Author(sess, place.gen).session = sess /\ Author(sess, place.gen).gen = place.gen
      BY <1>0, <1>4, PlaceParts DEF RunPlaceCommand, Author, Command
    <2> QED
      BY <1>3, <1>4, <2>1 DEF RunPlaceCommand
  <1>5. CASE ResyncPlace
    <2>1. /\ Resync(sess, place.gen) \in Command
          /\ Resync(sess, place.gen).op \notin Openers
          /\ Resync(sess, place.gen).session = sess /\ Resync(sess, place.gen).gen = place.gen
      BY <1>0, <1>5, PlaceParts DEF ResyncPlace, Resync, Command
    <2> QED
      BY <1>3, <1>5, <2>1 DEF ResyncPlace
  <1>6. ASSUME cmds' = Append(cmds, Release), ui'.at \in {"switching", "trashing"},
               UNCHANGED <<sess, place, nextGen, upd, live, job>>
        PROVE  AnswerInv'
    <2>1. Release.op \notin Openers /\ Release.op = "Release"
      BY DEF Release
    <2> QED
      BY <1>0, <1>3, <1>6, <2>1
  <1>7. ASSUME NEW t \in Sessions,
               SwitchSession(t) \/ NewSession(t) \/ RecoverSession(t) \/ CloseSession(t)
        PROVE  AnswerInv'
    BY <1>6, <1>7 DEF SwitchSession, NewSession, RecoverSession, CloseSession, StartSwitch,
                      Switching, Trashing
  <1> QED
    BY <1>1, <1>2, <1>4, <1>5, <1>7 DEF Intent

LEMMA ResumeAnswers ==
    ASSUME TypeOK, AnswerInv, Resume
    PROVE  AnswerInv'
  <1> USE DEF work, chan, app, disk
  <1>1. ASSUME FinishSwitch \/ FinishTrash PROVE AnswerInv'
    <2>1. ui.next \in Sessions
      BY <1>1 DEF FinishSwitch, FinishTrash, TypeOK, Waits, Idle, Closing, Switching, Trashing
    <2> QED
      BY <1>1, <2>1, AdoptAnswers DEF FinishSwitch, FinishTrash
  <1>2. CASE FinishClose
    <2>1. UNCHANGED <<sess, place, nextGen, cmds, upd, live, job>> /\ ui.at = "closing"
      BY <1>2 DEF FinishClose
    <2>2. CommandsFindTheirPlace'
      BY <2>1, CommandsKept DEF AnswerInv, Inherited
    <2>3. CommandClaims' = CommandClaims /\ AnswerClaims' = AnswerClaims /\ WorkerClaims' = WorkerClaims
      BY <2>1 DEF CommandClaims, AnswerClaims, WorkerClaims
    <2> QED
      BY <2>1, <2>2, <2>3, NothingNew DEF Claims, AnswerInv, JobsPlaceIsLive
  <1> QED
    BY <1>1, <1>2 DEF Resume

LEMMA FoldAnswers ==
    ASSUME TypeOK, AnswerInv, Folds
    PROVE  AnswerInv'
  <1> USE DEF work, chan, app, disk
  <1> DEFINE u == Head(upd)
  <1>1. /\ ui = Idle /\ upd # <<>> /\ upd' = Tail(upd)
        /\ UNCHANGED <<sess, nextGen, ui, live, job>>
    BY DEF Folds, FoldStale, FoldAdvanced, FoldDone, FoldJoined, FoldOpened, Fold
  <1>2. /\ AnswerClaims' \subseteq AnswerClaims
        /\ u.result = "Ok" => Claim(u) \in AnswerClaims
        /\ u \in Update
    BY <1>1, FoldClaims, TailFacts DEF TypeOK
  <1>3. WorkerClaims' = WorkerClaims
    BY <1>1 DEF WorkerClaims
  <1>4. CASE UNCHANGED place
    <2>1. CASE FoldAdvanced
      <3> DEFINE c == Resync(sess, place.gen)
      <3>1. cmds' = Append(cmds, c) /\ Current(u)
        BY <2>1 DEF FoldAdvanced
      <3>2. /\ c \in Command /\ c.op = "Resync" /\ c.session = sess /\ c.gen = place.gen
            /\ place.gen \in Generation
        BY <1>2, <3>1, UpdateParts DEF Current, Resync, Command, TypeOK
      <3> HIDE DEF c
      <3>3. CommandClaims' \subseteq CommandClaims
        BY <3>1, <3>2, SendClaims DEF TypeOK
      <3>4. FindsOwnPlace(Len(cmds), c.session, c.gen)
        BY <1>1, <3>2 DEF AnswerInv, CommandsFindTheirPlace, Idle
      <3>5. CommandsFindTheirPlace'
        BY <1>1, <1>4, <3>1, <3>2, <3>4, CommandsSent DEF AnswerInv
      <3> QED
        BY <1>1, <1>2, <1>3, <1>4, <3>3, <3>5, NothingNew DEF Claims, AnswerInv, JobsPlaceIsLive
    <2>2. CASE UNCHANGED cmds
      <3>1. CommandClaims' = CommandClaims
        BY <2>2 DEF CommandClaims
      <3>2. CommandsFindTheirPlace'
        BY <1>1, <1>4, <2>2, CommandsKept DEF AnswerInv, Inherited
      <3> QED
        BY <1>1, <1>2, <1>3, <1>4, <3>1, <3>2, NothingNew DEF Claims, AnswerInv, JobsPlaceIsLive
    <2> QED
      BY <2>1, <2>2 DEF Folds, FoldStale, FoldDone, FoldJoined, FoldOpened
  <1>5. CASE /\ Current(u)
             /\ UNCHANGED cmds
             /\ place' \in {DoneState(u), OpenedState(u), JoinedState(u)}
    <2>1. CommandClaims' = CommandClaims
      BY <1>5 DEF CommandClaims
    \* What the answer shows is what the generation is about.
    <2>2. u.result = "Ok" /\ place.binding # None => u.place = place.binding
      <3>1. SUFFICES ASSUME u.result = "Ok", place.binding # None
                     PROVE  u.place = place.binding
        OBVIOUS
      <3>2. Claim(u) \in Claims /\ <<place.gen, sess, place.binding>> \in Claims
        BY <1>2, <3>1 DEF Claims, AppClaims
      <3>3. Claim(u) = <<place.gen, sess, u.place>>
        BY <1>5 DEF Claim, Current
      <3> QED
        BY <3>2, <3>3 DEF AnswerInv, ClaimsAgree
    <2>3. /\ place'.gen \in {0, place.gen}
          /\ place'.binding # None =>
               <<place'.gen, sess, place'.binding>> \in Claims
          /\ place'.kind = "Offline" => place'.snap.place = place'.binding
      <3>1. CASE UNCHANGED place
        BY <3>1 DEF AnswerInv, SnapshotMatchesBinding, Claims, AppClaims
      <3>2. CASE place' = Failed
        BY <3>2 DEF Failed
      <3>3. CASE /\ place.binding # None
                 /\ \/ place' = Degraded(place.binding, u.gen)
                    \/ /\ u.result = "Ok"
                       /\ place' = Offline(place.binding, u.gen, Snap(u.place, u.facts))
        <4>1. u.gen = place.gen /\ <<place.gen, sess, place.binding>> \in Claims
          BY <1>5, <3>3 DEF Current, Claims, AppClaims
        <4> QED
          BY <2>2, <3>3, <4>1 DEF Degraded, Offline, Snap
      <3>4. CASE /\ u.result = "Ok"
                 /\ place' = Offline(u.place, u.gen, Snap(u.place, u.facts))
        <4>1. Claim(u) = <<place.gen, sess, u.place>> /\ u.gen = place.gen
          BY <1>5 DEF Claim, Current
        <4>2. Claim(u) \in Claims
          BY <1>2, <3>4 DEF Claims
        <4> QED
          BY <3>4, <4>1, <4>2 DEF Offline, Snap
      <3> QED
        BY <1>5, <3>1, <3>2, <3>3, <3>4 DEF DoneState, OpenedState, JoinedState
    <2>4. AppClaims' \subseteq Claims
      BY <1>1, <2>3 DEF AppClaims
    <2>5. Claims' \subseteq Claims
      BY <1>2, <1>3, <2>1, <2>4 DEF Claims
    <2>6. ClaimsAgree' /\ GenerationsBounded'
      BY <1>1, <2>3, <2>5, ClaimsShrink DEF AnswerInv
    <2>7. CommandsFindTheirPlace'
      <3>1. Inherited
        BY <1>1 DEF Inherited
      <3>2. ASSUME NEW n \in Nat, NEW s, NEW g, n <= Len(cmds), FindsOwnPlace(n, s, g)
            PROVE  FindsOwnPlace(n, s, g)'
        BY <1>5, <3>1, <3>2, FindKeep DEF TypeOK
      <3>3. place'.gen # 0 => place'.gen = place.gen /\ ui.at \in {"idle", "closing"}
        BY <1>1, <2>3 DEF Idle
      <3>4. Len(cmds) \in Nat /\ \A i \in DOMAIN cmds : i - 1 \in Nat /\ i - 1 <= Len(cmds)
        BY DEF TypeOK
      <3> QED
        BY <1>1, <1>5, <3>2, <3>3, <3>4 DEF AnswerInv, CommandsFindTheirPlace
    <2> QED
      BY <1>1, <2>3, <2>6, <2>7 DEF AnswerInv, JobsPlaceIsLive, SnapshotMatchesBinding
  <1> QED
    BY <1>4, <1>5 DEF Folds, FoldStale, FoldAdvanced, FoldDone, FoldJoined, FoldOpened

\* The worker and the lanes touch nothing of the app: what remains to be shown
\* of a step is where its claims come from and what the queue finds after it.
LEMMA OffApp ==
    ASSUME AnswerInv, UNCHANGED <<sess, place, nextGen, ui>>,
           CommandClaims' \subseteq Claims, AnswerClaims' \subseteq Claims,
           WorkerClaims' \subseteq Claims,
           CommandsFindTheirPlace', JobsPlaceIsLive'
    PROVE  AnswerInv'
  BY NothingNew DEF AnswerInv

LEMMA ReplyAgrees ==
    ASSUME TypeOK, NEW r, r.session \in Sessions, r.gen \in Generation
    PROVE  /\ \A op \in {"Opened", "Joined", "Done"}, wrote \in BOOLEAN :
                Answer(Err(op, r, wrote)) => AnswerClaims' \subseteq Claims
           /\ \A op \in {"Opened", "Joined", "Done"}, p \in Places, n \in Nat :
                Answer(Ok(op, r, p, n)) /\ <<r.gen, r.session, p>> \in Claims
                  => AnswerClaims' \subseteq Claims
  <1>0. upd \in Seq(Update) /\ AnswerClaims \subseteq Claims
    BY DEF TypeOK, Claims
  <1>1. ASSUME NEW op \in {"Opened", "Joined", "Done"}, NEW wrote \in BOOLEAN,
               Answer(Err(op, r, wrote))
        PROVE  AnswerClaims' \subseteq Claims
    <2>1. Err(op, r, wrote) \in Update /\ Err(op, r, wrote).result = "Err"
      BY DEF Err, Update
    <2> QED
      BY <1>0, <1>1, <2>1, ReplyClaims
  <1>2. ASSUME NEW op \in {"Opened", "Joined", "Done"}, NEW p \in Places, NEW n \in Nat,
               Answer(Ok(op, r, p, n)), <<r.gen, r.session, p>> \in Claims
        PROVE  AnswerClaims' \subseteq Claims
    <2>1. Ok(op, r, p, n) \in Update /\ Claim(Ok(op, r, p, n)) = <<r.gen, r.session, p>>
      BY DEF Ok, Update, Claim
    <2> QED
      BY <1>0, <1>2, <2>1, ReplyClaims
  <1> QED
    BY <1>1, <1>2

LEMMA WorkerAnswers ==
    ASSUME TypeInv, AnswerInv, WorkerStep
    PROVE  AnswerInv'
  <1> USE DEF work, chan, app, disk
  <1> DEFINE c == Head(cmds)
  <1>a. UNCHANGED <<sess, place, nextGen, ui>>
    BY DEF WorkerStep, OpenCached, BeginJoin, AdmitRefused, AdmitChecked, AdmitCommit, Reopen,
       JoinDone, JoinFails, WorkResync, BeginAuthor, AuthorStore, AuthorDone, WorkRelease
  <1>t. TypeOK /\ CommandsFindTheirPlace /\ JobsPlaceIsLive /\ facts \in [Sessions -> Nat]
    BY DEF TypeInv, AnswerInv, TypeOK
  <1>l. live # None => /\ live.session \in Sessions /\ live.gen \in Generation
                       /\ live.place \in Places /\ facts[live.session] \in Nat
                       /\ Claim(live) \in Claims
    BY <1>t DEF TypeOK, LivePlace, Claims, WorkerClaims
  <1>j. job # None => /\ job.session \in Sessions /\ job.gen \in Generation
                      /\ job.place \in Places /\ job.facts \in Nat
                      /\ Claim(job) \in Claims
                      /\ (job.step \in AuthorSteps <=> live # None)
    BY DEF TypeInv, JobHasPlace, TypeOK, Job, Claims, WorkerClaims
  <1>s. CommandClaims \subseteq Claims /\ AnswerClaims \subseteq Claims /\ WorkerClaims \subseteq Claims
    BY DEF Claims
  <1>q. UNCHANGED cmds => CommandClaims' \subseteq Claims
    BY <1>s DEF CommandClaims
  <1>u. UNCHANGED upd => AnswerClaims' \subseteq Claims
    BY <1>s DEF AnswerClaims
  <1>w. ASSUME \A r \in {live', job'} \ {None} : Claim(r) \in Claims
        PROVE  WorkerClaims' \subseteq Claims
    BY <1>w DEF WorkerClaims, Claim
  \* Taking a command: its own claim, and what it finds open.
  <1>p. ASSUME NEW op, Take(op)
        PROVE  /\ CommandClaims' \subseteq Claims /\ job = None
               /\ c \in Command /\ c.op = op
               /\ op # "Release" => c.session \in Sessions /\ c.gen \in Generation
               /\ op \in Openers => c.place \in Places /\ Claim(c) \in Claims
               /\ op \in {"Resync", "Author"} /\ live # None
                    => Claim(live) = <<c.gen, c.session, live.place>>
    <2>1. /\ cmds \in Seq(Command) /\ cmds # <<>> /\ cmds' = Tail(cmds)
          /\ job = None /\ c \in Command /\ c.op = op
      BY <1>t, <1>p, TakeFacts
    <2>2. CommandClaims' \subseteq Claims /\ (op \in Openers => Claim(c) \in Claims)
      BY <1>s, <2>1, PopClaims
    <2>3. c = cmds[1] /\ 1 \in DOMAIN cmds
      BY <2>1, TailFacts
    <2>4. op \in {"Resync", "Author"} => FindsOwnPlace(0, c.session, c.gen)
      BY <1>t, <2>1, <2>3 DEF CommandsFindTheirPlace
    <2>5. op \in {"Resync", "Author"} /\ live # None => live.session = c.session /\ live.gen = c.gen
      BY <2>4 DEF FindsOwnPlace
    <2> QED
      BY <2>1, <2>2, <2>5, CommandParts DEF Claim
  <1>1. CASE OpenCached
    <2>1. Take("Open")
      BY <1>1 DEF OpenCached
    <2>2. /\ CommandClaims' \subseteq Claims /\ job' = None
          /\ c.session \in Sessions /\ c.gen \in Generation /\ c.place \in Places
          /\ <<c.gen, c.session, c.place>> \in Claims
      BY <1>1, <1>p, <2>1 DEF OpenCached, Claim
    <2>3. facts[c.session] \in Nat
      BY <1>t, <2>2
    <2>4. AnswerClaims' \subseteq Claims
      BY <1>1, <1>t, <2>2, <2>3, ReplyAgrees DEF OpenCached
    <2>5. live' # None => /\ Claim(live') = <<c.gen, c.session, c.place>>
                          /\ live'.session = c.session /\ live'.gen = c.gen
      <3>1. live' \in {None, [session |-> c.session, gen |-> c.gen, place |-> c.place,
                              lanes |-> FALSE, news |-> FALSE]}
        BY <1>1 DEF OpenCached
      <3> QED
        BY <3>1 DEF Claim
    <2>6. CommandsFindTheirPlace'
      BY <1>a, <1>t, <2>1, <2>2, <2>5, CommandsTaken
    <2> QED
      BY <1>a, <1>w, <2>2, <2>4, <2>5, <2>6, OffApp DEF JobsPlaceIsLive
  <1>2. CASE BeginJoin
    <2>1. Take("Join")
      BY <1>2 DEF BeginJoin
    <2>2. /\ CommandClaims' \subseteq Claims /\ <<c.gen, c.session, c.place>> \in Claims
      BY <1>p, <2>1 DEF Claim
    <2>3. /\ live' = None /\ UNCHANGED upd
          /\ Claim(job') = <<c.gen, c.session, c.place>>
          /\ job'.session = c.session /\ job'.gen = c.gen
      BY <1>2 DEF BeginJoin, Claim
    <2>4. CommandsFindTheirPlace'
      BY <1>a, <1>t, <2>1, <2>3, CommandsTaken
    <2> QED
      BY <1>a, <1>u, <1>w, <2>2, <2>3, <2>4, OffApp DEF JobsPlaceIsLive
  \* A step of a job: what is held is what was held.
  <1>k. ASSUME UNCHANGED cmds,
               live' = None \/ UNCHANGED live
                 \/ (job # None /\ Claim(live') = Claim(job)
                     /\ live'.session = job.session /\ live'.gen = job.gen),
               job' = None \/ (/\ job # None /\ Claim(job') = Claim(job)
                               /\ job'.session = job.session /\ job'.gen = job.gen
                               /\ UNCHANGED live),
               AnswerClaims' \subseteq Claims
        PROVE  AnswerInv'
    <2>1. Inherited
      BY <1>k DEF Inherited
    <2>2. CommandsFindTheirPlace'
      BY <1>a, <1>k, <1>t, <2>1, CommandsKept
    <2>3. WorkerClaims' \subseteq Claims
      BY <1>j, <1>k, <1>l, <1>w
    <2>4. JobsPlaceIsLive'
      BY <1>k, <1>t DEF JobsPlaceIsLive, Claim
    <2> QED
      BY <1>a, <1>k, <1>q, <2>2, <2>3, <2>4, OffApp
  <1>3. CASE AdmitRefused
    BY <1>3, <1>j, <1>k, <1>t, ReplyAgrees DEF AdmitRefused
  <1>4. CASE AdmitChecked \/ AdmitCommit \/ Reopen \/ AuthorStore
    <2>1. /\ UNCHANGED <<cmds, upd, live>> /\ job # None
          /\ job'.session = job.session /\ job'.gen = job.gen /\ job'.place = job.place
      BY <1>4, <1>t DEF AdmitChecked, AdmitCommit, Reopen, AuthorStore, TypeOK, Job
    <2> QED
      BY <1>k, <1>u, <2>1 DEF Claim
  <1>5. CASE JoinDone
    <2>1. /\ Claim(live') = Claim(job)
          /\ live'.session = job.session /\ live'.gen = job.gen
      BY <1>5 DEF JoinDone, Claim
    <2>2. AnswerClaims' \subseteq Claims
      BY <1>5, <1>j, <1>t, ReplyAgrees DEF JoinDone, Claim
    <2> QED
      BY <1>5, <1>k, <2>1, <2>2 DEF JoinDone
  <1>6. CASE JoinFails
    BY <1>6, <1>j, <1>k, <1>t, ReplyAgrees DEF JoinFails
  <1>7. CASE WorkResync
    <2>1. Take("Resync")
      BY <1>7 DEF WorkResync
    <2>2. /\ CommandClaims' \subseteq Claims
          /\ c.session \in Sessions /\ c.gen \in Generation
          /\ live # None => <<c.gen, c.session, live.place>> \in Claims
      BY <1>l, <1>p, <2>1
    <2>3. AnswerClaims' \subseteq Claims
      BY <1>7, <1>l, <1>t, <2>2, ReplyAgrees DEF WorkResync
    <2>4. UNCHANGED <<live, job>>
      BY <1>7 DEF WorkResync
    <2>5. CommandsFindTheirPlace'
      BY <1>a, <1>t, <2>1, <2>4, CommandsTaken DEF Inherited
    <2>6. WorkerClaims' \subseteq Claims
      BY <1>s, <2>4 DEF WorkerClaims
    <2> QED
      BY <1>a, <1>t, <2>2, <2>3, <2>4, <2>5, <2>6, OffApp DEF JobsPlaceIsLive
  <1>8. CASE BeginAuthor
    <2>1. Take("Author")
      BY <1>8 DEF BeginAuthor
    <2>2. /\ CommandClaims' \subseteq Claims
          /\ c.session \in Sessions /\ c.gen \in Generation
          /\ live # None => Claim(live) = <<c.gen, c.session, live.place>>
      BY <1>p, <2>1
    <2>3. UNCHANGED live /\ job = None
      BY <1>8, <1>p, <2>1 DEF BeginAuthor
    <2>4. CASE UNCHANGED job
      <3>1. AnswerClaims' \subseteq Claims
        BY <1>8, <1>t, <1>u, <2>2, ReplyAgrees DEF BeginAuthor
      <3>2. CommandsFindTheirPlace'
        BY <1>a, <1>t, <2>1, <2>3, <2>4, CommandsTaken DEF Inherited
      <3>3. WorkerClaims' \subseteq Claims
        BY <1>s, <2>3, <2>4 DEF WorkerClaims
      <3> QED
        BY <1>a, <1>t, <2>2, <2>3, <2>4, <3>1, <3>2, <3>3, OffApp DEF JobsPlaceIsLive
    <2>5. CASE ~ UNCHANGED job
      <3>1. /\ live # None /\ UNCHANGED upd
            /\ Claim(job') = <<c.gen, c.session, live.place>>
            /\ job'.session = c.session /\ job'.gen = c.gen
        <4>1. /\ live # None /\ UNCHANGED upd
              /\ job' = [step |-> "author", session |-> c.session, gen |-> c.gen,
                         place |-> live.place, facts |-> 0]
          BY <1>8, <2>5 DEF BeginAuthor
        <4> QED
          BY <4>1 DEF Claim
      <3>2. Claim(job') = Claim(live') /\ Claim(live) \in Claims
        BY <1>l, <2>2, <2>3, <3>1
      <3>3. live.session = c.session /\ live.gen = c.gen
        BY <2>2, <3>1 DEF Claim
      <3>4. CommandsFindTheirPlace'
        <4>1. Inherited
          BY <2>3, <3>1, <3>3 DEF Inherited
        <4> QED
          BY <1>a, <1>t, <2>1, <4>1, CommandsTaken
      <3>5. WorkerClaims' \subseteq Claims
        BY <1>w, <2>3, <3>2
      <3>6. JobsPlaceIsLive'
        BY <3>2 DEF JobsPlaceIsLive
      <3> QED
        BY <1>a, <1>u, <2>2, <3>1, <3>4, <3>5, <3>6, OffApp
    <2> QED
      BY <2>4, <2>5
  <1>9. CASE AuthorDone
    <2>1. /\ UNCHANGED <<cmds, live>> /\ job' = None /\ job # None /\ live # None
      BY <1>9, <1>j DEF AuthorDone
    <2>2. <<job.gen, job.session, live.place>> \in Claims
      BY <1>j, <1>t, <2>1 DEF JobsPlaceIsLive, Claim
    <2>3. AnswerClaims' \subseteq Claims
      BY <1>9, <1>j, <1>l, <1>t, <2>1, <2>2, ReplyAgrees DEF AuthorDone
    <2> QED
      BY <1>k, <2>1, <2>3
  <1>10. CASE WorkRelease
    <2>1. Take("Release") /\ live' = None /\ UNCHANGED <<upd, job>>
      BY <1>10 DEF WorkRelease
    <2>2. CommandClaims' \subseteq Claims /\ job' = None
      BY <1>p, <2>1
    <2>3. CommandsFindTheirPlace'
      BY <1>a, <1>t, <2>1, <2>2, CommandsTaken DEF Inherited
    <2> QED
      BY <1>a, <1>u, <1>w, <2>1, <2>2, <2>3, OffApp DEF JobsPlaceIsLive
  <1> QED
    BY <1>1, <1>2, <1>3, <1>4, <1>5, <1>6, <1>7, <1>8, <1>9, <1>10 DEF WorkerStep

LEMMA LanesAnswers ==
    ASSUME TypeInv, AnswerInv, Arrive \/ Nudge
    PROVE  AnswerInv'
  <1> USE DEF work, chan, app, disk
  <1>1. /\ UNCHANGED <<sess, place, nextGen, ui, cmds, job>>
        /\ \/ UNCHANGED live
           \/ /\ live # None
              /\ live'.session = live.session /\ live'.gen = live.gen /\ live'.place = live.place
    BY DEF Arrive, Nudge, TypeInv, TypeOK, LivePlace
  <1>2. Inherited
    BY <1>1 DEF Inherited
  <1>3. CommandsFindTheirPlace'
    BY <1>1, <1>2, CommandsKept DEF TypeInv, AnswerInv
  <1>4. CommandClaims' \subseteq Claims /\ WorkerClaims' \subseteq Claims
    BY <1>1 DEF CommandClaims, WorkerClaims, Claims, Claim
  <1>5. JobsPlaceIsLive'
    BY <1>1 DEF AnswerInv, JobsPlaceIsLive, Claim
  <1>6. AnswerClaims' \subseteq Claims
    <2>1. CASE Arrive
      BY <2>1 DEF Arrive, AnswerClaims, Claims
    <2>2. CASE Nudge
      <3> DEFINE u == [op |-> "Advanced", session |-> live.session, gen |-> live.gen,
                       result |-> "Ok", place |-> live.place, facts |-> 0, wrote |-> FALSE]
      <3>1. live # None /\ Answer(u)
        BY <2>2 DEF Nudge
      <3>2. live \in LivePlace
        BY <3>1 DEF TypeInv, TypeOK
      <3>3. u \in Update
        BY <3>2 DEF LivePlace, Update
      <3>4. Claim(u) = Claim(live) /\ Claim(live) \in Claims
        BY <3>1 DEF Claim, Claims, WorkerClaims
      <3>5. upd \in Seq(Update)
        BY DEF TypeInv, TypeOK
      <3> HIDE DEF u
      <3> QED
        BY <3>1, <3>3, <3>4, <3>5, ReplyClaims DEF Claims
    <2> QED
      BY <2>1, <2>2
  <1> QED
    BY <1>1, <1>3, <1>4, <1>5, <1>6, OffApp

LEMMA RestartAnswers ==
    ASSUME TypeInv, AnswerInv, Restart
    PROVE  AnswerInv'
  <1> DEFINE x == <<1, sess, sidecar[sess]>>
  <1>1. /\ upd' = <<>> /\ live' = None /\ job' = None /\ sess' = sess /\ nextGen' = 1
        /\ \/ /\ place' = Opening(sidecar[sess], 1)
              /\ cmds' = <<Open(sess, 1, sidecar[sess])>>
           \/ /\ place' \in {Personal, Failed}
              /\ cmds' = <<Release>>
    BY DEF Restart, Boot, Adopt
  <1>2. AnswerClaims' = {} /\ WorkerClaims' = {}
    BY <1>1 DEF AnswerClaims, WorkerClaims
  <1>3. CommandClaims' \subseteq {x}
    BY <1>1 DEF CommandClaims, Claim, Open, Release
  <1>4. AppClaims' \subseteq {x} /\ place'.gen \in {0, 1} /\ place'.kind # "Offline"
    BY <1>1 DEF AppClaims, Opening, Personal, Failed
  <1>5. ClaimsAgree' /\ GenerationsBounded'
    BY <1>1, <1>2, <1>3, <1>4 DEF Claims, ClaimsAgree, GenerationsBounded
  <1>6. CommandsFindTheirPlace'
    <2>1. CASE /\ place' = Opening(sidecar[sess], 1)
               /\ cmds' = <<Open(sess, 1, sidecar[sess])>>
      BY <1>1, <2>1 DEF CommandsFindTheirPlace, FindsOwnPlace, Open, Opening
    <2>2. CASE place' \in {Personal, Failed} /\ cmds' = <<Release>>
      BY <1>1, <2>2 DEF CommandsFindTheirPlace, Release, Personal, Failed
    <2> QED
      BY <1>1, <2>1, <2>2
  <1> QED
    BY <1>1, <1>4, <1>5, <1>6 DEF AnswerInv, JobsPlaceIsLive, SnapshotMatchesBinding

LEMMA AnswerStep == TypeInv /\ AnswerInv /\ [Next]_vars => AnswerInv'
  <1> SUFFICES ASSUME TypeInv, AnswerInv, [Next]_vars PROVE AnswerInv'
    OBVIOUS
  <1>0. TypeOK
    BY DEF TypeInv
  <1>1. CASE UNCHANGED vars
    <2>1. UNCHANGED <<sess, place, nextGen, ui, cmds, upd, live, job>>
      BY <1>1 DEF vars, app, chan, work
    <2>2. CommandsFindTheirPlace'
      BY <1>0, <2>1, CommandsKept DEF AnswerInv, Inherited
    <2>3. CommandClaims' = CommandClaims /\ AnswerClaims' = AnswerClaims /\ WorkerClaims' = WorkerClaims
      BY <2>1 DEF CommandClaims, AnswerClaims, WorkerClaims
    <2> QED
      BY <2>1, <2>2, <2>3, NothingNew DEF Claims, AnswerInv, JobsPlaceIsLive
  <1> QED
    BY <1>0, <1>1, IntentAnswers, ResumeAnswers, FoldAnswers, WorkerAnswers, LanesAnswers,
       RestartAnswers DEF Next

\* What the app shows as the session's place was folded from that very place.
\* The queues between the threads may hold answers and commands of departed
\* sessions and earlier opens; none of them comes to stand under the wrong
\* binding (place/worker.rs, app/updates.rs).
THEOREM SnapshotSafety == Spec => []SnapshotMatchesBinding
  <1>1. TypeInv /\ AnswerInv /\ [Next]_vars => (TypeInv /\ AnswerInv)'
    BY TypeStep, AnswerStep
  <1>2. AnswerInv => SnapshotMatchesBinding
    BY DEF AnswerInv
  <1> QED
    BY TypeInit, AnswerInit, <1>1, <1>2, PTL DEF Spec

-----------------------------------------------------------------------------
(* The third layer: what the session directories hold.                       *)

LEMMA AdmissionInit == Init => AdmissionInv
  <1> SUFFICES ASSUME Init PROVE AdmissionInv
    OBVIOUS
  <1>1. Promised = {}
    BY DEF Init, Promised, JoinedAnswers
  <1> QED
    BY <1>1 DEF Init, AdmissionInv, ListedAreKept, AdmittedKeepSidecar, BoundMeansAdmitted,
                Personal, Closing

\* Directories of admitted sessions stay so, and the worker promises nothing
\* new that is not on disk.
LEMMA PromisesKept ==
    ASSUME TypeOK, AdmittedKeepSidecar,
           \A s \in Sessions : Admitted(s) => Admitted(s)',
           \A s \in Promised' \ Promised : Admitted(s)'
    PROVE  AdmittedKeepSidecar'
  <1>1. upd \in Seq(Update) /\ (job # None => job \in Job)
    BY DEF TypeOK
  <1>2. \A i \in DOMAIN upd : upd[i].session \in Sessions
    BY <1>1, UpdateParts
  <1>3. Promised \subseteq Sessions
    BY <1>1, <1>2 DEF Promised, JoinedAnswers, Job
  <1> QED
    BY <1>3 DEF AdmittedKeepSidecar

LEMMA PromisesUnchanged ==
    ASSUME UNCHANGED <<upd, job>>
    PROVE  Promised' = Promised
  BY DEF Promised, JoinedAnswers

\* A save keeps a sidecar where there is one and makes none.
LEMMA SavedKeeps ==
    ASSUME TypeOK, sidecar' \in {sidecar} \cup SavedSidecar
    PROVE  \A s \in Sessions : sidecar'[s] = None <=> sidecar[s] = None
  <1>1. CASE sidecar' \in SavedSidecar /\ place.binding # None /\ sidecar[sess] \in Places
    <2>1. /\ sidecar[sess] # None /\ sess \in Sessions
          /\ sidecar' = sidecar \/ \E x : x # None /\ sidecar' = [sidecar EXCEPT ![sess] = x]
      BY <1>1, PlaceLifecycleAssumption DEF TypeOK, SavedSidecar, Written
    <2> QED
      BY <2>1 DEF TypeOK
  <1> QED
    BY <1>1 DEF SavedSidecar

LEMMA IntentAdmission ==
    ASSUME TypeInv, AdmissionInv, Intent
    PROVE  AdmissionInv'
  <1> USE DEF work, chan, app, disk
  <1>t. TypeOK /\ ListedAreKept /\ AdmittedKeepSidecar /\ BoundMeansAdmitted
    BY DEF TypeInv, AdmissionInv
  <1>1. /\ UNCHANGED <<sess, upd, job>>
        /\ place' = place \/ place'.binding = None
    BY DEF Intent, SaveSession, JoinPlace, RunPlaceCommand, ResyncPlace, SwitchSession,
           NewSession, RecoverSession, CloseSession, StartSwitch, Joining
  <1>2. sidecar' \in {sidecar} \cup SavedSidecar
    BY DEF Intent, SaveSession, JoinPlace, RunPlaceCommand, ResyncPlace, SwitchSession,
           NewSession, RecoverSession, CloseSession, StartSwitch
  <1>3. \A s \in Sessions : sidecar'[s] = None <=> sidecar[s] = None
    BY <1>t, <1>2, SavedKeeps
  <1>4. /\ listed \subseteq listed'
        /\ \A s \in Sessions : dir'[s] = dir[s] \/ (dir[s] = "absent" /\ dir'[s] = "kept")
        /\ \A s \in listed' : dir'[s] = "kept"
        /\ ui' = ui \/ \E t \in listed' : t # sess /\ ui' \in {Switching(t), Trashing(t, sess)}
    <2> USE DEF StartSwitch, ListedAreKept
    <2>1. CASE SaveSession
      BY <1>t, <2>1 DEF SaveSession
    <2>2. ASSUME NEW p \in Places, JoinPlace(p) PROVE UNCHANGED <<listed, dir, ui>>
      BY <2>2 DEF JoinPlace
    <2>3. CASE RunPlaceCommand \/ ResyncPlace
      BY <1>t, <2>3 DEF RunPlaceCommand, ResyncPlace
    <2>4. ASSUME NEW t \in Sessions, SwitchSession(t) PROVE <1>4!:
      BY <1>t, <2>4 DEF SwitchSession
    <2>5. ASSUME NEW t \in Sessions, NewSession(t) PROVE <1>4!:
      <3>1. t # sess
        BY <1>t, <2>5 DEF NewSession, Mint, Unused
      <3> QED
        BY <1>t, <2>5, <3>1 DEF NewSession, Mint, Unused, TypeOK
    <2>6. ASSUME NEW t \in Sessions, RecoverSession(t) PROVE <1>4!:
      <3>1. t # sess
        BY <1>t, <2>6 DEF RecoverSession
      <3> QED
        BY <1>t, <2>6, <3>1 DEF RecoverSession, TypeOK
    <2>7. ASSUME NEW t \in Sessions, CloseSession(t) PROVE <1>4!:
      <3>1. CASE t \in listed \ {sess} /\ UNCHANGED <<listed, dir>>
        BY <1>t, <2>7, <3>1 DEF CloseSession
      <3>2. CASE listed = {sess} /\ Mint(t)
        <4>1. t # sess
          BY <3>2 DEF Mint, Unused
        <4> QED
          BY <1>t, <2>7, <3>2, <4>1 DEF CloseSession, Mint, Unused, TypeOK
      <3> QED
        BY <2>7, <3>1, <3>2 DEF CloseSession
    <2> QED
      BY <1>t, <2>1, <2>2, <2>3, <2>4, <2>5, <2>6, <2>7 DEF Intent
  <1>5. ListedAreKept'
    BY <1>t, <1>1, <1>4 DEF ListedAreKept, Switching, Trashing
  <1>6. AdmittedKeepSidecar'
    <2>1. \A s \in Sessions : Admitted(s) => Admitted(s)'
      BY <1>3, <1>4 DEF Admitted
    <2> QED
      BY <1>t, <1>1, <2>1, PromisesKept, PromisesUnchanged
  <1>7. BoundMeansAdmitted'
    BY <1>t, <1>1, <1>3, <1>5 DEF BoundMeansAdmitted, ListedAreKept, TypeOK
  <1> QED
    BY <1>5, <1>6, <1>7 DEF AdmissionInv

LEMMA ResumeAdmission ==
    ASSUME TypeInv, AdmissionInv, Resume
    PROVE  AdmissionInv'
  <1> USE DEF work, chan, app, disk
  <1>t. TypeOK /\ ListedAreKept /\ AdmittedKeepSidecar /\ BoundMeansAdmitted
    BY DEF TypeInv, AdmissionInv
  <1>1. UNCHANGED <<sidecar, upd, job>>
    BY DEF Resume, FinishSwitch, FinishTrash, FinishClose
  <1>2. /\ \A s \in Sessions : Admitted(s) => Admitted(s)'
        /\ ListedAreKept'
    <2>1. CASE FinishSwitch
      <3>1. /\ sess' = ui.next /\ ui.next \in listed
            /\ ui' \in {Idle, Closing} /\ UNCHANGED <<listed, dir>>
        BY <1>t, <2>1 DEF FinishSwitch, Adopt, ListedAreKept
      <3> QED
        BY <1>t, <1>1, <3>1 DEF ListedAreKept, Admitted, Idle, Closing
    <2>2. CASE FinishTrash
      <3>1. /\ sess' = ui.next /\ ui.next \in listed /\ ui.next # sess
            /\ ui.closing = sess /\ dir[sess] = "kept"
            /\ ui' \in {Idle, Closing}
        BY <1>t, <2>2 DEF FinishTrash, Adopt, ListedAreKept
      <3>2. \/ listed' = listed \ {sess} /\ dir' = [dir EXCEPT ![sess] = "absent"]
            \/ UNCHANGED <<listed, dir>>
        BY <2>2, <3>1 DEF FinishTrash
      <3> QED
        BY <1>t, <1>1, <3>1, <3>2 DEF ListedAreKept, Admitted, Idle, Closing, TypeOK
    <2>3. CASE FinishClose
      BY <1>t, <1>1, <2>3 DEF FinishClose, ListedAreKept, Admitted, Idle
    <2> QED
      BY <2>1, <2>2, <2>3 DEF Resume
  <1>3. AdmittedKeepSidecar'
    BY <1>t, <1>1, <1>2, PromisesKept, PromisesUnchanged
  <1>4. BoundMeansAdmitted'
    <2>1. CASE FinishClose
      BY <1>t, <2>1 DEF FinishClose, BoundMeansAdmitted
    <2>2. CASE FinishSwitch \/ FinishTrash
      <3>1. sess' = ui.next
            /\ (place' \in {Personal, Failed} \/ sidecar[ui.next] # None)
        BY <2>2, PlaceLifecycleAssumption DEF FinishSwitch, FinishTrash, Adopt
      <3> QED
        BY <1>1, <1>2, <3>1 DEF BoundMeansAdmitted, ListedAreKept, Personal, Failed
    <2> QED
      BY <2>1, <2>2 DEF Resume
  <1> QED
    BY <1>2, <1>3, <1>4 DEF AdmissionInv

LEMMA FoldAdmission ==
    ASSUME TypeInv, AdmissionInv, Folds
    PROVE  AdmissionInv'
  <1> USE DEF work, chan, app, disk
  <1> DEFINE u == Head(upd)
  <1>t. TypeOK /\ ListedAreKept /\ AdmittedKeepSidecar /\ BoundMeansAdmitted
    BY DEF TypeInv, AdmissionInv
  <1>1. \E op \in {"Opened", "Joined", "Done", "Advanced"} : Fold(op)
    BY DEF Folds, FoldStale, FoldAdvanced, FoldDone, FoldJoined, FoldOpened
  <1>2. upd # <<>> /\ upd' = Tail(upd) /\ UNCHANGED <<sess, nextGen, ui, work, disk>>
    BY <1>1 DEF Fold
  <1>3. ListedAreKept' /\ (\A s \in Sessions : Admitted(s)' = Admitted(s))
    BY <1>t, <1>2 DEF ListedAreKept, Admitted
  <1>4. AdmittedKeepSidecar'
    <2>1. \A i \in DOMAIN upd' : \E j \in DOMAIN upd : upd'[i] = upd[j]
      BY <1>t, <1>2, TailFacts DEF TypeOK
    <2>2. Promised' \subseteq Promised
      BY <1>2, <2>1 DEF Promised, JoinedAnswers
    <2> QED
      BY <1>t, <1>3, <2>2, PromisesKept
  <1>5. place'.binding \in {None, place.binding} \/ FoldJoined
    BY DEF Folds, FoldStale, FoldAdvanced, FoldDone, FoldOpened, DoneState, OpenedState,
           Offline, Degraded
  <1>6. CASE FoldJoined
    <2>1. u.op = "Joined" /\ u.session = sess /\ place' = JoinedState(u)
      BY <1>6 DEF FoldJoined, Fold, Current
    <2>2. CASE u.result = "Ok"
      <3>1. 1 \in DOMAIN upd /\ u = upd[1]
        BY <1>t, <1>2, TailFacts DEF TypeOK
      <3>2. sess \in Promised
        BY <2>1, <2>2, <3>1 DEF Promised, JoinedAnswers
      <3>3. Admitted(sess) /\ dir[sess] = "kept"
        BY <1>t, <3>2 DEF AdmittedKeepSidecar, ListedAreKept
      <3> QED
        BY <1>2, <1>3, <1>4, <3>3 DEF AdmissionInv, BoundMeansAdmitted, Admitted
    <2>3. CASE u.result # "Ok"
      BY <1>3, <1>4, <2>1, <2>3 DEF JoinedState, Failed, AdmissionInv, BoundMeansAdmitted
    <2> QED
      BY <2>2, <2>3
  <1>7. CASE ~ FoldJoined
    BY <1>t, <1>2, <1>3, <1>4, <1>5, <1>7 DEF AdmissionInv, BoundMeansAdmitted
  <1> QED
    BY <1>6, <1>7

\* An answer that is not a join that is in promises nothing.
LEMMA ReplyPromises ==
    ASSUME TypeOK, NEW u \in Update, Answer(u), job' = None,
           u.op = "Joined" /\ u.result = "Ok" => u.session \in Promised
    PROVE  Promised' \subseteq Promised
  <1>1. \A i \in DOMAIN upd' : upd'[i] = u \/ (i \in DOMAIN upd /\ upd'[i] = upd[i])
    BY AppendFacts DEF Answer, TypeOK
  <1> QED
    BY <1>1 DEF Promised, JoinedAnswers

LEMMA OtherReply ==
    ASSUME TypeOK, NEW u, Answer(u), job' = None, u.op \in {"Opened", "Done"}
    PROVE  Promised' \subseteq Promised
  <1>1. upd \in Seq(Update)
    BY DEF TypeOK
  <1>2. \A i \in DOMAIN upd' : upd'[i] = u \/ (i \in DOMAIN upd /\ upd'[i] = upd[i])
    BY <1>1 DEF Answer
  <1> QED
    BY <1>2 DEF Promised, JoinedAnswers

LEMMA WorkerAdmission ==
    ASSUME TypeInv, AdmissionInv, WorkerStep
    PROVE  AdmissionInv'
  <1> USE DEF work, chan, app, disk
  <1>t. /\ TypeOK /\ ListedAreKept /\ AdmittedKeepSidecar /\ BoundMeansAdmitted
        /\ upd \in Seq(Update) /\ dir \in [Sessions -> {"absent", "kept", "zombie"}]
        /\ sidecar \in [Sessions -> Sidecar]
    BY DEF TypeInv, AdmissionInv, TypeOK
  <1>j. job # None => /\ job \in Job /\ job.session \in Sessions /\ job.gen \in Generation
                      /\ job.place \in Places /\ job.facts \in Nat
    BY DEF TypeInv, TypeOK, Job
  <1>a. UNCHANGED <<sess, place, ui, listed>>
    BY DEF WorkerStep, OpenCached, BeginJoin, AdmitRefused, AdmitChecked, AdmitCommit, Reopen,
           JoinDone, JoinFails, WorkResync, BeginAuthor, AuthorStore, AuthorDone, WorkRelease, Take
  \* Only two of the worker's steps write to a directory this layer speaks of,
  \* and one of them may lose the file it was to replace.
  <1>d. \/ UNCHANGED <<dir, sidecar>>
        \/ /\ job # None
           /\ dir' = Remade(job.session) /\ dir' # dir
           /\ sidecar' = [sidecar EXCEPT ![job.session] = None]
        \/ /\ job # None
           /\ dir' = Remade(job.session)
           /\ sidecar' = [sidecar EXCEPT ![job.session] = job.place]
        \/ /\ job # None
           /\ dir' = dir
           /\ sidecar' = [sidecar EXCEPT ![job.session] = Lost]
    BY DEF WorkerStep, OpenCached, BeginJoin, AdmitRefused, AdmitChecked, AdmitCommit, Reopen,
           JoinDone, JoinFails, WorkResync, BeginAuthor, AuthorStore, AuthorDone, WorkRelease, Take
  <1>1. \A s \in Sessions : /\ dir[s] = "kept" => dir'[s] = "kept"
                            /\ dir[s] = "kept" /\ sidecar[s] # None => sidecar'[s] # None
                            /\ Admitted(s) => Admitted(s)'
    <2>1. CASE UNCHANGED <<dir, sidecar>>
      BY <2>1 DEF Admitted
    <2>2. CASE /\ job # None
               /\ dir' = Remade(job.session) /\ dir' # dir
               /\ sidecar' = [sidecar EXCEPT ![job.session] = None]
      <3>1. dir[job.session] = "absent" /\ dir' = [dir EXCEPT ![job.session] = "zombie"]
        BY <1>j, <1>t, <2>2 DEF Remade
      <3> QED
        BY <1>j, <1>t, <2>2, <3>1 DEF Admitted
    <2>3. CASE /\ job # None
               /\ dir' = Remade(job.session)
               /\ sidecar' = [sidecar EXCEPT ![job.session] = job.place]
      <3>1. \A s \in Sessions : dir'[s] = dir[s] \/ (dir[s] = "absent" /\ dir'[s] = "zombie")
        BY <1>j, <1>t, <2>3 DEF Remade
      <3>2. \A s \in Sessions : sidecar'[s] = sidecar[s] \/ sidecar'[s] # None
        BY <1>j, <1>t, <2>3, PlaceLifecycleAssumption
      <3> QED
        BY <3>1, <3>2 DEF Admitted
    <2>4. CASE /\ job # None
               /\ dir' = dir
               /\ sidecar' = [sidecar EXCEPT ![job.session] = Lost]
      <3>1. \A s \in Sessions : sidecar'[s] = sidecar[s] \/ sidecar'[s] # None
        BY <1>j, <1>t, <2>4, PlaceLifecycleAssumption
      <3> QED
        BY <2>4, <3>1 DEF Admitted
    <2> QED
      BY <1>d, <2>1, <2>2, <2>3, <2>4
  <1>2. ListedAreKept' /\ BoundMeansAdmitted'
    BY <1>1, <1>a, <1>t DEF ListedAreKept, BoundMeansAdmitted, TypeOK
  <1> SUFFICES \A s \in Promised' \ Promised : Admitted(s)'
    BY <1>1, <1>2, <1>t, PromisesKept DEF AdmissionInv
  <1>3. CASE AdmitCommit
    <2>1. /\ job # None /\ UNCHANGED upd
          /\ job'.session = job.session
          /\ sidecar' = [sidecar EXCEPT ![job.session] = job.place]
      BY <1>3, <1>j DEF AdmitCommit, Job
    <2>2. Promised' \subseteq Promised \cup {job.session}
      BY <2>1 DEF Promised, JoinedAnswers
    <2>3. sidecar'[job.session] # None
      BY <1>j, <1>t, <2>1, PlaceLifecycleAssumption
    <2> QED
      BY <2>2, <2>3 DEF Admitted
  <1>4. CASE JoinDone \/ JoinFails
    <2>1. /\ job # None /\ job' = None
          /\ \/ job.step = "dial" /\ Answer(Ok("Joined", job, job.place, job.facts))
             \/ Answer(Err("Joined", job, TRUE))
      BY <1>4 DEF JoinDone, JoinFails
    <2>2. job.step = "dial" => job.session \in Promised
      BY <1>j, <2>1 DEF Promised
    <2>3. \E u \in Update : /\ Answer(u)
                            /\ u.op = "Joined" /\ u.result = "Ok" => u.session \in Promised
      <3>1. /\ Ok("Joined", job, job.place, job.facts) \in Update
            /\ Ok("Joined", job, job.place, job.facts).session = job.session
        BY <1>j, <2>1 DEF Ok, Update
      <3>2. /\ Err("Joined", job, TRUE) \in Update
            /\ Err("Joined", job, TRUE).result = "Err"
        BY <1>j, <2>1 DEF Err, Update
      <3> QED
        BY <2>1, <2>2, <3>1, <3>2
    <2> QED
      BY <1>t, <2>1, <2>3, ReplyPromises
  <1>5. CASE AdmitRefused
    <2>1. job # None /\ job' = None /\ Answer(Err("Joined", job, FALSE))
      BY <1>5 DEF AdmitRefused
    <2>2. Err("Joined", job, FALSE) \in Update /\ Err("Joined", job, FALSE).result = "Err"
      BY <1>j, <2>1 DEF Err, Update
    <2> QED
      BY <1>t, <2>1, <2>2, ReplyPromises
  <1>6. CASE AuthorDone
    <2>1. /\ job # None /\ job' = None
          /\ \/ Answer(Ok("Done", job, live.place, facts[live.session]))
             \/ Answer(Err("Done", job, TRUE))
             \/ Answer(Err("Done", job, FALSE))
      BY <1>6 DEF AuthorDone
    <2> QED
      BY <1>t, <2>1, OtherReply DEF Ok, Err
  <1>7. CASE OpenCached \/ WorkResync
    <2> DEFINE c == Head(cmds)
    <2>1. /\ job' = None
          /\ \/ Answer(Ok("Opened", c, c.place, facts[c.session]))
             \/ Answer(Ok("Opened", c, live.place, facts[live.session]))
             \/ Answer(Err("Opened", c, FALSE))
      BY <1>7 DEF OpenCached, WorkResync, Take
    <2> QED
      BY <1>t, <2>1, OtherReply DEF Ok, Err
  <1>8. CASE BeginAuthor
    <2> DEFINE c == Head(cmds)
    <2>1. CASE job' = None /\ Answer(Err("Done", c, FALSE))
      BY <1>t, <2>1, OtherReply DEF Err
    <2>2. CASE /\ UNCHANGED upd
               /\ job' = [step |-> "author", session |-> c.session, gen |-> c.gen,
                          place |-> live.place, facts |-> 0]
      BY <2>2 DEF Promised, JoinedAnswers
    <2> QED
      BY <1>8, <2>1, <2>2 DEF BeginAuthor, Take
  <1>9. CASE BeginJoin \/ AdmitChecked \/ AuthorStore
    <2>1. UNCHANGED upd /\ job'.step \in {"admit", "commit", "publish"}
      BY <1>9, <1>j DEF BeginJoin, AdmitChecked, AuthorStore, Job
    <2> QED
      BY <2>1 DEF Promised, JoinedAnswers
  <1>10. CASE Reopen
    <2>1. UNCHANGED upd /\ job # None /\ job.step = "reopen" /\ job'.session = job.session
      BY <1>10, <1>j DEF Reopen, Job
    <2>2. Promised' \subseteq Promised
      BY <2>1 DEF Promised, JoinedAnswers
    <2> QED
      BY <2>2
  <1>11. CASE WorkRelease
    BY <1>11 DEF WorkRelease, Promised, JoinedAnswers
  <1> QED
    BY <1>3, <1>4, <1>5, <1>6, <1>7, <1>8, <1>9, <1>10, <1>11 DEF WorkerStep

LEMMA LanesAdmission ==
    ASSUME TypeInv, AdmissionInv, Arrive \/ Nudge
    PROVE  AdmissionInv'
  <1> USE DEF work, chan, app, disk
  <1>t. TypeOK /\ AdmittedKeepSidecar
    BY DEF TypeInv, AdmissionInv
  <1>1. /\ UNCHANGED <<sess, place, ui, job, listed, dir, sidecar>>
        /\ \/ UNCHANGED upd
           \/ Answer([op |-> "Advanced", session |-> live.session, gen |-> live.gen,
                      result |-> "Ok", place |-> live.place, facts |-> 0, wrote |-> FALSE])
    BY DEF Arrive, Nudge
  <1>2. Promised' \subseteq Promised
    <2>1. upd \in Seq(Update)
      BY <1>t DEF TypeOK
    <2>2. \A i \in DOMAIN upd' : upd'[i].op = "Advanced" \/ (i \in DOMAIN upd /\ upd'[i] = upd[i])
      BY <1>1, <2>1 DEF Answer
    <2> QED
      BY <1>1, <2>2 DEF Promised, JoinedAnswers
  <1>3. AdmittedKeepSidecar'
    BY <1>t, <1>1, <1>2, PromisesKept DEF Admitted
  <1> QED
    BY <1>1, <1>3 DEF AdmissionInv, ListedAreKept, BoundMeansAdmitted

\* adopt_session records the session it adopts, and a switch adopts a session
\* the switcher offers: what a restart finds is a session in place.
LEMMA RestartAdmission ==
    ASSUME TypeInv, AdmissionInv, Restart
    PROVE  AdmissionInv'
  <1> USE DEF work, chan, app, disk
  <1>1. /\ upd' = <<>> /\ job' = None /\ sess' = sess /\ ui' \in {Idle, Closing}
        /\ UNCHANGED <<listed, dir, sidecar>>
        /\ sidecar[sess] # None \/ place' \in {Personal, Failed}
    BY PlaceLifecycleAssumption DEF Restart, Boot, Adopt
  <1>2. Promised' = {}
    BY <1>1 DEF Promised, JoinedAnswers
  <1> QED
    BY <1>1, <1>2 DEF AdmissionInv, ListedAreKept, AdmittedKeepSidecar, BoundMeansAdmitted,
       Idle, Closing, Personal, Failed

LEMMA AdmissionStep == TypeInv /\ AdmissionInv /\ [Next]_vars => AdmissionInv'
  <1> SUFFICES ASSUME TypeInv, AdmissionInv, [Next]_vars PROVE AdmissionInv'
    OBVIOUS
  <1>1. CASE UNCHANGED vars
    BY <1>1, PromisesUnchanged DEF vars, app, chan, work, disk, AdmissionInv, ListedAreKept,
       AdmittedKeepSidecar, BoundMeansAdmitted, Admitted
  <1> QED
    BY <1>1, IntentAdmission, ResumeAdmission, FoldAdmission, WorkerAdmission, LanesAdmission,
       RestartAdmission DEF Next

\* A session the app shows as bound to a place has its directory in place, and
\* admission has left a place.json there, which only a write that failed since
\* can have removed: whatever the order of joins, refusals, saves, switches,
\* trash moves, late answers and restarts (worker.rs, session_lifecycle.rs,
\* effects.rs, session.rs).
THEOREM AdmissionSafety == Spec => []BoundMeansAdmitted
  <1>1. TypeInv /\ AdmissionInv /\ [Next]_vars => (TypeInv /\ AdmissionInv)'
    BY TypeStep, AdmissionStep
  <1>2. AdmissionInv => BoundMeansAdmitted
    BY DEF AdmissionInv
  <1> QED
    BY TypeInit, AdmissionInit, <1>1, <1>2, PTL DEF Spec

-----------------------------------------------------------------------------
(* The fourth layer: the order of generations and snapshots.                 *)

LEMMA ViewInit == Init => ViewInv
  <1> SUFFICES ASSUME Init PROVE ViewInv
    OBVIOUS
  <1>1. Asked = {} /\ AnsweredGens = {} /\ HeldGens = {} /\ Snapshots = {}
    BY DEF Init, Asked, AnsweredGens, HeldGens, Snapshots, Release
  <1> QED
    BY <1>1 DEF Init, ViewInv, InOrder, ShownIsOpen, SnapshotsGrow, Personal

LEMMA GensAreNumbers ==
    ASSUME TypeOK
    PROVE  /\ \A g \in AnsweredGens \cup HeldGens : g \in Generation
           /\ \A j \in Asked : cmds[j] \in Command /\ cmds[j].gen \in Generation
           /\ nextGen \in Generation
  <1>1. upd \in Seq(Update) /\ cmds \in Seq(Command) /\ nextGen \in Generation
    BY DEF TypeOK
  <1>2. \A i \in DOMAIN upd : upd[i].gen \in Generation
    BY <1>1, UpdateParts
  <1>3. \A r \in {live, job} \ {None} : r.gen \in Generation
    BY DEF TypeOK, LivePlace, Job
  <1>4. \A j \in Asked : cmds[j] \in Command /\ cmds[j].gen \in Generation
    BY <1>1, CommandParts DEF Asked
  <1> QED
    BY <1>1, <1>2, <1>3, <1>4 DEF AnsweredGens, HeldGens

LEMMA AnswersGrow ==
    ASSUME TypeOK, NEW u, Answer(u)
    PROVE  AnsweredGens' \subseteq AnsweredGens \cup {u.gen}
  <1>1. upd \in Seq(Update)
    BY DEF TypeOK
  <1>2. \A i \in DOMAIN upd' : upd'[i] = u \/ (i \in DOMAIN upd /\ upd'[i] = upd[i])
    BY <1>1 DEF Answer
  <1> QED
    BY <1>2 DEF AnsweredGens

LEMMA AnsweredUnder ==
    ASSUME TypeOK, NEW r
    PROVE  /\ \A op, wrote : Answer(Err(op, r, wrote)) => AnsweredGens' \subseteq AnsweredGens \cup {r.gen}
           /\ \A op, p, n : Answer(Ok(op, r, p, n)) => AnsweredGens' \subseteq AnsweredGens \cup {r.gen}
  <1>1. ASSUME NEW op, NEW wrote, Answer(Err(op, r, wrote))
        PROVE  AnsweredGens' \subseteq AnsweredGens \cup {r.gen}
    <2>1. Err(op, r, wrote).gen = r.gen
      BY DEF Err
    <2> QED
      BY <1>1, <2>1, AnswersGrow
  <1>2. ASSUME NEW op, NEW p, NEW n, Answer(Ok(op, r, p, n))
        PROVE  AnsweredGens' \subseteq AnsweredGens \cup {r.gen}
    <2>1. Ok(op, r, p, n).gen = r.gen
      BY DEF Ok
    <2> QED
      BY <1>2, <2>1, AnswersGrow
  <1> QED
    BY <1>1, <1>2

LEMMA AnswersShrink ==
    ASSUME TypeOK, upd # <<>>, upd' = Tail(upd)
    PROVE  AnsweredGens' \subseteq AnsweredGens /\ Head(upd).gen \in AnsweredGens
  <1>1. /\ \A i \in DOMAIN upd' : i + 1 \in DOMAIN upd /\ upd'[i] = upd[i + 1]
        /\ 1 \in DOMAIN upd /\ Head(upd) = upd[1]
    BY TailFacts DEF TypeOK
  <1> QED
    BY <1>1 DEF AnsweredGens

\* What a job asks of the answers already given.
JobIsNext == job # None => \A g \in AnsweredGens :
               Before(g, IF job.step \in JoinSteps THEN "Join" ELSE "Author", job.gen)

\* The order holds on when the queue stays and only what was held is answered,
\* when a command of the newest generation is sent, and when one is taken.
LEMMA OrderKept ==
    ASSUME TypeOK, InOrder, UNCHANGED <<cmds, nextGen>>,
           AnsweredGens' \subseteq AnsweredGens \cup HeldGens,
           HeldGens' \subseteq AnsweredGens \cup HeldGens, JobIsNext'
    PROVE  InOrder'
  BY DEF InOrder, Asked, JobIsNext, Before

LEMMA OrderSent ==
    ASSUME TypeOK, InOrder, NEW c \in Command, cmds' = Append(cmds, c),
           nextGen' \in Nat, nextGen <= nextGen',
           c.op # "Release" => c.gen = nextGen',
           c.op \in Openers => nextGen < nextGen',
           AnsweredGens' \subseteq AnsweredGens, UNCHANGED <<live, job>>
    PROVE  InOrder'
  <1>1. /\ cmds \in Seq(Command) /\ Len(cmds) \in Nat
        /\ \A i \in DOMAIN cmds' : IF i = Len(cmds) + 1 THEN cmds'[i] = c
                                   ELSE i \in DOMAIN cmds /\ cmds'[i] = cmds[i]
    BY AppendFacts DEF TypeOK
  <1>2. \A j \in Asked' : j \in Nat /\ (IF j = Len(cmds) + 1 THEN cmds'[j] = c /\ c.op # "Release"
                                        ELSE j \in Asked /\ cmds'[j] = cmds[j])
    BY <1>1 DEF Asked
  <1>3. HeldGens' = HeldGens /\ (JobIsNext => JobIsNext')
    BY DEF HeldGens, JobIsNext
  <1>4. \A g \in AnsweredGens \cup HeldGens : g \in Nat /\ g <= nextGen
    BY GensAreNumbers DEF InOrder
  <1>5. \A j \in Asked : cmds[j].gen \in Nat /\ cmds[j].gen <= nextGen
    BY GensAreNumbers DEF InOrder
  <1>6. nextGen \in Nat
    BY GensAreNumbers
  <1>7. ASSUME NEW j \in Asked'
        PROVE  /\ cmds'[j].gen <= nextGen'
               /\ \A g \in AnsweredGens' \cup HeldGens' : Before(g, cmds'[j].op, cmds'[j].gen)
               /\ \A i \in Asked' : i < j => Before(cmds'[i].gen, cmds'[j].op, cmds'[j].gen)
    <2>1. CASE j = Len(cmds) + 1
      <3>1. c.gen = nextGen' /\ c.op # "Release" /\ cmds'[j] = c
        BY <1>2, <2>1
      <3>2. \A g \in Nat : g <= nextGen => Before(g, c.op, c.gen)
        BY <1>6, <3>1 DEF Before
      <3>3. \A i \in Asked' : i < j => i \in Asked /\ cmds'[i] = cmds[i]
        <4>1. ASSUME NEW i \in Asked', i < j PROVE i # Len(cmds) + 1
          BY <1>1, <1>2, <2>1, <4>1
        <4> QED
          BY <1>2, <4>1
      <3>4. cmds'[j].gen <= nextGen'
        BY <3>1
      <3>5. \A g \in AnsweredGens' \cup HeldGens' : Before(g, c.op, c.gen)
        BY <1>3, <1>4, <3>2
      <3>6. \A i \in Asked' : i < j => Before(cmds'[i].gen, c.op, c.gen)
        BY <1>5, <3>2, <3>3
      <3> QED
        BY <3>1, <3>4, <3>5, <3>6
    <2>2. CASE j # Len(cmds) + 1
      <3>1. j \in Asked /\ cmds'[j] = cmds[j] /\ j < Len(cmds) + 1
        BY <1>1, <1>2, <2>2 DEF Asked
      <3>2. \A i \in Asked' : i < j => i \in Asked /\ cmds'[i] = cmds[i]
        <4>1. ASSUME NEW i \in Asked', i < j PROVE i # Len(cmds) + 1
          <5>1. i \in Nat /\ j \in Nat
            BY <1>2
          <5> QED
            BY <1>1, <3>1, <4>1, <5>1
        <4> QED
          BY <1>2, <4>1
      <3>3. cmds[j].gen <= nextGen'
        BY <1>5, <1>6, <3>1
      <3> QED
        BY <1>3, <3>1, <3>2, <3>3 DEF InOrder
    <2> QED
      BY <2>1, <2>2
  <1>8. \A g \in AnsweredGens' \cup HeldGens' : g <= nextGen'
    BY <1>3, <1>4, <1>6
  <1> QED
    BY <1>3, <1>7, <1>8 DEF InOrder, JobIsNext

LEMMA OrderTaken ==
    ASSUME TypeOK, InOrder, cmds # <<>>, cmds' = Tail(cmds), UNCHANGED nextGen,
           NEW G, G = IF Head(cmds).op = "Release" THEN {} ELSE {Head(cmds).gen},
           AnsweredGens' \subseteq AnsweredGens \cup HeldGens \cup G,
           HeldGens' \subseteq AnsweredGens \cup HeldGens \cup G, JobIsNext'
    PROVE  InOrder'
  <1>1. /\ \A i \in DOMAIN cmds' : i \in Nat /\ i + 1 \in DOMAIN cmds /\ cmds'[i] = cmds[i + 1]
        /\ 1 \in DOMAIN cmds /\ Head(cmds) = cmds[1]
    BY TailFacts DEF TypeOK
  <1>2. \A j \in Asked' : j \in Nat /\ 1 <= j /\ j + 1 \in Asked /\ cmds'[j] = cmds[j + 1]
    <2>1. \A j \in DOMAIN cmds' : 1 <= j
      BY TailFacts DEF TypeOK
    <2> QED
      BY <1>1, <2>1 DEF Asked
  <1>3. G # {} => 1 \in Asked /\ G = {cmds[1].gen}
    BY <1>1 DEF Asked
  <1>4. ASSUME NEW j \in Asked'
        PROVE  /\ cmds'[j].gen <= nextGen'
               /\ \A g \in AnsweredGens' \cup HeldGens' : Before(g, cmds'[j].op, cmds'[j].gen)
               /\ \A i \in Asked' : i < j => Before(cmds'[i].gen, cmds'[j].op, cmds'[j].gen)
    <2>0. j \in Nat /\ 1 <= j /\ j + 1 \in Asked /\ cmds'[j] = cmds[j + 1]
      BY <1>2, <1>4
    <2>1. j + 1 \in Asked /\ cmds'[j] = cmds[j + 1] /\ 1 < j + 1
      <3>1. 1 < j + 1
        BY <2>0
      <3> QED
        BY <2>0, <3>1
    <2>2. \A g \in G : Before(g, cmds[j + 1].op, cmds[j + 1].gen)
      BY <1>3, <2>1 DEF InOrder
    <2>3. \A i \in Asked' : i < j => i + 1 \in Asked /\ cmds'[i] = cmds[i + 1] /\ i + 1 < j + 1
      <3>1. \A i \in Asked' : i \in Nat /\ i + 1 \in Asked /\ cmds'[i] = cmds[i + 1]
        BY <1>2
      <3>2. \A i \in Asked' : i < j => i + 1 < j + 1
        BY <2>0, <3>1
      <3> QED
        BY <3>1, <3>2
    <2> QED
      BY <2>1, <2>2, <2>3 DEF InOrder
  <1>5. \A g \in AnsweredGens \cup HeldGens \cup G : g <= nextGen'
    BY <1>3 DEF InOrder
  <1> QED
    BY <1>4, <1>5 DEF InOrder, JobIsNext

LEMMA IntentOrder ==
    ASSUME TypeInv, AnswerInv, InOrder, Intent
    PROVE  InOrder'
  <1> USE DEF work, chan, app, disk
  <1>t. TypeOK /\ sess \in Sessions /\ nextGen \in Nat /\ Release \in Command
    BY DEF TypeInv, TypeOK, Command
  <1>1. UNCHANGED <<upd, live, job>> /\ AnsweredGens' = AnsweredGens /\ HeldGens' = HeldGens
    BY DEF Intent, SaveSession, JoinPlace, RunPlaceCommand, ResyncPlace, SwitchSession, NewSession,
           RecoverSession, CloseSession, StartSwitch, AnsweredGens, HeldGens
  <1>2. CASE UNCHANGED <<cmds, nextGen>>
    <2>1. JobIsNext'
      BY <1>1 DEF InOrder, JobIsNext
    <2> QED
      BY <1>t, <1>1, <1>2, <2>1, OrderKept
  <1>3. ASSUME NEW c \in Command, cmds' = Append(cmds, c),
               \/ c.op = "Join" /\ c.gen = nextGen + 1 /\ nextGen' = nextGen + 1
               \/ c.op \in {"Author", "Resync"} /\ c.gen = nextGen /\ nextGen' = nextGen
               \/ c.op = "Release" /\ nextGen' = nextGen
        PROVE  InOrder'
    <2>1. /\ nextGen' \in Nat /\ nextGen <= nextGen'
          /\ c.op # "Release" => c.gen = nextGen'
          /\ c.op \in Openers => nextGen < nextGen'
      BY <1>t, <1>3
    <2> QED
      BY <1>t, <1>1, <1>3, <2>1, OrderSent
  <1>4. ASSUME NEW p \in Places, JoinPlace(p) PROVE InOrder'
    <2>1. Join(sess, nextGen + 1, p) \in Command
      BY <1>t DEF Join, Command
    <2> QED
      BY <1>3, <1>4, <2>1 DEF JoinPlace, Join
  <1>5. CASE RunPlaceCommand \/ ResyncPlace
    <2>1. place.gen = nextGen /\ nextGen \in Generation
      BY <1>t, <1>5 DEF RunPlaceCommand, ResyncPlace, AnswerInv, GenerationsBounded
    <2>2. Author(sess, place.gen) \in Command /\ Resync(sess, place.gen) \in Command
      BY <1>t, <2>1 DEF Author, Resync, Command
    <2> QED
      BY <1>3, <1>5, <2>1, <2>2 DEF RunPlaceCommand, ResyncPlace, Author, Resync
  <1>6. ASSUME NEW t \in Sessions,
               SwitchSession(t) \/ NewSession(t) \/ RecoverSession(t) \/ CloseSession(t)
        PROVE  InOrder'
    <2>1. cmds' = Append(cmds, Release) /\ nextGen' = nextGen
      BY <1>6 DEF SwitchSession, NewSession, RecoverSession, CloseSession, StartSwitch
    <2> QED
      BY <1>t, <1>3, <2>1 DEF Release
  <1>7. CASE SaveSession
    BY <1>2, <1>7 DEF SaveSession
  <1> QED
    BY <1>4, <1>5, <1>6, <1>7 DEF Intent

\* What adopting a session sends.
LEMMA AdoptSends ==
    ASSUME TypeOK, NEW t \in Sessions, NEW g \in Generation, NEW q \in Seq(Command), Adopt(t, g, q)
    PROVE  \E c \in Command :
             /\ cmds' = Append(q, c)
             /\ \/ c.op = "Open" /\ c.gen = g /\ c.session = t
                \/ c.op = "Release"
             /\ place'.binding # None => place'.binding = sidecar[t]
             /\ place'.kind # "Offline"
             /\ sess' = t /\ nextGen' = g
  <1>1. Release \in Command /\ Release.op = "Release"
    BY DEF Command, Release
  <1>2. CASE sidecar[t] \in Places /\ place' = Opening(sidecar[t], g) /\ cmds' = Append(q, Open(t, g, sidecar[t]))
    <2>1. Open(t, g, sidecar[t]) \in Command
      BY <1>2 DEF Open, Command, TypeOK
    <2>2. Open(t, g, sidecar[t]).op = "Open" /\ Open(t, g, sidecar[t]).gen = g
          /\ Open(t, g, sidecar[t]).session = t
      BY DEF Open
    <2>3. place'.binding = sidecar[t] /\ place'.kind # "Offline"
      BY <1>2 DEF Opening
    <2> QED
      BY <1>2, <2>1, <2>2, <2>3 DEF Adopt
  <1>3. CASE place' \in {Personal, Failed} /\ cmds' = Append(q, Release)
    <2>1. place'.binding = None /\ place'.kind # "Offline"
      BY <1>3 DEF Personal, Failed
    <2> QED
      BY <1>1, <1>3, <2>1 DEF Adopt
  <1> QED
    BY <1>2, <1>3 DEF Adopt

LEMMA ResumeOrder ==
    ASSUME TypeOK, InOrder, Resume
    PROVE  InOrder'
  <1> USE DEF work, chan, app, disk
  <1>t. nextGen \in Nat /\ nextGen + 1 \in Generation /\ cmds \in Seq(Command)
    BY DEF TypeOK
  <1>1. UNCHANGED <<upd, live, job>> /\ AnsweredGens' = AnsweredGens /\ HeldGens' = HeldGens
    BY DEF Resume, FinishSwitch, FinishTrash, FinishClose, AnsweredGens, HeldGens
  <1>2. CASE FinishClose
    <2>1. JobIsNext' /\ UNCHANGED <<cmds, nextGen>>
      BY <1>1, <1>2 DEF InOrder, JobIsNext, FinishClose
    <2> QED
      BY <1>1, <2>1, OrderKept
  <1>3. CASE FinishSwitch \/ FinishTrash
    <2>1. ui.next \in Sessions /\ Adopt(ui.next, nextGen + 1, cmds)
      BY <1>3 DEF FinishSwitch, FinishTrash, TypeOK, Waits, Idle, Closing, Switching, Trashing
    <2>2. PICK c \in Command : /\ cmds' = Append(cmds, c) /\ nextGen' = nextGen + 1
                               /\ c.op # "Release" => c.gen = nextGen + 1
      BY <1>t, <2>1, AdoptSends
    <2>3. nextGen' \in Nat /\ nextGen < nextGen' /\ nextGen <= nextGen'
      BY <1>t, <2>2
    <2> QED
      BY <1>1, <2>2, <2>3, OrderSent
  <1> QED
    BY <1>2, <1>3 DEF Resume

LEMMA FoldOrder ==
    ASSUME TypeInv, AnswerInv, InOrder, Folds
    PROVE  InOrder'
  <1> USE DEF work, chan, app, disk
  <1>t. TypeOK /\ sess \in Sessions /\ nextGen \in Nat
    BY DEF TypeInv, TypeOK
  <1>1. /\ upd # <<>> /\ upd' = Tail(upd)
        /\ UNCHANGED <<sess, nextGen, ui, live, job>>
    BY DEF Folds, FoldStale, FoldAdvanced, FoldDone, FoldJoined, FoldOpened, Fold
  <1>2. AnsweredGens' \subseteq AnsweredGens /\ HeldGens' = HeldGens
    BY <1>t, <1>1, AnswersShrink DEF HeldGens
  <1>3. JobIsNext'
    BY <1>1, <1>2 DEF InOrder, JobIsNext
  <1>4. CASE UNCHANGED cmds
    BY <1>t, <1>1, <1>2, <1>3, <1>4, OrderKept
  <1>5. CASE FoldAdvanced
    <2>1. Head(upd).gen = place.gen /\ cmds' = Append(cmds, Resync(sess, place.gen))
      BY <1>5 DEF FoldAdvanced, Current
    <2>2. Head(upd).gen \in Generation
      BY <1>t, <1>1, AnswersShrink, GensAreNumbers
    <2>3. place.gen = nextGen
      BY <2>1, <2>2 DEF AnswerInv, GenerationsBounded
    <2> DEFINE c == Resync(sess, place.gen)
    <2>4. c \in Command /\ c.gen = nextGen' /\ c.op \notin Openers
      BY <1>t, <1>1, <2>1, <2>2, <2>3 DEF Resync, Command
    <2>5. nextGen' \in Nat /\ nextGen <= nextGen'
      BY <1>t, <1>1
    <2> HIDE DEF c
    <2> QED
      BY <1>t, <1>1, <1>2, <2>1, <2>4, <2>5, OrderSent DEF c
  <1> QED
    BY <1>4, <1>5 DEF Folds, FoldStale, FoldDone, FoldJoined, FoldOpened

\* The worker answers under the generation of the command or of what it holds.
LEMMA WorkerOrder ==
    ASSUME TypeInv, InOrder, WorkerStep
    PROVE  InOrder'
  <1> USE DEF work, chan, app, disk
  <1> DEFINE c == Head(cmds)
  <1> DEFINE G == IF c.op = "Release" THEN {} ELSE {c.gen}
  <1>t. TypeOK
    BY DEF TypeInv
  <1>a. UNCHANGED nextGen
    BY DEF WorkerStep, OpenCached, BeginJoin, AdmitRefused, AdmitChecked, AdmitCommit, Reopen,
       JoinDone, JoinFails, WorkResync, BeginAuthor, AuthorStore, AuthorDone, WorkRelease
  <1>h. \A r \in {live, job} \ {None} : r.gen \in HeldGens
    BY DEF HeldGens
  <1>p. ASSUME NEW op, Take(op)
        PROVE  cmds # <<>> /\ cmds' = Tail(cmds) /\ c.op = op /\ job = None
    BY <1>p DEF Take
  <1>n. job' = None => JobIsNext'
    BY DEF JobIsNext
  <1>1. CASE OpenCached
    <2>1. Take("Open")
      BY <1>1 DEF OpenCached
    <2>2. cmds # <<>> /\ cmds' = Tail(cmds) /\ job' = None /\ G = {c.gen}
      BY <1>1, <1>p, <2>1 DEF OpenCached
    <2>3. /\ live' # None => live'.gen = c.gen
          /\ \/ Answer(Ok("Opened", c, c.place, facts[c.session]))
             \/ Answer(Err("Opened", c, FALSE))
      <3>1. CASE live' = None /\ Answer(Err("Opened", c, FALSE))
        BY <3>1
      <3>2. CASE /\ live' = [session |-> c.session, gen |-> c.gen, place |-> c.place,
                             lanes |-> FALSE, news |-> FALSE]
                 /\ Answer(Ok("Opened", c, c.place, facts[c.session]))
        BY <3>2
      <3> QED
        BY <1>1, <3>1, <3>2 DEF OpenCached
    <2>4. AnsweredGens' \subseteq AnsweredGens \cup {c.gen}
      <3>1. CASE Answer(Ok("Opened", c, c.place, facts[c.session]))
        BY <1>t, <3>1, AnsweredUnder
      <3>2. CASE Answer(Err("Opened", c, FALSE))
        BY <1>t, <3>2, AnsweredUnder
      <3> QED
        BY <2>3, <3>1, <3>2
    <2>5. HeldGens' \subseteq {c.gen}
      BY <2>2, <2>3 DEF HeldGens
    <2> HIDE DEF G
    <2>6. /\ AnsweredGens' \subseteq AnsweredGens \cup HeldGens \cup G
          /\ HeldGens' \subseteq AnsweredGens \cup HeldGens \cup G
      BY <2>2, <2>4, <2>5
    <2> QED
      BY <1>a, <1>n, <1>t, <2>2, <2>6, OrderTaken DEF G
  <1>2. CASE BeginJoin
    <2>1. Take("Join")
      BY <1>2 DEF BeginJoin
    <2>2. cmds # <<>> /\ cmds' = Tail(cmds) /\ c.op = "Join" /\ G = {c.gen}
      BY <1>p, <2>1
    <2>3. live' = None /\ UNCHANGED upd /\ job'.gen = c.gen /\ job'.step = "admit"
      BY <1>2 DEF BeginJoin
    <2>4. AnsweredGens' = AnsweredGens /\ HeldGens' \subseteq {c.gen}
      BY <2>3 DEF AnsweredGens, HeldGens
    <2>5. JobIsNext'
      <3>1. 1 \in Asked /\ c = cmds[1]
        BY <1>t, <2>2, TailFacts DEF Asked, TypeOK
      <3>2. \A g \in AnsweredGens : Before(g, "Join", c.gen)
        BY <2>2, <3>1 DEF InOrder, Before
      <3> QED
        BY <2>3, <2>4, <3>2 DEF JobIsNext
    <2> QED
      BY <1>a, <1>t, <2>2, <2>4, <2>5, OrderTaken
  \* A step of a job keeps its generation and what kind of job it is.
  <1>k. ASSUME UNCHANGED cmds, job # None,
               AnsweredGens' \subseteq AnsweredGens \cup HeldGens,
               HeldGens' \subseteq HeldGens,
               job' = None \/ (/\ UNCHANGED upd /\ job'.gen = job.gen
                               /\ job'.step \in JoinSteps <=> job.step \in JoinSteps)
        PROVE  InOrder'
    <2>1. JobIsNext'
      <3>1. CASE job' # None
        <4>1. AnsweredGens' = AnsweredGens
          BY <1>k, <3>1 DEF AnsweredGens
        <4> QED
          BY <1>k, <3>1, <4>1 DEF InOrder, JobIsNext
      <3> QED
        BY <1>n, <3>1
    <2> QED
      BY <1>a, <1>k, <1>t, <2>1, OrderKept
  <1>3. CASE AdmitRefused \/ JoinFails
    <2>1. /\ UNCHANGED <<cmds, live>> /\ job # None /\ job' = None
          /\ \E wrote \in BOOLEAN : Answer(Err("Joined", job, wrote))
      BY <1>3 DEF AdmitRefused, JoinFails
    <2>2. AnsweredGens' \subseteq AnsweredGens \cup HeldGens
      <3>1. AnsweredGens' \subseteq AnsweredGens \cup {job.gen}
        BY <1>t, <2>1, AnsweredUnder
      <3> QED
        BY <1>h, <2>1, <3>1
    <2> QED
      BY <1>k, <2>1, <2>2 DEF HeldGens
  <1>4. CASE AdmitChecked \/ AdmitCommit \/ Reopen \/ AuthorStore
    <2>1. /\ UNCHANGED <<cmds, upd, live>> /\ job # None /\ job'.gen = job.gen
          /\ job'.step \in JoinSteps <=> job.step \in JoinSteps
      BY <1>4, <1>t DEF AdmitChecked, AdmitCommit, Reopen, AuthorStore, TypeOK, Job
    <2>2. AnsweredGens' = AnsweredGens /\ HeldGens' \subseteq HeldGens
      BY <2>1 DEF AnsweredGens, HeldGens
    <2> QED
      BY <1>k, <2>1, <2>2
  <1>5. CASE JoinDone
    <2>1. /\ UNCHANGED cmds /\ job # None /\ job' = None /\ live'.gen = job.gen
          /\ Answer(Ok("Joined", job, job.place, job.facts))
      BY <1>5 DEF JoinDone
    <2>2. AnsweredGens' \subseteq AnsweredGens \cup HeldGens /\ HeldGens' \subseteq HeldGens
      <3>1. AnsweredGens' \subseteq AnsweredGens \cup {job.gen}
        BY <1>t, <2>1, AnsweredUnder
      <3>2. HeldGens' \subseteq {job.gen}
        BY <2>1 DEF HeldGens
      <3> QED
        BY <1>h, <2>1, <3>1, <3>2
    <2> QED
      BY <1>k, <2>1, <2>2
  <1>6. CASE AuthorDone
    <2>1. /\ UNCHANGED <<cmds, live>> /\ job # None /\ job' = None
          /\ \/ Answer(Ok("Done", job, live.place, facts[live.session]))
             \/ \E wrote \in BOOLEAN : Answer(Err("Done", job, wrote))
      BY <1>6 DEF AuthorDone
    <2>2. AnsweredGens' \subseteq AnsweredGens \cup {job.gen}
      BY <1>t, <2>1, AnsweredUnder
    <2>3. AnsweredGens' \subseteq AnsweredGens \cup HeldGens /\ HeldGens' \subseteq HeldGens
      BY <1>h, <2>1, <2>2 DEF HeldGens
    <2> QED
      BY <1>k, <2>1, <2>3
  <1>7. CASE WorkResync
    <2>1. Take("Resync")
      BY <1>7 DEF WorkResync
    <2>2. cmds # <<>> /\ cmds' = Tail(cmds) /\ UNCHANGED <<live, job>> /\ job' = None /\ G = {c.gen}
      BY <1>7, <1>p, <2>1 DEF WorkResync
    <2>3. \/ Answer(Ok("Opened", c, live.place, facts[live.session]))
          \/ Answer(Err("Opened", c, FALSE))
      BY <1>7 DEF WorkResync
    <2>4. AnsweredGens' \subseteq AnsweredGens \cup {c.gen} /\ HeldGens' = HeldGens
      <3>1. HeldGens' = HeldGens
        BY <2>2 DEF HeldGens
      <3>2. CASE Answer(Ok("Opened", c, live.place, facts[live.session]))
        BY <1>t, <3>1, <3>2, AnsweredUnder
      <3>3. CASE Answer(Err("Opened", c, FALSE))
        BY <1>t, <3>1, <3>3, AnsweredUnder
      <3> QED
        BY <2>3, <3>2, <3>3
    <2> HIDE DEF G
    <2>5. /\ AnsweredGens' \subseteq AnsweredGens \cup HeldGens \cup G
          /\ HeldGens' \subseteq AnsweredGens \cup HeldGens \cup G
      BY <2>2, <2>4
    <2> QED
      BY <1>a, <1>n, <1>t, <2>2, <2>5, OrderTaken DEF G
  <1>8. CASE BeginAuthor
    <2>1. Take("Author")
      BY <1>8 DEF BeginAuthor
    <2>2. cmds # <<>> /\ cmds' = Tail(cmds) /\ UNCHANGED live /\ job = None /\ c.op = "Author" /\ G = {c.gen}
      BY <1>8, <1>p, <2>1 DEF BeginAuthor
    <2>3. \/ Answer(Err("Done", c, FALSE)) /\ UNCHANGED job
          \/ UNCHANGED upd /\ job'.gen = c.gen /\ job'.step = "author"
      <3>1. CASE Answer(Err("Done", c, FALSE)) /\ UNCHANGED job
        BY <3>1
      <3>2. CASE /\ UNCHANGED upd
                 /\ job' = [step |-> "author", session |-> c.session, gen |-> c.gen,
                            place |-> live.place, facts |-> 0]
        BY <3>2
      <3> QED
        BY <1>8, <3>1, <3>2 DEF BeginAuthor
    <2>4. AnsweredGens' \subseteq AnsweredGens \cup {c.gen} /\ HeldGens' \subseteq HeldGens \cup {c.gen}
      <3>1. CASE Answer(Err("Done", c, FALSE)) /\ UNCHANGED job
        <4>1. AnsweredGens' \subseteq AnsweredGens \cup {c.gen}
          BY <1>t, <3>1, AnsweredUnder
        <4>2. HeldGens' = HeldGens
          BY <2>2, <3>1 DEF HeldGens
        <4> QED
          BY <4>1, <4>2
      <3>2. CASE UNCHANGED upd /\ job'.gen = c.gen /\ job'.step = "author"
        BY <2>2, <3>2 DEF HeldGens, AnsweredGens
      <3> QED
        BY <2>3, <3>1, <3>2
    <2>5. JobIsNext'
      <3>1. CASE UNCHANGED job
        BY <1>n, <2>2, <3>1
      <3>2. CASE UNCHANGED upd /\ job'.gen = c.gen /\ job'.step = "author"
        <4>1. 1 \in Asked /\ c = cmds[1]
          BY <1>t, <2>2, TailFacts DEF Asked, TypeOK
        <4>2. \A g \in AnsweredGens : Before(g, "Author", c.gen)
          BY <2>2, <4>1 DEF InOrder, Before
        <4> QED
          BY <3>2, <4>2 DEF JobIsNext, AnsweredGens
      <3> QED
        BY <2>3, <3>1, <3>2
    <2> HIDE DEF G
    <2>6. /\ AnsweredGens' \subseteq AnsweredGens \cup HeldGens \cup G
          /\ HeldGens' \subseteq AnsweredGens \cup HeldGens \cup G
      BY <2>2, <2>4
    <2> QED
      BY <1>a, <1>t, <2>2, <2>5, <2>6, OrderTaken DEF G
  <1>9. CASE WorkRelease
    <2>1. Take("Release")
      BY <1>9 DEF WorkRelease
    <2>2. cmds # <<>> /\ cmds' = Tail(cmds) /\ live' = None /\ UNCHANGED <<upd, job>> /\ job' = None
      BY <1>9, <1>p, <2>1 DEF WorkRelease
    <2>3. AnsweredGens' = AnsweredGens /\ HeldGens' = {}
      BY <2>2 DEF AnsweredGens, HeldGens
    <2> QED
      BY <1>a, <1>n, <1>t, <2>2, <2>3, OrderTaken
  <1> QED
    BY <1>1, <1>2, <1>3, <1>4, <1>5, <1>6, <1>7, <1>8, <1>9 DEF WorkerStep

LEMMA LanesOrder ==
    ASSUME TypeInv, AnswerInv, InOrder, Arrive \/ Nudge
    PROVE  InOrder'
  <1> USE DEF work, chan, app, disk
  <1>t. TypeOK
    BY DEF TypeInv
  <1>1. /\ UNCHANGED <<nextGen, cmds, job>>
        /\ \/ UNCHANGED live
           \/ live # None /\ live'.gen = live.gen
    BY DEF Arrive, Nudge, TypeInv, TypeOK, LivePlace
  <1>2. HeldGens' \subseteq HeldGens
    BY <1>1 DEF HeldGens
  <1>3. CASE Arrive
    <2>1. AnsweredGens' = AnsweredGens
      BY <1>3 DEF Arrive, AnsweredGens
    <2>2. JobIsNext'
      BY <1>1, <2>1 DEF InOrder, JobIsNext
    <2> QED
      BY <1>t, <1>1, <1>2, <2>1, <2>2, OrderKept
  <1>4. CASE Nudge
    <2> DEFINE u == [op |-> "Advanced", session |-> live.session, gen |-> live.gen,
                     result |-> "Ok", place |-> live.place, facts |-> 0, wrote |-> FALSE]
    <2>1. live # None /\ Answer(u) /\ u.gen = live.gen
      BY <1>4 DEF Nudge
    <2> HIDE DEF u
    <2>2. AnsweredGens' \subseteq AnsweredGens \cup {live.gen} /\ live.gen \in HeldGens
      BY <1>t, <2>1, AnswersGrow DEF HeldGens
    <2>3. JobIsNext'
      <3>1. SUFFICES ASSUME job # None PROVE JobIsNext'
        BY <1>1 DEF JobIsNext
      <3>2. job.gen = live.gen /\ job.step \in AuthorSteps /\ live.gen \in Nat
        BY <2>1, <3>1 DEF AnswerInv, JobsPlaceIsLive, Claim, TypeInv, JobHasPlace, TypeOK, LivePlace
      <3>3. Before(live.gen, "Author", job.gen)
        BY <3>2 DEF Before
      <3>4. IF job.step \in JoinSteps THEN FALSE ELSE TRUE
        BY <3>2
      <3> QED
        BY <1>1, <2>2, <3>3, <3>4 DEF InOrder, JobIsNext
    <2> QED
      BY <1>t, <1>1, <1>2, <2>2, <2>3, OrderKept
  <1> QED
    BY <1>3, <1>4

LEMMA RestartOrder ==
    ASSUME TypeOK, Restart
    PROVE  InOrder'
  <1>1. upd' = <<>> /\ live' = None /\ job' = None /\ Adopt(sess, 1, <<>>)
    BY DEF Restart, Boot
  <1>2. sess \in Sessions /\ 1 \in Generation /\ <<>> \in Seq(Command)
    BY DEF TypeOK
  <1>3. PICK c \in Command : /\ cmds' = Append(<<>>, c) /\ nextGen' = 1
                             /\ c.op = "Release" \/ c.gen = 1
    BY <1>1, <1>2, AdoptSends
  <1>4. cmds' = <<c>>
    BY <1>3
  <1>5. \A j \in Asked' : j = 1 /\ cmds'[j] = c /\ c.gen = 1
    BY <1>3, <1>4 DEF Asked
  <1>6. AnsweredGens' = {} /\ HeldGens' = {}
    BY <1>1 DEF AnsweredGens, HeldGens
  <1> QED
    BY <1>1, <1>3, <1>5, <1>6 DEF InOrder

LEMMA OrderStep == TypeInv /\ AnswerInv /\ InOrder /\ [Next]_vars => InOrder'
  <1> SUFFICES ASSUME TypeInv, AnswerInv, InOrder, [Next]_vars PROVE InOrder'
    OBVIOUS
  <1>0. TypeOK
    BY DEF TypeInv
  <1>1. CASE UNCHANGED vars
    <2>1. UNCHANGED <<cmds, nextGen, upd, live, job>>
      BY <1>1 DEF vars, app, chan, work
    <2> QED
      BY <2>1 DEF InOrder, Asked, AnsweredGens, HeldGens
  <1> QED
    BY <1>0, <1>1, IntentOrder, ResumeOrder, FoldOrder, WorkerOrder, LanesOrder, RestartOrder DEF Next

\* An answer the app takes up is of its newest generation, so nothing is being
\* opened behind it.
LEMMA CurrentIsNewest ==
    ASSUME TypeInv, AnswerInv, InOrder, upd # <<>>, Head(upd).gen = place.gen
    PROVE  /\ place.gen = nextGen
           /\ \A i \in DOMAIN cmds : cmds[i].op \notin Openers
           /\ job # None => job.step \in AuthorSteps
  <1> DEFINE g == Head(upd).gen
  <1>1. g \in AnsweredGens /\ g \in Generation
    <2>1. upd[1].gen \in AnsweredGens /\ Head(upd) = upd[1]
      BY TailFacts DEF TypeInv, TypeOK, AnsweredGens
    <2> QED
      BY <2>1, GensAreNumbers DEF TypeInv
  <1>2. place.gen = nextGen /\ g = nextGen /\ nextGen \in Nat
    BY <1>1 DEF AnswerInv, GenerationsBounded, TypeInv, TypeOK
  <1>3. ASSUME NEW i \in DOMAIN cmds PROVE cmds[i].op \notin Openers
    <2>1. SUFFICES ASSUME cmds[i].op \in Openers PROVE FALSE
      OBVIOUS
    <2>2. i \in Asked /\ cmds[i].gen \in Nat
      BY <2>1, GensAreNumbers DEF Asked, TypeInv
    <2>3. g < cmds[i].gen /\ cmds[i].gen <= nextGen
      BY <1>1, <2>1, <2>2 DEF InOrder, Before
    <2> QED
      BY <1>2, <2>2, <2>3
  <1>4. job # None => job.step \in AuthorSteps
    <2>1. SUFFICES ASSUME job # None, job.step \in JoinSteps PROVE FALSE
      BY DEF TypeInv, TypeOK, Job
    <2>2. Before(g, "Join", job.gen)
      BY <1>1, <2>1 DEF InOrder
    <2>3. job.gen \in HeldGens
      BY <2>1 DEF HeldGens
    <2>4. job.gen <= nextGen /\ job.gen \in Nat
      BY <2>3, GensAreNumbers DEF InOrder, TypeInv
    <2> QED
      BY <1>2, <2>2, <2>4 DEF Before
  <1> QED
    BY <1>2, <1>3, <1>4

\* Nothing but openings ends what is shown.
LEMMA ShownKept ==
    ASSUME TypeOK, ShownIsOpen, UNCHANGED place,
           \/ cmds' = cmds
           \/ cmds # <<>> /\ cmds' = Tail(cmds)
           \/ \E c \in Command : c.op \notin Openers /\ cmds' = Append(cmds, c),
           \/ job' \in {job, None}
           \/ job' # None /\ job'.step \in AuthorSteps
           \/ job # None /\ job.step \in JoinSteps
    PROVE  ShownIsOpen'
  <1>1. SUFFICES ASSUME place.kind = "Offline" PROVE ShownIsOpen'
    BY DEF ShownIsOpen
  <1>2. \A i \in DOMAIN cmds' : cmds'[i].op \notin Openers
    <2>0. cmds \in Seq(Command)
      BY DEF TypeOK
    <2>1. CASE cmds' = cmds
      BY <1>1, <2>1 DEF ShownIsOpen
    <2>2. CASE cmds # <<>> /\ cmds' = Tail(cmds)
      BY <1>1, <2>0, <2>2, TailFacts DEF ShownIsOpen
    <2>3. CASE \E c \in Command : c.op \notin Openers /\ cmds' = Append(cmds, c)
      <3>1. PICK c \in Command : c.op \notin Openers /\ cmds' = Append(cmds, c)
        BY <2>3
      <3>2. \A i \in DOMAIN cmds' : cmds'[i] = c \/ (i \in DOMAIN cmds /\ cmds'[i] = cmds[i])
        BY <2>0, <3>1, AppendFacts
      <3> QED
        BY <1>1, <3>1, <3>2 DEF ShownIsOpen
    <2> QED
      BY <2>1, <2>2, <2>3
  <1>3. job' # None => job'.step \in AuthorSteps
    <2>1. job # None => job.step \in AuthorSteps /\ job.step \notin JoinSteps
      BY <1>1 DEF ShownIsOpen
    <2> QED
      BY <2>1
  <1> QED
    BY <1>1, <1>2, <1>3 DEF ShownIsOpen

LEMMA ShownStep == TypeInv /\ AnswerInv /\ InOrder /\ ShownIsOpen /\ [Next]_vars => ShownIsOpen'
  <1> USE DEF work, chan, app, disk
  <1> SUFFICES ASSUME TypeInv, AnswerInv, InOrder, ShownIsOpen, [Next]_vars PROVE ShownIsOpen'
    OBVIOUS
  <1>t. TypeOK /\ cmds \in Seq(Command) /\ sess \in Sessions
    BY DEF TypeInv, TypeOK
  <1>0. place'.kind # "Offline" => ShownIsOpen'
    BY DEF ShownIsOpen
  <1>1. CASE UNCHANGED vars
    BY <1>1, <1>t, ShownKept DEF vars
  <1>2. CASE Intent
    <2>1. ASSUME NEW p \in Places, JoinPlace(p) PROVE ShownIsOpen'
      BY <1>0, <2>1 DEF JoinPlace, Joining
    <2>2. CASE RunPlaceCommand \/ ResyncPlace
      <3>1. place.gen \in Generation
        BY <1>t, <2>2, PlaceParts DEF RunPlaceCommand, ResyncPlace
      <3>2. /\ Author(sess, place.gen) \in Command /\ Author(sess, place.gen).op \notin Openers
            /\ Resync(sess, place.gen) \in Command /\ Resync(sess, place.gen).op \notin Openers
        BY <1>t, <3>1 DEF Author, Resync, Command
      <3>3. /\ UNCHANGED <<place, job>>
            /\ cmds' \in {Append(cmds, Author(sess, place.gen)), Append(cmds, Resync(sess, place.gen))}
        BY <2>2 DEF RunPlaceCommand, ResyncPlace
      <3>4. \E c \in Command : c.op \notin Openers /\ cmds' = Append(cmds, c)
        BY <3>2, <3>3
      <3> QED
        BY <1>t, <3>3, <3>4, ShownKept
    <2>3. ASSUME NEW t \in Sessions,
                 SwitchSession(t) \/ NewSession(t) \/ RecoverSession(t) \/ CloseSession(t)
          PROVE  ShownIsOpen'
      <3>1. UNCHANGED <<place, job>> /\ cmds' = Append(cmds, Release)
        BY <2>3 DEF SwitchSession, NewSession, RecoverSession, CloseSession, StartSwitch
      <3>2. Release \in Command /\ Release.op \notin Openers
        BY DEF Release, Command
      <3> QED
        BY <1>t, <3>1, <3>2, ShownKept
    <2>4. CASE SaveSession
      BY <1>t, <2>4, ShownKept DEF SaveSession
    <2> QED
      BY <1>2, <2>1, <2>2, <2>3, <2>4 DEF Intent
  <1>3. CASE Resume
    <2>1. CASE FinishClose
      BY <1>t, <2>1, ShownKept DEF FinishClose
    <2>2. CASE FinishSwitch \/ FinishTrash
      BY <1>0, <2>2 DEF FinishSwitch, FinishTrash, Adopt, Personal, Failed, Opening
    <2> QED
      BY <1>3, <2>1, <2>2 DEF Resume
  <1>4. CASE Folds
    <2>1. upd # <<>> /\ UNCHANGED job
      BY <1>4 DEF Folds, FoldStale, FoldAdvanced, FoldDone, FoldJoined, FoldOpened, Fold
    <2>2. CASE FoldStale
      BY <1>t, <2>1, <2>2, ShownKept DEF FoldStale
    <2>3. CASE FoldAdvanced
      <3>1. /\ place.gen = Head(upd).gen /\ UNCHANGED place
            /\ cmds' = Append(cmds, Resync(sess, place.gen))
        BY <2>3 DEF FoldAdvanced, Current
      <3>2. Head(upd).gen \in Generation
        BY <1>t, <2>1, AnswersShrink, TailFacts, UpdateParts DEF TypeOK
      <3>3. Resync(sess, place.gen) \in Command /\ Resync(sess, place.gen).op \notin Openers
        BY <1>t, <3>1, <3>2 DEF Resync, Command
      <3>4. \E c \in Command : c.op \notin Openers /\ cmds' = Append(cmds, c)
        BY <3>1, <3>3
      <3> QED
        BY <1>t, <2>1, <3>1, <3>4, ShownKept
    <2>4. CASE FoldDone \/ FoldJoined \/ FoldOpened
      <3>1. Head(upd).gen = place.gen /\ UNCHANGED cmds
        BY <2>4 DEF FoldDone, FoldJoined, FoldOpened, Current
      <3> QED
        BY <2>1, <3>1, CurrentIsNewest DEF ShownIsOpen
    <2> QED
      BY <1>4, <2>2, <2>3, <2>4 DEF Folds
  <1>5. CASE WorkerStep
    <2>1. UNCHANGED place
      BY <1>5 DEF WorkerStep, OpenCached, BeginJoin, AdmitRefused, AdmitChecked, AdmitCommit, Reopen,
         JoinDone, JoinFails, WorkResync, BeginAuthor, AuthorStore, AuthorDone, WorkRelease
    <2>2. CASE OpenCached \/ WorkResync \/ WorkRelease
      <3>1. cmds # <<>> /\ cmds' = Tail(cmds) /\ UNCHANGED job
        BY <2>2 DEF OpenCached, WorkResync, WorkRelease, Take
      <3> QED
        BY <1>t, <2>1, <3>1, ShownKept
    <2>3. CASE BeginAuthor
      <3>1. cmds # <<>> /\ cmds' = Tail(cmds)
        BY <2>3 DEF BeginAuthor, Take
      <3>2. UNCHANGED job \/ job'.step = "author"
        <4> DEFINE c == Head(cmds)
        <4>1. CASE job' = [step |-> "author", session |-> c.session, gen |-> c.gen,
                           place |-> live.place, facts |-> 0]
          BY <4>1
        <4> QED
          BY <2>3, <4>1 DEF BeginAuthor
      <3> QED
        BY <1>t, <2>1, <3>1, <3>2, ShownKept
    <2>4. CASE BeginJoin
      <3>1. cmds # <<>> /\ Head(cmds).op = "Join"
        BY <2>4 DEF BeginJoin, Take
      <3>2. 1 \in DOMAIN cmds /\ cmds[1].op = "Join"
        BY <1>t, <3>1, TailFacts
      <3>3. place.kind # "Offline"
        BY <3>2 DEF ShownIsOpen
      <3> QED
        BY <1>0, <2>1, <3>3
    <2>5. CASE AdmitRefused \/ JoinDone \/ JoinFails \/ AuthorDone
      <3>1. UNCHANGED cmds /\ job' = None
        BY <2>5 DEF AdmitRefused, JoinDone, JoinFails, AuthorDone
      <3> QED
        BY <1>t, <2>1, <3>1, ShownKept
    <2>6. CASE AdmitChecked \/ AdmitCommit \/ Reopen
      <3>1. UNCHANGED cmds /\ job # None /\ job.step \in JoinSteps
        BY <2>6 DEF AdmitChecked, AdmitCommit, Reopen
      <3> QED
        BY <1>t, <2>1, <3>1, ShownKept
    <2>7. CASE AuthorStore
      <3>1. UNCHANGED cmds /\ job'.step = "publish"
        BY <1>t, <2>7 DEF AuthorStore, TypeOK, Job
      <3> QED
        BY <1>t, <2>1, <3>1, ShownKept
    <2> QED
      BY <1>5, <2>2, <2>3, <2>4, <2>5, <2>6, <2>7 DEF WorkerStep
  <1>6. CASE Arrive \/ Nudge
    BY <1>t, <1>6, ShownKept DEF Arrive, Nudge
  <1>7. CASE Restart
    BY <1>0, <1>7 DEF Restart, Boot, Adopt, Personal, Failed, Opening
  <1> QED
    BY <1>1, <1>2, <1>3, <1>4, <1>5, <1>6, <1>7 DEF Next

(* Snapshots are read from stores that grow.                                 *)

IsSnapshot(u) == u.result = "Ok" /\ u.op # "Advanced"

\* A snapshot read now is no older than those under way and the one on screen.
IsNewest(u) ==
    IsSnapshot(u) =>
      /\ u.facts <= facts[u.session]
      /\ \A i \in Snapshots : upd[i].gen = u.gen => upd[i].facts <= u.facts
      /\ place.kind = "Offline" /\ u.gen = place.gen => place.snap.facts <= u.facts

LEMMA SnapshotsKept ==
    ASSUME TypeOK, SnapshotsGrow, facts' \in [Sessions -> Nat],
           \A s \in Sessions : facts[s] <= facts'[s],
           UNCHANGED <<sess, place>>,
           \/ upd' = upd
           \/ upd # <<>> /\ upd' = Tail(upd)
           \/ \E u \in Update : IsNewest(u) /\ Answer(u),
           job' # None /\ job'.step = "dial" => job'.facts <= facts'[job'.session]
    PROVE  SnapshotsGrow'
  <1>0. upd \in Seq(Update) /\ facts \in [Sessions -> Nat] /\ sess \in Sessions /\ Len(upd) \in Nat
    BY DEF TypeOK
  <1>1. /\ \A k \in Snapshots : /\ upd[k].session \in Sessions /\ upd[k].facts \in Nat
                                /\ upd[k].facts <= facts[upd[k].session]
    BY <1>0, UpdateParts DEF Snapshots, SnapshotsGrow
  <1>2. \A k \in Snapshots : upd[k].facts <= facts'[upd[k].session]
    BY <1>0, <1>1
  <1>3. place.kind = "Offline" => place.snap.facts <= facts'[sess]
    <2>1. place.kind = "Offline" => place.snap.facts \in Nat
      BY DEF TypeOK, PlaceState, Personal, Failed
    <2> QED
      BY <1>0, <2>1 DEF SnapshotsGrow
  <1>4. CASE upd' = upd
    BY <1>2, <1>3, <1>4 DEF SnapshotsGrow, Snapshots
  <1>5. CASE upd # <<>> /\ upd' = Tail(upd)
    <2>1. \A i \in DOMAIN upd' : i \in Nat /\ i + 1 \in DOMAIN upd /\ upd'[i] = upd[i + 1]
      BY <1>0, <1>5, TailFacts
    <2>2. \A k \in Snapshots' : k \in Nat /\ k + 1 \in Snapshots /\ upd'[k] = upd[k + 1]
      BY <2>1 DEF Snapshots
    <2>3. \A k \in Snapshots' : upd'[k].facts <= facts'[upd'[k].session]
      BY <1>2, <2>2
    <2>4. ASSUME NEW k \in Snapshots', NEW i \in Snapshots', i < k, upd'[i].gen = upd'[k].gen
          PROVE  upd'[i].facts <= upd'[k].facts
      <3>1. i \in Nat /\ k \in Nat
        BY <2>2
      <3>2. i + 1 < k + 1
        BY <2>4, <3>1
      <3> QED
        BY <2>2, <2>4, <3>2 DEF SnapshotsGrow
    <2>5. place.kind = "Offline" => \A k \in Snapshots' :
            upd'[k].gen = place.gen => place.snap.facts <= upd'[k].facts
      BY <2>2 DEF SnapshotsGrow
    <2> QED
      BY <1>3, <2>3, <2>4, <2>5 DEF SnapshotsGrow
  <1>6. ASSUME NEW u \in Update, IsNewest(u), Answer(u) PROVE SnapshotsGrow'
    <2>1. \A i \in DOMAIN upd' : IF i = Len(upd) + 1 THEN upd'[i] = u
                                 ELSE i \in DOMAIN upd /\ upd'[i] = upd[i]
      BY <1>0, <1>6, AppendFacts DEF Answer
    <2>2. \A k \in Snapshots' : k \in Nat /\ (IF k = Len(upd) + 1 THEN upd'[k] = u /\ IsSnapshot(u)
                                              ELSE k \in Snapshots /\ upd'[k] = upd[k])
      <3>1. \A k \in DOMAIN upd' : k \in Nat
        BY <1>0, <1>6 DEF Answer
      <3> QED
        BY <2>1, <3>1 DEF Snapshots, IsSnapshot
    <2>3. u.facts \in Nat /\ u.session \in Sessions
      BY UpdateParts
    <2>4. \A k \in Snapshots' : upd'[k].facts <= facts'[upd'[k].session]
      <3>1. IsSnapshot(u) => u.facts <= facts'[u.session]
        BY <1>0, <1>6, <2>3 DEF IsNewest
      <3> QED
        BY <1>2, <2>2, <3>1
    <2>5. ASSUME NEW k \in Snapshots', NEW i \in Snapshots', i < k, upd'[i].gen = upd'[k].gen
          PROVE  upd'[i].facts <= upd'[k].facts
      <3>0. i \in Nat /\ k \in Nat
        BY <2>2
      <3>1. i # Len(upd) + 1
        <4>1. k \in DOMAIN upd'
          BY DEF Snapshots
        <4>2. k <= Len(upd) + 1
          BY <1>0, <1>6, <4>1 DEF Answer
        <4> QED
          BY <1>0, <2>5, <3>0, <4>2
      <3>2. i \in Snapshots /\ upd'[i] = upd[i]
        BY <2>2, <3>1
      <3>3. CASE k = Len(upd) + 1
        <4>1. upd'[k] = u /\ IsSnapshot(u)
          BY <2>2, <3>3
        <4> QED
          BY <1>6, <2>5, <3>2, <4>1 DEF IsNewest
      <3>4. CASE k # Len(upd) + 1
        <4>1. k \in Snapshots /\ upd'[k] = upd[k]
          BY <2>2, <3>4
        <4> QED
          BY <2>5, <3>2, <4>1 DEF SnapshotsGrow
      <3> QED
        BY <3>3, <3>4
    <2>6. place.kind = "Offline" => \A k \in Snapshots' :
            upd'[k].gen = place.gen => place.snap.facts <= upd'[k].facts
      BY <1>6, <2>2 DEF SnapshotsGrow, IsNewest
    <2> QED
      BY <1>3, <2>4, <2>5, <2>6 DEF SnapshotsGrow
  <1> QED
    BY <1>4, <1>5, <1>6

\* What is read of the store of the generation's own session is newest.
LEMMA ReadIsNewest ==
    ASSUME TypeOK, ClaimsAgree, SnapshotsGrow, NEW u \in Update, NEW p \in Places,
           <<u.gen, u.session, p>> \in Claims, u.facts = facts[u.session]
    PROVE  IsNewest(u)
  <1>0. upd \in Seq(Update) /\ facts[u.session] \in Nat
    BY UpdateParts DEF TypeOK
  <1>1. ASSUME NEW i \in Snapshots, upd[i].gen = u.gen
        PROVE  upd[i].facts <= u.facts
    <2>1. Claim(upd[i]) \in Claims
      BY DEF Claims, AnswerClaims, Snapshots
    <2>2. upd[i].session = u.session
      BY <1>1, <2>1 DEF ClaimsAgree, Claim
    <2> QED
      BY <2>2 DEF SnapshotsGrow
  <1>2. ASSUME place.kind = "Offline", u.gen = place.gen
        PROVE  place.snap.facts <= u.facts
    <2>1. place.binding # None
      BY <1>2, PlaceLifecycleAssumption DEF TypeOK, PlaceState, Personal, Failed
    <2>2. <<place.gen, sess, place.binding>> \in Claims
      BY <2>1 DEF Claims, AppClaims
    <2>3. sess = u.session
      BY <1>2, <2>2 DEF ClaimsAgree
    <2> QED
      BY <1>2, <2>3 DEF SnapshotsGrow
  <1> QED
    BY <1>0, <1>1, <1>2 DEF IsNewest

LEMMA FoldGrow ==
    ASSUME TypeInv, AnswerInv, SnapshotsGrow, Folds
    PROVE  SnapshotsGrow'
  <1> USE DEF work, chan, app, disk
  <1> DEFINE u == Head(upd)
  <1>t. TypeOK /\ upd \in Seq(Update)
    BY DEF TypeInv, TypeOK
  <1>1. /\ upd # <<>> /\ upd' = Tail(upd)
        /\ UNCHANGED <<sess, job, facts>>
    BY DEF Folds, FoldStale, FoldAdvanced, FoldDone, FoldJoined, FoldOpened, Fold
  <1>2. /\ \A i \in DOMAIN upd' : i \in Nat /\ i + 1 \in DOMAIN upd /\ upd'[i] = upd[i + 1]
        /\ u = upd[1] /\ 1 \in DOMAIN upd /\ u \in Update
    BY <1>t, <1>1, TailFacts
  <1>3. \A k \in Snapshots' : k \in Nat /\ k + 1 \in Snapshots /\ upd'[k] = upd[k + 1]
    BY <1>2 DEF Snapshots
  <1>4. \A k \in Snapshots' : 1 <= k
    <2>1. \A k \in DOMAIN upd' : 1 <= k
      BY <1>t, <1>1, TailFacts
    <2> QED
      BY <2>1 DEF Snapshots
  <1>5. \A k \in Snapshots' :
          /\ upd'[k].facts <= facts'[upd'[k].session]
          /\ \A i \in Snapshots' : i < k /\ upd'[i].gen = upd'[k].gen => upd'[i].facts <= upd'[k].facts
    <2>1. \A k \in Snapshots' : upd'[k].facts <= facts'[upd'[k].session]
      BY <1>1, <1>3 DEF SnapshotsGrow
    <2>2. ASSUME NEW k \in Snapshots', NEW i \in Snapshots', i < k, upd'[i].gen = upd'[k].gen
          PROVE  upd'[i].facts <= upd'[k].facts
      <3>1. i \in Nat /\ k \in Nat
        BY <1>3
      <3>2. i + 1 < k + 1
        BY <2>2, <3>1
      <3> QED
        BY <1>3, <2>2, <3>2 DEF SnapshotsGrow
    <2> QED
      BY <2>1, <2>2
  \* The snapshot that goes on screen is the oldest of those under way.
  <1>6. place'.kind = "Offline" =>
          /\ place'.snap.facts <= facts'[sess']
          /\ \A k \in Snapshots' : upd'[k].gen = place'.gen => place'.snap.facts <= upd'[k].facts
    <2>1. CASE UNCHANGED place
      BY <1>1, <1>3, <2>1 DEF SnapshotsGrow
    <2>2. CASE /\ IsSnapshot(u) /\ u.session = sess
               /\ place'.gen = u.gen /\ place'.snap.facts = u.facts
      <3>1. 1 \in Snapshots
        BY <1>2, <2>2 DEF Snapshots, IsSnapshot
      <3>2. u.facts <= facts[sess]
        BY <1>2, <2>2, <3>1 DEF SnapshotsGrow
      <3>3. ASSUME NEW k \in Snapshots', upd'[k].gen = u.gen PROVE u.facts <= upd'[k].facts
        <4>1. k + 1 \in Snapshots /\ upd'[k] = upd[k + 1] /\ 1 < k + 1
          <5>1. k \in Nat /\ 1 <= k
            BY <1>3, <1>4
          <5>2. 1 < k + 1
            BY <5>1
          <5> QED
            BY <1>3, <5>2
        <4> QED
          BY <1>2, <3>1, <3>3, <4>1 DEF SnapshotsGrow
      <3> QED
        BY <1>1, <2>2, <3>2, <3>3
    <2>3. \/ UNCHANGED place
          \/ place'.kind # "Offline"
          \/ /\ IsSnapshot(u) /\ u.session = sess
             /\ place'.gen = u.gen /\ place'.snap.facts = u.facts
      <3>1. CASE FoldStale \/ FoldAdvanced
        BY <3>1 DEF FoldStale, FoldAdvanced
      <3>2. CASE FoldDone
        BY <3>2 DEF FoldDone, Fold, Current, DoneState, Offline, Snap, IsSnapshot
      <3>3. CASE FoldJoined
        BY <3>3 DEF FoldJoined, Fold, Current, JoinedState, Failed, Offline, Snap, IsSnapshot
      <3>4. CASE FoldOpened
        BY <3>4 DEF FoldOpened, Fold, Current, OpenedState, Degraded, Offline, Snap, IsSnapshot
      <3> QED
        BY <3>1, <3>2, <3>3, <3>4 DEF Folds
    <2> QED
      BY <2>1, <2>2, <2>3
  <1> QED
    BY <1>1, <1>5, <1>6 DEF SnapshotsGrow

\* A command taken up, and what it finds open, belong to one claim.
LEMMA TakenClaims ==
    ASSUME TypeInv, AnswerInv, NEW op, Take(op)
    PROVE  /\ Head(cmds) \in Command /\ Head(cmds).op = op
           /\ op \in Openers => Claim(Head(cmds)) \in Claims
           /\ op \in {"Resync", "Author"} /\ live # None
                => live.session = Head(cmds).session /\ live.gen = Head(cmds).gen
  <1> DEFINE c == Head(cmds)
  <1>1. /\ cmds \in Seq(Command) /\ cmds # <<>> /\ cmds' = Tail(cmds)
        /\ c \in Command /\ c.op = op
    BY TakeFacts DEF TypeInv
  <1>2. op \in Openers => Claim(c) \in Claims
    BY <1>1, PopClaims DEF Claims
  <1>3. c = cmds[1] /\ 1 \in DOMAIN cmds
    BY <1>1, TailFacts
  <1>4. op \in {"Resync", "Author"} => FindsOwnPlace(0, c.session, c.gen)
    BY <1>1, <1>3 DEF AnswerInv, CommandsFindTheirPlace
  <1>5. op \in {"Resync", "Author"} /\ live # None => live.session = c.session /\ live.gen = c.gen
    BY <1>4 DEF FindsOwnPlace
  <1> QED
    BY <1>1, <1>2, <1>5

LEMMA WorkerGrow ==
    ASSUME TypeInv, AnswerInv, InOrder, ShownIsOpen, SnapshotsGrow, WorkerStep
    PROVE  SnapshotsGrow'
  <1> USE DEF work, chan, app, disk
  <1> DEFINE c == Head(cmds)
  <1>t. TypeOK /\ facts \in [Sessions -> Nat] /\ upd \in Seq(Update) /\ ClaimsAgree
    BY DEF TypeInv, TypeOK, AnswerInv
  <1>l. live # None => /\ live.session \in Sessions /\ live.gen \in Generation
                       /\ live.place \in Places /\ facts[live.session] \in Nat
                       /\ Claim(live) \in Claims
    BY DEF TypeInv, TypeOK, LivePlace, Claims, WorkerClaims
  <1>j. job # None => /\ job.session \in Sessions /\ job.gen \in Generation
                      /\ job.place \in Places /\ job.facts \in Nat
                      /\ (job.step \in AuthorSteps <=> live # None)
    BY DEF TypeInv, JobHasPlace, TypeOK, Job
  <1>a. UNCHANGED <<sess, place>>
    BY DEF WorkerStep, OpenCached, BeginJoin, AdmitRefused, AdmitChecked, AdmitCommit, Reopen,
       JoinDone, JoinFails, WorkResync, BeginAuthor, AuthorStore, AuthorDone, WorkRelease
  <1>f. facts' \in [Sessions -> Nat] /\ \A s \in Sessions : facts[s] <= facts'[s]
    <2>1. CASE AuthorStore
      <3>1. live # None /\ facts' = [facts EXCEPT ![live.session] = @ + 1]
        BY <1>j, <2>1 DEF AuthorStore
      <3>2. facts' \in [Sessions -> Nat]
        BY <1>l, <1>t, <3>1
      <3>3. ASSUME NEW s \in Sessions PROVE facts[s] <= facts'[s]
        <4>1. facts[s] \in Nat /\ (facts'[s] = facts[s] \/ facts'[s] = facts[s] + 1)
          BY <1>t, <3>1
        <4> QED
          BY <4>1
      <3> QED
        BY <3>2, <3>3
    <2>2. CASE ~ AuthorStore
      <3>1. facts' = facts
        BY <2>2 DEF WorkerStep, OpenCached, BeginJoin, AdmitRefused, AdmitChecked, AdmitCommit, Reopen,
           JoinDone, JoinFails, WorkResync, BeginAuthor, AuthorDone, WorkRelease
      <3>2. \A s \in Sessions : facts[s] <= facts[s]
        BY <1>t
      <3> QED
        BY <1>t, <3>1, <3>2
    <2> QED
      BY <2>1, <2>2
  \* What is answered is read now, or is no snapshot.
  <1>e. ASSUME NEW r, r.session \in Sessions, r.gen \in Generation,
               NEW op \in {"Opened", "Joined", "Done"}, NEW wrote \in BOOLEAN
        PROVE  Err(op, r, wrote) \in Update /\ IsNewest(Err(op, r, wrote))
    BY <1>e DEF Err, Update, IsNewest, IsSnapshot
  <1>o. ASSUME NEW r, r.session \in Sessions, r.gen \in Generation,
               NEW op \in {"Opened", "Joined", "Done"}, NEW p \in Places,
               <<r.gen, r.session, p>> \in Claims
        PROVE  /\ Ok(op, r, p, facts[r.session]) \in Update
               /\ IsNewest(Ok(op, r, p, facts[r.session]))
    <2> DEFINE u == Ok(op, r, p, facts[r.session])
    <2>1. facts[r.session] \in Nat
      BY <1>o, <1>t
    <2>2. u \in Update /\ u.gen = r.gen /\ u.session = r.session /\ u.facts = facts[r.session]
      BY <1>o, <2>1 DEF Ok, Update
    <2> HIDE DEF u
    <2>3. IsNewest(u)
      BY <1>o, <1>t, <2>2, ReadIsNewest
    <2> QED
      BY <2>2, <2>3 DEF u
  <1>k. ASSUME upd' = upd \/ \E u \in Update : IsNewest(u) /\ Answer(u),
               job' # None /\ job'.step = "dial" => job'.facts <= facts'[job'.session]
        PROVE  SnapshotsGrow'
    BY <1>a, <1>f, <1>k, <1>t, SnapshotsKept
  <1>1. CASE OpenCached
    <2>1. Take("Open") /\ job' = None
      BY <1>1 DEF OpenCached, Take
    <2>2. /\ c.session \in Sessions /\ c.gen \in Generation /\ c.place \in Places
          /\ <<c.gen, c.session, c.place>> \in Claims
      BY <2>1, TakenClaims, CommandParts DEF Claim
    <2>3. \/ Answer(Ok("Opened", c, c.place, facts[c.session]))
          \/ Answer(Err("Opened", c, FALSE))
      BY <1>1 DEF OpenCached
    <2>4. \E u \in Update : IsNewest(u) /\ Answer(u)
      BY <1>e, <1>o, <2>2, <2>3
    <2> QED
      BY <1>k, <2>1, <2>4
  <1>2. CASE WorkResync
    <2>1. Take("Resync") /\ job' = None
      BY <1>2 DEF WorkResync, Take
    <2>2. /\ c.session \in Sessions /\ c.gen \in Generation
          /\ live # None => live.session = c.session /\ live.gen = c.gen
      BY <2>1, TakenClaims, CommandParts
    <2>3. \/ live # None /\ Answer(Ok("Opened", c, live.place, facts[live.session]))
          \/ Answer(Err("Opened", c, FALSE))
      BY <1>2 DEF WorkResync
    <2>4. live # None => <<c.gen, c.session, live.place>> \in Claims
      BY <1>l, <2>2 DEF Claim
    <2>5. \E u \in Update : IsNewest(u) /\ Answer(u)
      <3>1. CASE live # None /\ Answer(Ok("Opened", c, live.place, facts[live.session]))
        <4>1. facts[live.session] = facts[c.session]
          BY <2>2, <3>1
        <4> QED
          BY <1>l, <1>o, <2>2, <2>4, <3>1, <4>1
      <3>2. CASE Answer(Err("Opened", c, FALSE))
        BY <1>e, <2>2, <3>2
      <3> QED
        BY <2>3, <3>1, <3>2
    <2> QED
      BY <1>k, <2>1, <2>5
  <1>3. CASE AuthorDone
    <2>1. /\ job # None /\ job.step \in AuthorSteps /\ job' = None /\ live # None
          /\ \/ Answer(Ok("Done", job, live.place, facts[live.session]))
             \/ \E wrote \in BOOLEAN : Answer(Err("Done", job, wrote))
      BY <1>3, <1>j DEF AuthorDone
    <2>2. live.session = job.session /\ <<job.gen, job.session, live.place>> \in Claims
      BY <1>l, <2>1 DEF AnswerInv, JobsPlaceIsLive, Claim
    <2>3. \E u \in Update : IsNewest(u) /\ Answer(u)
      <3>1. CASE Answer(Ok("Done", job, live.place, facts[live.session]))
        <4>1. facts[live.session] = facts[job.session]
          BY <2>2
        <4> QED
          BY <1>j, <1>l, <1>o, <2>1, <2>2, <3>1, <4>1
      <3>2. CASE \E wrote \in BOOLEAN : Answer(Err("Done", job, wrote))
        BY <1>e, <1>j, <2>1, <3>2
      <3> QED
        BY <2>1, <3>1, <3>2
    <2> QED
      BY <1>k, <2>1, <2>3
  <1>4. CASE AdmitRefused \/ JoinFails
    <2>1. /\ job # None /\ job' = None /\ \E wrote \in BOOLEAN : Answer(Err("Joined", job, wrote))
      BY <1>4 DEF AdmitRefused, JoinFails
    <2>2. \E u \in Update : IsNewest(u) /\ Answer(u)
      BY <1>e, <1>j, <2>1
    <2> QED
      BY <1>k, <2>1, <2>2
  \* A join reads its store before it dials: but it is the first to answer
  \* under its generation, and nothing is on screen under it.
  <1>5. CASE JoinDone
    <2> DEFINE u == Ok("Joined", job, job.place, job.facts)
    <2>1. job # None /\ job' = None /\ job.step = "dial" /\ Answer(u)
      BY <1>5 DEF JoinDone
    <2>2. /\ u \in Update /\ u.gen = job.gen /\ u.session = job.session /\ u.facts = job.facts
      BY <1>j, <2>1 DEF Ok, Update
    <2>3. job.facts <= facts[job.session]
      BY <2>1 DEF SnapshotsGrow
    <2>4. \A i \in Snapshots : upd[i].gen # job.gen
      <3>1. ASSUME NEW i \in Snapshots PROVE upd[i].gen # job.gen
        <4>1. upd[i].gen \in AnsweredGens
          BY DEF Snapshots, AnsweredGens
        <4>2. Before(upd[i].gen, "Join", job.gen)
          BY <2>1, <4>1 DEF InOrder
        <4>3. upd[i].gen \in Nat /\ job.gen \in Nat
          BY <1>j, <1>t, <2>1, <4>1, GensAreNumbers
        <4> QED
          BY <4>2, <4>3 DEF Before
      <3> QED
        BY <3>1
    <2>5. place.kind # "Offline"
      BY <2>1 DEF ShownIsOpen
    <2> HIDE DEF u
    <2>6. IsNewest(u)
      BY <2>2, <2>3, <2>4, <2>5 DEF IsNewest
    <2> QED
      BY <1>k, <2>1, <2>2, <2>6
  <1>6. CASE AdmitChecked \/ AdmitCommit \/ AuthorStore
    <2>1. UNCHANGED upd /\ job'.step \in {"commit", "reopen", "publish"}
      BY <1>6, <1>t DEF AdmitChecked, AdmitCommit, AuthorStore, TypeOK, Job
    <2> QED
      BY <1>k, <2>1
  <1>7. CASE Reopen
    <2>1. /\ UNCHANGED <<upd, facts>> /\ job # None
          /\ job'.facts = facts[job.session] /\ job'.session = job.session
      BY <1>7, <1>t DEF Reopen, TypeOK, Job
    <2>2. facts[job.session] <= facts[job.session]
      BY <1>j, <1>t, <2>1
    <2> QED
      BY <1>k, <2>1, <2>2
  <1>8. CASE BeginJoin
    <2>1. UNCHANGED upd /\ job'.step = "admit"
      BY <1>8 DEF BeginJoin
    <2> QED
      BY <1>k, <2>1
  <1>9. CASE BeginAuthor
    <2>1. Take("Author") /\ job = None
      BY <1>9 DEF BeginAuthor, Take
    <2>2. c.session \in Sessions /\ c.gen \in Generation
      BY <2>1, TakenClaims, CommandParts
    <2>3. \/ Answer(Err("Done", c, FALSE)) /\ job' = None
          \/ UNCHANGED upd /\ job'.step = "author"
      <3>1. CASE Answer(Err("Done", c, FALSE)) /\ UNCHANGED job
        BY <2>1, <3>1
      <3>2. CASE /\ UNCHANGED upd
                 /\ job' = [step |-> "author", session |-> c.session, gen |-> c.gen,
                            place |-> live.place, facts |-> 0]
        BY <3>2
      <3> QED
        BY <1>9, <3>1, <3>2 DEF BeginAuthor
    <2>4. Answer(Err("Done", c, FALSE)) => \E u \in Update : IsNewest(u) /\ Answer(u)
      BY <1>e, <2>2
    <2> QED
      BY <1>k, <2>3, <2>4
  <1>10. CASE WorkRelease
    <2>1. UNCHANGED upd /\ job' = None
      BY <1>10 DEF WorkRelease, Take
    <2> QED
      BY <1>k, <2>1
  <1> QED
    BY <1>1, <1>2, <1>3, <1>4, <1>5, <1>6, <1>7, <1>8, <1>9, <1>10 DEF WorkerStep

LEMMA LanesGrow ==
    ASSUME TypeInv, SnapshotsGrow, Arrive \/ Nudge
    PROVE  SnapshotsGrow'
  <1> USE DEF work, chan, app, disk
  <1>t. TypeOK /\ facts \in [Sessions -> Nat]
    BY DEF TypeInv, TypeOK
  <1>1. UNCHANGED <<sess, place, job>>
    BY DEF Arrive, Nudge
  <1>j. job # None => job.session \in Sessions /\ job.facts \in Nat
    BY <1>t DEF TypeOK, Job
  <1>2. CASE Arrive
    <2>1. PICK s \in Sessions : facts' = [facts EXCEPT ![s] = @ + 1]
      BY <1>2, <1>j DEF Arrive, TypeInv, TypeOK, LivePlace
    <2>2. facts' \in [Sessions -> Nat]
      BY <1>t, <2>1
    <2>3. ASSUME NEW t \in Sessions PROVE facts[t] \in Nat /\ facts'[t] \in Nat /\ facts[t] <= facts'[t]
      <3>1. facts[t] \in Nat /\ (facts'[t] = facts[t] \/ facts'[t] = facts[t] + 1)
        BY <1>t, <2>1
      <3> QED
        BY <2>2, <3>1
    <2>4. job' # None /\ job'.step = "dial" => job'.facts <= facts'[job'.session]
      <3>1. SUFFICES ASSUME job # None, job.step = "dial" PROVE job.facts <= facts'[job.session]
        BY <1>1
      <3>2. job.facts <= facts[job.session]
        BY <3>1 DEF SnapshotsGrow
      <3> QED
        BY <1>j, <2>3, <3>1, <3>2
    <2>5. upd' = upd
      BY <1>2 DEF Arrive
    <2> QED
      BY <1>1, <1>t, <2>2, <2>3, <2>4, <2>5, SnapshotsKept
  <1>3. CASE Nudge
    <2> DEFINE u == [op |-> "Advanced", session |-> live.session, gen |-> live.gen,
                     result |-> "Ok", place |-> live.place, facts |-> 0, wrote |-> FALSE]
    <2>1. Answer(u) /\ live \in LivePlace /\ UNCHANGED facts
      BY <1>3, <1>t DEF Nudge, TypeOK
    <2>2. u \in Update /\ IsNewest(u)
      BY <2>1 DEF LivePlace, Update, IsNewest, IsSnapshot
    <2>3. \A s \in Sessions : facts[s] <= facts'[s]
      BY <1>t, <2>1
    <2>4. job' # None /\ job'.step = "dial" => job'.facts <= facts'[job'.session]
      BY <1>1, <2>1 DEF SnapshotsGrow
    <2> HIDE DEF u
    <2>5. \E v \in Update : IsNewest(v) /\ Answer(v)
      BY <2>1, <2>2
    <2> QED
      BY <1>1, <1>t, <2>1, <2>3, <2>4, <2>5, SnapshotsKept
  <1> QED
    BY <1>2, <1>3

LEMMA GrowStep == TypeInv /\ AnswerInv /\ ViewInv /\ [Next]_vars => SnapshotsGrow'
  <1> USE DEF work, chan, app, disk
  <1> SUFFICES ASSUME TypeInv, AnswerInv, InOrder, ShownIsOpen, SnapshotsGrow, [Next]_vars
               PROVE  SnapshotsGrow'
    BY DEF ViewInv
  <1>1. ASSUME UNCHANGED <<upd, job, facts>>,
               place'.kind # "Offline" \/ UNCHANGED <<place, sess>>
        PROVE  SnapshotsGrow'
    BY <1>1 DEF SnapshotsGrow, Snapshots
  <1>2. CASE UNCHANGED vars
    BY <1>1, <1>2 DEF vars
  <1>3. CASE Intent
    BY <1>1, <1>3 DEF Intent, SaveSession, JoinPlace, RunPlaceCommand, ResyncPlace, SwitchSession,
       NewSession, RecoverSession, CloseSession, StartSwitch, Joining
  <1>4. CASE Resume
    BY <1>1, <1>4 DEF Resume, FinishSwitch, FinishTrash, FinishClose, Adopt, Personal, Failed, Opening
  <1>5. CASE Restart
    <2>1. upd' = <<>> /\ job' = None /\ place'.kind # "Offline"
      BY <1>5 DEF Restart, Boot, Adopt, Personal, Failed, Opening
    <2> QED
      BY <2>1 DEF SnapshotsGrow, Snapshots
  <1> QED
    BY <1>2, <1>3, <1>4, <1>5, FoldGrow, WorkerGrow, LanesGrow DEF Next

LEMMA ViewStep == TypeInv /\ AnswerInv /\ ViewInv /\ [Next]_vars => ViewInv'
  BY OrderStep, ShownStep, GrowStep DEF ViewInv

\* What is on screen is replaced by what was under way, which is not older.
LEMMA ViewOnward ==
    ASSUME TypeInv, SnapshotsGrow, [Next]_vars,
           place.kind = "Offline", place'.kind = "Offline", place'.gen = place.gen
    PROVE  place'.snap.facts >= place.snap.facts
  <1> USE DEF work, chan, app, disk
  <1> DEFINE u == Head(upd)
  <1>0. place.snap.facts \in Nat /\ place.snap.facts >= place.snap.facts
    BY DEF TypeInv, TypeOK, PlaceState, Personal, Failed
  <1>1. CASE UNCHANGED place
    BY <1>0, <1>1
  <1> DEFINE Shown == /\ upd # <<>> /\ IsSnapshot(u)
                      /\ u.gen = place.gen /\ place'.snap.facts = u.facts
  <1>2. CASE Shown
    <2>1. 1 \in DOMAIN upd /\ u = upd[1] /\ u \in Update
      BY <1>2, TailFacts DEF TypeInv, TypeOK
    <2>2. place.snap.facts <= u.facts
      BY <1>2, <2>1 DEF SnapshotsGrow, Snapshots, IsSnapshot
    <2>3. u.facts \in Nat
      BY <2>1, UpdateParts
    <2> QED
      BY <1>0, <1>2, <2>2, <2>3
  <1>3. CASE Folds
    <2>1. CASE FoldStale \/ FoldAdvanced
      BY <1>1, <2>1 DEF FoldStale, FoldAdvanced
    <2>2. CASE FoldDone
      <3>1. UNCHANGED place \/ Shown
        BY <2>2 DEF FoldDone, Fold, Current, DoneState, Offline, Snap, IsSnapshot
      <3> QED
        BY <1>1, <1>2, <3>1
    <2>3. CASE FoldJoined
      <3>1. Shown
        BY <2>3 DEF FoldJoined, Fold, Current, JoinedState, Failed, Offline, Snap, IsSnapshot
      <3> QED
        BY <1>2, <3>1
    <2>4. CASE FoldOpened
      <3>1. UNCHANGED place \/ Shown
        BY <2>4 DEF FoldOpened, Fold, Current, OpenedState, Degraded, Offline, Snap, IsSnapshot
      <3> QED
        BY <1>1, <1>2, <3>1
    <2> QED
      BY <1>3, <2>1, <2>2, <2>3, <2>4 DEF Folds
  <1>4. CASE UNCHANGED vars
    BY <1>1, <1>4 DEF vars
  <1>5. CASE Intent
    BY <1>1, <1>5 DEF Intent, SaveSession, JoinPlace, RunPlaceCommand, ResyncPlace, SwitchSession,
       NewSession, RecoverSession, CloseSession, StartSwitch, Joining
  <1>6. CASE Resume \/ Restart
    BY <1>1, <1>6 DEF Resume, FinishSwitch, FinishTrash, FinishClose, Restart, Boot, Adopt,
       Personal, Failed, Opening
  <1>7. CASE WorkerStep
    BY <1>1, <1>7 DEF WorkerStep, OpenCached, BeginJoin, AdmitRefused, AdmitChecked, AdmitCommit, Reopen,
       JoinDone, JoinFails, WorkResync, BeginAuthor, AuthorStore, AuthorDone, WorkRelease
  <1>8. CASE Arrive \/ Nudge
    BY <1>1, <1>8 DEF Arrive, Nudge
  <1> QED
    BY <1>3, <1>4, <1>5, <1>6, <1>7, <1>8 DEF Next

\* The view of an open place never goes back in time, however joins, peers'
\* operations, authoring, nudges, resyncs and their answers interleave, with
\* slow acknowledgements and restarts too (app/updates.rs, place/worker.rs).
THEOREM ViewsMoveOn == Spec => SnapshotNeverRegresses
  <1>1. TypeInv /\ AnswerInv /\ ViewInv /\ [Next]_vars => (TypeInv /\ AnswerInv /\ ViewInv)'
    BY TypeStep, AnswerStep, ViewStep
  <1>2. /\ TypeInv /\ AnswerInv /\ ViewInv /\ [Next]_vars
        => [place.kind = "Offline" /\ place'.kind = "Offline" /\ place'.gen = place.gen
              => place'.snap.facts >= place.snap.facts]_vars
    BY ViewOnward DEF ViewInv
  <1> QED
    BY TypeInit, AnswerInit, ViewInit, <1>1, <1>2, PTL DEF Spec, SnapshotNeverRegresses

-----------------------------------------------------------------------------
(* The fifth layer: acknowledgements in time.                                *)

LEMMA PromptInit == Init => PromptInv
  <1> SUFFICES ASSUME Init PROVE PromptInv
    OBVIOUS
  <1>1. Asked = {} /\ JoinedAnswers = {} /\ \A i \in DOMAIN cmds : cmds[i].op # "Join"
    BY DEF Init, Asked, JoinedAnswers, Release
  <1> QED
    BY <1>1 DEF Init, PromptInv, OwnWork, BoundJoinsNothing, JoinedIsSaved, BindingIsSidecar,
                NoZombieDirectory, Personal

\* Commands sent for the session in use.
LEMMA OwnSent ==
    ASSUME TypeOK, NEW s, \A i \in Asked : cmds[i].session = s,
           \/ cmds' = cmds
           \/ cmds # <<>> /\ cmds' = Tail(cmds)
           \/ \E c \in Command : /\ c.op = "Release" \/ c.session = s
                                 /\ cmds' = Append(cmds, c)
    PROVE  \A i \in Asked' : cmds'[i].session = s
  <1>0. cmds \in Seq(Command)
    BY DEF TypeOK
  <1>1. CASE cmds' = cmds
    BY <1>1 DEF Asked
  <1>2. CASE cmds # <<>> /\ cmds' = Tail(cmds)
    BY <1>0, <1>2, TailFacts DEF Asked
  <1>3. CASE \E c \in Command : /\ c.op = "Release" \/ c.session = s
                                /\ cmds' = Append(cmds, c)
    <2>1. PICK c \in Command : /\ c.op = "Release" \/ c.session = s
                               /\ cmds' = Append(cmds, c)
      BY <1>3
    <2>2. \A i \in DOMAIN cmds' : cmds'[i] = c \/ (i \in DOMAIN cmds /\ cmds'[i] = cmds[i])
      BY <1>0, <2>1, AppendFacts
    <2> QED
      BY <2>1, <2>2 DEF Asked
  <1> QED
    BY <1>1, <1>2, <1>3

LEMMA NoJoinSent ==
    ASSUME TypeOK, \A i \in DOMAIN cmds : cmds[i].op # "Join",
           \/ cmds' = cmds
           \/ cmds # <<>> /\ cmds' = Tail(cmds)
           \/ \E c \in Command : c.op # "Join" /\ cmds' = Append(cmds, c)
    PROVE  \A i \in DOMAIN cmds' : cmds'[i].op # "Join"
  <1>0. cmds \in Seq(Command)
    BY DEF TypeOK
  <1>1. CASE cmds # <<>> /\ cmds' = Tail(cmds)
    BY <1>0, <1>1, TailFacts
  <1>2. CASE \E c \in Command : c.op # "Join" /\ cmds' = Append(cmds, c)
    <2>1. PICK c \in Command : c.op # "Join" /\ cmds' = Append(cmds, c)
      BY <1>2
    <2>2. \A i \in DOMAIN cmds' : cmds'[i] = c \/ (i \in DOMAIN cmds /\ cmds'[i] = cmds[i])
      BY <1>0, <2>1, AppendFacts
    <2> QED
      BY <2>1, <2>2
  <1> QED
    BY <1>1, <1>2

\* With the binding on screen saved, a save can only lose it.
LEMMA SavedOrLost ==
    ASSUME TypeOK, BindingIsSidecar, sidecar' \in {sidecar} \cup SavedSidecar
    PROVE  sidecar' = sidecar \/ sidecar'[sess] = Lost
  <1>1. CASE place.binding # None /\ sidecar[sess] \in Places
    <2>1. sidecar[sess] = place.binding /\ sess \in Sessions
      BY <1>1, PlaceLifecycleAssumption DEF BindingIsSidecar, TypeOK
    <2> QED
      BY <1>1, <2>1 DEF TypeOK, SavedSidecar, Written
  <1> QED
    BY <1>1 DEF SavedSidecar

LEMMA IntentPrompt ==
    ASSUME TypeInv, AdmissionInv, InOrder, PromptInv, Intent
    PROVE  PromptInv'
  <1> USE DEF work, chan, app, disk
  <1>t. /\ TypeOK /\ sess \in Sessions /\ nextGen \in Nat
        /\ OwnWork /\ BoundJoinsNothing /\ JoinedIsSaved /\ BindingIsSidecar /\ NoZombieDirectory
    BY DEF TypeInv, TypeOK, PromptInv
  <1>1. /\ UNCHANGED <<sess, upd, job>>
        /\ sidecar' = sidecar \/ sidecar'[sess] = Lost
    <2>1. sidecar' \in {sidecar} \cup SavedSidecar
      BY DEF Intent, SaveSession, JoinPlace, RunPlaceCommand, ResyncPlace, SwitchSession,
           NewSession, RecoverSession, CloseSession, StartSwitch
    <2>2. UNCHANGED <<sess, upd, job>>
      BY DEF Intent, SaveSession, JoinPlace, RunPlaceCommand, ResyncPlace, SwitchSession,
           NewSession, RecoverSession, CloseSession, StartSwitch
    <2> QED
      BY <1>t, <2>1, <2>2, SavedOrLost
  <1>2. NoZombieDirectory'
    <2>1. \/ dir' = dir
          \/ \E t \in Sessions : dir' = [dir EXCEPT ![t] = "kept"]
      BY DEF Intent, SaveSession, JoinPlace, RunPlaceCommand, ResyncPlace, SwitchSession,
           NewSession, RecoverSession, CloseSession, StartSwitch, Mint
    <2> QED
      BY <1>t, <2>1 DEF NoZombieDirectory, TypeOK
  <1>3. /\ \/ UNCHANGED <<place, nextGen>>
           \/ place'.binding = None /\ nextGen' = nextGen + 1
        /\ \/ cmds' = cmds
           \/ \E c \in Command : /\ c.op = "Release" \/ c.session = sess
                                 /\ c.op # "Join" \/ place'.binding = None
                                 /\ cmds' = Append(cmds, c)
    <2>1. ASSUME NEW p \in Places, JoinPlace(p) PROVE <1>3!:
      <3> DEFINE c == Join(sess, nextGen + 1, p)
      <3>1. c \in Command /\ c.session = sess
        BY <1>t DEF Join, Command
      <3>2. cmds' = Append(cmds, c) /\ place'.binding = None /\ nextGen' = nextGen + 1
        BY <2>1 DEF JoinPlace, Joining
      <3> HIDE DEF c
      <3> QED
        BY <3>1, <3>2
    <2>2. CASE RunPlaceCommand \/ ResyncPlace
      <3>1. place.gen \in Generation
        BY <1>t, <2>2, PlaceParts DEF RunPlaceCommand, ResyncPlace
      <3>2. /\ Author(sess, place.gen) \in Command /\ Author(sess, place.gen).op # "Join"
            /\ Resync(sess, place.gen) \in Command /\ Resync(sess, place.gen).op # "Join"
            /\ Author(sess, place.gen).session = sess /\ Resync(sess, place.gen).session = sess
        BY <1>t, <3>1 DEF Author, Resync, Command
      <3>3. /\ UNCHANGED <<place, nextGen>>
            /\ cmds' \in {Append(cmds, Author(sess, place.gen)), Append(cmds, Resync(sess, place.gen))}
        BY <2>2 DEF RunPlaceCommand, ResyncPlace
      <3> QED
        BY <3>2, <3>3
    <2>3. ASSUME NEW t \in Sessions,
                 SwitchSession(t) \/ NewSession(t) \/ RecoverSession(t) \/ CloseSession(t)
          PROVE  <1>3!:
      <3>1. UNCHANGED <<place, nextGen>> /\ cmds' = Append(cmds, Release)
        BY <2>3 DEF SwitchSession, NewSession, RecoverSession, CloseSession, StartSwitch
      <3>2. Release \in Command /\ Release.op = "Release"
        BY DEF Release, Command
      <3> QED
        BY <3>1, <3>2
    <2>4. CASE SaveSession
      BY <2>4 DEF SaveSession
    <2> QED
      BY <2>1, <2>2, <2>3, <2>4 DEF Intent
  <1>4. OwnWork'
    BY <1>t, <1>1, <1>3, OwnSent DEF OwnWork
  <1>5. BoundJoinsNothing'
    <2>1. SUFFICES ASSUME place'.binding # None PROVE BoundJoinsNothing'
      BY DEF BoundJoinsNothing
    <2>2. UNCHANGED place
      BY <1>3, <2>1
    <2>3. \/ cmds' = cmds
          \/ \E c \in Command : c.op # "Join" /\ cmds' = Append(cmds, c)
      BY <1>3, <2>1
    <2> QED
      BY <1>t, <1>1, <2>1, <2>2, <2>3, NoJoinSent DEF BoundJoinsNothing
  \* A job that has got as far is one of a session that shows no binding.
  <1>j. job # None /\ job.step \in {"reopen", "dial"} => sidecar' = sidecar
    <2>1. ASSUME job # None, job.step \in {"reopen", "dial"}
          PROVE  place.binding = None
      BY <1>t, <2>1 DEF BoundJoinsNothing
    <2>2. place.binding = None => SavedSidecar = {sidecar}
      BY DEF SavedSidecar
    <2>3. sidecar' \in {sidecar} \cup SavedSidecar
      BY DEF Intent, SaveSession, JoinPlace, RunPlaceCommand, ResyncPlace, SwitchSession,
           NewSession, RecoverSession, CloseSession, StartSwitch
    <2> QED
      BY <2>1, <2>2, <2>3
  <1>6. JoinedIsSaved'
    <2>1. CASE UNCHANGED nextGen
      BY <1>t, <1>1, <1>j, <2>1 DEF JoinedIsSaved, JoinedAnswers
    <2>2. CASE nextGen' = nextGen + 1
      <3>1. \A i \in DOMAIN upd : upd[i].gen # nextGen + 1
        <4>1. \A i \in DOMAIN upd : upd[i].gen \in AnsweredGens
          BY DEF AnsweredGens
        <4>2. \A g \in AnsweredGens : g \in Nat /\ g <= nextGen
          BY <1>t, GensAreNumbers DEF InOrder
        <4>3. \A g \in Nat : g <= nextGen => g # nextGen + 1
          BY <1>t
        <4> QED
          BY <4>1, <4>2, <4>3
      <3> QED
        BY <1>t, <1>1, <1>j, <2>2, <3>1 DEF JoinedIsSaved, JoinedAnswers
    <2> QED
      BY <1>3, <2>1, <2>2
  <1>7. BindingIsSidecar'
    BY <1>t, <1>1, <1>3 DEF BindingIsSidecar
  <1> QED
    BY <1>2, <1>4, <1>5, <1>6, <1>7 DEF PromptInv

\* A session adopted with nothing under way.
LEMMA AdoptPrompt ==
    ASSUME TypeOK, NEW t \in Sessions, NEW g \in Generation, Adopt(t, g, <<>>),
           sidecar' = sidecar, job' = None, NoZombieDirectory',
           \A i \in JoinedAnswers' : upd'[i].gen # g
    PROVE  PromptInv'
  <1>1. PICK c \in Command :
             /\ cmds' = Append(<<>>, c)
             /\ \/ c.op = "Open" /\ c.session = t
                \/ c.op = "Release"
             /\ place'.binding # None => place'.binding = sidecar[t]
             /\ sess' = t /\ nextGen' = g
    <2>1. <<>> \in Seq(Command)
      OBVIOUS
    <2> QED
      BY <2>1, AdoptSends
  <1>2. \A i \in DOMAIN cmds' : cmds'[i] = c
    BY <1>1
  <1>3. OwnWork'
    BY <1>1, <1>2 DEF OwnWork, Asked
  <1>4. BoundJoinsNothing'
    BY <1>1, <1>2 DEF BoundJoinsNothing
  <1>5. JoinedIsSaved' /\ BindingIsSidecar'
    BY <1>1 DEF JoinedIsSaved, BindingIsSidecar
  <1> QED
    BY <1>3, <1>4, <1>5 DEF PromptInv

LEMMA ResumePrompt ==
    ASSUME ~ AckTimeouts, TypeInv, InOrder, PromptInv, Resume
    PROVE  PromptInv'
  <1> USE DEF work, chan, app, disk
  <1>t. /\ TypeOK /\ nextGen \in Nat /\ nextGen + 1 \in Generation /\ NoZombieDirectory
        /\ dir \in [Sessions -> {"absent", "kept", "zombie"}]
    BY DEF TypeInv, TypeOK, PromptInv
  <1>1. CASE FinishClose
    BY <1>1 DEF FinishClose, PromptInv, OwnWork, BoundJoinsNothing, JoinedIsSaved, BindingIsSidecar,
       NoZombieDirectory, Asked, JoinedAnswers
  <1>2. CASE FinishSwitch \/ FinishTrash
    <2>1. cmds = <<>> /\ job = None
      BY <1>2 DEF FinishSwitch, FinishTrash, ReleaseWaitEnds, Acknowledged
    <2>2. ui.next \in Sessions /\ Adopt(ui.next, nextGen + 1, <<>>)
      BY <1>2, <2>1 DEF FinishSwitch, FinishTrash, TypeInv, TypeOK, Waits, Idle, Closing, Switching, Trashing
    <2>3. UNCHANGED <<upd, job, sidecar>>
      BY <1>2 DEF FinishSwitch, FinishTrash
    <2>4. NoZombieDirectory'
      <3>1. dir' = dir \/ dir' = [dir EXCEPT ![ui.closing] = "absent"]
        BY <1>2 DEF FinishSwitch, FinishTrash
      <3> QED
        BY <1>t, <3>1 DEF NoZombieDirectory
    <2>5. \A i \in JoinedAnswers' : upd'[i].gen # nextGen + 1
      <3>1. \A i \in JoinedAnswers' : upd'[i].gen \in AnsweredGens
        BY <2>3 DEF JoinedAnswers, AnsweredGens
      <3>2. \A g \in AnsweredGens : g \in Nat /\ g <= nextGen
        BY <1>t, GensAreNumbers DEF InOrder
      <3>3. \A g \in Nat : g <= nextGen => g # nextGen + 1
        BY <1>t
      <3> QED
        BY <3>1, <3>2, <3>3
    <2> QED
      BY <1>t, <2>1, <2>2, <2>3, <2>4, <2>5, AdoptPrompt
  <1> QED
    BY <1>1, <1>2 DEF Resume

LEMMA FoldPrompt ==
    ASSUME TypeInv, AnswerInv, InOrder, PromptInv, Folds
    PROVE  PromptInv'
  <1> USE DEF work, chan, app, disk
  <1> DEFINE u == Head(upd)
  <1>t. /\ TypeOK /\ upd \in Seq(Update) /\ sess \in Sessions
        /\ OwnWork /\ BoundJoinsNothing /\ JoinedIsSaved /\ BindingIsSidecar /\ NoZombieDirectory
    BY DEF TypeInv, TypeOK, PromptInv
  <1>1. /\ upd # <<>> /\ upd' = Tail(upd)
        /\ UNCHANGED <<sess, nextGen, job, dir, sidecar>>
    BY DEF Folds, FoldStale, FoldAdvanced, FoldDone, FoldJoined, FoldOpened, Fold
  <1>2. /\ \A i \in DOMAIN upd' : i + 1 \in DOMAIN upd /\ upd'[i] = upd[i + 1]
        /\ u = upd[1] /\ 1 \in DOMAIN upd /\ u \in Update
    BY <1>t, <1>1, TailFacts
  <1>3. JoinedIsSaved'
    <2>1. \A i \in JoinedAnswers' : i + 1 \in JoinedAnswers /\ upd'[i] = upd[i + 1]
      BY <1>2 DEF JoinedAnswers
    <2> QED
      BY <1>t, <1>1, <2>1 DEF JoinedIsSaved
  <1>4. \/ cmds' = cmds
        \/ \E c \in Command : c.op # "Join" /\ c.session = sess /\ cmds' = Append(cmds, c)
    <2>1. CASE FoldAdvanced
      <3>1. place.gen = u.gen /\ cmds' = Append(cmds, Resync(sess, place.gen))
        BY <2>1 DEF FoldAdvanced, Current
      <3>2. Resync(sess, place.gen) \in Command /\ Resync(sess, place.gen).op # "Join"
            /\ Resync(sess, place.gen).session = sess
        BY <1>t, <1>2, <3>1, UpdateParts DEF Resync, Command
      <3> QED
        BY <3>1, <3>2
    <2> QED
      BY <2>1 DEF Folds, FoldStale, FoldDone, FoldJoined, FoldOpened
  <1>5. OwnWork'
    BY <1>t, <1>1, <1>4, OwnSent DEF OwnWork
  \* A binding comes on screen with a join that is in and the newest there is.
  <1>6. \/ place'.binding \in {None, place.binding}
        \/ /\ u.op = "Joined" /\ u.result = "Ok" /\ u.session = sess /\ u.gen = place.gen
           /\ place'.binding = u.place /\ cmds' = cmds
    <2>1. CASE FoldJoined
      BY <2>1 DEF FoldJoined, Fold, Current, JoinedState, Failed, Offline
    <2>2. CASE FoldStale \/ FoldAdvanced \/ FoldDone \/ FoldOpened
      BY <2>2 DEF FoldStale, FoldAdvanced, FoldDone, FoldOpened, DoneState, OpenedState, Offline, Degraded
    <2> QED
      BY <2>1, <2>2 DEF Folds
  <1>7. CASE place'.binding \in {None, place.binding}
    <2>1. BoundJoinsNothing'
      BY <1>t, <1>1, <1>4, <1>7, NoJoinSent DEF BoundJoinsNothing
    <2> QED
      BY <1>t, <1>1, <1>3, <1>5, <1>7, <2>1 DEF PromptInv, BindingIsSidecar, NoZombieDirectory
  <1>8. CASE /\ u.op = "Joined" /\ u.result = "Ok" /\ u.session = sess /\ u.gen = place.gen
             /\ place'.binding = u.place /\ cmds' = cmds
    <2>1. /\ place.gen = nextGen
          /\ \A i \in DOMAIN cmds : cmds[i].op \notin Openers
          /\ job # None => job.step \in AuthorSteps
      BY <1>1, <1>8, CurrentIsNewest
    <2>2. sidecar[sess] \in {u.place, Lost}
      BY <1>t, <1>2, <1>8, <2>1 DEF JoinedIsSaved, JoinedAnswers
    <2>3. BindingIsSidecar'
      BY <1>1, <1>8, <2>2 DEF BindingIsSidecar
    <2>4. BoundJoinsNothing'
      BY <1>1, <1>8, <2>1 DEF BoundJoinsNothing
    <2> QED
      BY <1>t, <1>1, <1>3, <1>5, <2>3, <2>4 DEF PromptInv, NoZombieDirectory
  <1> QED
    BY <1>6, <1>7, <1>8

\* A step of the worker that leaves place.json alone.
LEMMA WorkPrompt ==
    ASSUME TypeOK, PromptInv, UNCHANGED <<sess, place, nextGen, dir, sidecar>>,
           \/ cmds' = cmds
           \/ cmds # <<>> /\ cmds' = Tail(cmds),
           job' # None =>
             /\ job'.session = sess
             /\ place.binding # None => job'.step \notin JoinSteps
             /\ job'.step \in {"reopen", "dial"} => sidecar[sess] = job'.place,
           \/ upd' = upd
           \/ \E u : Answer(u) /\ (u.op = "Joined" /\ u.result = "Ok" => sidecar[sess] = u.place)
    PROVE  PromptInv'
  <1>t. upd \in Seq(Update)
    BY DEF TypeOK
  <1>1. OwnWork'
    BY OwnSent DEF PromptInv, OwnWork
  <1>2. BoundJoinsNothing'
    BY NoJoinSent DEF PromptInv, BoundJoinsNothing
  <1>3. JoinedIsSaved'
    <2>1. CASE upd' = upd
      BY <2>1 DEF PromptInv, JoinedIsSaved, JoinedAnswers
    <2>2. ASSUME NEW u, Answer(u), u.op = "Joined" /\ u.result = "Ok" => sidecar[sess] = u.place
          PROVE  JoinedIsSaved'
      <3>1. \A i \in DOMAIN upd' : upd'[i] = u \/ (i \in DOMAIN upd /\ upd'[i] = upd[i])
        BY <1>t, <2>2 DEF Answer
      <3>2. \A i \in JoinedAnswers' : (i \in JoinedAnswers /\ upd'[i] = upd[i])
                                      \/ sidecar[sess] = upd'[i].place
        BY <2>2, <3>1 DEF JoinedAnswers
      <3> QED
        BY <3>2 DEF PromptInv, JoinedIsSaved
    <2> QED
      BY <2>1, <2>2
  <1> QED
    BY <1>1, <1>2, <1>3 DEF PromptInv, BindingIsSidecar, NoZombieDirectory

LEMMA WorkerPrompt ==
    ASSUME TypeInv, AnswerInv, AdmissionInv, InOrder, PromptInv, WorkerStep
    PROVE  PromptInv'
  <1> USE DEF work, chan, app, disk
  <1> DEFINE c == Head(cmds)
  <1>t. /\ TypeOK /\ dir \in [Sessions -> {"absent", "kept", "zombie"}]
        /\ OwnWork /\ BoundJoinsNothing /\ JoinedIsSaved /\ BindingIsSidecar /\ NoZombieDirectory
        /\ sidecar \in [Sessions -> Sidecar] /\ sess \in Sessions /\ dir[sess] = "kept"
    BY DEF TypeInv, TypeOK, PromptInv, AdmissionInv, ListedAreKept
  <1>j. job # None => job \in Job /\ job.session = sess
    BY <1>t DEF TypeOK, OwnWork
  <1>a. UNCHANGED <<sess, place, nextGen>>
    BY DEF WorkerStep, OpenCached, BeginJoin, AdmitRefused, AdmitChecked, AdmitCommit, Reopen,
       JoinDone, JoinFails, WorkResync, BeginAuthor, AuthorStore, AuthorDone, WorkRelease
  \* The directory of the session in use is in place, so none is made anew.
  <1>d. job # None => Remade(job.session) = dir
    BY <1>j, <1>t DEF Remade
  <1>p. ASSUME NEW op, Take(op), op # "Release"
        PROVE  c.session = sess /\ (op = "Join" => place.binding = None)
    <2>1. 1 \in DOMAIN cmds /\ c = cmds[1] /\ c.op = op
      BY <1>p, <1>t, TakeFacts, TailFacts
    <2> QED
      BY <1>p, <1>t, <2>1 DEF OwnWork, Asked, BoundJoinsNothing
  <1>q. \A op : Take(op) => cmds # <<>> /\ cmds' = Tail(cmds) /\ job = None
    BY DEF Take
  <1>e. \A op, r, wrote : Err(op, r, wrote).result = "Err"
    BY DEF Err
  <1>1. CASE OpenCached \/ WorkResync
    <2>1. cmds # <<>> /\ cmds' = Tail(cmds) /\ job' = None /\ UNCHANGED <<dir, sidecar>>
      BY <1>1, <1>q DEF OpenCached, WorkResync
    <2>2. \E p, n : Answer(Ok("Opened", c, p, n)) \/ Answer(Err("Opened", c, FALSE))
      BY <1>1 DEF OpenCached, WorkResync
    <2>3. \E u : Answer(u) /\ u.op = "Opened"
      BY <2>2 DEF Ok, Err
    <2> QED
      BY <1>a, <1>t, <2>1, <2>3, WorkPrompt
  <1>2. CASE BeginJoin
    <2>1. Take("Join") /\ UNCHANGED <<upd, dir, sidecar>>
      BY <1>2 DEF BeginJoin
    <2>2. c.session = sess /\ place.binding = None
      BY <1>p, <2>1
    <2>3. job'.session = sess /\ job'.step = "admit"
      BY <1>2, <2>2 DEF BeginJoin
    <2> QED
      BY <1>a, <1>q, <1>t, <2>1, <2>2, <2>3, WorkPrompt
  <1>3. CASE AdmitRefused
    <2>1. /\ job # None /\ UNCHANGED cmds /\ job' = None
          /\ Answer(Err("Joined", job, FALSE))
      BY <1>3 DEF AdmitRefused
    <2>2. \/ UNCHANGED <<dir, sidecar>>
          \/ job.step = "commit" /\ dir' = dir /\ sidecar' = [sidecar EXCEPT ![sess] = Lost]
      BY <1>3, <1>d, <1>j, <2>1 DEF AdmitRefused
    <2>3. CASE UNCHANGED <<dir, sidecar>>
      BY <1>a, <1>e, <1>t, <2>1, <2>3, WorkPrompt
    <2>4. CASE job.step = "commit" /\ dir' = dir /\ sidecar' = [sidecar EXCEPT ![sess] = Lost]
      <3>1. place.binding = None
        BY <1>t, <2>1, <2>4 DEF BoundJoinsNothing
      <3>2. JoinedIsSaved'
        BY <1>a, <1>t, <2>1, <2>4 DEF JoinedIsSaved
      <3>3. OwnWork' /\ BoundJoinsNothing' /\ BindingIsSidecar' /\ NoZombieDirectory'
        BY <1>a, <1>t, <2>1, <2>4, <3>1
           DEF OwnWork, BoundJoinsNothing, BindingIsSidecar, NoZombieDirectory, Asked
      <3> QED
        BY <3>2, <3>3 DEF PromptInv
    <2> QED
      BY <2>2, <2>3, <2>4
  <1>4. CASE AdmitChecked
    <2>1. /\ job # None /\ UNCHANGED <<upd, cmds, dir, sidecar>> /\ job.step = "admit"
          /\ job'.session = sess /\ job'.step = "commit"
      BY <1>4, <1>j DEF AdmitChecked, Job
    <2>2. place.binding = None
      BY <1>t, <2>1 DEF BoundJoinsNothing
    <2> QED
      BY <1>a, <1>t, <2>1, <2>2, WorkPrompt
  \* No join that was answered before is the newest one.
  <1>5. CASE AdmitCommit
    <2>1. /\ job # None /\ UNCHANGED <<upd, cmds>> /\ job.step = "commit"
          /\ job'.session = sess /\ job'.step = "reopen" /\ job'.place = job.place
          /\ sidecar' = [sidecar EXCEPT ![sess] = job.place] /\ dir' = dir
      BY <1>5, <1>d, <1>j DEF AdmitCommit, Job
    <2>2. place.binding = None
      BY <1>t, <2>1 DEF BoundJoinsNothing
    <2>3. \A i \in JoinedAnswers : upd[i].gen # nextGen
      <3>1. \A i \in JoinedAnswers : upd[i].gen \in AnsweredGens
        BY DEF JoinedAnswers, AnsweredGens
      <3>2. job.gen \in HeldGens
        BY <2>1 DEF HeldGens
      <3>3. \A g \in AnsweredGens : g \in Nat /\ g < job.gen
        BY <1>t, <2>1, GensAreNumbers DEF InOrder, Before
      <3>4. job.gen \in Nat /\ job.gen <= nextGen /\ nextGen \in Nat
        BY <1>t, <3>2, GensAreNumbers DEF InOrder
      <3>5. \A g \in Nat : g < job.gen => g # nextGen
        BY <3>4
      <3> QED
        BY <3>1, <3>3, <3>5
    <2>4. JoinedIsSaved'
      BY <1>a, <1>t, <2>1, <2>3 DEF JoinedIsSaved, JoinedAnswers
    <2>5. OwnWork' /\ BoundJoinsNothing' /\ BindingIsSidecar' /\ NoZombieDirectory'
      BY <1>a, <1>t, <2>1, <2>2 DEF OwnWork, BoundJoinsNothing, BindingIsSidecar, NoZombieDirectory, Asked
    <2> QED
      BY <2>4, <2>5 DEF PromptInv
  <1>6. CASE Reopen
    <2>1. /\ job # None /\ UNCHANGED <<upd, cmds, dir, sidecar>> /\ job.step = "reopen"
          /\ job'.session = sess /\ job'.step = "dial" /\ job'.place = job.place
      BY <1>6, <1>j DEF Reopen, Job
    <2>2. place.binding = None /\ sidecar[sess] = job.place
      BY <1>j, <1>t, <2>1 DEF BoundJoinsNothing, JoinedIsSaved
    <2> QED
      BY <1>a, <1>t, <2>1, <2>2, WorkPrompt
  <1>7. CASE JoinDone
    <2>1. /\ job # None /\ UNCHANGED <<cmds, dir, sidecar>> /\ job.step = "dial" /\ job' = None
          /\ Answer(Ok("Joined", job, job.place, job.facts))
      BY <1>7 DEF JoinDone
    <2>2. sidecar[sess] = job.place
      BY <1>j, <1>t, <2>1 DEF JoinedIsSaved
    <2>3. \E u : Answer(u) /\ u.place = job.place
      BY <2>1 DEF Ok
    <2> QED
      BY <1>a, <1>t, <2>1, <2>2, <2>3, WorkPrompt
  <1>8. CASE JoinFails \/ AuthorDone
    <2>1. UNCHANGED <<cmds, dir, sidecar>> /\ job' = None
      BY <1>8 DEF JoinFails, AuthorDone
    <2>2. \E u : Answer(u) /\ (u.op # "Joined" \/ u.result # "Ok")
      <3>1. CASE JoinFails
        BY <1>e, <3>1 DEF JoinFails
      <3>2. CASE AuthorDone
        <4>1. \A p, n : Ok("Done", job, p, n).op = "Done"
          BY DEF Ok
        <4>2. \/ \E p, n : Answer(Ok("Done", job, p, n))
              \/ \E wrote : Answer(Err("Done", job, wrote))
          BY <3>2 DEF AuthorDone
        <4> QED
          BY <1>e, <4>1, <4>2
      <3> QED
        BY <1>8, <3>1, <3>2
    <2> QED
      BY <1>a, <1>t, <2>1, <2>2, WorkPrompt
  <1>9. CASE BeginAuthor
    <2>1. Take("Author") /\ UNCHANGED <<dir, sidecar>>
      BY <1>9 DEF BeginAuthor
    <2>2. c.session = sess
      BY <1>p, <2>1
    <2>3. \/ Answer(Err("Done", c, FALSE)) /\ job' = None
          \/ UNCHANGED upd /\ job'.step = "author" /\ job'.session = sess
      <3>1. CASE Answer(Err("Done", c, FALSE)) /\ UNCHANGED job
        BY <1>q, <2>1, <3>1
      <3>2. CASE /\ UNCHANGED upd
                 /\ job' = [step |-> "author", session |-> c.session, gen |-> c.gen,
                            place |-> live.place, facts |-> 0]
        BY <2>2, <3>2
      <3> QED
        BY <1>9, <3>1, <3>2 DEF BeginAuthor
    <2> QED
      BY <1>a, <1>e, <1>q, <1>t, <2>1, <2>3, WorkPrompt
  <1>10. CASE AuthorStore
    <2>1. /\ UNCHANGED <<upd, cmds, dir, sidecar>>
          /\ job'.session = sess /\ job'.step = "publish"
      BY <1>10, <1>j DEF AuthorStore, Job
    <2> QED
      BY <1>a, <1>t, <2>1, WorkPrompt
  <1>11. CASE WorkRelease
    <2>1. UNCHANGED <<upd, dir, sidecar>> /\ job' = None /\ cmds # <<>> /\ cmds' = Tail(cmds)
      BY <1>11, <1>q DEF WorkRelease
    <2> QED
      BY <1>a, <1>t, <2>1, WorkPrompt
  <1> QED
    BY <1>1, <1>2, <1>3, <1>4, <1>5, <1>6, <1>7, <1>8, <1>9, <1>10, <1>11 DEF WorkerStep

LEMMA PromptStep ==
    ASSUME ~ AckTimeouts
    PROVE  TypeInv /\ AnswerInv /\ AdmissionInv /\ ViewInv /\ PromptInv /\ [Next]_vars => PromptInv'
  <1> SUFFICES ASSUME TypeInv, AnswerInv, AdmissionInv, InOrder, PromptInv, [Next]_vars
               PROVE  PromptInv'
    BY DEF ViewInv
  <1>t. TypeOK /\ NoZombieDirectory
    BY DEF TypeInv, PromptInv
  <1>1. CASE UNCHANGED vars
    BY <1>1 DEF vars, app, chan, work, disk, PromptInv, OwnWork, BoundJoinsNothing, JoinedIsSaved,
       BindingIsSidecar, NoZombieDirectory, Asked, JoinedAnswers
  <1>2. CASE Arrive \/ Nudge
    <2>1. UNCHANGED <<sess, place, nextGen, dir, sidecar, cmds, job>>
      BY <1>2 DEF Arrive, Nudge, app, disk, chan
    <2>2. \/ upd' = upd
          \/ \E u : Answer(u) /\ u.op = "Advanced"
      BY <1>2 DEF Arrive, Nudge, chan
    <2>3. job' # None =>
            /\ job'.session = sess
            /\ place.binding # None => job'.step \notin JoinSteps
            /\ job'.step \in {"reopen", "dial"} => sidecar[sess] = job'.place
      BY <2>1 DEF PromptInv, OwnWork, BoundJoinsNothing, JoinedIsSaved
    <2> QED
      BY <1>t, <2>1, <2>2, <2>3, WorkPrompt
  <1>3. CASE Restart
    <2>1. /\ Adopt(sess, 1, <<>>) /\ upd' = <<>> /\ job' = None /\ UNCHANGED <<dir, sidecar>>
      BY <1>3 DEF Restart, Boot, disk
    <2>2. sess \in Sessions /\ 1 \in Generation /\ NoZombieDirectory' /\ JoinedAnswers' = {}
      BY <1>t, <2>1 DEF TypeOK, NoZombieDirectory, JoinedAnswers
    <2> QED
      BY <1>t, <2>1, <2>2, AdoptPrompt
  <1> QED
    BY <1>1, <1>2, <1>3, IntentPrompt, ResumePrompt, FoldPrompt, WorkerPrompt DEF Next

LEMMA AllStep == IInv /\ [Next]_vars => IInv'
  <1>1. ~ AckTimeouts /\ IInv /\ [Next]_vars => PromptInv'
    BY PromptStep DEF IInv
  <1> QED
    BY <1>1, TypeStep, AnswerStep, AdmissionStep, ViewStep DEF IInv

\* The layers together: the inductive invariant the run place_slow checks holds
\* of every behaviour, for any number of sessions and places.
THEOREM Invariance == Spec => []IInv
  <1>1. Init => IInv
    BY TypeInit, AnswerInit, AdmissionInit, ViewInit, PromptInit DEF IInv
  <1> QED
    BY <1>1, AllStep, PTL DEF Spec

\* While every Release is acknowledged in time place.json names the binding the
\* app holds, or is missing because a write of it failed, restarts included: no
\* routine save replaces an admitted place by an older one
\* (session_lifecycle.rs, worker.rs, session.rs).
THEOREM BindingsAreSaved ==
    ASSUME ~ AckTimeouts
    PROVE  Spec => []BindingIsSidecar
  <1>1. IInv => BindingIsSidecar
    BY DEF IInv, PromptInv
  <1> QED
    BY Invariance, <1>1, PTL

\* ... and no join makes a session directory anew while it is in the trash.
THEOREM TrashedStayAway ==
    ASSUME ~ AckTimeouts
    PROVE  Spec => []NoZombieDirectory
  <1>1. IInv => NoZombieDirectory
    BY DEF IInv, PromptInv
  <1> QED
    BY Invariance, <1>1, PTL

=============================================================================
