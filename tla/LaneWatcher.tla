----------------------------- MODULE LaneWatcher -----------------------------
(***************************************************************************)
(* How an operation of a peer reaches the screen while a place is live     *)
(* (place/lanes.rs, with its ends in place/worker.rs and app/updates.rs).  *)
(*                                                                         *)
(* Lanes drain what peers send into the stores of the open place and count *)
(* it.  A watcher task samples the counters every 250 ms; when they moved  *)
(* and then held still for another tick it nudges the app, the app asks    *)
(* the worker to fold the stores again, and the answer is shown: a new     *)
(* snapshot, or the place Degraded because the stores could not be folded. *)
(* Four actors: lanes, watcher, worker, app.  One place, joined once and   *)
(* left open; PlaceLifecycle has joins and releases that overtake one      *)
(* another.                                                                *)
(*                                                                         *)
(* An operation is stored and counted in one step: both are the lane's,    *)
(* outside this repository.  Time is the interleaving: any number of       *)
(* operations, or none, arrive between two samples.                        *)
(***************************************************************************)
EXTENDS Integers, Sequences

CONSTANT MaxOps   \* bound: operations peers send

VARIABLES
    phase,      \* of the worker's join: reopen, dial, live
    stored,     \* operations drained into the stores of the place
    joined,     \* the snapshot the join will answer with
    watcher,    \* the task: where it is, the total it settled on, its sample
    updates,    \* answers and nudges on their way to the app
    resyncs,    \* Resync commands on their way to the worker
    shown       \* App.place: what the answer folded last made of it

vars == <<phase, stored, joined, watcher, updates, resyncs, shown>>

\* An answer, and the place it makes the app show: Offline with a snapshot, or
\* Degraded.  count is what the stores held when they were folded, or could
\* not be.
Nudge == [kind |-> "PlaceLanesAdvanced", count |-> 0]
Snapshot(n) == [kind |-> "Offline", count |-> n]
Refusal(n) == [kind |-> "Degraded", count |-> n]
Answer == [kind : {"Offline", "Degraded"}, count : Nat]
Update == {Nudge} \cup Answer

TypeOK ==
    /\ phase \in {"reopen", "dial", "live"}
    /\ stored \in 0..MaxOps
    /\ joined \in Nat
    /\ watcher \in [at : {"off", "start", "tick", "burst"}, settled : Nat, now : Nat]
    /\ updates \in Seq(Update)
    /\ resyncs \in Nat
    /\ shown \in Answer

-----------------------------------------------------------------------------
\* The lanes run from the dial on.
Arrive ==
    /\ phase \in {"dial", "live"}
    /\ stored < MaxOps
    /\ stored' = stored + 1
    /\ UNCHANGED <<phase, joined, watcher, updates, resyncs, shown>>

\* The worker executing Join: fold, dial, start the watcher, answer.
Reopen ==
    /\ phase = "reopen"
    /\ joined' = stored
    /\ phase' = "dial"
    /\ UNCHANGED <<stored, watcher, updates, resyncs, shown>>

JoinLive ==
    /\ phase = "dial"
    /\ phase' = "live"
    /\ watcher' = [watcher EXCEPT !.at = "start"]
    /\ updates' = Append(updates, Snapshot(joined))
    /\ UNCHANGED <<stored, joined, resyncs, shown>>

\* The worker executing Resync: place_snapshot may fail.
Resync ==
    /\ phase = "live" /\ resyncs > 0
    /\ resyncs' = resyncs - 1
    /\ \E answer \in {Snapshot(stored), Refusal(stored)} :
          updates' = Append(updates, answer)
    /\ UNCHANGED <<phase, stored, joined, watcher, shown>>

\* The watcher: its baseline is whatever it finds first ...
FirstLook ==
    /\ watcher.at = "start"
    /\ watcher' = [at |-> "tick", settled |-> stored, now |-> stored]
    /\ UNCHANGED <<phase, stored, joined, updates, resyncs, shown>>

\* ... a tick later it looks whether the total moved ...
Look ==
    /\ watcher.at = "tick"
    /\ stored # watcher.settled
    /\ watcher' = [watcher EXCEPT !.at = "burst", !.now = stored]
    /\ UNCHANGED <<phase, stored, joined, updates, resyncs, shown>>

\* Mutant: a burst that still grows counts as settled, too.
SettleGrowing ==
    /\ watcher.at = "burst"
    /\ watcher' = [watcher EXCEPT !.at = "tick", !.settled = stored]
    /\ updates' = IF stored = watcher.now THEN Append(updates, Nudge) ELSE updates
    /\ UNCHANGED <<phase, stored, joined, resyncs, shown>>

\* ... and another tick later whether it has stopped growing.
Settle ==
    /\ watcher.at = "burst"
    /\ \/ /\ stored # watcher.now
          /\ watcher' = [watcher EXCEPT !.at = "tick"]
          /\ UNCHANGED updates
       \/ /\ stored = watcher.now
          /\ watcher' = [watcher EXCEPT !.at = "tick", !.settled = stored]
          /\ updates' = Append(updates, Nudge)
    /\ UNCHANGED <<phase, stored, joined, resyncs, shown>>

\* The app folds one update at a time.
Fold ==
    /\ updates # <<>>
    /\ updates' = Tail(updates)
    /\ \/ /\ Head(updates) = Nudge
          /\ resyncs' = resyncs + 1
          /\ UNCHANGED shown
       \/ /\ Head(updates) # Nudge
          /\ shown' = Head(updates)
          /\ UNCHANGED resyncs
    /\ UNCHANGED <<phase, stored, joined, watcher>>

Init ==
    /\ phase = "reopen"
    /\ stored = 0
    /\ joined = 0
    /\ watcher = [at |-> "off", settled |-> 0, now |-> 0]
    /\ updates = <<>>
    /\ resyncs = 0
    /\ shown = Snapshot(0)

Worker == Reopen \/ JoinLive \/ Resync
Watcher == FirstLook \/ Look \/ Settle

Next == Arrive \/ Worker \/ Watcher \/ Fold

Spec == Init /\ [][Next]_vars

\* The worker loop, the sampling task and the app, which is woken by every
\* update, keep going.  Nobody makes peers send.
Fairness == WF_vars(Worker) /\ WF_vars(Watcher) /\ WF_vars(Fold)

FairSpec == Spec /\ Fairness

-----------------------------------------------------------------------------
\* What arrives on the watcher's watch gets to the screen, in however many
\* bursts and whatever the watcher, the worker and the app were doing: the app
\* comes to show a snapshot that holds the operation, or a Degraded place
\* because the stores could not be folded when they held it.  Nothing that had
\* arrived is left to a nudge that never comes.
WatchedArrivalsAreShown ==
    \A n \in 1..MaxOps :
        (watcher.at \in {"tick", "burst"} /\ watcher.settled < n /\ stored >= n)
            ~> shown.count >= n

=============================================================================
