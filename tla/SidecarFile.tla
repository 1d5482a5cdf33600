----------------------------- MODULE SidecarFile -----------------------------
(***************************************************************************)
(* The write protocol of the session sidecars: an adjacent temporary file  *)
(* that is renamed over the target.  frame.json and windows.json           *)
(* (panes/store.rs) are renamed over; place.json and projection-score.json *)
(* (session.rs) have the old target removed first.  Every file system call *)
(* may fail, and the process may die between any two of them.              *)
(*                                                                         *)
(* One writer at a time: sidecars are saved on the UI thread, and the      *)
(* worker writes place.json of a session that has no binding on screen.    *)
(***************************************************************************)
CONSTANTS
    Values,         \* contents of a file
    None,           \* no file
    Torn            \* a file cut short

ASSUME SidecarFileAssumption ==
    /\ None \notin Values
    /\ Torn \notin Values
    /\ None # Torn

VARIABLES
    file,     \* the sidecar of this behaviour
    target,   \* its contents
    tmp,      \* the temporary file next to it
    writer    \* the save under way: how far it is, and what it writes

vars == <<file, target, tmp, writer>>

\* windows.json is written as frame.json is.
Sidecars == {"frame.json", "place.json", "projection-score.json"}
\* The protocol of session.rs.
RemovesFirst == file # "frame.json"

File == Values \cup {None, Torn}
Steps == {"begun", "writing", "written", "cleared"}
Idle == [at |-> "idle", value |-> None]
Writing(v) == [at |-> "begun", value |-> v]

TypeOK ==
    /\ file \in Sidecars
    /\ target \in File
    /\ tmp \in File
    /\ writer \in {Idle} \cup [at : Steps, value : Values]

-----------------------------------------------------------------------------
\* save_place_binding at admission, save_projection_score, save_frisket_layout,
\* save_lens_spaces.
Save(v) ==
    /\ writer = Idle
    /\ writer' = Writing(v)
    /\ UNCHANGED <<file, target, tmp>>

\* update_place_binding, of a routine save: only over a file that is there.
Update(v) ==
    /\ file = "place.json"
    /\ writer = Idle
    /\ target # None
    /\ writer' = Writing(v)
    /\ UNCHANGED <<file, target, tmp>>

At(step) == writer.at = step
GoOn(step) == writer' = [writer EXCEPT !.at = step]

\* Mutant: the target is opened for writing.
OpenTarget ==
    /\ At("begun")
    /\ target' = Torn
    /\ tmp' = Torn
    /\ GoOn("writing")
    /\ UNCHANGED file

\* fs::write truncates the temporary file ...
OpenTmp ==
    /\ At("begun")
    /\ tmp' = Torn
    /\ GoOn("writing")
    /\ UNCHANGED <<file, target>>

\* ... and fills it.
FillTmp ==
    /\ At("writing")
    /\ tmp' = writer.value
    /\ GoOn("written")
    /\ UNCHANGED <<file, target>>

RemoveTarget ==
    /\ RemovesFirst
    /\ At("written")
    /\ target' = None
    /\ GoOn("cleared")
    /\ UNCHANGED <<file, tmp>>

\* Mutant: the rename does not wait for the contents.
RenameEarly ==
    /\ At("writing")
    /\ target' = tmp
    /\ tmp' = None
    /\ writer' = Idle
    /\ UNCHANGED file

\* Mutant: the writer forgets to let go.
RenameHolding ==
    /\ At(IF RemovesFirst THEN "cleared" ELSE "written")
    /\ target' = tmp
    /\ tmp' = None
    /\ writer' = [writer EXCEPT !.at = "idle"]
    /\ UNCHANGED file

Rename ==
    /\ At(IF RemovesFirst THEN "cleared" ELSE "written")
    /\ target' = tmp
    /\ tmp' = None
    /\ writer' = Idle
    /\ UNCHANGED file

\* Any of the calls fails.  session.rs removes the temporary file, or tries
\* to; panes/store.rs leaves it.
Fail ==
    /\ writer # Idle
    /\ \/ RemovesFirst /\ tmp' = None
       \/ UNCHANGED tmp
    /\ writer' = Idle
    /\ UNCHANGED <<file, target>>

Crash ==
    /\ writer # Idle
    /\ writer' = Idle
    /\ UNCHANGED <<file, target, tmp>>

Init ==
    /\ file \in Sidecars
    /\ target = None
    /\ tmp = None
    /\ writer = Idle

Next ==
    \/ \E v \in Values : Save(v)
    \/ \E v \in Values : Update(v)
    \/ OpenTmp
    \/ FillTmp
    \/ RemoveTarget
    \/ Rename
    \/ Fail
    \/ Crash

Spec == Init /\ [][Next]_vars

-----------------------------------------------------------------------------
\* A reader never finds a sidecar that was cut short, whatever failed and
\* whatever an earlier save left behind.
NeverTorn == target # Torn

(* The sidecar as an atomic file: a save shows when it is renamed.           *)

Pending == writer.value

File1 == INSTANCE AtomicFile WITH value <- target, pending <- Pending

\* "write it atomically (tmp + rename)" (panes/store.rs): a save of the frame
\* replaces the contents in one step or leaves them as they were.
RenamesAtomically ==
    [][file = "frame.json" => File1!Next]_<<target, Pending>>

=============================================================================
