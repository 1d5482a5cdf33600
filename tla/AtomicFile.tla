----------------------------- MODULE AtomicFile -----------------------------
(***************************************************************************)
(* What a sidecar file is meant to be: a value that a save replaces in one *)
(* step or, when it fails or the process dies, not at all.                 *)
(***************************************************************************)
CONSTANTS Values, None

VARIABLES
    value,     \* what a reader finds, None when there is no file
    pending    \* what is being saved, None when nothing is

Init == value = None /\ pending = None

Begin == pending = None /\ pending' \in Values /\ UNCHANGED value

Commit == pending # None /\ value' = pending /\ pending' = None

Abort == pending # None /\ pending' = None /\ UNCHANGED value

Next == Begin \/ Commit \/ Abort

Spec == Init /\ [][Next]_<<value, pending>>

=============================================================================
