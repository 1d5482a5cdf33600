---------------------------- MODULE MCRecycleBin ----------------------------
(***************************************************************************)
(* Instances of RecycleBin for TLC.                                        *)
(***************************************************************************)
EXTENDS RecycleBin, TLC

\* The store and the process may fail at any step, and nobody waits.
Faulty == [faults |-> {"open", "record", "clear", "list", "crash"},
           prompt |-> FALSE, patient |-> FALSE, nodes |-> 1]
\* Nothing fails, the user does not wait for the bin but the close path does.
Slow == [faults |-> {}, prompt |-> FALSE, patient |-> TRUE, nodes |-> 2]
\* The user waits as well.
Awaited == [faults |-> {}, prompt |-> TRUE, patient |-> TRUE, nodes |-> 3]
\* The user waits, stores fail to open and to record, and a close does not wait.
Refused == [faults |-> {"open", "record"}, prompt |-> TRUE, patient |-> FALSE, nodes |-> 2]

AllEnvironments == {Faulty, Slow, Awaited, Refused}
SlowEnvironment == {Slow}

\* Neither nodes nor sessions are told apart by the code.
Symmetry == Permutations(Node) \cup Permutations(Session)

=============================================================================
