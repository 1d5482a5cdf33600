---------------------------- MODULE MCSessionStore ----------------------------
(***************************************************************************)
(* Instances of SessionStore for TLC.                                      *)
(***************************************************************************)
EXTENDS SessionStore, TLC

\* Sessions are not told apart by the code.
Symmetry == Permutations(Session)

=============================================================================
