-------------------------- MODULE MCPlaceLifecycle --------------------------
(***************************************************************************)
(* Instances of PlaceLifecycle for TLC.                                    *)
(***************************************************************************)
EXTENDS PlaceInvariant, TLC

\* Sessions and places are only compared.  Not for liveness.
Symmetry == Permutations(Sessions) \cup Permutations(Places)

=============================================================================
