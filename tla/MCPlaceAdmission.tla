-------------------------- MODULE MCPlaceAdmission --------------------------
(***************************************************************************)
(* Instances of PlaceAdmission for TLC.                                    *)
(***************************************************************************)
EXTENDS PlaceAdmission, TLC

\* Guests are only compared.
Symmetry == Permutations(Guests)

=============================================================================
