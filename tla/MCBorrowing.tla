---------------------------- MODULE MCBorrowing ----------------------------
(***************************************************************************)
(* A small instance of FocusBorrowing for TLC.                             *)
(***************************************************************************)
EXTENDS FocusBorrowing, TLC

Symmetry == Permutations(Surfaces)
=============================================================================
