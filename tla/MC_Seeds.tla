------------------------------ MODULE MC_Seeds ------------------------------
(***************************************************************************)
(* Small instances of Seeds for TLC; the values are in the cfg files.      *)
(***************************************************************************)
EXTENDS Seeds, TLC

\* Boxes are interchangeable.
BoxSymmetry == Permutations(Boxes)

=============================================================================
