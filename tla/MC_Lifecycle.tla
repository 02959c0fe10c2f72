---------------------------- MODULE MC_Lifecycle ----------------------------
(***************************************************************************)
(* Small instances of Lifecycle for TLC; the values are in the cfg files.  *)
(***************************************************************************)
EXTENDS Lifecycle, TLC

\* The invocations of `up` are interchangeable.
UpSymmetry == Permutations(Ups)

=============================================================================
