---------------------------- MODULE MC_Registry ----------------------------
(***************************************************************************)
(* Registry with two admins for TLC.  They are alike, so states that differ*)
(* by swapping them are one; sound for the invariants of this instance.    *)
(***************************************************************************)
EXTENDS Registry, TLC

AdminSymmetry == Permutations(Admins)

=============================================================================
