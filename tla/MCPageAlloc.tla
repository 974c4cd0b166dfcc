---------------------------- MODULE MCPageAlloc ----------------------------
(* Instances of PageAlloc for TLC.                                         *)
EXTENDS PageAlloc, TLC

HolderSymmetry == Permutations(Holders)
=============================================================================
