--------------------------- MODULE MCMergeExecute --------------------------
(* Instances of MergeExecute for TLC.                                       *)
EXTENDS MergeExecute, TLC

ClientSymmetry == Permutations(Clients)
=============================================================================
