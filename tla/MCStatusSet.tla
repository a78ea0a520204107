---------------------------- MODULE MCStatusSet ----------------------------
(* Instances of StatusSet for TLC.                                          *)
EXTENDS StatusSet, TLC

ContextSymmetry == Permutations(Contexts)
=============================================================================
