------------------------ MODULE MCIdempotentOpen ---------------------------
(* Instances of IdempotentOpen for TLC.                                     *)
EXTENDS IdempotentOpen, TLC

TargetSymmetry == Permutations(Targets)
=============================================================================
