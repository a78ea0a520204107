---------------------------- MODULE MCWriteGate ----------------------------
(* Instances of WriteGate for TLC.                                          *)
EXTENDS WriteGate, TLC

Symmetry == Permutations(Procs) \cup Permutations(Repos)
=============================================================================
