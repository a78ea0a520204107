--------------------------- MODULE MCCrInventory ---------------------------
(* Instances of CrInventory for TLC.                                        *)
EXTENDS CrInventory
=============================================================================
