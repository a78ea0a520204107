--------------------------- MODULE MCForgeChanges --------------------------
(* ForgeChanges on small lists. *)
EXTENDS ForgeChanges
===========================================================================
