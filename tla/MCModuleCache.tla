--------------------------- MODULE MCModuleCache ---------------------------
(* Instances of ModuleCache for TLC. *)
EXTENDS ModuleCache
=============================================================================
