--------------------------- MODULE MCGraphEditor ---------------------------
(* Instances of GraphEditor for TLC. *)
EXTENDS GraphEditor
=============================================================================
