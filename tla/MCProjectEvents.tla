-------------------------- MODULE MCProjectEvents --------------------------
(* Instances of ProjectEvents for TLC. *)
EXTENDS ProjectEvents
=============================================================================
