------------------------ MODULE MCWorkItemHierarchy ------------------------
(***************************************************************************)
(* Instances of WorkItemHierarchy for TLC.                                 *)
(***************************************************************************)
EXTENDS WorkItemHierarchy, TLC

MCSymmetry == Permutations(Items) \cup Permutations(Clients)
=============================================================================
