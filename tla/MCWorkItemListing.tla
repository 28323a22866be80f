------------------------- MODULE MCWorkItemListing -------------------------
(***************************************************************************)
(* Instances of WorkItemListing for TLC.                                   *)
(***************************************************************************)
EXTENDS WorkItemListing, TLC

MCSymmetry == Permutations(Creators)
=============================================================================
