---------------------------- MODULE MCMembership ----------------------------
(* Instances of Membership for TLC. *)
EXTENDS Membership, TLC

\* Requests and invitations are told apart only by what they hold.
Symmetry == Permutations(Requests) \cup Permutations(Invitations)
=============================================================================
