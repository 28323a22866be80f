----------------------------- MODULE MCWorkItem -----------------------------
(***************************************************************************)
(* Instances of WorkItem for TLC.                                          *)
(***************************************************************************)
EXTENDS WorkItem, TLC

CONSTANTS u1, u2

\* Everybody acts as u1.
MCOneActor == [r \in Requests |-> u1]

\* The transitions are sent by u1, the updates by u2.
MCTwoActors == [r \in Requests |-> IF r \in Transitions THEN u1 ELSE u2]

MCRowIn(statuses, texts) ==
  {new \in [status : statuses, version : {1}, reason : texts, resolution : texts, title : Titles] :
     ValidFields(new.status, new.reason, new.resolution)}

\* Any status, with the text that it needs and no other.
MCPlainRow ==
  {new \in MCRowIn(Status, {"nil", "text"}) :
     /\ new.status # "Blocked" => new.reason = "nil"
     /\ new.status # "Done" => new.resolution = "nil"}

\* An item in the middle of the board.
MCReadyRow == MCRowIn({"Ready"}, {"nil"})

MCSymmetry == Permutations(Transitions) \cup Permutations(Updates)
=============================================================================
