---------------------------- MODULE WorkItemBoard ----------------------------
(***************************************************************************)
(* What the work-item API promises of one work item, with no concurrency   *)
(* in it: the item changes only by moves along the status machine and by   *)
(* edits that leave the status alone, each of them one atomic step that    *)
(* starts from the item as it is and raises its row_version by one.  The   *)
(* audit trail (work_item_status_history) holds the creation and every     *)
(* move, in order.  WorkItem, the handlers as they are written, is checked *)
(* and proved to implement this module.                                    *)
(***************************************************************************)
EXTENDS Kanban, Integers, Sequences

CONSTANT Titles    \* contents of the columns an edit may set freely

VARIABLES
  item,    \* the row: status, row_version, blocked_reason, resolution, title
  trail    \* the status history, oldest first: pairs <<from, to>>

boardVars == <<item, trail>>

Row == [status : Status, version : Nat \ {0}, reason : Text, resolution : Text, title : Titles]

Created == "created"   \* from_status IS NULL in the row the creation writes

Init ==
  /\ item \in [status : Status, version : {1}, reason : Text, resolution : Text, title : Titles]
  /\ ValidFields(item.status, item.reason, item.resolution)
  /\ trail = << <<Created, item.status>> >>

Move(to) ==
  /\ CanTransitionStatus(item.status, to)
  /\ \E reason, resolution \in Text :
       /\ ValidFields(to, reason, resolution)
       /\ item' = [status |-> to, version |-> item.version + 1,
                   reason |-> IF to = "Blocked" THEN reason ELSE item.reason,
                   resolution |-> IF to = "Done" THEN resolution ELSE item.resolution,
                   title |-> item.title]
  /\ trail' = Append(trail, <<item.status, to>>)

Edit ==
  /\ \E title \in Titles, reason, resolution \in Text :
       /\ ValidFields(item.status, reason, resolution)
       /\ item' = [status |-> item.status, version |-> item.version + 1,
                   reason |-> reason, resolution |-> resolution, title |-> title]
  /\ UNCHANGED trail

Next == (\E to \in Status : Move(to)) \/ Edit

Spec == Init /\ [][Next]_boardVars

-----------------------------------------------------------------------------

\* The type of the two variables.
TypeOK ==
  /\ item \in Row
  /\ trail \in Seq((Status \cup {Created}) \X Status)

\* The trail is the life of the item: it starts with the creation, each entry
\* leaves from where the one before it arrived, by a transition of the status
\* machine, and the last one arrives at the status the row holds.
AuditTrail ==
  /\ Len(trail) >= 1
  /\ trail[1][1] = Created
  /\ trail[Len(trail)][2] = item.status
  /\ \A k \in 1 .. Len(trail) - 1 :
       /\ trail[k + 1][1] = trail[k][2]
       /\ CanTransitionStatus(trail[k + 1][1], trail[k + 1][2])

\* A Blocked item says why it is blocked and a Done item how it was resolved.
StatusHasItsReason == ValidFields(item.status, item.reason, item.resolution)
=============================================================================
