------------------------------- MODULE Kanban -------------------------------
(***************************************************************************)
(* The status machine of a work item and the rules that tie a status to    *)
(* the text it needs, shared by the abstract board (WorkItemBoard) and by  *)
(* the request handlers that implement it (WorkItem).                      *)
(*                                                                         *)
(* An optional text column is one of three abstract values: SQL NULL, a    *)
(* text of white space only, and a text with something in it.              *)
(***************************************************************************)

Status == {"Backlog", "Ready", "In Progress", "In Review", "Blocked", "Done", "Canceled"}

Allowed ==
       {"Backlog"}     \X {"Ready", "Canceled"}
  \cup {"Ready"}       \X {"In Progress", "Blocked", "Canceled"}
  \cup {"In Progress"} \X {"In Review", "Blocked", "Ready", "Canceled"}
  \cup {"In Review"}   \X {"Done", "In Progress", "Blocked", "Canceled"}
  \cup {"Blocked"}     \X {"Ready", "In Progress", "Canceled"}

CanTransitionStatus(from, to) == from = to \/ <<from, to>> \in Allowed

Text == {"nil", "blank", "text"}

\* strings.TrimSpace of the text leaves something.
Filled(text) == text = "text"

\* The checks ValidateWorkItemFields makes of a status.
ValidFields(status, blockedReason, resolution) ==
  /\ status \in Status
  /\ status = "Blocked" => Filled(blockedReason)
  /\ status = "Done" => Filled(resolution)
=============================================================================
