-------------------------- MODULE WorkItemHierarchy --------------------------
(***************************************************************************)
(* The parents of the work items of one project.  An item is created under *)
(* a parent that exists, and PATCH /api/work-items/{key} moves it under    *)
(* another one after a query that walks up from the new parent and looks   *)
(* for the item itself.                                                    *)
(*                                                                         *)
(* The query and the UPDATE are two statements of one READ COMMITTED       *)
(* transaction, and the query locks nothing: between them another PATCH    *)
(* may commit.  The row_version that guards the UPDATE is that of the item *)
(* alone, not of the ancestors that were walked.                           *)
(***************************************************************************)
EXTENDS Integers

CONSTANTS
  Items,      \* the ids that work items may get
  None,       \* SQL NULL: no parent
  Clients,    \* each with one PATCH /api/work-items/{key} at a time
  MaxVersion  \* bound: a PATCH that could raise a row_version above it is not sent

ASSUME NoneAssumption == None \notin Items
ASSUME MaxVersionAssumption == MaxVersion \in Nat

VARIABLES
  live,      \* the items that exist (none is ever deleted)
  parent,    \* work_items.parent_id
  version,   \* work_items.row_version
  pc,        \* how far the handler for each client has come
  patch,     \* the item, the parent_id after the merge, the row_version sent
  raced      \* history: the clients whose check a later commit made stale

vars == <<live, parent, version, pc, patch, raced>>

Answers == {"ok", "conflict", "rejected"}

Steps == {"new", "read", "checked"} \cup Answers

-----------------------------------------------------------------------------
(***************************************************************************)
(* The recursive query, without recursion: p and what is above p is the    *)
(* least set that holds p and the parent of each of its members.           *)
(***************************************************************************)

ClosedUpward(f, S) == \A i \in S : f[i] # None => f[i] \in S

Above(f, p) == {a \in Items : \A S \in SUBSET Items : p \in S /\ ClosedUpward(f, S) => a \in S}

\* The walk up from p comes to no root: the UNION ALL goes round for ever.
Endless(f, p) == \E S \in SUBSET Items : p \in S /\ \A i \in S : f[i] \in S

-----------------------------------------------------------------------------

Init ==
  /\ live = {}
  /\ parent = [i \in Items |-> None]
  /\ version = [i \in Items |-> 1]
  /\ pc = [c \in Clients |-> "new"]
  /\ patch = [c \in Clients |-> None]
  /\ raced = {}

\* Insert: a row with a new id, under a parent that exists or under none.
Create(i, p) ==
  /\ i \notin live
  /\ p \in live \cup {None}
  /\ live' = live \cup {i}
  /\ parent' = [parent EXCEPT ![i] = p]
  /\ UNCHANGED <<version, pc, patch, raced>>

\* Execute: FindByKey, then the parent in the request or none (cleared) or, when
\* the request says neither, the parent just read, which is one of these too.
Read(c) ==
  /\ pc[c] \in {"new"} \cup Answers
  /\ pc' = [pc EXCEPT ![c] = "read"]
  /\ \E i \in live, to \in Items \cup {None} : \E base \in 1 .. version[i] :
       /\ base < MaxVersion
       /\ patch' = [patch EXCEPT ![c] = [item |-> i, to |-> to, base |-> base]]
  /\ UNCHANGED <<live, parent, version, raced>>

\* The request is over, and what its handler knew is forgotten.
Finish(c, answer) ==
  /\ pc' = [pc EXCEPT ![c] = answer]
  /\ patch' = [patch EXCEPT ![c] = None]

Refuse(c, answer) ==
  /\ Finish(c, answer)
  /\ raced' = raced \ {c}
  /\ UNCHANGED <<live, parent, version>>

\* Mutant: only the parent itself is compared with the item.
CycleFoundParentOnly(f, i, p) == f[p] = i

\* The query finds the item among the ancestors of its new parent.
CycleFound(f, i, p) == i \in Above(f, p)

\* Mutant: the parent need not exist in the project.
ParentRefusedAnywhere(i, p) == p = i \/ CycleFound(parent, i, p)

\* Update's checks of a parent: another item, of the same project, not below.
ParentRefused(i, p) == p = i \/ p \notin live \/ CycleFound(parent, i, p)

\* The reference checks of Update.  While the walk goes round without meeting
\* the item the query does not return, and the handler with it.
CheckParent(c) ==
  /\ pc[c] = "read"
  /\ LET i == patch[c].item
         p == patch[c].to
     IN  IF p # None /\ ParentRefused(i, p)
         THEN Refuse(c, "rejected")
         ELSE /\ p # None => ~Endless(parent, p)
              /\ pc' = [pc EXCEPT ![c] = "checked"]
              /\ UNCHANGED <<live, parent, version, patch, raced>>

\* The UPDATE of the row that is found, and the COMMIT.
Write(c) ==
  /\ Finish(c, "ok")
  /\ parent' = [parent EXCEPT ![patch[c].item] = patch[c].to]
  /\ version' = [version EXCEPT ![patch[c].item] = @ + 1]
  /\ raced' = {d \in Clients \ {c} : pc[d] = "checked"}
  /\ UNCHANGED live

\* Mutant: a PATCH that lost its race is not answered.
CommitStuck(c) == pc[c] = "checked" /\ version[patch[c].item] = patch[c].base /\ Write(c)

\* The UPDATE is guarded by the row_version of the item.
Commit(c) ==
  /\ pc[c] = "checked"
  /\ IF version[patch[c].item] = patch[c].base THEN Write(c) ELSE Refuse(c, "conflict")

\* The client goes away or the database fails: an error of the ancestor query
\* is answered as a cycle, any other as a failure.
Abandon(c) == pc[c] \in {"read", "checked"} /\ Refuse(c, "rejected")

Next ==
  \/ \E i \in Items, p \in Items \cup {None} : Create(i, p)
  \/ \E c \in Clients : Read(c) \/ CheckParent(c) \/ Commit(c) \/ Abandon(c)

Spec == Init /\ [][Next]_vars

\* A handler goes on as soon as the database answers it.
Fairness == \A c \in Clients : WF_vars(CheckParent(c) \/ Commit(c))

FairSpec == Spec /\ Fairness

-----------------------------------------------------------------------------
(***************************************************************************)
(* Properties                                                              *)
(***************************************************************************)

Patches == [item : Items, to : Items \cup {None}, base : Nat \ {0}]

\* The type of the variables.
TypeOK ==
  /\ live \in SUBSET Items
  /\ parent \in [Items -> Items \cup {None}]
  /\ version \in [Items -> Nat \ {0}]
  /\ pc \in [Clients -> Steps]
  /\ patch \in [Clients -> Patches \cup {None}]
  /\ raced \in SUBSET Clients

\* docs: "Cycle hierarchy ditolak" (a cycle of the hierarchy is rejected).
NoParentCycle == \A i \in Items : ~Endless(parent, i)

\* One PATCH alone never closes a cycle, nor does a creation: where a cycle
\* appears, another PATCH committed between the ancestor query and the UPDATE
\* of the one that closes it.
CyclesNeedARace ==
  [][NoParentCycle /\ ~NoParentCycle' =>
       \E c \in raced : pc[c] = "checked" /\ pc'[c] = "ok"]_vars

\* As long as no cycle has formed, every PATCH is answered.
AnsweredWithoutCycles ==
  [](NoParentCycle) => \A c \in Clients : pc[c] = "read" ~> pc[c] \in Answers

-----------------------------------------------------------------------------
(***************************************************************************)
(* The inductive invariant                                                 *)
(***************************************************************************)

\* A parent is an item that exists.
ParentsExist == \A i \in Items : parent[i] # None => {i, parent[i]} \subseteq live

\* A check holds good until another PATCH commits.
CheckHolds(c) ==
  LET p == patch[c].to
  IN  p # None => p # patch[c].item /\ p \in live /\ (c \in raced \/ ~CycleFound(parent, patch[c].item, p))

InFlight == {c \in Clients : pc[c] \in {"read", "checked"}}

\* Whoever is about to write has a parent that exists, is another item and, unless
\* overtaken since the query, is not below the item: a check is never undone by
\* anything but another PATCH's commit.
Validated ==
  /\ ParentsExist
  /\ \A c \in InFlight : patch[c] \in Patches /\ patch[c].item \in live
  /\ \A c \in InFlight : pc[c] = "checked" => CheckHolds(c)
  /\ raced \subseteq {c \in Clients : pc[c] = "checked"}
=============================================================================
