----------------------- MODULE WorkItemHierarchyProofs -----------------------
(***************************************************************************)
(* Proofs about WorkItemHierarchy, for any number of items and clients:    *)
(* a cycle of parents closes only when two PATCH requests race.            *)
(*                                                                         *)
(* The argument.  A request whose check is not stale moves i under p while *)
(* a set A that is closed upward holds p and not i.  If after the move     *)
(* some set S had the parent of each of its members, S \cap A would have   *)
(* had that before the move, because i, the only row that changes, is not  *)
(* in A; so S and A are disjoint, p is not in S, i is not in S either, and *)
(* S itself had it before the move.                                        *)
(***************************************************************************)
EXTENDS WorkItemHierarchy, TLAPS

LEMMA InitTypeOK == Init => TypeOK
BY DEF Init, TypeOK, Steps

LEMMA FinishType ==
  ASSUME TypeOK, NEW c \in Clients, NEW answer \in Answers, Finish(c, answer)
  PROVE  pc' \in [Clients -> Steps] /\ patch' \in [Clients -> Patches \cup {None}]
BY DEF TypeOK, Finish, Steps

LEMMA NextTypeOK == TypeOK /\ Validated /\ [Next]_vars => TypeOK'
<1> SUFFICES ASSUME TypeOK, Validated, [Next]_vars PROVE TypeOK'
  OBVIOUS
<1>1. ASSUME NEW i \in Items, NEW p \in Items \cup {None}, Create(i, p) PROVE TypeOK'
  BY <1>1 DEF TypeOK, Create
<1>2. ASSUME NEW c \in Clients, NEW answer \in Answers, Refuse(c, answer) PROVE TypeOK'
  BY <1>2, FinishType DEF TypeOK, Refuse
<1>3. ASSUME NEW c \in Clients, Read(c) PROVE TypeOK'
  <2> PICK i \in live, to \in Items \cup {None}, base \in Nat \ {0} :
        patch' = [patch EXCEPT ![c] = [item |-> i, to |-> to, base |-> base]]
    <3>1. PICK i \in live, to \in Items \cup {None} : \E base \in 1 .. version[i] :
            patch' = [patch EXCEPT ![c] = [item |-> i, to |-> to, base |-> base]]
      BY <1>3 DEF Read
    <3>2. 1 .. version[i] \subseteq Nat \ {0}
      BY DEF TypeOK
    <3> QED
      BY <3>1, <3>2
  <2>1. base \in Nat \ {0} /\ i \in Items
    BY DEF TypeOK
  <2>2. [item |-> i, to |-> to, base |-> base] \in Patches
    BY <2>1 DEF Patches
  <2>3. patch' \in [Clients -> Patches \cup {None}]
    BY <2>2 DEF TypeOK
  <2> QED
    BY <1>3, <2>3 DEF Read, TypeOK, Steps
<1>4. ASSUME NEW c \in Clients, CheckParent(c) PROVE TypeOK'
  <2>1. CASE Refuse(c, "rejected")
    BY <1>2, <2>1 DEF Answers
  <2>2. CASE pc' = [pc EXCEPT ![c] = "checked"] /\ UNCHANGED <<live, parent, version, patch, raced>>
    BY <2>2 DEF TypeOK, Steps
  <2> QED
    BY <1>4, <2>1, <2>2 DEF CheckParent
<1>5. ASSUME NEW c \in Clients, Commit(c) PROVE TypeOK'
  <2>1. CASE Refuse(c, "conflict")
    BY <1>2, <2>1 DEF Answers
  <2>2. CASE Write(c)
    <3>1. patch[c] \in Patches
      BY <1>5 DEF Commit, Validated, InFlight
    <3>2. parent' \in [Items -> Items \cup {None}]
      BY <2>2, <3>1 DEF Write, Patches, TypeOK
    <3>3. version' \in [Items -> Nat \ {0}]
      BY <2>2, <3>1 DEF Write, Patches, TypeOK
    <3>4. pc' \in [Clients -> Steps] /\ patch' \in [Clients -> Patches \cup {None}]
      BY <2>2, FinishType DEF Write, Answers
    <3> QED
      BY <2>2, <3>2, <3>3, <3>4 DEF Write, TypeOK
  <2> QED
    BY <1>5, <2>1, <2>2 DEF Commit
<1>6. ASSUME NEW c \in Clients, Abandon(c) PROVE TypeOK'
  BY <1>2, <1>6 DEF Abandon, Answers
<1>7. CASE UNCHANGED vars
  BY <1>7 DEF TypeOK, vars
<1> QED
  BY <1>1, <1>3, <1>4, <1>5, <1>6, <1>7 DEF Next

(***************************************************************************)
(* The walk up the parents                                                 *)
(***************************************************************************)

\* A new row, which is nobody's parent yet, is above none of the old ones.
LEMMA CreationKeepsAbove ==
  ASSUME TypeOK, ParentsExist, NEW n \in Items, NEW q, Create(n, q),
         NEW p \in live, NEW i \in live, ~CycleFound(parent, i, p)
  PROVE  ~CycleFound(parent', i, p)
<1>1. PICK A \in SUBSET Items : p \in A /\ ClosedUpward(parent, A) /\ i \notin A
  BY DEF CycleFound, Above, TypeOK
<1> DEFINE B == A \cap live
<1>2. B \in SUBSET Items /\ p \in B /\ i \notin B
  BY <1>1 DEF TypeOK
<1>3. ClosedUpward(parent', B)
  BY <1>1 DEF ClosedUpward, ParentsExist, Create, TypeOK
<1> QED
  BY <1>2, <1>3 DEF CycleFound, Above

\* Nor does the new row lead into an endless walk.
LEMMA CreationKeepsForest ==
  ASSUME TypeOK, ParentsExist, NEW n \in Items, NEW q, Create(n, q), NoParentCycle
  PROVE  NoParentCycle'
<1> SUFFICES ASSUME NEW j \in Items, NEW S \in SUBSET Items, j \in S, \A i \in S : parent'[i] \in S
             PROVE  FALSE
  BY DEF NoParentCycle, Endless
<1> DEFINE B == S \ {n}
<1>1. \A i \in B : parent[i] \in B
  BY NoneAssumption DEF ParentsExist, Create, TypeOK
<1>2. B = {}
  BY <1>1 DEF NoParentCycle, Endless
<1>3. S = {n} /\ parent'[n] = n
  BY <1>2
<1> QED
  BY <1>3, NoneAssumption DEF Create, TypeOK

\* To move an item under one that it is not above closes no cycle.
LEMMA MoveKeepsForest ==
  ASSUME NEW f \in [Items -> Items \cup {None}], NEW i \in Items, NEW p \in Items \cup {None},
         \A j \in Items : ~Endless(f, j),
         p # None => p # i /\ ~CycleFound(f, i, p)
  PROVE  \A j \in Items : ~Endless([f EXCEPT ![i] = p], j)
<1> DEFINE g == [f EXCEPT ![i] = p]
<1> SUFFICES ASSUME NEW j \in Items, NEW S \in SUBSET Items, j \in S, \A k \in S : g[k] \in S
             PROVE  FALSE
  BY DEF Endless
<1>1. \A k \in Items : k # i => g[k] = f[k]
  OBVIOUS
<1>2. ASSUME i \notin S PROVE FALSE
  <2>1. \A k \in S : f[k] \in S
    BY <1>1, <1>2
  <2> QED
    BY <2>1 DEF Endless
<1>3. ASSUME i \in S PROVE FALSE
  <2>1. p \in S /\ p # None
    BY <1>3, NoneAssumption
  <2>2. PICK A \in SUBSET Items : p \in A /\ ClosedUpward(f, A) /\ i \notin A
    BY <2>1 DEF CycleFound, Above
  <2>3. \A k \in S \cap A : f[k] \in S \cap A
    BY <1>1, <2>2, NoneAssumption DEF ClosedUpward
  <2>4. p \in S \cap A
    BY <2>1, <2>2
  <2> QED
    BY <2>1, <2>3, <2>4 DEF Endless
<1> QED
  BY <1>2, <1>3

(***************************************************************************)
(* The inductive invariant                                                 *)
(***************************************************************************)

LEMMA InitValidated == Init => Validated
BY DEF Init, Validated, ParentsExist, InFlight

LEMMA RefuseValidated ==
  ASSUME TypeOK, Validated, NEW c \in Clients, NEW answer \in Answers, Refuse(c, answer)
  PROVE  Validated'
<1> USE DEF Refuse, Finish
<1>1. \A d \in Clients : d # c => pc'[d] = pc[d] /\ patch'[d] = patch[d]
  BY DEF TypeOK
<1>2. pc'[c] = answer /\ c \notin InFlight'
  BY DEF TypeOK, InFlight, Answers
<1>3. ParentsExist'
  BY DEF Validated, ParentsExist
<1>4. \A d \in InFlight' : d \in InFlight /\ d # c
  BY <1>1, <1>2 DEF InFlight
<1>5. \A d \in InFlight' : patch'[d] \in Patches /\ patch'[d].item \in live'
  BY <1>1, <1>4 DEF Validated, InFlight
<1>6. ASSUME NEW d \in InFlight', pc'[d] = "checked" PROVE CheckHolds(d)'
  <2>1. CheckHolds(d) /\ patch'[d] = patch[d]
    BY <1>1, <1>4, <1>6 DEF Validated, InFlight
  <2>2. d \in raced => d \in raced'
    BY <1>4
  <2> QED
    BY <2>1, <2>2 DEF CheckHolds
<1>7. raced' \subseteq {d \in Clients : pc'[d] = "checked"}
  BY <1>1 DEF Validated
<1> QED
  BY <1>3, <1>5, <1>6, <1>7 DEF Validated

LEMMA NextValidated == TypeOK /\ Validated /\ [Next]_vars => Validated'
<1> SUFFICES ASSUME TypeOK, Validated, [Next]_vars PROVE Validated'
  OBVIOUS
<1>1. ASSUME NEW i \in Items, NEW p \in Items \cup {None}, Create(i, p) PROVE Validated'
  <2> USE <1>1 DEF Create
  <2>1. ParentsExist'
    BY NoneAssumption DEF Validated, ParentsExist, TypeOK
  <2>2. InFlight' = InFlight /\ live \subseteq live'
    BY DEF InFlight
  <2>3. \A c \in InFlight : patch'[c] \in Patches /\ patch'[c].item \in live'
    BY <2>2 DEF Validated
  <2>4. ASSUME NEW c \in InFlight, pc[c] = "checked" PROVE CheckHolds(c)'
    <3>1. CheckHolds(c) /\ patch[c].item \in live
      BY <2>4 DEF Validated
    <3>2. ParentsExist
      BY DEF Validated
    <3> QED
      BY <3>1, <3>2, CreationKeepsAbove DEF CheckHolds
  <2>5. raced' \subseteq {c \in Clients : pc'[c] = "checked"}
    BY DEF Validated
  <2> QED
    BY <2>1, <2>2, <2>3, <2>4, <2>5 DEF Validated
<1>2. ASSUME NEW c \in Clients, Read(c) PROVE Validated'
  <2> USE <1>2 DEF Read
  <2> PICK i \in live, to \in Items \cup {None}, base \in Nat \ {0} :
        patch' = [patch EXCEPT ![c] = [item |-> i, to |-> to, base |-> base]]
    <3>1. PICK i \in live, to \in Items \cup {None} : \E base \in 1 .. version[i] :
            patch' = [patch EXCEPT ![c] = [item |-> i, to |-> to, base |-> base]]
      OBVIOUS
    <3>2. 1 .. version[i] \subseteq Nat \ {0}
      BY DEF TypeOK
    <3> QED
      BY <3>1, <3>2
  <2>1. \A d \in Clients : d # c => pc'[d] = pc[d] /\ patch'[d] = patch[d]
    BY DEF TypeOK
  <2>2. pc'[c] = "read" /\ patch'[c] = [item |-> i, to |-> to, base |-> base]
    BY DEF TypeOK
  <2>3. patch'[c] \in Patches /\ patch'[c].item \in live'
    BY <2>2 DEF TypeOK, Patches
  <2>4. \A d \in InFlight' : d = c \/ d \in InFlight
    BY <2>1 DEF InFlight
  <2>5. ParentsExist'
    BY DEF Validated, ParentsExist
  <2>6. \A d \in InFlight' : patch'[d] \in Patches /\ patch'[d].item \in live'
    BY <2>1, <2>3, <2>4 DEF Validated, InFlight
  <2>7. \A d \in InFlight' : pc'[d] = "checked" => CheckHolds(d)'
    <3> SUFFICES ASSUME NEW d \in InFlight', pc'[d] = "checked" PROVE CheckHolds(d)'
      OBVIOUS
    <3>1. d # c /\ d \in InFlight /\ CheckHolds(d) /\ patch'[d] = patch[d]
      BY <2>1, <2>2, <2>4 DEF Validated, InFlight
    <3> QED
      BY <3>1 DEF CheckHolds
  <2>8. raced' \subseteq {d \in Clients : pc'[d] = "checked"}
    BY <2>1 DEF Validated, Answers
  <2> QED
    BY <2>5, <2>6, <2>7, <2>8 DEF Validated
<1>3. ASSUME NEW c \in Clients, CheckParent(c) PROVE Validated'
  <2>1. CASE Refuse(c, "rejected")
    BY <2>1, RefuseValidated DEF Answers
  <2>2. CASE ~Refuse(c, "rejected")
    <3>1. /\ pc[c] = "read" /\ pc' = [pc EXCEPT ![c] = "checked"]
          /\ UNCHANGED <<live, parent, version, patch, raced>>
          /\ patch[c].to # None => ~ParentRefused(patch[c].item, patch[c].to)
      BY <1>3, <2>2 DEF CheckParent
    <3>2. InFlight' = InFlight /\ \A d \in Clients : d # c => pc'[d] = pc[d]
      BY <3>1 DEF TypeOK, InFlight
    <3>3. ParentsExist'
      BY <3>1 DEF Validated, ParentsExist
    <3>4. \A d \in InFlight' : patch'[d] \in Patches /\ patch'[d].item \in live'
      BY <3>1, <3>2 DEF Validated
    <3>5. CheckHolds(c)'
      BY <3>1 DEF CheckHolds, ParentRefused
    <3>6. \A d \in InFlight' : pc'[d] = "checked" => CheckHolds(d)'
      BY <3>1, <3>2, <3>5 DEF Validated, CheckHolds, InFlight
    <3>7. raced' \subseteq {d \in Clients : pc'[d] = "checked"}
      BY <3>1, <3>2 DEF Validated, TypeOK
    <3> QED
      BY <3>3, <3>4, <3>6, <3>7 DEF Validated
  <2> QED
    BY <2>1, <2>2
<1>4. ASSUME NEW c \in Clients, Commit(c) PROVE Validated'
  <2>1. CASE Refuse(c, "conflict")
    BY <2>1, RefuseValidated DEF Answers
  <2>2. CASE Write(c)
    <3> USE <2>2 DEF Write, Finish
    <3>1. pc[c] = "checked" /\ patch[c] \in Patches /\ patch[c].item \in live /\ CheckHolds(c)
      BY <1>4 DEF Commit, Validated, InFlight
    <3>2. ParentsExist'
      BY <3>1 DEF Validated, ParentsExist, CheckHolds, TypeOK
    <3>3. \A d \in Clients : d # c => pc'[d] = pc[d] /\ patch'[d] = patch[d]
      BY DEF TypeOK
    <3>4. c \notin InFlight' /\ pc'[c] = "ok"
      BY DEF TypeOK, InFlight
    <3>5. \A d \in InFlight' : d # c /\ d \in InFlight
      BY <3>3, <3>4 DEF InFlight
    <3>6. \A d \in InFlight' : patch'[d] \in Patches /\ patch'[d].item \in live'
      BY <3>3, <3>5 DEF Validated, InFlight
    <3>7. ASSUME NEW d \in InFlight', pc'[d] = "checked" PROVE CheckHolds(d)'
      <4>1. d \in raced' /\ CheckHolds(d) /\ patch'[d] = patch[d]
        BY <3>3, <3>5, <3>7 DEF Validated, InFlight
      <4> QED
        BY <4>1 DEF CheckHolds
    <3>8. raced' \subseteq {d \in Clients : pc'[d] = "checked"}
      BY <3>3
    <3> QED
      BY <3>2, <3>6, <3>7, <3>8 DEF Validated
  <2> QED
    BY <1>4, <2>1, <2>2 DEF Commit
<1>5. ASSUME NEW c \in Clients, Abandon(c) PROVE Validated'
  BY <1>5, RefuseValidated DEF Abandon, Answers
<1>6. CASE UNCHANGED vars
  BY <1>6 DEF Validated, ParentsExist, InFlight, CheckHolds, vars
<1> QED
  BY <1>1, <1>2, <1>3, <1>4, <1>5, <1>6 DEF Next

\* Every check that no later commit made stale still holds, and every parent
\* is an item that exists.
THEOREM ChecksStayValid == Spec => []Validated
<1>1. Init => TypeOK /\ Validated
  BY InitTypeOK, InitValidated
<1>2. TypeOK /\ Validated /\ [Next]_vars => (TypeOK /\ Validated)'
  BY NextTypeOK, NextValidated
<1> QED
  BY <1>1, <1>2, PTL DEF Spec

\* Every variable keeps its type.
THEOREM TypeCorrect == Spec => []TypeOK
BY ChecksStayValid, InitTypeOK, NextTypeOK, PTL DEF Spec

(***************************************************************************)
(* Cycles                                                                  *)
(***************************************************************************)

LEMMA StepKeepsForest ==
  ASSUME TypeOK, Validated, [Next]_vars, NoParentCycle, ~NoParentCycle'
  PROVE  \E c \in raced : pc[c] = "checked" /\ pc'[c] = "ok"
<1>1. ASSUME NEW i \in Items, NEW p \in Items \cup {None}, Create(i, p) PROVE FALSE
  BY <1>1, CreationKeepsForest DEF Validated
<1>2. ASSUME parent' = parent PROVE FALSE
  BY <1>2 DEF NoParentCycle, Endless
<1>3. ASSUME NEW c \in Clients, Commit(c), Write(c)
      PROVE  c \in raced /\ pc[c] = "checked" /\ pc'[c] = "ok"
  <2>1. pc[c] = "checked" /\ pc'[c] = "ok"
    BY <1>3 DEF Commit, Write, Finish, TypeOK
  <2>2. patch[c] \in Patches /\ CheckHolds(c)
    BY <2>1 DEF Validated, InFlight
  <2>3. ASSUME c \notin raced PROVE FALSE
    <3>1. patch[c].item \in Items /\ patch[c].to \in Items \cup {None}
      BY <2>2 DEF Patches
    <3>2. patch[c].to # None =>
            patch[c].to # patch[c].item /\ ~CycleFound(parent, patch[c].item, patch[c].to)
      BY <2>2, <2>3 DEF CheckHolds
    <3>3. parent \in [Items -> Items \cup {None}] /\ \A j \in Items : ~Endless(parent, j)
      BY DEF TypeOK, NoParentCycle
    <3>4. \A j \in Items : ~Endless([parent EXCEPT ![patch[c].item] = patch[c].to], j)
      BY <3>1, <3>2, <3>3, MoveKeepsForest
    <3> QED
      BY <1>3, <3>4 DEF Write, NoParentCycle
  <2> QED
    BY <2>1, <2>3
<1>4. ASSUME NEW c \in Clients,
             Read(c) \/ CheckParent(c) \/ Abandon(c) \/ (Commit(c) /\ ~Write(c))
      PROVE  FALSE
  BY <1>2, <1>4 DEF Read, CheckParent, Abandon, Commit, Refuse
<1>5. CASE UNCHANGED vars
  BY <1>2, <1>5 DEF vars
<1> QED
  BY <1>1, <1>3, <1>4, <1>5 DEF Next

\* A cycle of parents appears only when a PATCH commits whose check another
\* commit made stale: one writer at a time keeps the hierarchy a forest.
THEOREM OnlyRacesCloseCycles == Spec => CyclesNeedARace
<1>1. TypeOK /\ Validated /\ [Next]_vars
        => [NoParentCycle /\ ~NoParentCycle' =>
              \E c \in raced : pc[c] = "checked" /\ pc'[c] = "ok"]_vars
  BY StepKeepsForest
<1> QED
  BY <1>1, TypeCorrect, ChecksStayValid, PTL DEF Spec, CyclesNeedARace
=============================================================================
