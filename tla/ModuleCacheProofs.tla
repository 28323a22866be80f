-------------------------- MODULE ModuleCacheProofs --------------------------
(***************************************************************************)
(* Proofs about ModuleCache, for any number of saves, readers, publishers  *)
(* and restorers.                                                          *)
(*                                                                         *)
(* The argument.  What a request has read, and no commit has overtaken, is *)
(* what the database holds (Fresh), so that whoever stores it stores the   *)
(* present graph.  As long as no save has outlived its lock, a save in its *)
(* transaction holds the lock (LockHeld), so that what it has looked at is *)
(* what it changes, and the tables have no edge without its ends           *)
(* (EdgesAtNodes).  The versions have no gaps and nobody holds a number    *)
(* beyond the next one (Numbered): the version that an insertion adds is   *)
(* the next.                                                               *)
(***************************************************************************)
EXTENDS ModuleCache, FiniteSetTheorems, TLAPS

Fresh ==
    \A r \in Requests : ~read[r].late =>
        /\ pc[r] \in {"nodesRead", "read"} => read[r].nodes = nodes
        /\ pc[r] = "read" => read[r].edges = edges

LockHeld == ~outlived => \A s \in Saves : InTransaction(s) => lock = s

\* The graph of the tables is whole, and a save that is about to commit knows all of it.
EdgesAtNodes ==
    ~outlived => /\ \A i \in edges : Ends(i) \subseteq nodes
                 /\ \A s \in Saves : pc[s] = "validated" => Old \in nodes /\ edges \subseteq read[s].edges

\* The next version, and the one that a request has allocated.
Numbered ==
    /\ NextVersion \in Nat /\ DOMAIN baselines = 1 .. (NextVersion - 1)
    /\ \A v \in DOMAIN baselines : baselines[v] \in Baseline
    /\ \A r \in Publishers \cup Restorers : chosen[r] <= NextVersion
    /\ \A r \in Requests : pc[r] = "allocated" => r \in Publishers \cup Restorers /\ chosen[r] > 0

Inv == TypeOK /\ Fresh /\ LockHeld /\ EdgesAtNodes /\ Numbered /\ StaleNeedsARace /\ TornNeedsARace

-----------------------------------------------------------------------------
(* Types.                                                                  *)

LEMMA InitTypeOK == Init => TypeOK
<1> SUFFICES ASSUME Init PROVE TypeOK
  OBVIOUS
<1>1. nodes \in SUBSET Items /\ edges \in SUBSET Items
  BY DEF Init, Items
<1>2. pc \in [Requests -> Points] /\ read \in [Requests -> Graph]
  BY DEF Init, Points, Graph, Nothing
<1>3. lock \in Saves \cup {Free} /\ cache \in Graph \cup {Miss} /\ unheard \in BOOLEAN /\ outlived \in BOOLEAN
  BY DEF Init
<1>4. chosen \in [Publishers \cup Restorers -> Nat] /\ faults \in 0 .. MaxFaults
  BY RequestsAssumption DEF Init
<1> QED
  BY <1>1, <1>2, <1>3, <1>4 DEF TypeOK

LEMMA GotoFields ==
    ASSUME TypeOK, NEW r \in Requests, NEW p \in Points, Goto(r, p)
    PROVE  /\ pc' \in [Requests -> Points]
           /\ pc'[r] = p
           /\ \A q \in Requests : q # r => pc'[q] = pc[q]
BY DEF TypeOK, Goto

LEMMA FaultTyped == ASSUME TypeOK, Fault PROVE faults' \in 0 .. MaxFaults
BY RequestsAssumption DEF TypeOK, Fault

LEMMA ReadNodesFields ==
    ASSUME TypeOK, NEW r \in Requests, ReadNodes(r)
    PROVE  /\ read' \in [Requests -> Graph]
           /\ read'[r].nodes = nodes
           /\ \A q \in Requests : q # r => read'[q] = read[q]
<1> DEFINE g == [nodes |-> nodes, edges |-> {}, late |-> FALSE]
<1>1. g \in Graph /\ g.nodes = nodes
  BY DEF TypeOK, Graph
<1>2. read' = [read EXCEPT ![r] = g]
  BY DEF ReadNodes
<1> HIDE DEF g
<1> QED
  BY <1>1, <1>2 DEF TypeOK

\* What a save finds before its COMMIT.
LEMMA ValidateFields ==
    ASSUME TypeOK, NEW s \in Saves, Validate(s)
    PROVE  /\ s \in Requests
           /\ read' \in [Requests -> Graph]
           /\ read'[s].edges = edges
           /\ \A q \in Requests : q # s => read'[q] = read[q]
<1> DEFINE g == [nodes |-> nodes, edges |-> edges, late |-> FALSE]
<1>1. g \in Graph /\ g.edges = edges
  BY DEF TypeOK, Graph
<1>2. read' = [read EXCEPT ![s] = g] /\ s \in Requests
  BY DEF Validate, Requests
<1> HIDE DEF g
<1> QED
  BY <1>1, <1>2 DEF TypeOK

LEMMA ReadEdgesFields ==
    ASSUME TypeOK, NEW r \in Requests, ReadEdges(r)
    PROVE  /\ read' \in [Requests -> Graph]
           /\ read'[r].edges = edges /\ read'[r].nodes = read[r].nodes /\ read'[r].late = read[r].late
           /\ \A q \in Requests : q # r => read'[q] = read[q]
BY DEF ReadEdges, TypeOK, Graph

\* Reads that are under way are late after a commit, and what they have read stays.
LEMMA OvertakeFields ==
    ASSUME TypeOK, Overtake
    PROVE  /\ read' \in [Requests -> Graph]
           /\ \A q \in Requests :
                 /\ read'[q].nodes = read[q].nodes /\ read'[q].edges = read[q].edges
                 /\ q \in Reading => read'[q].late
                 /\ q \notin Reading => read'[q] = read[q]
BY DEF Overtake, TypeOK, Graph

LEMMA AllocateFields ==
    ASSUME TypeOK, Numbered, NEW r \in Publishers \cup Restorers, Allocate(r)
    PROVE  /\ r \in Requests
           /\ read' \in [Requests -> Graph]
           /\ \A q \in Requests : q # r => read'[q] = read[q]
           /\ \/ r \in Publishers /\ pc[r] = "read" /\ read' = read
              \/ \E v \in DOMAIN baselines : read'[r] = baselines[v].graph
           /\ chosen' \in [Publishers \cup Restorers -> Nat]
           /\ chosen'[r] = NextVersion
           /\ \A q \in Publishers \cup Restorers : q # r => chosen'[q] = chosen[q]
<1>1. r \in Requests
  BY DEF Requests
<1>2. chosen' = [chosen EXCEPT ![r] = NextVersion] /\ NextVersion \in Nat
  BY DEF Allocate, Numbered
<1>3. CASE r \in Publishers /\ pc[r] = "read" /\ UNCHANGED read
  BY <1>1, <1>2, <1>3 DEF TypeOK
<1>4. CASE \E v \in DOMAIN baselines : read' = [read EXCEPT ![r] = baselines[v].graph]
  <2>1. PICK v \in DOMAIN baselines : read' = [read EXCEPT ![r] = baselines[v].graph]
    BY <1>4
  <2>2. baselines[v].graph \in Graph
    BY DEF Numbered, Baseline
  <2> QED
    BY <1>1, <1>2, <2>1, <2>2 DEF TypeOK
<1> QED
  BY <1>3, <1>4 DEF Allocate

LEMMA TypeStep == TypeOK /\ Numbered /\ [Next]_vars => TypeOK'
<1> SUFFICES ASSUME TypeOK, Numbered, [Next]_vars PROVE TypeOK'
  OBVIOUS
<1> USE DEF Points
<1>1. CASE UNCHANGED vars
  BY <1>1 DEF vars, TypeOK
<1>2. ASSUME NEW r \in Requests, ReadNodes(r) PROVE TypeOK'
  BY <1>2, GotoFields, ReadNodesFields DEF ReadNodes, TypeOK
<1>3. ASSUME NEW r \in Requests, ReadEdges(r) PROVE TypeOK'
  BY <1>3, GotoFields, ReadEdgesFields DEF ReadEdges, TypeOK
<1>4. ASSUME NEW r \in Requests, StoreRead(r) PROVE TypeOK'
  <2>1. cache' \in Graph \cup {Miss} /\ unheard' \in BOOLEAN /\ faults' \in 0 .. MaxFaults
    BY <1>4, FaultTyped DEF StoreRead, Store, TypeOK
  <2> QED
    BY <1>4, <2>1, GotoFields DEF StoreRead, TypeOK
<1>5. ASSUME NEW r \in Requests, ReadFails(r) PROVE TypeOK'
  BY <1>5, GotoFields, FaultTyped DEF ReadFails, TypeOK
<1>6. ASSUME NEW r \in Readers, LookUp(r) PROVE TypeOK'
  <2>1. r \in Requests
    BY DEF Requests
  <2>2. pc' \in [Requests -> Points]
    BY <1>6, <2>1, GotoFields DEF LookUp
  <2>3. read' \in [Requests -> Graph]
    BY <1>6, <2>1 DEF LookUp, TypeOK
  <2> QED
    BY <1>6, <2>2, <2>3, FaultTyped DEF LookUp, TypeOK
<1>7. ASSUME NEW s \in Saves, Acquire(s) PROVE TypeOK'
  BY <1>7, GotoFields DEF Acquire, TypeOK, Requests
<1>8. ASSUME NEW s \in Saves, Commit(s) PROVE TypeOK'
  <2>1. nodes' \in SUBSET Items /\ edges' \in SUBSET Items
    BY <1>8 DEF Commit, TypeOK, Items
  <2> QED
    BY <1>8, <2>1, GotoFields, OvertakeFields DEF Commit, TypeOK, Requests
<1>9. ASSUME NEW s \in Saves, Invalidate(s) PROVE TypeOK'
  BY <1>9, GotoFields, FaultTyped DEF Invalidate, TypeOK, Requests
<1>10. ASSUME NEW s \in Saves, Warm(s) PROVE TypeOK'
  <2>1. s \in Requests
    BY DEF Requests
  <2>2. cache' \in Graph \cup {Miss} /\ unheard' \in BOOLEAN /\ faults' \in 0 .. MaxFaults
    BY <1>10, <2>1, FaultTyped DEF Warm, Store, TypeOK
  <2> QED
    BY <1>10, <2>1, <2>2, GotoFields DEF Warm, TypeOK
<1>11. ASSUME NEW r \in Publishers \cup Restorers, Allocate(r) PROVE TypeOK'
  BY <1>11, GotoFields, AllocateFields DEF Allocate, TypeOK
<1>12. ASSUME NEW r \in Publishers \cup Restorers, Insert(r) PROVE TypeOK'
  BY <1>12, GotoFields DEF Insert, TypeOK, Requests
<1>13. CASE Expire
  BY <1>13 DEF Expire, TypeOK
<1>14. CASE LockExpires
  <2>1. outlived' \in BOOLEAN
    BY <1>14 DEF LockExpires, InTransaction, TypeOK
  <2> QED
    BY <1>14, <2>1, FaultTyped DEF LockExpires, TypeOK
<1>15. ASSUME NEW s \in Saves, Validate(s) PROVE TypeOK'
  BY <1>15, GotoFields, ValidateFields DEF Validate, TypeOK
<1>16. ASSUME NEW s \in Saves, Reject(s) PROVE TypeOK'
  BY <1>16, GotoFields DEF Reject, TypeOK, Requests
<1> QED
  BY <1>1, <1>2, <1>3, <1>4, <1>5, <1>6, <1>7, <1>8, <1>9, <1>10, <1>11, <1>12, <1>13, <1>14, <1>15, <1>16
     DEF Next, Read, Save

-----------------------------------------------------------------------------
(* The numbers of the versions.                                            *)

\* The next version after a set of versions without gaps.
LEMMA VersionsCounted ==
    ASSUME NEW n \in Nat, DOMAIN baselines = 1 .. n
    PROVE  NextVersion = n + 1
<1>1. Cardinality(1 .. n) = n
  BY FS_Interval
<1> QED
  BY <1>1 DEF NextVersion

LEMMA VersionsCountedNext ==
    ASSUME NEW n \in Nat, DOMAIN baselines' = 1 .. n
    PROVE  NextVersion' = n + 1
<1>1. Cardinality(1 .. n) = n
  BY FS_Interval
<1> QED
  BY <1>1 DEF NextVersion

\* An insertion fails, or adds the next version.
LEMMA InsertFields ==
    ASSUME TypeOK, Numbered, NEW r \in Publishers \cup Restorers, Insert(r)
    PROVE  \/ UNCHANGED baselines
           \/ /\ chosen[r] = NextVersion
              /\ DOMAIN baselines' = 1 .. NextVersion
              /\ NextVersion' = NextVersion + 1
              /\ baselines'[NextVersion] \in Baseline /\ baselines'[NextVersion].graph = read[r]
              /\ \A v \in DOMAIN baselines : baselines'[v] = baselines[v]
<1>1. r \in Requests /\ pc[r] = "allocated"
  BY DEF Insert, Requests
<1>2. CASE chosen[r] \in DOMAIN baselines
  BY <1>2 DEF Insert
<1>3. CASE chosen[r] \notin DOMAIN baselines
  <2>1. chosen[r] = NextVersion
    BY <1>1, <1>3 DEF Numbered, TypeOK
  <2>2. DOMAIN baselines \cup {NextVersion} = 1 .. NextVersion
    BY <1>1, <2>1 DEF Numbered
  <2>3. Row(r) \in Baseline /\ Row(r).graph = read[r]
    BY <1>1 DEF Row, Baseline, TypeOK
  <2>4. baselines' = [v \in 1 .. NextVersion |-> IF v = NextVersion THEN Row(r) ELSE baselines[v]]
    BY <1>3, <2>1, <2>2 DEF Insert
  <2>5. NextVersion' = NextVersion + 1
    BY <2>4, VersionsCountedNext DEF Numbered
  <2> QED
    BY <1>3, <2>1, <2>2, <2>3, <2>4, <2>5
<1> QED
  BY <1>2, <1>3

LEMMA NumberedStep == TypeOK /\ Numbered /\ [Next]_vars => Numbered'
<1> SUFFICES ASSUME TypeOK, Numbered, [Next]_vars PROVE Numbered'
  OBVIOUS
<1> USE DEF Points
<1>1. ASSUME UNCHANGED <<baselines, chosen>>,
             \A r \in Requests : pc'[r] = "allocated" => pc[r] = "allocated"
      PROVE  Numbered'
  BY <1>1 DEF Numbered, NextVersion
<1>2. CASE UNCHANGED vars
  BY <1>1, <1>2 DEF vars
<1>3. ASSUME NEW r \in Requests, ReadNodes(r) \/ ReadEdges(r) \/ StoreRead(r) \/ ReadFails(r)
      PROVE  Numbered'
  BY <1>1, <1>3, GotoFields DEF ReadNodes, ReadEdges, StoreRead, ReadFails
<1>4. ASSUME NEW r \in Readers, LookUp(r) PROVE Numbered'
  <2>1. r \in Requests
    BY DEF Requests
  <2> QED
    BY <1>1, <1>4, <2>1, GotoFields DEF LookUp
<1>5. ASSUME NEW s \in Saves, Acquire(s) \/ Validate(s) \/ Reject(s) \/ Commit(s) \/ Invalidate(s) \/ Warm(s)
      PROVE  Numbered'
  <2>1. s \in Requests
    BY DEF Requests
  <2> QED
    BY <1>1, <1>5, <2>1, GotoFields DEF Acquire, Validate, Reject, Commit, Invalidate, Warm
<1>6. ASSUME NEW r \in Publishers \cup Restorers, Allocate(r) PROVE Numbered'
  <2>1. UNCHANGED baselines /\ Goto(r, "allocated")
    BY <1>6 DEF Allocate
  <2>2. NextVersion' = NextVersion /\ NextVersion > 0
    BY <2>1, VersionsCounted DEF NextVersion, Numbered
  <2> QED
    BY <1>6, <2>1, <2>2, AllocateFields, GotoFields DEF Numbered
<1>7. ASSUME NEW r \in Publishers \cup Restorers, Insert(r) PROVE Numbered'
  <2>1. UNCHANGED chosen /\ \A q \in Requests : pc'[q] = "allocated" => pc[q] = "allocated"
    BY <1>7, GotoFields DEF Insert, Requests
  <2>2. CASE UNCHANGED baselines
    BY <1>1, <2>1, <2>2
  <2>3. CASE ~UNCHANGED baselines
    <3>1. /\ DOMAIN baselines' = 1 .. NextVersion
          /\ NextVersion' = NextVersion + 1
          /\ baselines'[NextVersion] \in Baseline
          /\ \A v \in DOMAIN baselines : baselines'[v] = baselines[v]
      BY <1>7, <2>3, InsertFields
    <3>2. \A v \in DOMAIN baselines' : baselines'[v] \in Baseline
      BY <3>1 DEF Numbered
    <3>3. \A q \in Publishers \cup Restorers : chosen'[q] <= NextVersion'
      BY <2>1, <3>1 DEF Numbered, TypeOK
    <3> QED
      BY <2>1, <3>1, <3>2, <3>3 DEF Numbered
  <2> QED
    BY <2>2, <2>3
<1>8. CASE Expire \/ LockExpires
  BY <1>1, <1>8 DEF Expire, LockExpires
<1> QED
  BY <1>2, <1>3, <1>4, <1>5, <1>6, <1>7, <1>8 DEF Next, Read, Save

-----------------------------------------------------------------------------
(* What was read, and what the database holds.                             *)

\* Only a COMMIT changes the tables.
LEMMA TablesChange ==
    ASSUME [Next]_vars
    PROVE  UNCHANGED <<nodes, edges>> \/ \E s \in Saves : Commit(s)
BY DEF Next, vars, Read, Save, ReadNodes, ReadEdges, StoreRead, ReadFails, LookUp, Acquire, Validate, Reject,
       Invalidate, Warm, Allocate, Insert, Expire, LockExpires

LEMMA LockHeldStep == TypeOK /\ LockHeld /\ [Next]_vars => LockHeld'
<1> SUFFICES ASSUME TypeOK, LockHeld, [Next]_vars PROVE LockHeld'
  OBVIOUS
<1> USE DEF Points, InTransaction
<1>1. Saves \subseteq Requests /\ Saves \cap Readers = {} /\ Saves \cap (Publishers \cup Restorers) = {}
      /\ Free \notin Saves
  BY RequestsAssumption DEF Saves, Requests
\* A step of one request, which leaves its transaction if it lets go of the lock.
<1>2. ASSUME UNCHANGED outlived, NEW r \in Requests,
             lock' = lock \/ lock = r,
             \A q \in Requests : q # r => pc'[q] = pc[q],
             r \in Saves /\ pc'[r] \in {"locked", "validated"} => lock' = lock /\ pc[r] \in {"locked", "validated"}
      PROVE  LockHeld'
  BY <1>1, <1>2 DEF LockHeld
<1>3. CASE UNCHANGED vars
  BY <1>3 DEF vars, LockHeld
<1>4. ASSUME NEW r \in Requests, ReadNodes(r) \/ ReadEdges(r) \/ StoreRead(r) \/ ReadFails(r) PROVE LockHeld'
  <2>1. pc'[r] \notin {"locked", "validated"} /\ \A q \in Requests : q # r => pc'[q] = pc[q]
    BY <1>4, GotoFields DEF ReadNodes, ReadEdges, StoreRead, ReadFails
  <2>2. UNCHANGED outlived /\ (lock' = lock \/ lock = r)
    BY <1>4 DEF ReadNodes, ReadEdges, StoreRead, ReadFails
  <2> QED
    BY <1>2, <2>1, <2>2
<1>5. ASSUME NEW r \in Readers, LookUp(r) PROVE LockHeld'
  <2>1. r \in Requests /\ UNCHANGED <<lock, outlived>>
    BY <1>5 DEF LookUp, Requests
  <2>2. pc'[r] \notin {"locked", "validated"} /\ \A q \in Requests : q # r => pc'[q] = pc[q]
    BY <1>5, <2>1, GotoFields DEF LookUp
  <2> QED
    BY <1>2, <2>1, <2>2
<1>6. ASSUME NEW s \in Saves, Acquire(s) PROVE LockHeld'
  <2>1. lock = Free /\ lock' = s /\ UNCHANGED outlived /\ \A q \in Requests : q # s => pc'[q] = pc[q]
    BY <1>1, <1>6, GotoFields DEF Acquire
  <2> QED
    BY <1>1, <2>1 DEF LockHeld
<1>7. ASSUME NEW s \in Saves, Save(s) PROVE LockHeld'
  <2>1. s \in Requests /\ UNCHANGED outlived /\ (lock' = lock \/ lock = s)
    BY <1>1, <1>7 DEF Save, Validate, Reject, Commit, Invalidate, Warm
  <2>2. \A q \in Requests : q # s => pc'[q] = pc[q]
    BY <1>7, <2>1, GotoFields DEF Save, Validate, Reject, Commit, Invalidate, Warm
  <2>3. CASE Validate(s)
    BY <1>2, <2>1, <2>2, <2>3, GotoFields DEF Validate
  <2>4. CASE ~Validate(s)
    <3>1. pc'[s] \notin {"locked", "validated"}
      BY <1>7, <2>1, <2>4, GotoFields DEF Save, Reject, Commit, Invalidate, Warm
    <3> QED
      BY <1>2, <2>1, <2>2, <3>1
  <2> QED
    BY <2>3, <2>4
<1>8. ASSUME NEW r \in Publishers \cup Restorers, Allocate(r) \/ Insert(r) PROVE LockHeld'
  <2>1. r \in Requests /\ r \notin Saves /\ UNCHANGED <<lock, outlived>>
    BY <1>1, <1>8 DEF Allocate, Insert, Requests
  <2>2. \A q \in Requests : q # r => pc'[q] = pc[q]
    BY <1>8, <2>1, GotoFields DEF Allocate, Insert
  <2> QED
    BY <1>2, <2>1, <2>2
<1>9. CASE Expire
  BY <1>9 DEF Expire, LockHeld
\* Whoever was in its transaction held the lock that has run out.
<1>10. CASE LockExpires
  <2>1. UNCHANGED pc /\ outlived' = (outlived \/ InTransaction(lock)) /\ lock \in Saves
    BY <1>10 DEF LockExpires, TypeOK
  <2>2. SUFFICES ASSUME ~outlived', NEW s \in Saves, InTransaction(s)' PROVE FALSE
    BY DEF LockHeld
  <2>3. ~outlived /\ ~InTransaction(lock) /\ InTransaction(s)
    BY <2>1, <2>2
  <2> QED
    BY <2>3 DEF LockHeld
<1> QED
  BY <1>3, <1>4, <1>5, <1>6, <1>7, <1>8, <1>9, <1>10 DEF Next, Read

\* The save that commits is the only one in a transaction, so that it has seen what the
\* tables hold.
LEMMA CommitKeepsEdgesAtNodes ==
    ASSUME TypeOK, LockHeld, EdgesAtNodes, NEW s \in Saves, Commit(s)
    PROVE  EdgesAtNodes'
<1> USE DEF Points
<1>1. Saves \subseteq Requests /\ UNCHANGED outlived /\ pc[s] = "validated"
  BY DEF Commit, Requests
<1>2. pc'[s] = "committed" /\ \A q \in Requests : q # s => pc'[q] = pc[q]
  BY <1>1, GotoFields DEF Commit
<1>3. SUFFICES ASSUME ~outlived
               PROVE  /\ \A i \in edges' : Ends(i) \subseteq nodes'
                      /\ \A q \in Saves : pc'[q] # "validated"
  BY <1>1 DEF EdgesAtNodes
<1>4. \A q \in Saves : pc'[q] # "validated"
  BY <1>1, <1>2, <1>3 DEF LockHeld, InTransaction
<1>5. Old \in nodes /\ edges \subseteq read[s].edges /\ \A i \in edges : Ends(i) \subseteq nodes
  BY <1>1, <1>3 DEF EdgesAtNodes
<1>6. CASE s \in Adders
  BY <1>5, <1>6, <1>4 DEF Commit, Ends
<1>7. CASE s \notin Adders
  <2>1. edges' = {}
    BY <1>5, <1>7 DEF Commit
  <2> QED
    BY <1>4, <2>1
<1> QED
  BY <1>6, <1>7

LEMMA TablesStep == TypeOK /\ LockHeld /\ EdgesAtNodes /\ [Next]_vars => EdgesAtNodes'
<1> SUFFICES ASSUME TypeOK, LockHeld, EdgesAtNodes, [Next]_vars PROVE EdgesAtNodes'
  OBVIOUS
<1> USE DEF Points
<1>1. Saves \subseteq Requests /\ Saves \cap Readers = {} /\ Saves \cap (Publishers \cup Restorers) = {}
  BY RequestsAssumption DEF Saves, Requests
<1>2. ASSUME UNCHANGED <<nodes, edges>>, outlived => outlived',
             \A s \in Saves : pc'[s] = "validated" => pc[s] = "validated" /\ read'[s] = read[s]
      PROVE  EdgesAtNodes'
  BY <1>2 DEF EdgesAtNodes
<1>3. CASE UNCHANGED vars
  BY <1>2, <1>3 DEF vars
<1>4. ASSUME NEW r \in Requests, ReadNodes(r) PROVE EdgesAtNodes'
  <2>1. pc'[r] = "nodesRead" /\ \A q \in Requests : q # r => pc'[q] = pc[q] /\ read'[q] = read[q]
    BY <1>4, GotoFields, ReadNodesFields DEF ReadNodes
  <2> QED
    BY <1>1, <1>2, <1>4, <2>1 DEF ReadNodes
<1>5. ASSUME NEW r \in Requests, ReadEdges(r) PROVE EdgesAtNodes'
  <2>1. pc'[r] = "read" /\ \A q \in Requests : q # r => pc'[q] = pc[q] /\ read'[q] = read[q]
    BY <1>5, GotoFields, ReadEdgesFields DEF ReadEdges
  <2> QED
    BY <1>1, <1>2, <1>5, <2>1 DEF ReadEdges
<1>6. ASSUME NEW r \in Requests, StoreRead(r) \/ ReadFails(r) PROVE EdgesAtNodes'
  <2>1. pc'[r] \in {"answered", "failed"} /\ \A q \in Requests : q # r => pc'[q] = pc[q]
    BY <1>6, GotoFields DEF StoreRead, ReadFails
  <2>2. UNCHANGED <<nodes, edges, read, outlived>>
    BY <1>6 DEF StoreRead, ReadFails
  <2> QED
    BY <1>1, <1>2, <2>1, <2>2
<1>7. ASSUME NEW r \in Readers, LookUp(r) PROVE EdgesAtNodes'
  <2>1. r \in Requests /\ UNCHANGED <<nodes, edges, outlived>>
    BY <1>7 DEF LookUp, Requests
  <2>2. \A q \in Requests : q # r => pc'[q] = pc[q] /\ read'[q] = read[q]
    BY <1>7, <2>1, GotoFields DEF LookUp, TypeOK
  <2> QED
    BY <1>1, <1>2, <2>1, <2>2
<1>8. ASSUME NEW s \in Saves, Acquire(s) \/ Reject(s) \/ Invalidate(s) \/ Warm(s) PROVE EdgesAtNodes'
  <2>1. UNCHANGED <<nodes, edges, read, outlived>>
    BY <1>8 DEF Acquire, Reject, Invalidate, Warm
  <2>2. pc'[s] # "validated" /\ \A q \in Requests : q # s => pc'[q] = pc[q]
    BY <1>1, <1>8, GotoFields DEF Acquire, Reject, Invalidate, Warm
  <2> QED
    BY <1>1, <1>2, <2>1, <2>2
<1>9. ASSUME NEW s \in Saves, Validate(s) PROVE EdgesAtNodes'
  <2>1. UNCHANGED <<nodes, edges, outlived>> /\ Old \in nodes
    BY <1>9 DEF Validate
  <2>2. \A q \in Requests : q # s => pc'[q] = pc[q] /\ read'[q] = read[q]
    BY <1>1, <1>9, GotoFields, ValidateFields DEF Validate
  <2>3. edges \subseteq read'[s].edges
    BY <1>9, ValidateFields
  <2> QED
    BY <1>1, <2>1, <2>2, <2>3 DEF EdgesAtNodes
<1>10. ASSUME NEW s \in Saves, Commit(s) PROVE EdgesAtNodes'
  BY <1>10, CommitKeepsEdgesAtNodes
<1>11. ASSUME NEW r \in Publishers \cup Restorers, Allocate(r) PROVE EdgesAtNodes'
  <2>1. r \notin Saves /\ \A q \in Requests : q # r => pc'[q] = pc[q] /\ read'[q] = read[q]
    BY <1>1, <1>11, GotoFields DEF Allocate, TypeOK, Requests
  <2> QED
    BY <1>1, <1>2, <1>11, <2>1 DEF Allocate
<1>12. ASSUME NEW r \in Publishers \cup Restorers, Insert(r) PROVE EdgesAtNodes'
  <2>1. r \notin Saves /\ \A q \in Requests : q # r => pc'[q] = pc[q]
    BY <1>1, <1>12, GotoFields DEF Insert, Requests
  <2> QED
    BY <1>1, <1>2, <1>12, <2>1 DEF Insert
<1>13. CASE Expire \/ LockExpires
  BY <1>2, <1>13 DEF Expire, LockExpires
<1> QED
  BY <1>3, <1>4, <1>5, <1>6, <1>7, <1>8, <1>9, <1>10, <1>11, <1>12, <1>13 DEF Next, Read, Save

LEMMA FreshStep == TypeOK /\ Numbered /\ Fresh /\ [Next]_vars => Fresh'
<1> SUFFICES ASSUME TypeOK, Numbered, Fresh, [Next]_vars PROVE Fresh'
  OBVIOUS
<1> USE DEF Points
\* Whoever is not reading, before or after the step, is not concerned.
<1>1. ASSUME UNCHANGED <<nodes, edges>>,
             \A q \in Requests : pc'[q] \in {"nodesRead", "read"} => pc'[q] = pc[q] /\ read'[q] = read[q]
      PROVE  Fresh'
  BY <1>1 DEF Fresh
<1>2. CASE UNCHANGED vars
  BY <1>1, <1>2 DEF vars
<1>3. ASSUME NEW r \in Requests, ReadNodes(r) PROVE Fresh'
  <2>1. UNCHANGED <<nodes, edges>> /\ pc'[r] = "nodesRead" /\ \A q \in Requests : q # r => pc'[q] = pc[q]
    BY <1>3, GotoFields DEF ReadNodes
  <2> QED
    BY <1>3, <2>1, ReadNodesFields DEF Fresh
<1>4. ASSUME NEW r \in Requests, ReadEdges(r) PROVE Fresh'
  <2>1. /\ UNCHANGED <<nodes, edges>> /\ pc[r] = "nodesRead"
        /\ \A q \in Requests : q # r => pc'[q] = pc[q]
    BY <1>4, GotoFields DEF ReadEdges
  <2> QED
    BY <1>4, <2>1, ReadEdgesFields DEF Fresh
<1>5. ASSUME NEW r \in Requests, StoreRead(r) \/ ReadFails(r) PROVE Fresh'
  BY <1>1, <1>5, GotoFields DEF StoreRead, ReadFails
<1>6. ASSUME NEW r \in Readers, LookUp(r) PROVE Fresh'
  <2>1. r \in Requests
    BY DEF Requests
  <2>2. UNCHANGED <<nodes, edges>> /\ (Goto(r, "answered") \/ Goto(r, "missed"))
    BY <1>6 DEF LookUp
  <2>3. \A q \in Requests : q # r => read'[q] = read[q]
    BY <1>6, <2>1 DEF LookUp, TypeOK
  <2> QED
    BY <1>1, <2>1, <2>2, <2>3, GotoFields
<1>7. ASSUME NEW s \in Saves, Acquire(s) \/ Validate(s) \/ Reject(s) \/ Invalidate(s) \/ Warm(s) PROVE Fresh'
  <2>1. s \in Requests
    BY DEF Requests
  <2>2. CASE Validate(s)
    BY <1>1, <2>1, <2>2, GotoFields, ValidateFields DEF Validate
  <2> QED
    BY <1>1, <1>7, <2>1, <2>2, GotoFields DEF Acquire, Reject, Invalidate, Warm
<1>8. ASSUME NEW s \in Saves, Commit(s) PROVE Fresh'
  <2>1. s \in Requests
    BY DEF Requests
  <2>2. \A q \in Requests : pc'[q] \in {"nodesRead", "read"} => q \in Reading
    BY <1>8, <2>1, GotoFields DEF Commit, Reading
  <2> QED
    BY <1>8, <2>2, OvertakeFields DEF Commit, Fresh
<1>9. ASSUME NEW r \in Publishers \cup Restorers, Allocate(r) PROVE Fresh'
  BY <1>1, <1>9, AllocateFields, GotoFields DEF Allocate
<1>10. ASSUME NEW r \in Publishers \cup Restorers, Insert(r) PROVE Fresh'
  <2>1. r \in Requests
    BY DEF Requests
  <2> QED
    BY <1>1, <1>10, <2>1, GotoFields DEF Insert
<1>11. CASE Expire \/ LockExpires
  BY <1>1, <1>11 DEF Expire, LockExpires
<1> QED
  BY <1>2, <1>3, <1>4, <1>5, <1>6, <1>7, <1>8, <1>9, <1>10, <1>11 DEF Next, Read, Save

-----------------------------------------------------------------------------
(* The cache.                                                              *)

\* A request that has read stores a graph that is late or is the present one.
LEMMA StoredIsFresh ==
    ASSUME TypeOK, Fresh, NEW r \in Requests, pc[r] = "read", cache' = read[r], UNCHANGED <<nodes, edges>>
    PROVE  StaleNeedsARace'
BY DEF Fresh, StaleNeedsARace, Stale

LEMMA StaleStep == TypeOK /\ Fresh /\ StaleNeedsARace /\ [Next]_vars => StaleNeedsARace'
<1> SUFFICES ASSUME TypeOK, Fresh, StaleNeedsARace, [Next]_vars PROVE StaleNeedsARace'
  OBVIOUS
<1> USE DEF Points
<1>1. ASSUME UNCHANGED <<nodes, edges, cache, unheard>>,
             \A s \in Saves : pc[s] = "committed" => pc'[s] = "committed"
      PROVE  StaleNeedsARace'
  BY <1>1 DEF StaleNeedsARace, Stale
<1>2. ASSUME cache' = Miss PROVE StaleNeedsARace'
  BY <1>2 DEF StaleNeedsARace, Stale
<1>3. Saves \subseteq Requests /\ Saves \cap Readers = {} /\ Saves \cap (Publishers \cup Restorers) = {}
  BY RequestsAssumption DEF Saves, Requests
<1>4. CASE UNCHANGED vars
  BY <1>1, <1>4 DEF vars
<1>5. ASSUME NEW r \in Requests, ReadNodes(r) \/ ReadEdges(r) \/ ReadFails(r) PROVE StaleNeedsARace'
  <2>1. UNCHANGED <<nodes, edges, cache, unheard>>
    BY <1>5 DEF ReadNodes, ReadEdges, ReadFails
  <2>2. pc[r] # "committed" /\ \A q \in Requests : q # r => pc'[q] = pc[q]
    BY <1>3, <1>5, GotoFields, RequestsAssumption DEF ReadNodes, ReadEdges, ReadFails, Begins
  <2> QED
    BY <1>1, <1>3, <2>1, <2>2
<1>6. ASSUME NEW r \in Requests, pc[r] = "read", Store(r), Goto(r, "answered"), UNCHANGED <<nodes, edges>>
      PROVE  StaleNeedsARace'
  <2>1. CASE cache' = read[r]
    BY <1>6, <2>1, StoredIsFresh
  <2>2. CASE UNCHANGED <<cache, unheard>>
    BY <1>1, <1>3, <1>6, <2>2, GotoFields
  <2> QED
    BY <1>6, <2>1, <2>2 DEF Store
<1>7. ASSUME NEW r \in Readers, LookUp(r) PROVE StaleNeedsARace'
  <2>1. r \in Requests
    BY DEF Requests
  <2> QED
    BY <1>1, <1>3, <1>7, <2>1, GotoFields DEF LookUp
<1>8. ASSUME NEW s \in Saves, Acquire(s) \/ Validate(s) \/ Reject(s) PROVE StaleNeedsARace'
  <2>1. UNCHANGED <<nodes, edges, cache, unheard>>
    BY <1>8 DEF Acquire, Validate, Reject
  <2>2. pc[s] # "committed" /\ \A q \in Requests : q # s => pc'[q] = pc[q]
    BY <1>3, <1>8, GotoFields DEF Acquire, Validate, Reject, InTransaction
  <2> QED
    BY <1>1, <1>3, <2>1, <2>2
<1>9. ASSUME NEW s \in Saves, Commit(s) PROVE StaleNeedsARace'
  <2>1. pc'[s] = "committed"
    BY <1>3, <1>9, GotoFields DEF Commit
  <2> QED
    BY <2>1 DEF StaleNeedsARace
<1>10. ASSUME NEW s \in Saves, Invalidate(s) PROVE StaleNeedsARace'
  <2>1. CASE Fault /\ unheard' = (unheard \/ cache # Miss) /\ UNCHANGED cache
    BY <1>10, <2>1 DEF StaleNeedsARace, Stale
  <2> QED
    BY <1>2, <1>10, <2>1 DEF Invalidate
<1>11. ASSUME NEW r \in Publishers \cup Restorers, Allocate(r) \/ Insert(r) PROVE StaleNeedsARace'
  <2>1. r \in Requests /\ UNCHANGED <<nodes, edges, cache, unheard>>
    BY <1>11 DEF Allocate, Insert, Requests
  <2>2. \A q \in Requests : q # r => pc'[q] = pc[q]
    BY <1>11, <2>1, GotoFields DEF Allocate, Insert
  <2> QED
    BY <1>1, <1>3, <2>1, <2>2
<1>12. CASE Expire \/ LockExpires
  BY <1>1, <1>2, <1>12 DEF Expire, LockExpires
<1> QED
  BY <1>3, <1>4, <1>5, <1>6, <1>7, <1>8, <1>9, <1>10, <1>11, <1>12
     DEF Next, Read, Save, StoreRead, Warm

-----------------------------------------------------------------------------
(* Edges and their nodes.                                                  *)

Explained(g) == Whole(g) \/ g.late \/ outlived
Finished == {"read", "answered", "allocated"}

TornParts ==
    /\ cache # Miss => Explained(cache)
    /\ \A r \in Requests : pc[r] \in Finished => Explained(read[r])
    /\ \A v \in DOMAIN baselines : Explained(baselines[v].graph)

LEMMA TornIsParts == TornNeedsARace <=> TornParts
BY DEF TornNeedsARace, TornParts, Explained, Finished

LEMMA TornStep == Inv /\ [Next]_vars => TornParts'
<1> SUFFICES ASSUME Inv, [Next]_vars PROVE TornParts'
  OBVIOUS
<1> USE DEF Points, Finished
<1>1. TypeOK /\ Numbered /\ Fresh /\ EdgesAtNodes /\ TornParts
  BY TornIsParts DEF Inv
\* A step that leaves the baselines alone, and finishes one request at most.
<1>2. ASSUME UNCHANGED <<baselines, outlived>>, cache' \in {cache, Miss}, NEW r \in Requests,
             \A q \in Requests : q # r => pc'[q] = pc[q] /\ read'[q] = read[q],
             pc'[r] \in Finished => Explained(read'[r])
      PROVE  TornParts'
  BY <1>1, <1>2 DEF TornParts, Explained, Whole
<1>3. CASE UNCHANGED vars
  BY <1>1, <1>3 DEF vars, TornParts, Explained, Whole
<1>4. ASSUME NEW r \in Requests, ReadNodes(r) PROVE TornParts'
  <2>1. /\ pc'[r] = "nodesRead" /\ UNCHANGED <<baselines, cache, outlived>>
        /\ \A q \in Requests : q # r => pc'[q] = pc[q] /\ read'[q] = read[q]
    BY <1>1, <1>4, GotoFields, ReadNodesFields DEF ReadNodes
  <2> QED
    BY <1>2, <2>1
<1>5. ASSUME NEW r \in Requests, ReadEdges(r) PROVE TornParts'
  <2>1. /\ pc[r] = "nodesRead" /\ UNCHANGED <<baselines, cache, outlived>>
        /\ \A q \in Requests : q # r => pc'[q] = pc[q] /\ read'[q] = read[q]
    BY <1>1, <1>5, GotoFields, ReadEdgesFields DEF ReadEdges
  <2>2. Explained(read'[r])
    BY <1>1, <1>5, <2>1, ReadEdgesFields DEF Fresh, EdgesAtNodes, Explained, Whole
  <2> QED
    BY <1>2, <2>1, <2>2
<1>6. ASSUME NEW r \in Requests, ReadFails(r) PROVE TornParts'
  <2>1. /\ pc'[r] = "failed" /\ UNCHANGED <<baselines, cache, read, outlived>>
        /\ \A q \in Requests : q # r => pc'[q] = pc[q]
    BY <1>1, <1>6, GotoFields DEF ReadFails
  <2> QED
    BY <1>2, <2>1
<1>7. ASSUME NEW r \in Requests, pc[r] = "read", Store(r), Goto(r, "answered"), UNCHANGED <<read, baselines, outlived>>
      PROVE  TornParts'
  <2>1. Explained(read[r])
    BY <1>1, <1>7 DEF TornParts
  <2>2. cache' = read[r] \/ cache' = cache
    BY <1>7 DEF Store
  <2>3. \A q \in Requests : q # r => pc'[q] = pc[q]
    BY <1>1, <1>7, GotoFields
  <2> QED
    BY <1>1, <1>7, <2>1, <2>2, <2>3 DEF TornParts, Explained, Whole
<1>8. ASSUME NEW r \in Readers, LookUp(r) PROVE TornParts'
  <2>1. r \in Requests /\ UNCHANGED <<baselines, cache, outlived>>
    BY <1>8 DEF LookUp, Requests
  <2>2. \A q \in Requests : q # r => pc'[q] = pc[q] /\ read'[q] = read[q]
    BY <1>1, <1>8, <2>1, GotoFields DEF LookUp, TypeOK
  <2>3. pc'[r] \in Finished => read'[r] = cache /\ cache # Miss
    BY <1>1, <1>8, <2>1, GotoFields DEF LookUp, TypeOK
  <2> QED
    BY <1>1, <1>2, <2>1, <2>2, <2>3 DEF TornParts
<1>9. ASSUME NEW s \in Saves, Acquire(s) \/ Validate(s) \/ Reject(s) \/ Invalidate(s) PROVE TornParts'
  <2>1. s \in Requests /\ UNCHANGED <<baselines, outlived>> /\ cache' \in {cache, Miss}
    BY <1>9 DEF Acquire, Validate, Reject, Invalidate, Requests
  <2>2. pc'[s] \in {"locked", "validated", "failed", "invalidated"} /\ \A q \in Requests : q # s => pc'[q] = pc[q]
    BY <1>1, <1>9, <2>1, GotoFields DEF Acquire, Validate, Reject, Invalidate
  <2>3. \A q \in Requests : q # s => read'[q] = read[q]
    BY <1>1, <1>9, ValidateFields DEF Acquire, Reject, Invalidate
  <2> QED
    BY <1>2, <2>1, <2>2, <2>3
<1>10. ASSUME NEW s \in Saves, Commit(s) PROVE TornParts'
  <2>1. s \in Requests /\ UNCHANGED <<baselines, cache, outlived>>
    BY <1>10 DEF Commit, Requests
  <2>2. pc'[s] = "committed" /\ \A q \in Requests : q # s => pc'[q] = pc[q]
    BY <1>1, <1>10, <2>1, GotoFields DEF Commit
  <2>3. \A q \in Requests : Explained(read[q]) => Explained(read'[q])
    BY <1>1, <1>10, OvertakeFields DEF Commit, Explained, Whole
  <2> QED
    BY <1>1, <2>1, <2>2, <2>3 DEF TornParts, Explained, Whole
<1>11. ASSUME NEW r \in Publishers \cup Restorers, Allocate(r) PROVE TornParts'
  <2>1. r \in Requests /\ UNCHANGED <<baselines, cache, outlived>>
    BY <1>11 DEF Allocate, Requests
  <2>2. \A q \in Requests : q # r => pc'[q] = pc[q] /\ read'[q] = read[q]
    BY <1>1, <1>11, AllocateFields, GotoFields DEF Allocate
  <2>3. Explained(read'[r])
    BY <1>1, <1>11, <2>1, AllocateFields DEF TornParts
  <2> QED
    BY <1>2, <2>1, <2>2, <2>3
<1>12. ASSUME NEW r \in Publishers \cup Restorers, Insert(r) PROVE TornParts'
  <2>1. r \in Requests /\ UNCHANGED <<cache, read, outlived>> /\ pc[r] = "allocated"
    BY <1>12 DEF Insert, Requests
  <2>2. \A q \in Requests : q # r => pc'[q] = pc[q]
    BY <1>1, <1>12, <2>1, GotoFields DEF Insert
  <2>3. Explained(read[r])
    BY <1>1, <2>1 DEF TornParts
  <2>4. CASE UNCHANGED baselines
    BY <1>2, <2>1, <2>2, <2>3, <2>4
  <2>5. CASE ~UNCHANGED baselines
    <3>1. /\ DOMAIN baselines' = 1 .. NextVersion /\ baselines'[NextVersion].graph = read[r]
          /\ \A v \in DOMAIN baselines : baselines'[v] = baselines[v]
      BY <1>1, <1>12, <2>5, InsertFields
    <3>2. \A v \in DOMAIN baselines' : v = NextVersion \/ v \in DOMAIN baselines
      BY <1>1, <3>1 DEF Numbered
    <3>3. \A v \in DOMAIN baselines' : Explained(baselines'[v].graph)
      BY <1>1, <2>3, <3>1, <3>2 DEF TornParts
    <3> QED
      BY <1>1, <2>1, <2>2, <2>3, <3>3 DEF TornParts, Explained, Whole
  <2> QED
    BY <2>4, <2>5
<1>13. CASE Expire \/ LockExpires
  BY <1>1, <1>13 DEF Expire, LockExpires, TornParts, Explained, Whole
<1> QED
  BY <1>3, <1>4, <1>5, <1>6, <1>7, <1>8, <1>9, <1>10, <1>11, <1>12, <1>13
     DEF Next, Read, Save, StoreRead, Warm, Requests

LEMMA InitInv == Init => Inv
<1> SUFFICES ASSUME Init PROVE Inv
  OBVIOUS
<1> DEFINE g == [nodes |-> nodes, edges |-> edges, late |-> FALSE]
           b == [status |-> "published", graph |-> g]
<1>1. nodes = {Old} /\ edges = {Old} /\ cache = Miss /\ pc = [r \in Requests |-> "idle"]
  BY DEF Init
<1>2. b \in Baseline /\ Explained(b.graph)
  BY <1>1, InitTypeOK DEF TypeOK, Baseline, Graph, Explained, Whole, Ends
<1>3. baselines = <<b>> /\ chosen = [r \in Publishers \cup Restorers |-> 0]
  BY DEF Init
<1> HIDE DEF g, b
<1>4. DOMAIN baselines = 1 .. 1 /\ baselines[1] = b
  BY <1>3
<1>5. NextVersion = 2
  BY <1>4, VersionsCounted
<1>6. Numbered
  BY <1>1, <1>2, <1>3, <1>4, <1>5 DEF Numbered
<1>7. TornParts
  BY <1>1, <1>2, <1>4 DEF TornParts, Finished
<1>8. Fresh /\ LockHeld /\ EdgesAtNodes /\ StaleNeedsARace
  BY <1>1 DEF Fresh, LockHeld, InTransaction, EdgesAtNodes, Ends, StaleNeedsARace, Stale, Saves, Requests
<1> QED
  BY <1>6, <1>7, <1>8, InitTypeOK, TornIsParts DEF Inv

LEMMA InvStep == Inv /\ [Next]_vars => Inv'
<1>1. TornParts' => TornNeedsARace'
  BY DEF TornNeedsARace, TornParts, Explained, Finished
<1> QED
  BY <1>1, TypeStep, FreshStep, LockHeldStep, TablesStep, NumberedStep, StaleStep, TornStep DEF Inv

-----------------------------------------------------------------------------
(* The theorems.                                                           *)

\* The inductive invariant holds of every reachable state.
THEOREM InvAlways == Spec => []Inv
BY InitInv, InvStep, PTL DEF Spec

\* Every variable has its type.
THEOREM TypeCorrect == Spec => []TypeOK
<1>1. Inv => TypeOK
  BY DEF Inv
<1> QED
  BY <1>1, InvAlways, PTL

\* A stale entry of the cache has one of three causes, however many saves and readers
\* overlap: a commit that is about to delete it, a deletion that failed, or a reader
\* that was overtaken by a commit (GetModuleGraph, SyncModuleGraph).
THEOREM StaleNeedsARaceHolds == Spec => []StaleNeedsARace
<1>1. Inv => StaleNeedsARace
  BY DEF Inv
<1> QED
  BY <1>1, InvAlways, PTL

\* An edge without its ends is never read, cached or published unless a save was
\* committed between the two statements of FindGraphByModuleID, or some save outlived the
\* lock of SyncModuleGraph before its COMMIT.
THEOREM TornNeedsARaceHolds == Spec => []TornNeedsARace
<1>1. Inv => TornNeedsARace
  BY DEF Inv
<1> QED
  BY <1>1, InvAlways, PTL

\* Versions have no gaps and never change, however many publications and restorations
\* allocate the same number.
THEOREM BaselinesImmutableHolds == Spec => BaselinesImmutable
<1>1. ASSUME Inv, [Next]_vars
      PROVE  /\ \A v \in DOMAIN baselines : v \in DOMAIN baselines' /\ baselines'[v] = baselines[v]
             /\ DOMAIN baselines' = 1 .. Cardinality(DOMAIN baselines')
  <2>1. Numbered /\ Numbered'
    BY <1>1, InvStep DEF Inv
  <2>2. DOMAIN baselines' = 1 .. Cardinality(DOMAIN baselines')
    <3> DEFINE n == NextVersion' - 1
    <3>1. n \in Int /\ DOMAIN baselines' = 1 .. n
      BY <2>1 DEF Numbered
    <3>2. Cardinality(1 .. n) = IF 1 > n THEN 0 ELSE n
      BY <3>1, FS_Interval
    <3> HIDE DEF n
    <3> QED
      BY <3>1, <3>2
  <2>3. UNCHANGED baselines \/ \E r \in Publishers \cup Restorers : Insert(r)
    BY <1>1 DEF Next, vars, Read, Save, ReadNodes, ReadEdges, StoreRead, ReadFails, LookUp, Acquire, Validate,
                Reject, Commit, Invalidate, Warm, Allocate, Expire, LockExpires
  <2>4. \A v \in DOMAIN baselines : v \in DOMAIN baselines' /\ baselines'[v] = baselines[v]
    BY <1>1, <2>1, <2>3, InsertFields DEF Inv, Numbered
  <2> QED
    BY <2>2, <2>4
<1>2. Inv /\ [Next]_vars
      => [/\ \A v \in DOMAIN baselines : v \in DOMAIN baselines' /\ baselines'[v] = baselines[v]
          /\ DOMAIN baselines' = 1 .. Cardinality(DOMAIN baselines')]_vars
  BY <1>1
<1> QED
  BY <1>2, InvAlways, PTL DEF BaselinesImmutable, Spec
=============================================================================
