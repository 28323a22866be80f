---------------------------- MODULE ModuleCache ----------------------------
(***************************************************************************)
(* The Redis cache of a module's graph, and the baselines of the module.   *)
(*                                                                         *)
(* Readers look for the graph in the cache and, when it is not there, read *)
(* it from PostgreSQL and store it for five minutes.  A synchronisation    *)
(* commits, deletes the entry, reads the graph again and stores it, all    *)
(* under the module lock, which may expire before it is done.  Publishing  *)
(* a baseline reads the graph, never the cache, and then inserts it under  *)
(* the next version; restoring one inserts a copy of it as a draft.        *)
(*                                                                         *)
(* Whoever reads the graph from the database reads the nodes and the edges *)
(* in two statements and in no transaction.  The graph is abstracted to    *)
(* the nodes and edges that the saves of the instance add or remove: an    *)
(* item is a node and an edge between that node and Old, or, of Old        *)
(* itself, an edge between Old and a node that stays.                      *)
(*                                                                         *)
(* The transaction of a save is a look at what is there, and its COMMIT.   *)
(* Once the lock has run out another save may commit between the two, and  *)
(* the tables then keep an edge at a deleted node; how the statements of   *)
(* two transactions meet, and that there may be no Redis and no lock at    *)
(* all, is ModuleSync's.                                                   *)
(***************************************************************************)
EXTENDS Naturals, FiniteSets

CONSTANTS Adders,      \* synchronisations, each of which adds its own item
          Removers,    \* synchronisations that remove the node Old and the edges at it
          Old,         \* the item of the module at the start
          Readers,     \* requests for the graph
          Publishers,  \* requests to publish a baseline
          Restorers,   \* requests to restore a baseline
          Free,        \* nobody holds the module lock
          Miss,        \* no cache entry
          MaxFaults    \* bound on the Redis and database errors and on expired locks

Saves == Adders \cup Removers
Requests == Saves \cup Readers \cup Publishers \cup Restorers
Items == Adders \cup {Old}

ASSUME RequestsAssumption ==
    /\ Adders \cap (Removers \cup Readers \cup Publishers \cup Restorers) = {}
    /\ Removers \cap (Readers \cup Publishers \cup Restorers) = {}
    /\ Readers \cap (Publishers \cup Restorers) = {}
    /\ Publishers \cap Restorers = {}
    /\ Free \notin Saves
    /\ MaxFaults \in Nat

VARIABLES nodes, edges,  \* the live rows of workflow_nodes and workflow_edges, as sets of items
          cache,         \* the entry of the module in Redis, or Miss
          lock,          \* the holder of the module lock, or Free
          pc,            \* [Requests -> Points]
          read,          \* [Requests -> Graph]: what a request has read; before its COMMIT,
                         \* what the statements of a save have found
          outlived,      \* the lock of a save has run out before its COMMIT
          baselines,     \* a function from versions to the rows of module_versions
          chosen,        \* [Publishers \cup Restorers -> Nat]: the version a request has allocated
          unheard,       \* an invalidation failed and nothing was stored since
          faults

vars == <<nodes, edges, cache, lock, pc, read, outlived, baselines, chosen, unheard, faults>>

-----------------------------------------------------------------------------
\* A graph as it was read.  late: a save was committed after the read began.
Graph == [nodes : SUBSET Items, edges : SUBSET Items, late : BOOLEAN]
Nothing == [nodes |-> {}, edges |-> {}, late |-> FALSE]
Points == {"idle", "missed", "nodesRead", "read", "locked", "validated", "committed", "invalidated",
           "allocated", "answered", "failed"}

Baseline == [status : {"published", "draft"}, graph : Graph]

\* The ends of an edge, and the graphs whose edges have both.
Ends(i) == {i, Old}
Whole(g) == \A i \in g.edges : Ends(i) \subseteq g.nodes

Goto(r, p) == pc' = [pc EXCEPT ![r] = p]
Fault == faults < MaxFaults /\ faults' = faults + 1

\* The module has been published once.
Init ==
    /\ nodes = {Old} /\ edges = {Old}
    /\ cache = Miss
    /\ lock = Free
    /\ pc = [r \in Requests |-> "idle"]
    /\ read = [r \in Requests |-> Nothing]
    /\ outlived = FALSE
    /\ baselines = << [status |-> "published", graph |-> [nodes |-> nodes, edges |-> edges, late |-> FALSE]] >>
    /\ chosen = [r \in Publishers \cup Restorers |-> 0]
    /\ unheard = FALSE
    /\ faults = 0

-----------------------------------------------------------------------------
(* FindGraphByModuleID: two statements.                                    *)

Begins(r) == \/ r \in Readers /\ pc[r] = "missed"
             \/ r \in Saves /\ pc[r] = "invalidated"
             \/ r \in Publishers /\ pc[r] = "idle"

ReadNodes(r) ==
    /\ Begins(r)
    /\ Goto(r, "nodesRead")
    /\ read' = [read EXCEPT ![r] = [nodes |-> nodes, edges |-> {}, late |-> FALSE]]
    /\ UNCHANGED <<nodes, edges, cache, lock, baselines, chosen, unheard, faults, outlived>>

ReadEdges(r) ==
    /\ pc[r] = "nodesRead"
    /\ Goto(r, "read")
    /\ read' = [read EXCEPT ![r].edges = edges]
    /\ UNCHANGED <<nodes, edges, cache, lock, baselines, chosen, unheard, faults, outlived>>

\* The database fails under a reading request: the request fails, a save releases
\* its lock.
ReadFails(r) ==
    /\ Begins(r) \/ pc[r] = "nodesRead"
    /\ Fault
    /\ Goto(r, "failed")
    /\ lock' = IF lock = r THEN Free ELSE lock
    /\ UNCHANGED <<nodes, edges, cache, read, baselines, chosen, unheard, outlived>>

-----------------------------------------------------------------------------
(* GET /modules/:id/graph.                                                 *)

\* A Redis error counts as a miss.
LookUp(r) ==
    /\ r \in Readers /\ pc[r] = "idle"
    /\ \/ cache # Miss /\ Goto(r, "answered") /\ read' = [read EXCEPT ![r] = cache] /\ UNCHANGED faults
       \/ cache = Miss /\ Goto(r, "missed") /\ UNCHANGED <<read, faults>>
       \/ cache # Miss /\ Goto(r, "missed") /\ Fault /\ UNCHANGED read
    /\ UNCHANGED <<nodes, edges, cache, lock, baselines, chosen, unheard, outlived>>

\* SetGraphCache: whatever the entry is by now is overwritten; an error is ignored.
Store(r) == \/ cache' = read[r] /\ unheard' = FALSE /\ UNCHANGED faults
            \/ Fault /\ UNCHANGED <<cache, unheard>>

\* The reader stores what it read and answers with it.
StoreRead(r) ==
    /\ r \in Readers /\ pc[r] = "read"
    /\ Store(r)
    /\ Goto(r, "answered")
    /\ UNCHANGED <<nodes, edges, lock, read, baselines, chosen, outlived>>

\* The five minutes of the entry are over.
Expire ==
    /\ cache # Miss
    /\ cache' = Miss
    /\ UNCHANGED <<nodes, edges, lock, pc, read, baselines, chosen, unheard, faults, outlived>>

-----------------------------------------------------------------------------
(* PUT /modules/:id: the part of the synchronisation that readers notice.  *)

\* Another save that holds the lock makes the request fail; the client may try again.
Acquire(s) ==
    /\ s \in Saves /\ pc[s] = "idle" /\ lock = Free
    /\ lock' = s
    /\ Goto(s, "locked")
    /\ UNCHANGED <<nodes, edges, cache, read, baselines, chosen, unheard, faults, outlived>>

\* The transaction of a save is open.
InTransaction(s) == pc[s] \in {"locked", "validated"}

\* The five seconds of the lock are over, whatever its holder is doing.
LockExpires ==
    /\ lock # Free /\ Fault
    /\ lock' = Free
    /\ outlived' = (outlived \/ InTransaction(lock))
    /\ UNCHANGED <<nodes, edges, cache, pc, read, baselines, chosen, unheard>>

\* UpsertEdges finds the node Old, to which the save connects its own; DeleteNodes
\* finds no edge at Old but those that the save itself deletes.
Validate(s) ==
    /\ s \in Saves /\ pc[s] = "locked" /\ Old \in nodes
    /\ Goto(s, "validated")
    /\ read' = [read EXCEPT ![s] = [nodes |-> nodes, edges |-> edges, late |-> FALSE]]
    /\ UNCHANGED <<nodes, edges, cache, lock, baselines, chosen, unheard, faults, outlived>>

\* ErrInvalidGraphReference or ErrGraphConflict: Old is gone, also by a commit that came
\* before the UPDATE that deletes it, or has an edge that the client did not load.  The
\* transaction is rolled back.
Reject(s) ==
    /\ \/ s \in Saves /\ pc[s] = "locked" /\ Old \notin nodes
       \/ s \in Removers /\ InTransaction(s) /\ Old \notin nodes
       \/ s \in Removers /\ pc[s] = "locked" /\ edges \cap Adders # {}
    /\ Goto(s, "failed")
    /\ lock' = IF lock = s THEN Free ELSE lock
    /\ UNCHANGED <<nodes, edges, cache, read, baselines, chosen, unheard, faults, outlived>>

\* What reads have begun are late from now on.
Reading == {r \in Requests : pc[r] \in {"nodesRead", "read"}}
Overtake == read' = [r \in Requests |-> IF r \in Reading THEN [read[r] EXCEPT !.late = TRUE] ELSE read[r]]

\* Mutation: the node is deleted without a look at its edges.
CommitLeavingEdges(s) ==
    /\ s \in Saves /\ pc[s] = "validated"
    /\ IF s \in Adders
       THEN nodes' = nodes \cup {s} /\ edges' = edges \cup {s}
       ELSE Old \in nodes /\ nodes' = nodes \ {Old} /\ UNCHANGED edges
    /\ Overtake
    /\ Goto(s, "committed")
    /\ UNCHANGED <<cache, lock, baselines, chosen, unheard, faults, outlived>>

\* What the save has written becomes visible: its node and edge, or the deletion of Old
\* and of the edges that were at it when it looked.
Commit(s) ==
    /\ s \in Saves /\ pc[s] = "validated"
    /\ IF s \in Adders
       THEN nodes' = nodes \cup {s} /\ edges' = edges \cup {s}
       ELSE Old \in nodes /\ nodes' = nodes \ {Old} /\ edges' = edges \ read[s].edges
    /\ Overtake
    /\ Goto(s, "committed")
    /\ UNCHANGED <<cache, lock, baselines, chosen, unheard, faults, outlived>>

\* Mutation: the entry is left to the store that follows.
InvalidateNot(s) ==
    /\ s \in Saves /\ pc[s] = "committed"
    /\ Goto(s, "invalidated")
    /\ UNCHANGED <<nodes, edges, cache, lock, read, baselines, chosen, unheard, faults, outlived>>

\* InvalidateGraphCache; an error is ignored.
Invalidate(s) ==
    /\ s \in Saves /\ pc[s] = "committed"
    /\ \/ cache' = Miss /\ UNCHANGED <<unheard, faults>>
       \/ Fault /\ unheard' = (unheard \/ cache # Miss) /\ UNCHANGED cache
    /\ Goto(s, "invalidated")
    /\ UNCHANGED <<nodes, edges, lock, read, baselines, chosen, outlived>>

\* The save stores the graph it read after its commit, answers with it, and lets go
\* of the lock if it still holds it.
Warm(s) ==
    /\ s \in Saves /\ pc[s] = "read"
    /\ Store(s)
    /\ Goto(s, "answered")
    /\ lock' = IF lock = s THEN Free ELSE lock
    /\ UNCHANGED <<nodes, edges, read, baselines, chosen, outlived>>

-----------------------------------------------------------------------------
(* Baselines: POST /modules/:id/publish and .../versions/:version/restore. *)

NextVersion == Cardinality(DOMAIN baselines) + 1

\* MAX(version) + 1, in the transaction of the insertion, but without a lock: two
\* requests may choose the same version.  A draft is a copy of a version that exists.
Allocate(r) ==
    /\ \/ r \in Publishers /\ pc[r] = "read" /\ UNCHANGED read
       \/ /\ r \in Restorers /\ pc[r] = "idle"
          /\ \E v \in DOMAIN baselines : read' = [read EXCEPT ![r] = baselines[v].graph]
    /\ chosen' = [chosen EXCEPT ![r] = NextVersion]
    /\ Goto(r, "allocated")
    /\ UNCHANGED <<nodes, edges, cache, lock, baselines, unheard, faults, outlived>>

Row(r) == [status |-> IF r \in Publishers THEN "published" ELSE "draft", graph |-> read[r]]

\* Mutation: the insertion replaces a row that has the version.
InsertReplacing(r) ==
    /\ pc[r] = "allocated"
    /\ baselines' = [v \in DOMAIN baselines \cup {chosen[r]} |->
                         IF v = chosen[r] THEN Row(r) ELSE baselines[v]]
    /\ Goto(r, "answered")
    /\ UNCHANGED <<nodes, edges, cache, lock, read, chosen, unheard, faults, outlived>>

\* UNIQUE (module_id, version): the later of two insertions of a version fails.
Insert(r) ==
    /\ pc[r] = "allocated"
    /\ IF chosen[r] \in DOMAIN baselines
       THEN Goto(r, "failed") /\ UNCHANGED baselines
       ELSE /\ baselines' = [v \in DOMAIN baselines \cup {chosen[r]} |->
                                 IF v = chosen[r] THEN Row(r) ELSE baselines[v]]
            /\ Goto(r, "answered")
    /\ UNCHANGED <<nodes, edges, cache, lock, read, chosen, unheard, faults, outlived>>

-----------------------------------------------------------------------------
Save(s) == Validate(s) \/ Reject(s) \/ Commit(s) \/ Invalidate(s) \/ Warm(s)
Read(r) == ReadNodes(r) \/ ReadEdges(r) \/ StoreRead(r)

Next ==
    \/ \E r \in Requests : Read(r) \/ ReadFails(r)
    \/ \E r \in Readers : LookUp(r)
    \/ \E s \in Saves : Acquire(s) \/ Save(s)
    \/ \E r \in Publishers \cup Restorers : Allocate(r) \/ Insert(r)
    \/ Expire
    \/ LockExpires

Spec == Init /\ [][Next]_vars

-----------------------------------------------------------------------------
(* Properties.                                                             *)

TypeOK ==
    /\ nodes \in SUBSET Items /\ edges \in SUBSET Items
    /\ cache \in Graph \cup {Miss}
    /\ lock \in Saves \cup {Free}
    /\ pc \in [Requests -> Points]
    /\ read \in [Requests -> Graph]
    /\ chosen \in [Publishers \cup Restorers -> Nat]
    /\ unheard \in BOOLEAN /\ outlived \in BOOLEAN
    /\ faults \in 0 .. MaxFaults

Stale == cache # Miss /\ (cache.nodes # nodes \/ cache.edges # edges)

\* The cache entry differs from the database only in three cases: a save has
\* committed and has not yet deleted the entry, deleting it failed, or the request
\* that stored it had begun to read before the last save committed.
StaleNeedsARace ==
    Stale => \/ \E s \in Saves : pc[s] = "committed"
             \/ unheard
             \/ cache.late

\* A graph with an edge at a node that it does not have has one of two causes: a save was
\* committed between the two reads, or the lock of some save had run out before its
\* COMMIT, so that one save could delete the node to which another connected its own;
\* the tables keep such an edge, and a reader that nobody overtakes then finds it.  What
\* is cached, answered and published for good as a baseline is whole otherwise.
TornNeedsARace ==
    /\ cache # Miss /\ ~Whole(cache) => cache.late \/ outlived
    /\ \A r \in Requests :
          pc[r] \in {"read", "answered", "allocated"} /\ ~Whole(read[r]) => read[r].late \/ outlived
    /\ \A v \in DOMAIN baselines :
          ~Whole(baselines[v].graph) => baselines[v].graph.late \/ outlived

\* The versions of a module are numbered from 1 without gaps, and no request ever
\* changes a version that exists, also when two are published at the same time.
BaselinesImmutable ==
    [][/\ \A v \in DOMAIN baselines : v \in DOMAIN baselines' /\ baselines'[v] = baselines[v]
       /\ DOMAIN baselines' = 1 .. Cardinality(DOMAIN baselines')]_vars

=============================================================================
