------------------------------ MODULE ModuleSync ------------------------------
(***************************************************************************)
(* Saves of one module's graph, PUT /api/modules/{id}: several editors     *)
(* load the graph, change it and send all of it back with what they        *)
(* deleted; the server takes the Redis lock of the module, checks the      *)
(* payload for cycles and writes rows of three tables in one transaction.  *)
(*                                                                         *)
(* The lock lives five seconds and nothing renews it: a save that takes    *)
(* longer goes on without it.  What then orders two transactions is        *)
(* PostgreSQL at READ COMMITTED: a statement sees what is committed when   *)
(* it starts and the transaction's own writes; an UPDATE or upsert of a    *)
(* row that another transaction has written waits for its end.             *)
(*                                                                         *)
(* The identifier of a new row is generated by the editor and is nobody    *)
(* else's.  A node's columns are one `text`, its rows in node_role_tasks   *)
(* and the spec tables one `facet` (NoFacet: it has none, as nodes sent    *)
(* without `roles`); edges have their ends only.  Business rules and       *)
(* decision outcomes are left out.                                         *)
(***************************************************************************)
EXTENDS Integers, Sequences, FiniteSets

CONSTANTS
  Saves,      \* requests, each with the editor that sends it
  Nodes,      \* identifiers of nodes
  Edges,      \* identifiers of edges
  NewNode,    \* the identifier each editor generates for a node
  NewEdge,    \* and for an edge
  Texts,      \* contents of the columns of a node
  Facets,     \* contents of a node's role tasks and specs
  NoFacet,    \* no role tasks
  Changes,    \* what the editors of a run do
  Started,    \* tables the module may have to begin with
  Free        \* nobody holds the lock

NodeRow == [version : Nat \ {0}, live : BOOLEAN, text : Texts, order : Nat]

EdgeRow == [version : Nat \ {0}, live : BOOLEAN, from : Nodes, to : Nodes, order : Nat]

\* What an editor holds of a node and of an edge; version 0 for what it has made.
NodeItems == [id : Nodes, version : Nat, text : Texts, facet : Facets \cup {NoFacet}]

EdgeItems == [id : Edges, version : Nat, from : Nodes, to : Nodes]

Graph == [nodes : Seq(NodeItems), edges : Seq(EdgeItems)]

Payload == [nodes : Seq(NodeItems), edges : Seq(EdgeItems),
            goneNodes : Seq([id : Nodes, version : Nat]), goneEdges : Seq([id : Edges, version : Nat])]

\* t is a table: rows under some of the identifiers.
IsTable(t, Ids, Row) == DOMAIN t \subseteq Ids /\ t \in [DOMAIN t -> Row]

IsTables(t) ==
  /\ DOMAIN t = {"nodes", "facets", "edges"}
  /\ IsTable(t.nodes, Nodes, NodeRow)
  /\ IsTable(t.facets, Nodes, Facets)
  /\ IsTable(t.edges, Edges, EdgeRow)

Ends(row) == <<row.from, row.to>>

ASSUME SavesAssumption == Free \notin Saves /\ NoFacet \notin Facets
ASSUME ChangesAssumption ==
  Changes \subseteq {"nothing", "editText", "editFacet", "addNode", "connect", "deleteEdge", "reconnect", "deleteNode"}
ASSUME FinitelyMany == IsFiniteSet(Nodes) /\ IsFiniteSet(Edges)
ASSUME IdentifiersAssumption ==
  /\ NewNode \in [Saves -> Nodes] /\ NewEdge \in [Saves -> Edges]
  /\ \A r, s \in Saves : r # s => NewNode[r] # NewNode[s] /\ NewEdge[r] # NewEdge[s]
ASSUME StartedAssumption ==
  \A t \in Started :
    /\ IsTables(t)
    /\ \A r \in Saves : NewNode[r] \notin DOMAIN t.nodes /\ NewEdge[r] \notin DOMAIN t.edges
    /\ \A e \in DOMAIN t.edges : {t.edges[e].from, t.edges[e].to} \subseteq DOMAIN t.nodes
    /\ \A e \in DOMAIN t.edges : t.edges[e].live =>
         t.nodes[t.edges[e].from].live /\ t.nodes[t.edges[e].to].live
    /\ \A d, e \in DOMAIN t.edges : d # e => Ends(t.edges[d]) # Ends(t.edges[e])

VARIABLES
  tables,   \* what is committed
  lock,     \* whose token is under lock:module:<id>:sync
  expired,  \* the saves whose lock ran out while they worked
  pc,       \* the next statement of each save, and the item it is about
  answer,   \* what the handler will answer once it has released the lock
  loaded,   \* the graph each editor loaded
  payload,  \* the body each editor sent
  wrote,    \* what each transaction wrote and has not committed
  active    \* the nodes each UpsertEdges found active

vars == <<tables, lock, expired, pc, answer, loaded, payload, wrote, active>>

\* Statements between the acquisition of the lock and the end of the transaction.
Transaction == {"node", "updateNode", "facet", "activeNodes", "edge", "insertEdge", "updateEdge",
                "deleteEdge", "deleteNode", "tombstone", "commit"}

Answers == {"ok", "conflict", "refused", "duplicate", "failed", "busy", "cycle"}

Steps == {"new", "hydrating", "loading", "editing", "reread", "release"} \cup Transaction \cup Answers

Empty == [x \in {} |-> x]

Nothing == [nodes |-> Empty, facets |-> Empty, edges |-> Empty]

NoGraph == [nodes |-> <<>>, edges |-> <<>>]

NoBody == [nodes |-> <<>>, edges |-> <<>>, goneNodes |-> <<>>, goneEdges |-> <<>>]

At(do, i) == [do |-> do, at |-> i]

Init ==
  /\ tables \in Started
  /\ lock = Free
  /\ expired = {}
  /\ pc = [r \in Saves |-> At("new", 0)]
  /\ answer = [r \in Saves |-> "ok"]
  /\ loaded = [r \in Saves |-> NoGraph]
  /\ payload = [r \in Saves |-> NoBody]
  /\ wrote = [r \in Saves |-> Nothing]
  /\ active = [r \in Saves |-> {}]

-----------------------------------------------------------------------------

\* One table with some rows replaced or added.
Over(own, table) ==
  [x \in DOMAIN own \cup DOMAIN table |-> IF x \in DOMAIN own THEN own[x] ELSE table[x]]

\* A table as the statements of a transaction see it.
View(r, table) == Over(wrote[r][table], tables[table])

Live(table) == {x \in DOMAIN table : table[x].live}

Pairs(edges) == {Ends(edges[e]) : e \in DOMAIN edges}

\* Some nodes lead only to each other: there is a directed cycle among the pairs.
HasCycle(pairs) ==
  \E S \in (SUBSET Nodes) \ {{}} : \A x \in S : \E y \in S : <<x, y>> \in pairs

Step(r, next) == pc' = [pc EXCEPT ![r] = next]

\* A statement that changes nothing.
Proceed(r, next) ==
  /\ Step(r, next)
  /\ UNCHANGED <<tables, lock, expired, answer, loaded, payload, wrote, active>>

\* A statement that writes one row of one table.
Write(r, table, x, row, next) ==
  /\ Step(r, next)
  /\ wrote' = [wrote EXCEPT ![r][table] = Over([y \in {x} |-> row], wrote[r][table])]
  /\ UNCHANGED <<tables, lock, expired, answer, loaded, payload, active>>

\* The use case returns an error: the deferred Rollback runs, then the release.
Fail(r, why) ==
  /\ Step(r, At("release", 0))
  /\ answer' = [answer EXCEPT ![r] = why]
  /\ wrote' = [wrote EXCEPT ![r] = Nothing]
  /\ UNCHANGED <<tables, lock, expired, loaded, payload, active>>

\* The loops of the transaction, in the order of ExecuteSyncModuleGraph:
\* nodes, edges, deleted edges, deleted nodes.
FromGoneNodes(body, i) ==
  IF i \in DOMAIN body.goneNodes THEN At("deleteNode", i) ELSE At("commit", 0)

FromGoneEdges(body, i) ==
  IF i \in DOMAIN body.goneEdges THEN At("deleteEdge", i) ELSE FromGoneNodes(body, 1)

FromEdges(body, i) ==
  IF i \in DOMAIN body.edges THEN At("edge", i) ELSE FromGoneEdges(body, 1)

FromNodes(body, i) ==
  IF i \in DOMAIN body.nodes THEN At("node", i)
  ELSE IF body.edges = <<>> THEN FromGoneEdges(body, 1) ELSE At("activeNodes", 0)

AfterNode(body, i) ==
  IF body.nodes[i].facet = NoFacet THEN FromNodes(body, i + 1) ELSE At("facet", i)

-----------------------------------------------------------------------------
(***************************************************************************)
(* The editor                                                              *)
(***************************************************************************)

\* The live rows in sort order; rows of equal sort_order come in any order.
Listings(table) ==
  {s \in [1 .. Cardinality(Live(table)) -> Live(table)] :
     \A i, j \in DOMAIN s : i < j => s[i] # s[j] /\ table[s[i]].order <= table[s[j]].order}

\* FindGraphByModuleID, three statements outside any transaction: the nodes, ...
LoadNodes(r) ==
  /\ pc[r].do = "new"
  /\ \E ids \in Listings(tables.nodes) :
       loaded' = [loaded EXCEPT ![r].nodes = [i \in DOMAIN ids |->
         [id |-> ids[i], version |-> tables.nodes[ids[i]].version, text |-> tables.nodes[ids[i]].text,
          facet |-> NoFacet]]]
  /\ Step(r, At("hydrating", 0))
  /\ UNCHANGED <<tables, lock, expired, answer, payload, wrote, active>>

\* A node with its rows in the facet tables.
Hydrated(item) ==
  [item EXCEPT !.facet = IF item.id \in DOMAIN tables.facets THEN tables.facets[item.id] ELSE NoFacet]

\* ... their facets (hydrateDetails) ...
LoadFacets(r) ==
  /\ pc[r].do = "hydrating"
  /\ loaded' = [loaded EXCEPT ![r].nodes = [i \in DOMAIN loaded[r].nodes |-> Hydrated(loaded[r].nodes[i])]]
  /\ Step(r, At("loading", 0))
  /\ UNCHANGED <<tables, lock, expired, answer, payload, wrote, active>>

\* ... and the edges.
LoadEdges(r) ==
  /\ pc[r].do = "loading"
  /\ \E ids \in Listings(tables.edges) :
       loaded' = [loaded EXCEPT ![r].edges = [i \in DOMAIN ids |->
         [id |-> ids[i], version |-> tables.edges[ids[i]].version,
          from |-> tables.edges[ids[i]].from, to |-> tables.edges[ids[i]].to]]]
  /\ Step(r, At("editing", 0))
  /\ UNCHANGED <<tables, lock, expired, answer, payload, wrote, active>>

Body(nodes, edges, goneNodes, goneEdges) ==
  [nodes |-> nodes, edges |-> edges, goneNodes |-> goneNodes, goneEdges |-> goneEdges]

Without(s, i) == [j \in 1 .. Len(s) - 1 |-> IF j < i THEN s[j] ELSE s[j + 1]]

\* The positions in K, from the first to the last.
InOrder(K) == {f \in [1 .. Cardinality(K) -> K] : \A i, j \in DOMAIN f : i < j => f[i] < f[j]}

\* The positions of the edges at the node in position i.
Touching(g, i) == {k \in DOMAIN g.edges : g.nodes[i].id \in {g.edges[k].from, g.edges[k].to}}

Gone(item) == [id |-> item.id, version |-> item.version]

NewEdgeItem(r, from, to) == [id |-> NewEdge[r], version |-> 0, from |-> from, to |-> to]

\* canAddEdge: two nodes of the graph without an edge from the one to the other.
Connectable(g) ==
  {<<g.nodes[i].id, g.nodes[j].id>> : i, j \in DOMAIN g.nodes}
    \ ({<<g.nodes[i].id, g.nodes[i].id>> : i \in DOMAIN g.nodes} \cup {Ends(g.edges[k]) : k \in DOMAIN g.edges})

\* What an editor may send after one change.
Untouched(g) == {Body(g.nodes, g.edges, <<>>, <<>>)}

WithText(s, i, text) == [s EXCEPT ![i].text = text]

TextEdits(g) ==
  {Body(WithText(g.nodes, i, text), g.edges, <<>>, <<>>) : i \in DOMAIN g.nodes, text \in Texts}

WithFacet(s, i, facet) == [s EXCEPT ![i].facet = facet]

FacetEdits(g) ==
  {Body(WithFacet(g.nodes, i, facet), g.edges, <<>>, <<>>) : i \in DOMAIN g.nodes, facet \in Facets}

NodeAdditions(r, g) ==
  {Body(Append(g.nodes, [id |-> NewNode[r], version |-> 0, text |-> text, facet |-> facet]), g.edges, <<>>, <<>>) :
     text \in Texts, facet \in Facets}

Connections(r, g) ==
  {Body(g.nodes, Append(g.edges, NewEdgeItem(r, ends[1], ends[2])), <<>>, <<>>) : ends \in Connectable(g)}

EdgeDeletions(g) ==
  {Body(g.nodes, Without(g.edges, k), <<>>, <<Gone(g.edges[k])>>) : k \in DOMAIN g.edges}

\* A connection deleted and drawn again.
Reconnections(r, g) ==
  {Body(g.nodes, Append(Without(g.edges, k), NewEdgeItem(r, g.edges[k].from, g.edges[k].to)),
        <<>>, <<Gone(g.edges[k])>>) : k \in DOMAIN g.edges}

\* A node goes with its edges: f are the positions of those that stay, h of the others.
WithoutNode(g, i, f, h) ==
  Body(Without(g.nodes, i), [k \in DOMAIN f |-> g.edges[f[k]]],
       <<Gone(g.nodes[i])>>, [k \in DOMAIN h |-> Gone(g.edges[h[k]])])

Staying(g, i) == InOrder(DOMAIN g.edges \ Touching(g, i))

Leaving(g, i) == InOrder(Touching(g, i))

DeletionsOf(g, i) == {WithoutNode(g, i, f, h) : f \in Staying(g, i), h \in Leaving(g, i)}

NodeDeletions(g) == UNION {DeletionsOf(g, i) : i \in DOMAIN g.nodes}

Bodies(r, g) ==
  [nothing |-> Untouched(g), editText |-> TextEdits(g), editFacet |-> FacetEdits(g),
   addNode |-> NodeAdditions(r, g), connect |-> Connections(r, g), deleteEdge |-> EdgeDeletions(g),
   reconnect |-> Reconnections(r, g), deleteNode |-> NodeDeletions(g)]

-----------------------------------------------------------------------------
(***************************************************************************)
(* ExecuteSyncModuleGraph                                                  *)
(***************************************************************************)

\* Mutant: the topology is not validated.
SendUnvalidated(r) ==
  /\ pc[r].do = "editing"
  /\ lock = Free
  /\ lock' = r
  /\ \E change \in Changes : \E body \in Bodies(r, loaded[r])[change] :
       /\ payload' = [payload EXCEPT ![r] = body]
       /\ Step(r, FromNodes(body, 1))
  /\ UNCHANGED <<tables, expired, answer, loaded, wrote, active>>

\* SET NX succeeds, and DetectCycles looks at the payload.
Send(r) ==
  /\ pc[r].do = "editing"
  /\ lock = Free
  /\ lock' = r
  /\ \E change \in Changes : \E body \in Bodies(r, loaded[r])[change] :
       /\ payload' = [payload EXCEPT ![r] = body]
       /\ IF HasCycle(Pairs(body.edges))
          THEN Step(r, At("release", 0)) /\ answer' = [answer EXCEPT ![r] = "cycle"]
          ELSE Step(r, FromNodes(body, 1)) /\ UNCHANGED answer
  /\ UNCHANGED <<tables, expired, loaded, wrote, active>>

\* No lock: another save holds it, or Redis fails, perhaps after setting the key.
SendWithoutLock(r) ==
  /\ pc[r].do = "editing"
  /\ \/ /\ lock # Free
        /\ Step(r, At("busy", 0))
        /\ UNCHANGED lock
     \/ /\ Step(r, At("failed", 0))
        /\ lock' \in {lock, IF lock = Free THEN r ELSE lock}
  /\ loaded' = [loaded EXCEPT ![r] = NoGraph]
  /\ UNCHANGED <<tables, expired, answer, payload, wrote, active>>

NodeItem(r) == payload[r].nodes[pc[r].at]

EdgeItem(r) == payload[r].edges[pc[r].at]

GoneEdge(r) == payload[r].goneEdges[pc[r].at]

GoneNode(r) == payload[r].goneNodes[pc[r].at]

\* UPDATE ... WHERE deleted_at IS NULL AND row_version = $v, by item.
Matches(table, item) ==
  item.id \in DOMAIN table /\ table[item.id].live /\ table[item.id].version = item.version

\* Mutant: the UPDATE of a node matches whatever version it finds.
NodeChangesUnguarded(r) ==
  LET row == View(r, "nodes")[NodeItem(r).id]
  IN  row.live /\ (row.text # NodeItem(r).text \/ row.order # pc[r].at - 1)

\* The UPDATE of a node matches its row: the version is the one sent and a
\* column differs.  Its place among the nodes of the payload is a column.
NodeChanges(r) ==
  LET row == View(r, "nodes")[NodeItem(r).id]
  IN  /\ Matches(View(r, "nodes"), NodeItem(r))
      /\ row.text # NodeItem(r).text \/ row.order # pc[r].at - 1

\* The same for an edge.
EdgeChanges(r) ==
  LET row == View(r, "edges")[EdgeItem(r).id]
  IN  /\ Matches(View(r, "edges"), EdgeItem(r))
      /\ Ends(row) # Ends(EdgeItem(r)) \/ row.order # pc[r].at - 1

\* The transactions whose end the next statement of r waits for: they have
\* written the row it is about to write, or inserted an edge with the same ends.
WaitsFor(r) ==
  {s \in Saves \ {r} :
     \/ pc[r].do = "updateNode" /\ NodeChanges(r) /\ NodeItem(r).id \in DOMAIN wrote[s].nodes
     \/ pc[r].do = "facet" /\ NodeItem(r).id \in DOMAIN wrote[s].facets
     \/ pc[r].do = "insertEdge" /\ Ends(EdgeItem(r)) \in Pairs(wrote[s].edges)
     \/ pc[r].do = "updateEdge" /\ EdgeChanges(r) /\ EdgeItem(r).id \in DOMAIN wrote[s].edges
     \/ pc[r].do = "deleteEdge" /\ Matches(View(r, "edges"), GoneEdge(r))
                               /\ GoneEdge(r).id \in DOMAIN wrote[s].edges
     \/ pc[r].do = "tombstone" /\ Matches(View(r, "nodes"), GoneNode(r))
                              /\ GoneNode(r).id \in DOMAIN wrote[s].nodes}

\* UpsertNodes, for one node: the SELECT of its version, and the INSERT if there
\* is no row.
Node(r) ==
  LET table == View(r, "nodes")
      item == NodeItem(r)
      new == [version |-> 1, live |-> TRUE, text |-> item.text, order |-> pc[r].at - 1]
  IN  /\ pc[r].do = "node"
      /\ \/ /\ item.id \notin DOMAIN table
            /\ Write(r, "nodes", item.id, new, AfterNode(payload[r], pc[r].at))
         \/ /\ item.id \in DOMAIN table /\ ~table[item.id].live
            /\ Fail(r, "refused")
         \/ /\ item.id \in Live(table) /\ table[item.id].version # item.version
            /\ Fail(r, "conflict")
         \/ /\ Matches(table, item)
            /\ Proceed(r, At("updateNode", pc[r].at))

\* Mutant: the UPDATE forgets row_version = row_version + 1.
UpdateNodeSameVersion(r) ==
  LET table == View(r, "nodes")
      item == NodeItem(r)
      new == [table[item.id] EXCEPT !.text = item.text, !.order = pc[r].at - 1]
  IN  /\ pc[r].do = "updateNode"
      /\ WaitsFor(r) = {}
      /\ \/ /\ NodeChanges(r)
            /\ Write(r, "nodes", item.id, new, AfterNode(payload[r], pc[r].at))
         \/ /\ ~NodeChanges(r) /\ Matches(table, item)
            /\ Proceed(r, AfterNode(payload[r], pc[r].at))
         \/ /\ ~Matches(table, item)
            /\ Fail(r, IF table[item.id].live THEN "conflict" ELSE "failed")

\* The guarded UPDATE.  If it finds no row the version is read again: there is
\* nothing to change, or another save was faster.
UpdateNode(r) ==
  LET table == View(r, "nodes")
      item == NodeItem(r)
      new == [table[item.id] EXCEPT !.version = @ + 1, !.text = item.text, !.order = pc[r].at - 1]
  IN  /\ pc[r].do = "updateNode"
      /\ WaitsFor(r) = {}
      /\ \/ /\ NodeChanges(r)
            /\ Write(r, "nodes", item.id, new, AfterNode(payload[r], pc[r].at))
         \/ /\ ~NodeChanges(r) /\ Matches(table, item)
            /\ Proceed(r, AfterNode(payload[r], pc[r].at))
         \/ /\ ~NodeChanges(r) /\ ~Matches(table, item)
            /\ Fail(r, IF table[item.id].live THEN "conflict" ELSE "failed")

\* syncRoleFacet: INSERT ... ON CONFLICT DO UPDATE, whatever the row holds.
Facet(r) ==
  /\ pc[r].do = "facet"
  /\ WaitsFor(r) = {}
  /\ Write(r, "facets", NodeItem(r).id, NodeItem(r).facet, FromNodes(payload[r], pc[r].at + 1))

\* UpsertEdges begins with the identifiers of the active nodes.
ActiveNodes(r) ==
  /\ pc[r].do = "activeNodes"
  /\ active' = [active EXCEPT ![r] = Live(View(r, "nodes"))]
  /\ Step(r, FromEdges(payload[r], 1))
  /\ UNCHANGED <<tables, lock, expired, answer, loaded, payload, wrote>>

\* One edge: its ends are active nodes, and differ as DetectCycles has seen; a new
\* one meets no live edge between them, an old one has the version sent.
Edge(r) ==
  LET table == View(r, "edges")
      item == EdgeItem(r)
  IN  /\ pc[r].do = "edge"
      /\ \/ /\ \/ ~({item.from, item.to} \subseteq active[r])
               \/ item.id \in DOMAIN table /\ ~table[item.id].live
               \/ /\ item.id \notin DOMAIN table
                  /\ \E e \in Live(table) : Ends(table[e]) = Ends(item)
            /\ Fail(r, "refused")
         \/ /\ {item.from, item.to} \subseteq active[r]
            /\ \/ /\ item.id \notin DOMAIN table
                  /\ \A e \in Live(table) : Ends(table[e]) # Ends(item)
                  /\ Proceed(r, At("insertEdge", pc[r].at))
               \/ /\ item.id \in Live(table) /\ table[item.id].version # item.version
                  /\ Fail(r, "conflict")
               \/ /\ Matches(table, item)
                  /\ Proceed(r, At("updateEdge", pc[r].at))

\* UNIQUE (module_id, from_node_id, to_node_id): no row has these ends, deleted or not.
EndsUnique(r) == Ends(EdgeItem(r)) \notin Pairs(View(r, "edges"))

\* The INSERT of a new edge.
InsertEdge(r) ==
  LET item == EdgeItem(r)
      new == [version |-> 1, live |-> TRUE, from |-> item.from, to |-> item.to, order |-> pc[r].at - 1]
  IN  /\ pc[r].do = "insertEdge"
      /\ WaitsFor(r) = {}
      /\ \/ EndsUnique(r) /\ Write(r, "edges", item.id, new, FromEdges(payload[r], pc[r].at + 1))
         \/ ~EndsUnique(r) /\ Fail(r, "duplicate")

\* The guarded UPDATE of an old one.
UpdateEdge(r) ==
  LET table == View(r, "edges")
      item == EdgeItem(r)
      new == [table[item.id] EXCEPT !.version = @ + 1, !.from = item.from, !.to = item.to,
                                    !.order = pc[r].at - 1]
  IN  /\ pc[r].do = "updateEdge"
      /\ WaitsFor(r) = {}
      /\ \/ /\ EdgeChanges(r)
            /\ Write(r, "edges", item.id, new, FromEdges(payload[r], pc[r].at + 1))
         \/ /\ ~EdgeChanges(r) /\ Matches(table, item)
            /\ Proceed(r, FromEdges(payload[r], pc[r].at + 1))
         \/ /\ ~EdgeChanges(r) /\ ~Matches(table, item)
            /\ Fail(r, IF table[item.id].live THEN "conflict" ELSE "failed")

Tombstone(row) == [row EXCEPT !.version = @ + 1, !.live = FALSE]

\* DeleteEdges, for one edge.
DeleteEdge(r) ==
  LET table == View(r, "edges")
      item == GoneEdge(r)
  IN  /\ pc[r].do = "deleteEdge"
      /\ WaitsFor(r) = {}
      /\ \/ /\ Matches(table, item)
            /\ Write(r, "edges", item.id, Tombstone(table[item.id]), FromGoneEdges(payload[r], pc[r].at + 1))
         \/ ~Matches(table, item) /\ Fail(r, "conflict")

\* Mutant: the edges of the node are not looked for.
DeleteNodeUnchecked(r) ==
  pc[r].do = "deleteNode" /\ Proceed(r, At("tombstone", pc[r].at))

\* DeleteNodes, for one node: it must have no live edge ...
DeleteNode(r) ==
  LET table == View(r, "edges")
      attached == {e \in Live(table) : GoneNode(r).id \in {table[e].from, table[e].to}}
  IN  /\ pc[r].do = "deleteNode"
      /\ \/ attached = {} /\ Proceed(r, At("tombstone", pc[r].at))
         \/ attached # {} /\ Fail(r, "refused")

\* ... and is marked deleted by the next statement.
TombstoneNode(r) ==
  LET table == View(r, "nodes")
      item == GoneNode(r)
  IN  /\ pc[r].do = "tombstone"
      /\ WaitsFor(r) = {}
      /\ \/ /\ Matches(table, item)
            /\ Write(r, "nodes", item.id, Tombstone(table[item.id]), FromGoneNodes(payload[r], pc[r].at + 1))
         \/ ~Matches(table, item) /\ Fail(r, "conflict")

Commit(r) ==
  /\ pc[r].do = "commit"
  /\ tables' = [nodes |-> View(r, "nodes"), facets |-> View(r, "facets"), edges |-> View(r, "edges")]
  /\ wrote' = [wrote EXCEPT ![r] = Nothing]
  /\ Step(r, At("reread", 0))
  /\ UNCHANGED <<lock, expired, answer, loaded, payload, active>>

\* FindGraphByModuleID after the commit, for the answer: if it fails the editor
\* is told that the save failed.
Reread(r) ==
  /\ pc[r].do = "reread"
  /\ answer' \in {[answer EXCEPT ![r] = a] : a \in {"ok", "failed"}}
  /\ Step(r, At("release", 0))
  /\ UNCHANGED <<tables, lock, expired, loaded, payload, wrote, active>>

\* Any statement of the transaction may fail; it also stands for a client that
\* goes away, and for a server that dies, as the lock may stay.
DatabaseError(r) == pc[r].do \in Transaction /\ Fail(r, "failed")

\* Several transactions wait for each other.
Deadlocked(r) ==
  \E S \in SUBSET Saves : r \in S /\ \A s \in S : WaitsFor(s) \cap S # {}

\* Mutant: the key is deleted without a look at the token in it.
TokenMatchesAny(r) == TRUE

\* releaseLockScript compares the token.
TokenMatches(r) == lock = r

\* The request is answered and its variables are gone.
Answer(r) ==
  /\ Step(r, At(answer[r], 0))
  /\ answer' = [answer EXCEPT ![r] = "ok"]
  /\ loaded' = [loaded EXCEPT ![r] = NoGraph]
  /\ payload' = [payload EXCEPT ![r] = NoBody]
  /\ active' = [active EXCEPT ![r] = {}]
  /\ UNCHANGED <<tables, expired, wrote>>

\* Mutant: the handler tries until the script deletes its token.
ReleaseUntilDeleted(r) == pc[r].do = "release" /\ lock = r /\ lock' = Free /\ Answer(r)

\* The deferred release; its error is dropped, and the key then stays.
Release(r) ==
  /\ pc[r].do = "release"
  /\ lock' \in {lock, IF TokenMatches(r) THEN Free ELSE lock}
  /\ Answer(r)

Holding(r) == pc[r].do \in Transaction \cup {"reread", "release"}

\* The time to live of the key ends.
Expire ==
  /\ lock # Free
  /\ lock' = Free
  /\ expired' = expired \cup {r \in {lock} : Holding(r)}
  /\ UNCHANGED <<tables, pc, answer, loaded, payload, wrote, active>>

Handler(r) ==
  \/ Node(r) \/ UpdateNode(r) \/ Facet(r)
  \/ ActiveNodes(r) \/ Edge(r) \/ InsertEdge(r) \/ UpdateEdge(r)
  \/ DeleteEdge(r) \/ DeleteNode(r) \/ TombstoneNode(r)
  \/ Commit(r) \/ Reread(r) \/ Release(r)

Next ==
  \/ \E r \in Saves :
       \/ LoadNodes(r) \/ LoadFacets(r) \/ LoadEdges(r) \/ Send(r) \/ SendWithoutLock(r)
       \/ Handler(r) \/ DatabaseError(r)
  \/ Expire

\* Handlers run, PostgreSQL ends one of the transactions of a deadlock with an
\* error, and Redis lets keys expire; nobody has to send anything.
Fairness ==
  /\ WF_vars(Expire)
  /\ \A r \in Saves : WF_vars(Handler(r)) /\ WF_vars(Deadlocked(r) /\ DatabaseError(r))

Spec == Init /\ [][Next]_vars /\ Fairness

-----------------------------------------------------------------------------
(***************************************************************************)
(* Properties                                                              *)
(***************************************************************************)

\* The variables have their types, and no transaction is open outside the
\* statements of the use case: every early return rolls back.
TypeOK ==
  /\ IsTables(tables)
  /\ lock \in Saves \cup {Free}
  /\ expired \subseteq Saves
  /\ pc \in [Saves -> [do : Steps, at : Nat]]
  /\ answer \in [Saves -> Answers]
  /\ loaded \in [Saves -> Graph]
  /\ payload \in [Saves -> Payload]
  /\ DOMAIN wrote = Saves /\ \A r \in Saves : IsTables(wrote[r])
  /\ \A r \in Saves : pc[r].do \notin Transaction => wrote[r] = Nothing
  /\ active \in [Saves -> SUBSET Nodes]

\* A save past the lock still holds it, unless its lock ran out: no release gives
\* away the lock of another save (release_module_lock.go), so that of two saves at
\* work one has outlived its lock.
LockExclusion == \A r \in Saves \ expired : Holding(r) => lock = r

\* Live edges join live nodes.
NoDanglingEdges ==
  \A e \in Live(tables.edges) :
    tables.edges[e].from \in Live(tables.nodes) /\ tables.edges[e].to \in Live(tables.nodes)

\* Whatever two editors delete and connect, an edge hangs on a deleted node only
\* if some save outlived its lock (upsert_edges.go and delete_nodes.go check
\* against rows that the other save may be about to change).
DanglingNeedsExpiry == expired = {} => NoDanglingEdges

\* The row_version an editor holds tells whether its copy of the node is the
\* current one: no two contents of a node have one version.
VersionTellsContent ==
  \A r \in Saves : \A i \in DOMAIN loaded[r].nodes :
    LET item == loaded[r].nodes[i]
        row == tables.nodes[item.id]
    IN  row.version = item.version => row.live /\ row.text = item.text

Committing(r) == pc[r].do = "commit" /\ pc'[r].do = "reread"

\* A save overwrites or deletes a node only in the version its editor loaded,
\* even when two transactions run at once.
NoLostNodeUpdate ==
  [][\A n \in DOMAIN tables.nodes : tables'.nodes[n] # tables.nodes[n] =>
       \E r \in Saves :
         /\ Committing(r)
         /\ \E i \in DOMAIN loaded[r].nodes :
              loaded[r].nodes[i].id = n /\ loaded[r].nodes[i].version = tables.nodes[n].version]_vars

\* A save that closes a cycle was made from edges that another save had changed
\* since (or changed while this one ran).
LivePairs == {Ends(tables.edges[e]) : e \in Live(tables.edges)}

CyclesNeedAStaleLoad ==
  [][~HasCycle(LivePairs) /\ HasCycle(LivePairs)' =>
       \E r \in Saves : Committing(r) /\ Pairs(loaded[r].edges) # LivePairs]_vars

\* Every save that got the lock is answered, although transactions wait for rows.
EverySaveAnswered == \A r \in Saves : Holding(r) ~> pc[r].do \in Answers

-----------------------------------------------------------------------------
(***************************************************************************)
(* What documents and comments say and the code does not do                *)
(***************************************************************************)

\* sync_module_graph.go:27: the graph of a module has no directed cycle.
AcyclicGraph == ~HasCycle(LivePairs)

\* README.md:94: changes of the canvas are protected by row versions; a save
\* replaces a facet only by one made from the facet it replaces.
NoLostFacetUpdate ==
  [][\A n \in DOMAIN tables.facets : tables'.facets[n] # tables.facets[n] =>
       \E r \in Saves :
         /\ Committing(r)
         /\ \E i \in DOMAIN loaded[r].nodes :
              loaded[r].nodes[i].id = n /\ loaded[r].nodes[i].facet = tables.facets[n]]_vars

\* invariants.ts:22-27: two nodes without an edge between them can be connected.
\* The INSERT of a connection fails only if somebody else has made it.
DeletedEdgeCanBeDrawnAgain ==
  [][\A r \in Saves : answer'[r] = "duplicate" /\ answer[r] # "duplicate" =>
       Ends(EdgeItem(r)) \in LivePairs]_vars

\* The same within one save: a connection is refused only for an edge that the
\* save does not delete.
EdgeCanBeReplacedInOneSave ==
  [][\A r \in Saves : pc[r].do = "edge" /\ answer'[r] = "refused" =>
       \/ ~({EdgeItem(r).from, EdgeItem(r).to} \subseteq active[r])
       \/ EdgeItem(r).version # 0
       \/ \E e \in Live(tables.edges) :
            /\ Ends(tables.edges[e]) = Ends(EdgeItem(r))
            /\ \A k \in DOMAIN payload[r].goneEdges : payload[r].goneEdges[k].id # e]_vars
=============================================================================
