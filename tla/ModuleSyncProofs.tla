--------------------------- MODULE ModuleSyncProofs ---------------------------
(***************************************************************************)
(* ModuleSync: its types; the exclusion that the lock gives; that an edge  *)
(* hangs on a deleted node only after a save has outlived its lock; that   *)
(* no save overwrites a node in a version its editor did not load; and     *)
(* that only a save from edges that were changed closes a cycle.           *)
(***************************************************************************)
EXTENDS ModuleSync, TLAPS, FiniteSetTheorems

-----------------------------------------------------------------------------
(***************************************************************************)
(* Tables, loops, bodies                                                   *)
(***************************************************************************)

\* A table with rows replaced is a table.
LEMMA OverIsTable ==
  ASSUME NEW Ids, NEW Row, NEW own, NEW table, IsTable(own, Ids, Row), IsTable(table, Ids, Row)
  PROVE  IsTable(Over(own, table), Ids, Row)
  BY DEF IsTable, Over

\* A row under an identifier is a table.
LEMMA OneRowIsTable ==
  ASSUME NEW Ids, NEW Row, NEW x \in Ids, NEW row \in Row
  PROVE  IsTable([y \in {x} |-> row], Ids, Row)
  BY DEF IsTable

\* Transactions see tables.
LEMMA ViewTypes ==
  ASSUME TypeOK, NEW r \in Saves
  PROVE  /\ IsTable(View(r, "nodes"), Nodes, NodeRow)
         /\ IsTable(View(r, "facets"), Nodes, Facets)
         /\ IsTable(View(r, "edges"), Edges, EdgeRow)
  BY OverIsTable DEF TypeOK, IsTables, View

\* The item a statement is about is in the body.
InBody(body, next) ==
  /\ next.do \in {"node", "updateNode", "facet"} => next.at \in DOMAIN body.nodes
  /\ next.do = "facet" => body.nodes[next.at].facet # NoFacet
  /\ next.do \in {"edge", "insertEdge", "updateEdge"} => next.at \in DOMAIN body.edges
  /\ next.do = "deleteEdge" => next.at \in DOMAIN body.goneEdges
  /\ next.do \in {"deleteNode", "tombstone"} => next.at \in DOMAIN body.goneNodes

\* A statement of the transaction of body.
Statements(body) == {next \in [do : Transaction, at : Nat] : InBody(body, next)}

\* Wherever a loop goes next is a statement of the transaction.
LEMMA LoopTypes ==
  ASSUME NEW body, NEW i \in Nat
  PROVE  /\ FromGoneNodes(body, i) \in Statements(body)
         /\ FromGoneEdges(body, i) \in Statements(body)
         /\ FromEdges(body, i) \in Statements(body)
         /\ FromNodes(body, i) \in Statements(body)
         /\ i \in DOMAIN body.nodes => AfterNode(body, i) \in Statements(body)
<1>1. \A j \in Nat : FromGoneNodes(body, j) \in Statements(body)
  BY DEF FromGoneNodes, At, Transaction, Statements, InBody
<1>2. \A j \in Nat : FromGoneEdges(body, j) \in Statements(body)
  BY <1>1 DEF FromGoneEdges, At, Transaction, Statements, InBody
<1>3. \A j \in Nat : FromEdges(body, j) \in Statements(body)
  BY <1>2 DEF FromEdges, At, Transaction, Statements, InBody
<1>4. \A j \in Nat : FromNodes(body, j) \in Statements(body)
  BY <1>2 DEF FromNodes, At, Transaction, Statements, InBody
<1>5. i \in DOMAIN body.nodes => AfterNode(body, i) \in Statements(body)
  BY <1>4 DEF AfterNode, At, Transaction, Statements, InBody
<1> QED
  BY <1>1, <1>2, <1>3, <1>4, <1>5

\* A function on the first n numbers is a sequence.
LEMMA FunctionIsSequence ==
  ASSUME NEW S, NEW n \in Nat, NEW f \in [1 .. n -> S]
  PROVE  f \in Seq(S)
  OBVIOUS

\* A sequence without one of its items.
LEMMA WithoutTypes ==
  ASSUME NEW S, NEW s \in Seq(S), NEW i \in DOMAIN s
  PROVE  Without(s, i) \in Seq(S)
<1>1. Len(s) \in Nat /\ Len(s) - 1 \in Nat /\ DOMAIN s = 1 .. Len(s)
  OBVIOUS
<1>2. Without(s, i) \in [1 .. Len(s) - 1 -> S]
  BY <1>1 DEF Without
<1> QED
  BY <1>1, <1>2, FunctionIsSequence

\* Some of the items of a sequence, in order.
LEMMA InOrderTypes ==
  ASSUME NEW S, NEW s \in Seq(S), NEW K \in SUBSET (DOMAIN s), NEW f \in InOrder(K)
  PROVE  /\ f \in [DOMAIN f -> DOMAIN s]
         /\ \E n \in Nat : DOMAIN f = 1 .. n
<1>1. IsFiniteSet(1 .. Len(s)) /\ DOMAIN s = 1 .. Len(s)
  BY FS_Interval
<1>2. Cardinality(K) \in Nat
  BY <1>1, FS_Subset, FS_CardinalityType
<1> QED
  BY <1>2 DEF InOrder

\* A sequence with one item replaced.
LEMMA ExceptTypes ==
  ASSUME NEW S, NEW s \in Seq(S), NEW i \in DOMAIN s, NEW x \in S
  PROVE  [s EXCEPT ![i] = x] \in Seq(S)
  OBVIOUS

GoneNodes == [id : Nodes, version : Nat]

GoneEdges == [id : Edges, version : Nat]

\* What an editor makes of an item is an item.
LEMMA ItemTypes ==
  /\ \A x \in NodeItems, text \in Texts : [x EXCEPT !.text = text] \in NodeItems
  /\ \A x \in NodeItems, facet \in Facets : [x EXCEPT !.facet = facet] \in NodeItems
  /\ \A x \in NodeItems : x.id \in Nodes /\ Gone(x) \in GoneNodes
  /\ \A x \in EdgeItems : x.from \in Nodes /\ x.to \in Nodes /\ Gone(x) \in GoneEdges
  /\ \A r \in Saves : \A from, to \in Nodes : NewEdgeItem(r, from, to) \in EdgeItems
  /\ \A r \in Saves : \A text \in Texts, facet \in Facets :
       [id |-> NewNode[r], version |-> 0, text |-> text, facet |-> facet] \in NodeItems
  BY IdentifiersAssumption DEF NodeItems, EdgeItems, Gone, GoneNodes, GoneEdges, NewEdgeItem

\* Whatever an editor sends is made of nodes and edges.
LEMMA BodyTypes ==
  ASSUME NEW r \in Saves, NEW g \in Graph, NEW change \in Changes, NEW body \in Bodies(r, g)[change]
  PROVE  body \in Payload
<1>1. PICK nodes \in Seq(NodeItems), edges \in Seq(EdgeItems) : g = [nodes |-> nodes, edges |-> edges]
  BY DEF Graph
<1>2. /\ g.nodes = nodes /\ g.edges = edges
      /\ \A i \in DOMAIN nodes : nodes[i] \in NodeItems
      /\ \A k \in DOMAIN edges : edges[k] \in EdgeItems
  BY <1>1
<1>3. ASSUME NEW ns \in Seq(NodeItems), NEW es \in Seq(EdgeItems),
             NEW gn \in Seq(GoneNodes), NEW ge \in Seq(GoneEdges)
      PROVE  Body(ns, es, gn, ge) \in Payload
  BY DEF Payload, Body, GoneNodes, GoneEdges
<1>4. ASSUME NEW ns \in Seq(NodeItems), NEW es \in Seq(EdgeItems)
      PROVE  Body(ns, es, <<>>, <<>>) \in Payload
  <2>1. <<>> \in Seq(GoneNodes) /\ <<>> \in Seq(GoneEdges)
    OBVIOUS
  <2> QED
    BY <1>3, <2>1, Zenon
<1>5. ASSUME NEW ns \in Seq(NodeItems), NEW es \in Seq(EdgeItems), NEW x \in GoneEdges
      PROVE  Body(ns, es, <<>>, <<x>>) \in Payload
  <2>1. <<>> \in Seq(GoneNodes) /\ <<x>> \in Seq(GoneEdges)
    OBVIOUS
  <2> QED
    BY <1>3, <2>1, Zenon
<1>6. CASE change = "nothing"
  BY <1>2, <1>4, <1>6 DEF Bodies, Untouched
<1>7. CASE change = "editText"
  <2>1. body \in TextEdits(g)
    BY <1>7 DEF Bodies
  <2>2. PICK i \in DOMAIN nodes, text \in Texts :
          body = Body(WithText(nodes, i, text), edges, <<>>, <<>>)
    BY <1>2, <2>1 DEF TextEdits
  <2>3. [nodes[i] EXCEPT !.text = text] \in NodeItems
    BY <1>2, ItemTypes, Zenon
  <2>4. WithText(nodes, i, text) \in Seq(NodeItems)
    BY <2>3, ExceptTypes, Zenon DEF WithText
  <2> QED
    BY <1>4, <2>2, <2>4, Zenon
<1>8. CASE change = "editFacet"
  <2>1. body \in FacetEdits(g)
    BY <1>8 DEF Bodies
  <2>2. PICK i \in DOMAIN nodes, facet \in Facets :
          body = Body(WithFacet(nodes, i, facet), edges, <<>>, <<>>)
    BY <1>2, <2>1 DEF FacetEdits
  <2>3. [nodes[i] EXCEPT !.facet = facet] \in NodeItems
    BY <1>2, ItemTypes, Zenon
  <2>4. WithFacet(nodes, i, facet) \in Seq(NodeItems)
    BY <2>3, ExceptTypes, Zenon DEF WithFacet
  <2> QED
    BY <1>4, <2>2, <2>4, Zenon
<1>9. CASE change = "addNode"
  <2>1. body \in NodeAdditions(r, g)
    BY <1>9 DEF Bodies
  <2>2. PICK text \in Texts, facet \in Facets :
          body = Body(Append(nodes, [id |-> NewNode[r], version |-> 0, text |-> text, facet |-> facet]),
                      edges, <<>>, <<>>)
    BY <1>2, <2>1 DEF NodeAdditions
  <2>3. Append(nodes, [id |-> NewNode[r], version |-> 0, text |-> text, facet |-> facet]) \in Seq(NodeItems)
    BY ItemTypes
  <2> QED
    BY <1>4, <2>2, <2>3, Zenon
<1>10. CASE change = "connect"
  <2>1. body \in Connections(r, g)
    BY <1>10 DEF Bodies
  <2>2. PICK ends \in Connectable(g) :
          body = Body(nodes, Append(edges, NewEdgeItem(r, ends[1], ends[2])), <<>>, <<>>)
    BY <1>2, <2>1 DEF Connections
  <2>3. ends[1] \in Nodes /\ ends[2] \in Nodes
    BY <1>2, ItemTypes DEF Connectable
  <2>4. NewEdgeItem(r, ends[1], ends[2]) \in EdgeItems
    BY <2>3, ItemTypes
  <2>5. Append(edges, NewEdgeItem(r, ends[1], ends[2])) \in Seq(EdgeItems)
    BY <2>4
  <2> QED
    BY <1>4, <2>2, <2>5, Zenon
<1>11. CASE change = "deleteEdge"
  <2>1. body \in EdgeDeletions(g)
    BY <1>11 DEF Bodies
  <2>2. PICK k \in DOMAIN edges : body = Body(nodes, Without(edges, k), <<>>, <<Gone(edges[k])>>)
    BY <1>2, <2>1 DEF EdgeDeletions
  <2> QED
    BY <1>2, <1>5, <2>2, ItemTypes, WithoutTypes
<1>12. CASE change = "reconnect"
  <2>1. body \in Reconnections(r, g)
    BY <1>12 DEF Bodies
  <2>2. PICK k \in DOMAIN edges :
          body = Body(nodes, Append(Without(edges, k), NewEdgeItem(r, edges[k].from, edges[k].to)),
                      <<>>, <<Gone(edges[k])>>)
    BY <1>2, <2>1 DEF Reconnections
  <2>3. NewEdgeItem(r, edges[k].from, edges[k].to) \in EdgeItems /\ Gone(edges[k]) \in GoneEdges
    BY <1>2, ItemTypes
  <2>4. Append(Without(edges, k), NewEdgeItem(r, edges[k].from, edges[k].to)) \in Seq(EdgeItems)
    BY <2>3, WithoutTypes
  <2> QED
    BY <1>5, <2>2, <2>3, <2>4
<1>13. CASE change = "deleteNode"
  <2>1. body \in NodeDeletions(g)
    BY <1>13 DEF Bodies
  <2>2. PICK i \in DOMAIN nodes : body \in DeletionsOf(g, i)
    BY <1>2, <2>1 DEF NodeDeletions
  <2>3. PICK f \in Staying(g, i), h \in Leaving(g, i) : body = WithoutNode(g, i, f, h)
    BY <2>2 DEF DeletionsOf
  <2>4. /\ Touching(g, i) \in SUBSET (DOMAIN edges)
        /\ f \in InOrder(DOMAIN edges \ Touching(g, i)) /\ h \in InOrder(Touching(g, i))
    BY <1>2 DEF Touching, Staying, Leaving
  <2>5. [k \in DOMAIN f |-> edges[f[k]]] \in Seq(EdgeItems)
    <3>1. PICK n \in Nat : DOMAIN f = 1 .. n
      BY <2>4, InOrderTypes
    <3>2. f \in [1 .. n -> DOMAIN edges]
      BY <2>4, <3>1, InOrderTypes
    <3>3. [k \in DOMAIN f |-> edges[f[k]]] \in [1 .. n -> EdgeItems]
      BY <1>2, <3>1, <3>2
    <3> QED
      BY <3>3, FunctionIsSequence
  <2>6. [k \in DOMAIN h |-> Gone(edges[h[k]])] \in Seq(GoneEdges)
    <3>1. PICK n \in Nat : DOMAIN h = 1 .. n
      BY <2>4, InOrderTypes
    <3>2. h \in [1 .. n -> DOMAIN edges]
      BY <2>4, <3>1, InOrderTypes
    <3>3. [k \in DOMAIN h |-> Gone(edges[h[k]])] \in [1 .. n -> GoneEdges]
      BY <1>2, <3>1, <3>2, ItemTypes
    <3> QED
      BY <3>3, FunctionIsSequence
  <2>7. <<Gone(nodes[i])>> \in Seq(GoneNodes)
    BY <1>2, ItemTypes
  <2>8. Without(nodes, i) \in Seq(NodeItems)
    BY WithoutTypes
  <2>9. Body(Without(nodes, i), [k \in DOMAIN f |-> edges[f[k]]],
             <<Gone(nodes[i])>>, [k \in DOMAIN h |-> Gone(edges[h[k]])]) \in Payload
    BY <1>3, <2>5, <2>6, <2>7, <2>8, Zenon
  <2> QED
    BY <1>2, <2>3, <2>9, Zenon DEF WithoutNode
<1> QED
  BY <1>6, <1>7, <1>8, <1>9, <1>10, <1>11, <1>12, <1>13, ChangesAssumption

-----------------------------------------------------------------------------
(***************************************************************************)
(* Types                                                                   *)
(***************************************************************************)

\* The items that statements are about are items of the payload.
TypeInv == TypeOK /\ \A r \in Saves : InBody(payload[r], pc[r])

\* The items a statement uses have their types.
LEMMA CurrentItems ==
  ASSUME TypeInv, NEW r \in Saves
  PROVE  /\ pc[r].do \in Steps /\ pc[r].at \in Nat
         /\ pc[r].do \in {"node", "updateNode", "facet"} =>
              /\ NodeItem(r) \in NodeItems /\ pc[r].at \in DOMAIN payload[r].nodes
              /\ pc[r].at - 1 \in Nat
         /\ pc[r].do = "facet" => NodeItem(r).facet \in Facets
         /\ pc[r].do \in {"edge", "insertEdge", "updateEdge"} =>
              /\ EdgeItem(r) \in EdgeItems
              /\ pc[r].at - 1 \in Nat
         /\ pc[r].do = "deleteEdge" => GoneEdge(r).id \in Edges
         /\ pc[r].do \in {"deleteNode", "tombstone"} => GoneNode(r).id \in Nodes
<1>1. /\ pc[r] \in [do : Steps, at : Nat] /\ InBody(payload[r], pc[r])
      /\ payload[r] \in Payload
  BY DEF TypeInv, TypeOK
<1>2. /\ payload[r].nodes \in Seq(NodeItems) /\ payload[r].edges \in Seq(EdgeItems)
      /\ payload[r].goneNodes \in Seq(GoneNodes) /\ payload[r].goneEdges \in Seq(GoneEdges)
  BY <1>1 DEF Payload, GoneNodes, GoneEdges
<1>3. pc[r].do \in {"node", "updateNode", "facet"} =>
        NodeItem(r) \in NodeItems /\ pc[r].at \in DOMAIN payload[r].nodes /\ pc[r].at - 1 \in Nat
  BY <1>1, <1>2 DEF InBody, NodeItem
<1>4. pc[r].do = "facet" => NodeItem(r).facet \in Facets
  BY <1>1, <1>3 DEF InBody, NodeItem, NodeItems
<1>5. pc[r].do \in {"edge", "insertEdge", "updateEdge"} => EdgeItem(r) \in EdgeItems /\ pc[r].at - 1 \in Nat
  BY <1>1, <1>2 DEF InBody, EdgeItem
<1>6. pc[r].do = "deleteEdge" => GoneEdge(r) \in GoneEdges
  BY <1>1, <1>2 DEF InBody, GoneEdge
<1>7. pc[r].do \in {"deleteNode", "tombstone"} => GoneNode(r) \in GoneNodes
  BY <1>1, <1>2 DEF InBody, GoneNode
<1> QED
  BY <1>1, <1>3, <1>4, <1>5, <1>6, <1>7 DEF GoneNodes, GoneEdges

\* A statement that changes nothing.
LEMMA ProceedTypes ==
  ASSUME TypeInv, NEW r \in Saves, pc[r].do \in Transaction,
         NEW next \in Statements(payload[r]), Proceed(r, next)
  PROVE  TypeInv'
<1>1. next \in [do : Steps, at : Nat] /\ next.do \in Transaction /\ InBody(payload[r], next)
  BY DEF Statements, Steps
<1>2. /\ UNCHANGED <<tables, lock, expired, answer, loaded, payload, wrote, active>>
      /\ pc' = [pc EXCEPT ![r] = next]
  BY DEF Proceed, Step
<1> QED
  BY <1>1, <1>2 DEF TypeInv, TypeOK, InBody

\* A statement that writes a row.
LEMMA WriteTypes ==
  ASSUME TypeInv, NEW r \in Saves, pc[r].do \in Transaction,
         NEW next \in Statements(payload[r]), NEW table, NEW x, NEW row,
         Write(r, table, x, row, next),
         \/ table = "nodes" /\ x \in Nodes /\ row \in NodeRow
         \/ table = "facets" /\ x \in Nodes /\ row \in Facets
         \/ table = "edges" /\ x \in Edges /\ row \in EdgeRow
  PROVE  TypeInv'
<1>1. next \in [do : Steps, at : Nat] /\ next.do \in Transaction /\ InBody(payload[r], next)
  BY DEF Statements, Steps
<1>2. IsTables(wrote[r]) /\ DOMAIN wrote = Saves
  BY DEF TypeInv, TypeOK
<1> DEFINE own == Over([y \in {x} |-> row], wrote[r][table])
<1>3. /\ table = "nodes" => IsTable(own, Nodes, NodeRow)
      /\ table = "facets" => IsTable(own, Nodes, Facets)
      /\ table = "edges" => IsTable(own, Edges, EdgeRow)
  <2> DEFINE one == [y \in {x} |-> row]
  <2>1. /\ table = "nodes" => IsTable(one, Nodes, NodeRow)
        /\ table = "facets" => IsTable(one, Nodes, Facets)
        /\ table = "edges" => IsTable(one, Edges, EdgeRow)
    BY OneRowIsTable, Zenon
  <2>2. /\ IsTable(wrote[r].nodes, Nodes, NodeRow) /\ IsTable(wrote[r].facets, Nodes, Facets)
        /\ IsTable(wrote[r].edges, Edges, EdgeRow)
    BY <1>2 DEF IsTables
  <2> HIDE DEF one
  <2>3. /\ table = "nodes" => IsTable(Over(one, wrote[r].nodes), Nodes, NodeRow)
        /\ table = "facets" => IsTable(Over(one, wrote[r].facets), Nodes, Facets)
        /\ table = "edges" => IsTable(Over(one, wrote[r].edges), Edges, EdgeRow)
    BY <2>1, <2>2, OverIsTable, Zenon
  <2>4. own = Over(one, wrote[r][table])
    BY DEF one
  <2> HIDE DEF own
  <2> QED
    BY <2>3, <2>4
<1> HIDE DEF own
<1>4. wrote' = [wrote EXCEPT ![r][table] = own]
  BY DEF Write, own
<1>5. DOMAIN wrote' = Saves /\ \A s \in Saves \ {r} : wrote'[s] = wrote[s]
  BY <1>2, <1>4
<1>6. IsTables(wrote'[r])
  <2>1. /\ DOMAIN wrote'[r] = {"nodes", "facets", "edges"}
        /\ wrote'[r][table] = own
        /\ \A t \in {"nodes", "facets", "edges"} \ {table} : wrote'[r][t] = wrote[r][t]
    BY <1>2, <1>4 DEF IsTables
  <2> QED
    BY <1>2, <1>3, <2>1 DEF IsTables
<1>7. /\ UNCHANGED <<tables, lock, expired, answer, loaded, payload, active>>
      /\ pc' = [pc EXCEPT ![r] = next]
  BY DEF Write, Step
<1> QED
  BY <1>1, <1>5, <1>6, <1>7 DEF TypeInv, TypeOK, InBody

\* An error rolls back.
LEMMA FailTypes ==
  ASSUME TypeInv, NEW r \in Saves, NEW why \in Answers, Fail(r, why)
  PROVE  TypeInv'
<1>1. IsTables(Nothing)
  BY DEF IsTables, IsTable, Nothing, Empty
<1>2. At("release", 0) \in [do : Steps, at : Nat] /\ ~(At("release", 0).do \in Transaction)
  BY DEF At, Steps, Transaction
<1>3. InBody(payload[r], At("release", 0))
  BY DEF InBody, At
<1>4. /\ UNCHANGED <<tables, lock, expired, loaded, payload, active>>
      /\ pc' = [pc EXCEPT ![r] = At("release", 0)]
      /\ answer' = [answer EXCEPT ![r] = why]
      /\ wrote' = [wrote EXCEPT ![r] = Nothing]
  BY DEF Fail, Step
<1> HIDE DEF At
<1> QED
  BY <1>1, <1>2, <1>3, <1>4 DEF TypeInv, TypeOK, InBody

\* A step that gives one save another statement outside the transaction.
LEMMA LeaveTypes ==
  ASSUME NEW r \in Saves, NEW do \in Steps \ Transaction
  PROVE  /\ At(do, 0) \in [do : Steps, at : Nat] /\ At(do, 0).do \notin Transaction
         /\ \A body : InBody(body, At(do, 0))
  BY DEF At, InBody, Transaction

\* The listing of a table of items.
LEMMA ListingTypes ==
  ASSUME NEW Ids, IsFiniteSet(Ids), NEW table, DOMAIN table \subseteq Ids, NEW ids \in Listings(table)
  PROVE  \E n \in Nat : ids \in [1 .. n -> Live(table)] /\ DOMAIN ids = 1 .. n
<1>1. IsFiniteSet(Live(table))
  BY FS_Subset DEF Live
<1>2. Cardinality(Live(table)) \in Nat
  BY <1>1, FS_CardinalityType
<1> QED
  BY <1>2 DEF Listings

\* Loading gives sequences of items.
LEMMA LoadTypes ==
  ASSUME TypeInv, NEW r \in Saves, LoadNodes(r) \/ LoadFacets(r) \/ LoadEdges(r)
  PROVE  TypeInv'
<1>1. /\ IsTable(tables.nodes, Nodes, NodeRow) /\ IsTable(tables.facets, Nodes, Facets)
      /\ IsTable(tables.edges, Edges, EdgeRow)
      /\ loaded \in [Saves -> Graph]
  BY DEF TypeInv, TypeOK, IsTables
<1>2. loaded' \in [Saves -> Graph]
  <2>1. CASE LoadNodes(r)
    <3>1. PICK ids \in Listings(tables.nodes) :
            loaded' = [loaded EXCEPT ![r].nodes = [i \in DOMAIN ids |->
              [id |-> ids[i], version |-> tables.nodes[ids[i]].version, text |-> tables.nodes[ids[i]].text,
               facet |-> NoFacet]]]
      BY <2>1, Zenon DEF LoadNodes
    <3> DEFINE items == [i \in DOMAIN ids |->
              [id |-> ids[i], version |-> tables.nodes[ids[i]].version, text |-> tables.nodes[ids[i]].text,
               facet |-> NoFacet]]
    <3>2. PICK n \in Nat : ids \in [1 .. n -> Live(tables.nodes)] /\ DOMAIN ids = 1 .. n
      BY <1>1, FinitelyMany, ListingTypes DEF IsTable
    <3>3. \A i \in 1 .. n : ids[i] \in Nodes /\ tables.nodes[ids[i]] \in NodeRow
      BY <1>1, <3>2 DEF IsTable, Live
    <3>4. \A i \in 1 .. n : items[i] \in NodeItems
      BY <1>1, <3>2, <3>3 DEF NodeItems, NodeRow, IsTable
    <3>5. items \in [1 .. n -> NodeItems]
      BY <3>2, <3>4
    <3>6. items \in Seq(NodeItems)
      BY <3>5, FunctionIsSequence
    <3>7. loaded' = [loaded EXCEPT ![r].nodes = items]
      BY <3>1, Zenon
    <3> HIDE DEF items
    <3> QED
      BY <1>1, <3>6, <3>7 DEF Graph
  <2>2. CASE LoadEdges(r)
    <3>1. PICK ids \in Listings(tables.edges) :
            loaded' = [loaded EXCEPT ![r].edges = [i \in DOMAIN ids |->
              [id |-> ids[i], version |-> tables.edges[ids[i]].version,
               from |-> tables.edges[ids[i]].from, to |-> tables.edges[ids[i]].to]]]
      BY <2>2, Zenon DEF LoadEdges
    <3> DEFINE items == [i \in DOMAIN ids |->
              [id |-> ids[i], version |-> tables.edges[ids[i]].version,
               from |-> tables.edges[ids[i]].from, to |-> tables.edges[ids[i]].to]]
    <3>2. PICK n \in Nat : ids \in [1 .. n -> Live(tables.edges)] /\ DOMAIN ids = 1 .. n
      BY <1>1, FinitelyMany, ListingTypes DEF IsTable
    <3>3. \A i \in 1 .. n : ids[i] \in Edges /\ tables.edges[ids[i]] \in EdgeRow
      BY <1>1, <3>2 DEF IsTable, Live
    <3>4. \A i \in 1 .. n : items[i] \in EdgeItems
      BY <3>2, <3>3 DEF EdgeItems, EdgeRow
    <3>5. items \in [1 .. n -> EdgeItems]
      BY <3>2, <3>4
    <3>6. items \in Seq(EdgeItems)
      BY <3>5, FunctionIsSequence
    <3>7. loaded' = [loaded EXCEPT ![r].edges = items]
      BY <3>1, Zenon
    <3> HIDE DEF items
    <3> QED
      BY <1>1, <3>6, <3>7 DEF Graph
  <2>3. CASE LoadFacets(r)
    <3> DEFINE nodes == loaded[r].nodes
               items == [i \in DOMAIN nodes |-> Hydrated(nodes[i])]
    <3>1. nodes \in Seq(NodeItems)
      BY <1>1 DEF Graph
    <3>2. ASSUME NEW item \in NodeItems
          PROVE  Hydrated(item) \in NodeItems
      <4> DEFINE facet == IF item.id \in DOMAIN tables.facets THEN tables.facets[item.id] ELSE NoFacet
      <4>1. facet \in Facets \cup {NoFacet}
        BY <1>1 DEF IsTable
      <4> HIDE DEF facet
      <4>2. [item EXCEPT !.facet = facet] \in NodeItems
        BY <4>1 DEF NodeItems
      <4> QED
        BY <4>2 DEF facet, Hydrated
    <3>3. items \in Seq(NodeItems)
      <4>1. DOMAIN nodes = 1 .. Len(nodes) /\ Len(nodes) \in Nat
        BY <3>1
      <4>2. \A i \in DOMAIN nodes : Hydrated(nodes[i]) \in NodeItems
        BY <3>1, <3>2
      <4>3. items \in [1 .. Len(nodes) -> NodeItems]
        BY <4>1, <4>2
      <4> QED
        BY <4>1, <4>3, FunctionIsSequence
    <3>4. loaded' = [loaded EXCEPT ![r].nodes = items]
      BY <2>3 DEF LoadFacets
    <3> HIDE DEF items, nodes
    <3> QED
      BY <1>1, <3>3, <3>4 DEF Graph
  <2> QED
    BY <2>1, <2>2, <2>3
<1>3. PICK do \in {"hydrating", "loading", "editing"} : pc' = [pc EXCEPT ![r] = At(do, 0)]
  BY DEF LoadNodes, LoadFacets, LoadEdges, Step
<1>4. do \in Steps \ Transaction
  BY DEF Steps, Transaction
<1>5. UNCHANGED <<tables, lock, expired, answer, payload, wrote, active>>
  BY DEF LoadNodes, LoadFacets, LoadEdges
<1>6. pc[r].do \notin Transaction
  BY DEF LoadNodes, LoadFacets, LoadEdges, Transaction
<1>7. /\ At(do, 0) \in [do : Steps, at : Nat] /\ At(do, 0).do \notin Transaction
      /\ InBody(payload[r], At(do, 0))
  BY <1>4, LeaveTypes
<1> QED
  BY <1>2, <1>3, <1>5, <1>6, <1>7 DEF TypeInv, TypeOK

\* Sending, with the lock or without it.
LEMMA SendTypes ==
  ASSUME TypeInv, NEW r \in Saves, Send(r) \/ SendWithoutLock(r)
  PROVE  TypeInv'
<1>1. pc[r].do \notin Transaction /\ wrote[r] = Nothing
  BY DEF Send, SendWithoutLock, TypeInv, TypeOK, Transaction
<1>2. CASE Send(r)
  <2> DEFINE Sent(body) ==
        /\ payload' = [payload EXCEPT ![r] = body]
        /\ IF HasCycle(Pairs(body.edges))
           THEN Step(r, At("release", 0)) /\ answer' = [answer EXCEPT ![r] = "cycle"]
           ELSE Step(r, FromNodes(body, 1)) /\ UNCHANGED answer
  <2>0. PICK change \in Changes : \E body \in Bodies(r, loaded[r])[change] : Sent(body)
    BY <1>2, Zenon DEF Send
  <2>1. PICK body \in Bodies(r, loaded[r])[change] : Sent(body)
    BY <2>0
  <2>2. loaded[r] \in Graph
    BY DEF TypeInv, TypeOK
  <2>3. body \in Payload
    BY <2>2, BodyTypes
  <2>4. /\ At("release", 0) \in [do : Steps, at : Nat] /\ At("release", 0).do \notin Transaction
        /\ InBody(body, At("release", 0))
    BY LeaveTypes DEF Steps, Transaction
  <2>5. FromNodes(body, 1) \in [do : Steps, at : Nat] /\ InBody(body, FromNodes(body, 1))
    BY LoopTypes DEF Statements, Steps
  <2>6. PICK next \in [do : Steps, at : Nat] : InBody(body, next) /\ pc' = [pc EXCEPT ![r] = next]
    BY <2>1, <2>4, <2>5 DEF Step
  <2>7. answer' \in [Saves -> Answers]
    BY <2>1 DEF TypeInv, TypeOK, Answers
  <2>8. lock' = r /\ UNCHANGED <<tables, expired, loaded, wrote, active>>
    BY <1>2 DEF Send
  <2> QED
    BY <1>1, <2>1, <2>3, <2>6, <2>7, <2>8 DEF TypeInv, TypeOK
<1>3. CASE SendWithoutLock(r)
  <2>1. PICK do \in {"busy", "failed"} : pc' = [pc EXCEPT ![r] = At(do, 0)]
    BY <1>3 DEF SendWithoutLock, Step
  <2>2. /\ At(do, 0) \in [do : Steps, at : Nat] /\ At(do, 0).do \notin Transaction
        /\ InBody(payload[r], At(do, 0))
    BY LeaveTypes DEF Steps, Transaction, Answers
  <2>3. lock' \in Saves \cup {Free}
    BY <1>3 DEF SendWithoutLock, TypeInv, TypeOK
  <2>4. loaded' \in [Saves -> Graph]
    <3>1. NoGraph \in Graph
      BY DEF NoGraph, Graph
    <3> QED
      BY <1>3, <3>1 DEF SendWithoutLock, TypeInv, TypeOK
  <2>5. UNCHANGED <<tables, expired, answer, payload, wrote, active>>
    BY <1>3 DEF SendWithoutLock
  <2> QED
    BY <1>1, <2>1, <2>2, <2>3, <2>4, <2>5 DEF TypeInv, TypeOK
<1> QED
  BY <1>2, <1>3

\* The rows that the statements about nodes and edges write.
LEMMA RowTypes ==
  /\ \A text \in Texts, order \in Nat : [version |-> 1, live |-> TRUE, text |-> text, order |-> order] \in NodeRow
  /\ \A from, to \in Nodes, order \in Nat :
       [version |-> 1, live |-> TRUE, from |-> from, to |-> to, order |-> order] \in EdgeRow
  /\ \A row \in NodeRow, text \in Texts, order \in Nat :
       [row EXCEPT !.version = row.version + 1, !.text = text, !.order = order] \in NodeRow
  /\ \A row \in EdgeRow, from, to \in Nodes, order \in Nat :
       [row EXCEPT !.version = row.version + 1, !.from = from, !.to = to, !.order = order] \in EdgeRow
  /\ \A row \in NodeRow : Tombstone(row) \in NodeRow
  /\ \A row \in EdgeRow : Tombstone(row) \in EdgeRow
<1>1. /\ \A text \in Texts, order \in Nat : [version |-> 1, live |-> TRUE, text |-> text, order |-> order] \in NodeRow
      /\ \A from, to \in Nodes, order \in Nat :
           [version |-> 1, live |-> TRUE, from |-> from, to |-> to, order |-> order] \in EdgeRow
  BY DEF NodeRow, EdgeRow
<1>2. ASSUME NEW row \in NodeRow, NEW text \in Texts, NEW order \in Nat
      PROVE  [row EXCEPT !.version = row.version + 1, !.text = text, !.order = order] \in NodeRow
  <2> DEFINE v == row.version + 1
  <2>1. v \in Nat \ {0}
    BY DEF NodeRow
  <2> HIDE DEF v
  <2>2. [row EXCEPT !.version = v, !.text = text, !.order = order] \in NodeRow
    BY <2>1 DEF NodeRow
  <2> QED
    BY <2>2 DEF v
<1>3. ASSUME NEW row \in EdgeRow, NEW from \in Nodes, NEW to \in Nodes, NEW order \in Nat
      PROVE  [row EXCEPT !.version = row.version + 1, !.from = from, !.to = to, !.order = order] \in EdgeRow
  <2> DEFINE v == row.version + 1
  <2>1. v \in Nat \ {0}
    BY DEF EdgeRow
  <2> HIDE DEF v
  <2>2. [row EXCEPT !.version = v, !.from = from, !.to = to, !.order = order] \in EdgeRow
    BY <2>1 DEF EdgeRow
  <2> QED
    BY <2>2 DEF v
<1>4. ASSUME NEW row \in NodeRow
      PROVE  Tombstone(row) \in NodeRow
  <2> DEFINE v == row.version + 1
  <2>1. v \in Nat \ {0}
    BY DEF NodeRow
  <2> HIDE DEF v
  <2>2. [row EXCEPT !.version = v, !.live = FALSE] \in NodeRow
    BY <2>1 DEF NodeRow
  <2> QED
    BY <2>2 DEF Tombstone, v
<1>5. ASSUME NEW row \in EdgeRow
      PROVE  Tombstone(row) \in EdgeRow
  <2> DEFINE v == row.version + 1
  <2>1. v \in Nat \ {0}
    BY DEF EdgeRow
  <2> HIDE DEF v
  <2>2. [row EXCEPT !.version = v, !.live = FALSE] \in EdgeRow
    BY <2>1 DEF EdgeRow
  <2> QED
    BY <2>2 DEF Tombstone, v
<1> QED
  BY <1>1, <1>2, <1>3, <1>4, <1>5, Zenon

\* The statements that write a row about a node keep the types.
LEMMA NodeTypes ==
  ASSUME TypeInv, NEW r \in Saves, Node(r) \/ UpdateNode(r) \/ Facet(r) \/ TombstoneNode(r)
  PROVE  TypeInv'
<1> DEFINE table == View(r, "nodes")
           i == pc[r].at
<1>1. IsTable(table, Nodes, NodeRow)
  BY ViewTypes DEF TypeInv
<1>2. {"refused", "conflict", "failed"} \subseteq Answers
  BY DEF Answers
<1>3. pc[r].do \in Transaction
  BY DEF Node, UpdateNode, Facet, TombstoneNode, Transaction
<1>4. CASE Node(r) \/ UpdateNode(r)
  <2> DEFINE item == NodeItem(r)
  <2>1. item \in NodeItems /\ i \in DOMAIN payload[r].nodes /\ i \in Nat /\ i - 1 \in Nat
    BY <1>4, CurrentItems DEF Node, UpdateNode
  <2>2. item.id \in Nodes /\ item.text \in Texts
    BY <2>1 DEF NodeItems
  <2>3. AfterNode(payload[r], i) \in Statements(payload[r])
    BY <2>1, LoopTypes
  <2>4. At("updateNode", i) \in Statements(payload[r])
    BY <2>1 DEF Statements, InBody, At, Transaction
  <2>5. CASE Node(r)
    <3> DEFINE new == [version |-> 1, live |-> TRUE, text |-> item.text, order |-> i - 1]
    <3>1. \/ Write(r, "nodes", item.id, new, AfterNode(payload[r], i))
          \/ \E why \in Answers : Fail(r, why)
          \/ Proceed(r, At("updateNode", i))
      BY <1>2, <2>5, Zenon DEF Node
    <3>2. new \in NodeRow
      BY <2>1, <2>2, RowTypes
    <3> HIDE DEF new, item, i, table
    <3>3. CASE Write(r, "nodes", item.id, new, AfterNode(payload[r], i))
      BY <1>3, <2>2, <2>3, <3>2, <3>3, WriteTypes
    <3> QED
      BY <1>3, <2>4, <3>1, <3>3, FailTypes, ProceedTypes
  <2>6. CASE UpdateNode(r)
    <3> DEFINE row == table[item.id]
               new == [row EXCEPT !.version = row.version + 1, !.text = item.text, !.order = i - 1]
    <3>1. \/ Matches(table, item) /\ Write(r, "nodes", item.id, new, AfterNode(payload[r], i))
          \/ \E why \in Answers : Fail(r, why)
          \/ Proceed(r, AfterNode(payload[r], i))
      BY <1>2, <2>6, Zenon DEF UpdateNode, NodeChanges
    <3> HIDE DEF new, item, i, table
    <3>2. CASE Matches(table, item) /\ Write(r, "nodes", item.id, new, AfterNode(payload[r], i))
      <4>1. row \in NodeRow
        BY <1>1, <3>2 DEF Matches, IsTable
      <4>2. new \in NodeRow
        BY <2>1, <2>2, <4>1, RowTypes DEF new
      <4> QED
        BY <1>3, <2>2, <2>3, <3>2, <4>2, WriteTypes
    <3> QED
      BY <1>3, <2>3, <3>1, <3>2, FailTypes, ProceedTypes
  <2> QED
    BY <1>4, <2>5, <2>6
<1>5. CASE Facet(r)
  <2>1. NodeItem(r) \in NodeItems /\ NodeItem(r).facet \in Facets /\ i + 1 \in Nat
    BY <1>5, CurrentItems DEF Facet
  <2>2. NodeItem(r).id \in Nodes
    BY <2>1 DEF NodeItems
  <2>3. Write(r, "facets", NodeItem(r).id, NodeItem(r).facet, FromNodes(payload[r], i + 1))
    BY <1>5 DEF Facet
  <2>4. FromNodes(payload[r], i + 1) \in Statements(payload[r])
    BY <2>1, LoopTypes
  <2> QED
    BY <1>3, <2>1, <2>2, <2>3, <2>4, WriteTypes
<1>6. CASE TombstoneNode(r)
  <2> DEFINE row == table[GoneNode(r).id]
  <2>1. GoneNode(r).id \in Nodes /\ i + 1 \in Nat
    BY <1>6, CurrentItems DEF TombstoneNode
  <2>2. FromGoneNodes(payload[r], i + 1) \in Statements(payload[r])
    BY <2>1, LoopTypes
  <2>3. \/ /\ Matches(table, GoneNode(r))
           /\ Write(r, "nodes", GoneNode(r).id, Tombstone(row), FromGoneNodes(payload[r], i + 1))
        \/ Fail(r, "conflict")
    BY <1>6, Zenon DEF TombstoneNode
  <2> HIDE DEF table, i
  <2>4. CASE /\ Matches(table, GoneNode(r))
             /\ Write(r, "nodes", GoneNode(r).id, Tombstone(row), FromGoneNodes(payload[r], i + 1))
    <3>1. row \in NodeRow
      BY <1>1, <2>4 DEF Matches, IsTable
    <3>2. Tombstone(row) \in NodeRow
      BY <3>1, RowTypes
    <3> QED
      BY <1>3, <2>1, <2>2, <2>4, <3>2, WriteTypes
  <2> QED
    BY <1>2, <2>3, <2>4, FailTypes
<1> QED
  BY <1>4, <1>5, <1>6

\* The statements about edges, and the others that write no node.
LEMMA EdgeTypes ==
  ASSUME TypeInv, NEW r \in Saves,
         Edge(r) \/ InsertEdge(r) \/ UpdateEdge(r) \/ DeleteEdge(r) \/ DeleteNode(r)
  PROVE  TypeInv'
<1> DEFINE table == View(r, "edges")
           i == pc[r].at
<1>1. IsTable(table, Edges, EdgeRow)
  BY ViewTypes DEF TypeInv
<1>2. {"refused", "conflict", "failed", "duplicate"} \subseteq Answers
  BY DEF Answers
<1>3. pc[r].do \in Transaction
  BY DEF Edge, InsertEdge, UpdateEdge, DeleteEdge, DeleteNode, Transaction
<1>4. CASE Edge(r) \/ InsertEdge(r) \/ UpdateEdge(r)
  <2> DEFINE item == EdgeItem(r)
  <2>1. item \in EdgeItems /\ i \in Nat /\ i + 1 \in Nat /\ i - 1 \in Nat
    BY <1>4, CurrentItems DEF Edge, InsertEdge, UpdateEdge
  <2>2. item.id \in Edges /\ item.from \in Nodes /\ item.to \in Nodes
    BY <2>1 DEF EdgeItems
  <2>3. FromEdges(payload[r], i + 1) \in Statements(payload[r])
    BY <2>1, LoopTypes
  <2>4. CASE Edge(r)
    <3>1. At("insertEdge", i) \in Statements(payload[r]) /\ At("updateEdge", i) \in Statements(payload[r])
      <4>1. InBody(payload[r], pc[r]) /\ pc[r].do = "edge"
        BY <2>4 DEF TypeInv, Edge
      <4> QED
        BY <2>1, <4>1 DEF Statements, InBody, At, Transaction
    <3>2. \/ \E why \in Answers : Fail(r, why)
          \/ Proceed(r, At("insertEdge", i))
          \/ Proceed(r, At("updateEdge", i))
      BY <1>2, <2>4, Zenon DEF Edge
    <3> QED
      BY <1>3, <3>1, <3>2, FailTypes, ProceedTypes
  <2>5. CASE InsertEdge(r)
    <3> DEFINE new == [version |-> 1, live |-> TRUE, from |-> item.from, to |-> item.to, order |-> i - 1]
    <3>1. \/ Write(r, "edges", item.id, new, FromEdges(payload[r], i + 1))
          \/ Fail(r, "duplicate")
      BY <2>5, Zenon DEF InsertEdge
    <3>2. new \in EdgeRow
      BY <2>1, <2>2, RowTypes
    <3> HIDE DEF new, item, i, table
    <3>3. CASE Write(r, "edges", item.id, new, FromEdges(payload[r], i + 1))
      BY <1>3, <2>2, <2>3, <3>2, <3>3, WriteTypes
    <3> QED
      BY <1>2, <3>1, <3>3, FailTypes
  <2>6. CASE UpdateEdge(r)
    <3> DEFINE row == table[item.id]
               new == [row EXCEPT !.version = row.version + 1, !.from = item.from, !.to = item.to,
                                  !.order = i - 1]
    <3>1. \/ Matches(table, item) /\ Write(r, "edges", item.id, new, FromEdges(payload[r], i + 1))
          \/ \E why \in Answers : Fail(r, why)
          \/ Proceed(r, FromEdges(payload[r], i + 1))
      BY <1>2, <2>6, Zenon DEF UpdateEdge, EdgeChanges
    <3> HIDE DEF new, item, i, table
    <3>2. CASE Matches(table, item) /\ Write(r, "edges", item.id, new, FromEdges(payload[r], i + 1))
      <4>1. row \in EdgeRow
        BY <1>1, <3>2 DEF Matches, IsTable
      <4>2. new \in EdgeRow
        BY <2>1, <2>2, <4>1, RowTypes DEF new
      <4> QED
        BY <1>3, <2>2, <2>3, <3>2, <4>2, WriteTypes
    <3> QED
      BY <1>3, <2>3, <3>1, <3>2, FailTypes, ProceedTypes
  <2> QED
    BY <1>4, <2>4, <2>5, <2>6
<1>5. CASE DeleteEdge(r)
  <2> DEFINE row == table[GoneEdge(r).id]
  <2>1. GoneEdge(r).id \in Edges /\ i + 1 \in Nat
    BY <1>5, CurrentItems DEF DeleteEdge
  <2>2. FromGoneEdges(payload[r], i + 1) \in Statements(payload[r])
    BY <2>1, LoopTypes
  <2>3. \/ /\ Matches(table, GoneEdge(r))
           /\ Write(r, "edges", GoneEdge(r).id, Tombstone(row), FromGoneEdges(payload[r], i + 1))
        \/ Fail(r, "conflict")
    BY <1>5, Zenon DEF DeleteEdge
  <2> HIDE DEF table, i
  <2>4. CASE /\ Matches(table, GoneEdge(r))
             /\ Write(r, "edges", GoneEdge(r).id, Tombstone(row), FromGoneEdges(payload[r], i + 1))
    <3>1. row \in EdgeRow
      BY <1>1, <2>4 DEF Matches, IsTable
    <3>2. Tombstone(row) \in EdgeRow
      BY <3>1, RowTypes
    <3> QED
      BY <1>3, <2>1, <2>2, <2>4, <3>2, WriteTypes
  <2> QED
    BY <1>2, <2>3, <2>4, FailTypes
<1>6. CASE DeleteNode(r)
  <2>1. At("tombstone", i) \in Statements(payload[r])
    <3>1. InBody(payload[r], pc[r]) /\ pc[r].do = "deleteNode" /\ i \in Nat
      BY <1>6 DEF TypeInv, TypeOK, DeleteNode
    <3> QED
      BY <3>1 DEF Statements, InBody, At, Transaction
  <2>2. Proceed(r, At("tombstone", i)) \/ Fail(r, "refused")
    BY <1>6, Zenon DEF DeleteNode
  <2> QED
    BY <1>2, <1>3, <2>1, <2>2, ProceedTypes, FailTypes
<1> QED
  BY <1>4, <1>5, <1>6

\* The start and the end of the edges and of the transaction.
LEMMA EndTypes ==
  ASSUME TypeInv, NEW r \in Saves, ActiveNodes(r) \/ Commit(r) \/ Reread(r) \/ Release(r)
  PROVE  TypeInv'
<1>1. CASE ActiveNodes(r)
  <2>1. FromEdges(payload[r], 1) \in [do : Steps, at : Nat] /\ InBody(payload[r], FromEdges(payload[r], 1))
    BY LoopTypes DEF Statements, Steps
  <2>2. Live(View(r, "nodes")) \subseteq Nodes
    BY ViewTypes DEF TypeInv, IsTable, Live
  <2>3. /\ pc' = [pc EXCEPT ![r] = FromEdges(payload[r], 1)]
        /\ active' = [active EXCEPT ![r] = Live(View(r, "nodes"))]
        /\ UNCHANGED <<tables, lock, expired, answer, loaded, payload, wrote>>
        /\ pc[r].do \in Transaction
    BY <1>1 DEF ActiveNodes, Step, Transaction
  <2>4. FromEdges(payload[r], 1).do \in Transaction
    BY LoopTypes DEF Statements
  <2> QED
    BY <2>1, <2>2, <2>3, <2>4 DEF TypeInv, TypeOK
<1>2. CASE Commit(r)
  <2>1. IsTables(tables')
    <3>1. tables' = [nodes |-> View(r, "nodes"), facets |-> View(r, "facets"), edges |-> View(r, "edges")]
      BY <1>2 DEF Commit
    <3> QED
      BY <3>1, ViewTypes DEF TypeInv, IsTables
  <2>2. IsTables(Nothing)
    BY DEF IsTables, IsTable, Nothing, Empty
  <2>3. /\ At("reread", 0) \in [do : Steps, at : Nat] /\ At("reread", 0).do \notin Transaction
        /\ InBody(payload[r], At("reread", 0))
    BY LeaveTypes DEF Steps, Transaction
  <2>4. /\ pc' = [pc EXCEPT ![r] = At("reread", 0)]
        /\ wrote' = [wrote EXCEPT ![r] = Nothing]
        /\ UNCHANGED <<lock, expired, answer, loaded, payload, active>>
    BY <1>2 DEF Commit, Step
  <2> QED
    BY <2>1, <2>2, <2>3, <2>4 DEF TypeInv, TypeOK
<1>3. CASE Reread(r)
  <2>1. /\ At("release", 0) \in [do : Steps, at : Nat] /\ At("release", 0).do \notin Transaction
        /\ InBody(payload[r], At("release", 0))
    BY LeaveTypes DEF Steps, Transaction
  <2>2. answer' \in [Saves -> Answers]
    BY <1>3 DEF Reread, TypeInv, TypeOK, Answers
  <2>3. /\ pc' = [pc EXCEPT ![r] = At("release", 0)]
        /\ UNCHANGED <<tables, lock, expired, loaded, payload, wrote, active>>
        /\ pc[r].do \notin Transaction
    BY <1>3 DEF Reread, Step, Transaction
  <2> QED
    BY <2>1, <2>2, <2>3 DEF TypeInv, TypeOK
<1>4. CASE Release(r)
  <2>1. answer[r] \in Steps \ Transaction
    BY DEF TypeInv, TypeOK, Answers, Steps, Transaction
  <2>2. /\ At(answer[r], 0) \in [do : Steps, at : Nat] /\ At(answer[r], 0).do \notin Transaction
        /\ InBody(NoBody, At(answer[r], 0))
    BY <2>1, LeaveTypes
  <2>3. NoGraph \in Graph /\ NoBody \in Payload /\ "ok" \in Answers
    BY DEF NoGraph, NoBody, Graph, Payload, Answers
  <2>4. /\ pc' = [pc EXCEPT ![r] = At(answer[r], 0)]
        /\ answer' = [answer EXCEPT ![r] = "ok"]
        /\ loaded' = [loaded EXCEPT ![r] = NoGraph]
        /\ payload' = [payload EXCEPT ![r] = NoBody]
        /\ active' = [active EXCEPT ![r] = {}]
        /\ UNCHANGED <<tables, expired, wrote>>
        /\ lock' \in {lock, Free}
        /\ pc[r].do \notin Transaction
    BY <1>4 DEF Release, Answer, Step, Transaction
  <2> QED
    BY <2>2, <2>3, <2>4 DEF TypeInv, TypeOK
<1> QED
  BY <1>1, <1>2, <1>3, <1>4

\* The types, with the items of the statements, are invariant.
LEMMA TypeInvariance == Spec => []TypeInv
<1>1. Init => TypeInv
  <2> SUFFICES ASSUME Init
               PROVE  TypeInv
    OBVIOUS
  <2>1. IsTables(tables) /\ IsTables(Nothing)
    BY StartedAssumption DEF Init, IsTables, IsTable, Nothing, Empty
  <2>2. NoGraph \in Graph /\ NoBody \in Payload /\ "ok" \in Answers
    BY DEF NoGraph, NoBody, Graph, Payload, Answers
  <2>3. /\ At("new", 0) \in [do : Steps, at : Nat] /\ At("new", 0).do \notin Transaction
        /\ InBody(NoBody, At("new", 0))
    BY DEF At, Steps, Transaction, InBody
  <2> QED
    BY <2>1, <2>2, <2>3 DEF Init, TypeInv, TypeOK
<1>2. TypeInv /\ [Next]_vars => TypeInv'
  <2> SUFFICES ASSUME TypeInv, [Next]_vars
               PROVE  TypeInv'
    OBVIOUS
  <2>1. CASE \E r \in Saves : LoadNodes(r) \/ LoadFacets(r) \/ LoadEdges(r)
    BY <2>1, LoadTypes
  <2>2. CASE \E r \in Saves : Send(r) \/ SendWithoutLock(r)
    BY <2>2, SendTypes
  <2>3. CASE \E r \in Saves : Handler(r)
    BY <2>3, NodeTypes, EdgeTypes, EndTypes DEF Handler
  <2>4. CASE \E r \in Saves : DatabaseError(r)
    BY <2>4, FailTypes DEF DatabaseError, Answers
  <2>5. CASE Expire
    BY <2>5 DEF Expire, TypeInv, TypeOK
  <2>6. CASE UNCHANGED vars
    BY <2>6 DEF vars, TypeInv, TypeOK
  <2> QED
    BY <2>1, <2>2, <2>3, <2>4, <2>5, <2>6 DEF Next
<1> QED
  BY <1>1, <1>2, PTL DEF Spec

\* Every variable has its type, and no transaction stays open past the statements
\* of the use case: every early return of sync_module_graph.go rolls back.
THEOREM TypeCorrect == Spec => []TypeOK
<1>1. TypeInv => TypeOK
  BY DEF TypeInv
<1> QED
  BY <1>1, TypeInvariance, PTL

-----------------------------------------------------------------------------
(***************************************************************************)
(* The lock                                                                *)
(***************************************************************************)

\* What a step does to the lock and to the place of one save.
LEMMA LockSteps ==
  ASSUME TypeInv, [Next]_vars
  PROVE  \/ UNCHANGED <<lock, expired, pc>>
         \/ \E r \in Saves :
              /\ \A s \in Saves \ {r} : pc'[s] = pc[s]
              /\ expired' = expired
              /\ \/ Holding(r) /\ lock' = lock
                 \/ lock = Free /\ lock' = r
                 \/ ~Holding(r)' /\ (lock' = lock \/ lock = r \/ lock = Free)
         \/ Expire
<1> USE DEF TypeInv, TypeOK
<1>1. ASSUME NEW r \in Saves, NEW next, Step(r, next)
      PROVE  pc'[r] = next /\ \A s \in Saves \ {r} : pc'[s] = pc[s]
  BY <1>1 DEF Step
<1>2. \A do \in Answers \cup {"hydrating", "loading", "editing"}, r \in Saves :
        pc'[r] = At(do, 0) => ~Holding(r)'
  BY DEF At, Holding, Transaction, Answers
<1>3. ASSUME NEW r \in Saves, LoadNodes(r) \/ LoadFacets(r) \/ LoadEdges(r)
      PROVE  /\ \A s \in Saves \ {r} : pc'[s] = pc[s]
             /\ expired' = expired /\ lock' = lock /\ ~Holding(r)'
  BY <1>1, <1>2, <1>3 DEF LoadNodes, LoadFacets, LoadEdges
<1>4. ASSUME NEW r \in Saves, Send(r)
      PROVE  /\ \A s \in Saves \ {r} : pc'[s] = pc[s]
             /\ expired' = expired /\ lock = Free /\ lock' = r
  BY <1>1, <1>4 DEF Send
<1>5. ASSUME NEW r \in Saves, SendWithoutLock(r)
      PROVE  /\ \A s \in Saves \ {r} : pc'[s] = pc[s]
             /\ expired' = expired /\ ~Holding(r)' /\ (lock' = lock \/ lock = Free)
  BY <1>1, <1>2, <1>5 DEF SendWithoutLock, Answers
<1>6. ASSUME NEW r \in Saves, NEW next, Step(r, next), UNCHANGED <<lock, expired>>, pc[r].do \in Transaction \cup {"reread"}
      PROVE  /\ \A s \in Saves \ {r} : pc'[s] = pc[s]
             /\ expired' = expired /\ lock' = lock /\ Holding(r)
  BY <1>1, <1>6 DEF Holding
<1>7. ASSUME NEW r \in Saves, Handler(r) \/ DatabaseError(r), ~Release(r)
      PROVE  /\ \A s \in Saves \ {r} : pc'[s] = pc[s]
             /\ expired' = expired /\ lock' = lock /\ Holding(r)
  <2>1. pc[r].do \in Transaction \cup {"reread"}
    BY <1>7 DEF Handler, DatabaseError, Node, UpdateNode, Facet, ActiveNodes, Edge, InsertEdge, UpdateEdge,
                DeleteEdge, DeleteNode, TombstoneNode, Commit, Reread, Transaction
  <2>2. UNCHANGED <<lock, expired>> /\ \E next : Step(r, next)
    <3>1. (\E why : Fail(r, why)) \/ (\E next : Proceed(r, next))
             \/ (\E table, x, row, next : Write(r, table, x, row, next))
             \/ ActiveNodes(r) \/ Commit(r) \/ Reread(r)
      BY <1>7, Zenon DEF Handler, DatabaseError, Node, UpdateNode, Facet, Edge, InsertEdge, UpdateEdge,
                DeleteEdge, DeleteNode, TombstoneNode
    <3> QED
      BY <3>1 DEF Fail, Proceed, Write, ActiveNodes, Commit, Reread
  <2> QED
    BY <1>6, <2>1, <2>2
<1>8. ASSUME NEW r \in Saves, Release(r)
      PROVE  /\ \A s \in Saves \ {r} : pc'[s] = pc[s]
             /\ expired' = expired /\ ~Holding(r)' /\ (lock' = lock \/ lock = r)
  BY <1>1, <1>2, <1>8 DEF Release, Answer, TokenMatches
<1>9. CASE UNCHANGED vars
  BY <1>9 DEF vars
<1> QED
  BY <1>3, <1>4, <1>5, <1>7, <1>8, <1>9 DEF Next, Handler

\* LockExclusion is inductive: every step of a save past the lock leaves the lock
\* alone, takes it when it is free, or gives back its own token only.
THEOREM LockExclusionHolds == Spec => []LockExclusion
<1>1. Init => LockExclusion
  BY DEF Init, LockExclusion, Holding, At, Transaction
<1>2. TypeInv /\ LockExclusion /\ [Next]_vars => LockExclusion'
  <2> SUFFICES ASSUME TypeInv, LockExclusion, [Next]_vars
               PROVE  LockExclusion'
    OBVIOUS
  <2>1. CASE UNCHANGED <<lock, expired, pc>>
    BY <2>1 DEF LockExclusion, Holding
  <2>2. ASSUME NEW r \in Saves, \A s \in Saves \ {r} : pc'[s] = pc[s], expired' = expired,
               \/ Holding(r) /\ lock' = lock
               \/ lock = Free /\ lock' = r
               \/ ~Holding(r)' /\ (lock' = lock \/ lock = r \/ lock = Free)
        PROVE  LockExclusion'
    <3>1. \A s \in Saves \ {r} : Holding(s)' = Holding(s)
      BY <2>2 DEF Holding
    <3> QED
      BY <2>2, <3>1, SavesAssumption DEF LockExclusion
  <2>3. CASE Expire
    BY <2>3 DEF Expire, LockExclusion, Holding
  <2> QED
    BY <2>1, <2>2, <2>3, LockSteps
<1> QED
  BY <1>1, <1>2, TypeInvariance, PTL DEF Spec

-----------------------------------------------------------------------------
(***************************************************************************)
(* Dangling edges                                                          *)
(***************************************************************************)

\* Live edges join live nodes.
Joined(nodes, edges) ==
  \A e \in Live(edges) : edges[e].from \in Live(nodes) /\ edges[e].to \in Live(nodes)

\* What a transaction that has the lock knows at each statement: nobody else writes.
Sound(r) ==
  /\ Joined(View(r, "nodes"), View(r, "edges"))
  /\ pc[r].do \in {"edge", "insertEdge", "updateEdge"} => active[r] \subseteq Live(View(r, "nodes"))
  /\ pc[r].do \in {"insertEdge", "updateEdge"} => {EdgeItem(r).from, EdgeItem(r).to} \subseteq active[r]
  /\ pc[r].do = "tombstone" =>
       \A e \in Live(View(r, "edges")) :
         GoneNode(r).id \notin {View(r, "edges")[e].from, View(r, "edges")[e].to}

JoinedInv ==
  expired = {} => /\ Joined(tables.nodes, tables.edges)
                  /\ \A r \in Saves : pc[r].do \in Transaction => Sound(r)

\* A transaction that has written nothing sees what is committed.
LEMMA NothingWritten ==
  ASSUME TypeInv, NEW r \in Saves, wrote[r] = Nothing
  PROVE  View(r, "nodes") = tables.nodes /\ View(r, "edges") = tables.edges
<1>1. IsTable(tables.nodes, Nodes, NodeRow) /\ IsTable(tables.edges, Edges, EdgeRow)
  BY DEF TypeInv, TypeOK, IsTables
<1>2. wrote[r].nodes = Empty /\ wrote[r].edges = Empty
  BY DEF Nothing
<1> QED
  BY <1>1, <1>2 DEF View, Over, Empty, IsTable

\* A transaction that writes a row sees it, and the other rows as before.
LEMMA ViewAfterWrite ==
  ASSUME TypeInv, NEW r \in Saves, NEW table \in {"nodes", "facets", "edges"}, NEW x, NEW row, NEW next,
         Write(r, table, x, row, next)
  PROVE  /\ DOMAIN View(r, table)' = DOMAIN View(r, table) \cup {x}
         /\ View(r, table)'[x] = row
         /\ \A y \in DOMAIN View(r, table) \ {x} : View(r, table)'[y] = View(r, table)[y]
         /\ \A t \in {"nodes", "facets", "edges"} \ {table} : View(r, t)' = View(r, t)
<1> DEFINE own == Over([y \in {x} |-> row], wrote[r][table])
<1>1. DOMAIN own = DOMAIN wrote[r][table] \cup {x} /\ own[x] = row
      /\ \A y \in DOMAIN wrote[r][table] \ {x} : own[y] = wrote[r][table][y]
  BY DEF Over
<1> HIDE DEF own
<1>2. DOMAIN wrote = Saves /\ DOMAIN wrote[r] = {"nodes", "facets", "edges"}
  BY DEF TypeInv, TypeOK, IsTables
<1>3. wrote' = [wrote EXCEPT ![r][table] = own] /\ tables' = tables
  BY DEF Write, own
<1>4. /\ wrote'[r][table] = own
      /\ \A t \in {"nodes", "facets", "edges"} \ {table} : wrote'[r][t] = wrote[r][t]
  BY <1>2, <1>3
<1> QED
  BY <1>1, <1>3, <1>4 DEF View, Over

\* A step that leaves the tables and the other saves alone, and ends outside the
\* transaction.
LEMMA JoinedOutside ==
  ASSUME JoinedInv, NEW r \in Saves, UNCHANGED <<tables, expired>>,
         pc'[r].do \notin Transaction,
         \A s \in Saves \ {r} : /\ pc'[s] = pc[s] /\ wrote'[s] = wrote[s]
                               /\ payload'[s] = payload[s] /\ active'[s] = active[s]
  PROVE  JoinedInv'
<1>1. ASSUME NEW s \in Saves \ {r}, Sound(s)
      PROVE  Sound(s)'
  <2>1. View(s, "nodes")' = View(s, "nodes") /\ View(s, "edges")' = View(s, "edges")
    BY DEF View
  <2>2. EdgeItem(s)' = EdgeItem(s) /\ GoneNode(s)' = GoneNode(s)
    BY DEF EdgeItem, GoneNode
  <2>3. pc'[s] = pc[s] /\ active'[s] = active[s]
    OBVIOUS
  <2> QED
    BY <1>1, <2>1, <2>2, <2>3 DEF Sound, Joined, Live
<1> QED
  BY <1>1 DEF JoinedInv

\* A step of the transaction that has the lock: nobody else is in one.
LEMMA JoinedInside ==
  ASSUME TypeInv, LockExclusion, JoinedInv, NEW r \in Saves, Holding(r) \/ lock = Free,
         \A s \in Saves \ {r} : pc'[s] = pc[s],
         expired' = expired,
         expired = {} => /\ Joined(tables.nodes, tables.edges)'
                         /\ pc'[r].do \in Transaction => Sound(r)'
  PROVE  JoinedInv'
<1> SUFFICES ASSUME expired = {}, NEW s \in Saves \ {r}, pc'[s].do \in Transaction
             PROVE  FALSE
  BY DEF JoinedInv
<1>1. Holding(s) /\ pc'[s] = pc[s]
  BY DEF Holding
<1>2. lock = s
  BY <1>1 DEF LockExclusion
<1> QED
  BY <1>1, <1>2, SavesAssumption DEF LockExclusion

\* Where the loops go: only the loop of the edges to a statement about an edge to keep,
\* and none to the statement that deletes a node.
LEMMA LoopPlaces ==
  ASSUME NEW body, NEW i
  PROVE  /\ FromEdges(body, i).do \notin {"insertEdge", "updateEdge", "tombstone"}
         /\ FromGoneNodes(body, i).do \notin {"edge", "insertEdge", "updateEdge", "tombstone"}
         /\ FromGoneEdges(body, i).do \notin {"edge", "insertEdge", "updateEdge", "tombstone"}
         /\ FromNodes(body, i).do \notin {"edge", "insertEdge", "updateEdge", "tombstone"}
         /\ AfterNode(body, i).do \notin {"edge", "insertEdge", "updateEdge", "tombstone"}
  BY DEF FromGoneNodes, FromGoneEdges, FromEdges, FromNodes, AfterNode, At

\* Statements about nodes leave live the nodes that are live, or make one live, but
\* for the last, which deletes a node without live edges.
LEMMA JoinedNodes ==
  ASSUME TypeInv, JoinedInv, expired = {}, NEW r \in Saves,
         NEW x, NEW row, NEW next, Write(r, "nodes", x, row, next),
         pc[r].do \in Transaction, next.do \notin {"edge", "insertEdge", "updateEdge", "tombstone"},
         \/ row.live
         \/ pc[r].do = "tombstone" /\ x = GoneNode(r).id
  PROVE  Joined(tables.nodes, tables.edges)' /\ Sound(r)'
<1> DEFINE nodes == View(r, "nodes")
           edges == View(r, "edges")
<1>1. /\ DOMAIN nodes' = DOMAIN nodes \cup {x} /\ nodes'[x] = row
      /\ \A y \in DOMAIN nodes \ {x} : nodes'[y] = nodes[y]
      /\ edges' = edges
  <2>1. /\ DOMAIN View(r, "nodes")' = DOMAIN View(r, "nodes") \cup {x}
        /\ View(r, "nodes")'[x] = row
        /\ \A y \in DOMAIN View(r, "nodes") \ {x} : View(r, "nodes")'[y] = View(r, "nodes")[y]
        /\ \A t \in {"nodes", "facets", "edges"} \ {"nodes"} : View(r, t)' = View(r, t)
    BY ViewAfterWrite
  <2> QED
    BY <2>1
<1>2. pc'[r] = next /\ tables' = tables
  BY DEF Write, Step, TypeInv, TypeOK
<1>3. Joined(nodes, edges) /\ Joined(tables.nodes, tables.edges) /\ Sound(r)
  BY DEF JoinedInv, Sound
<1>4. pc[r].do = "tombstone" /\ x = GoneNode(r).id => \A e \in Live(edges) : x \notin {edges[e].from, edges[e].to}
  BY <1>3 DEF Sound
<1> HIDE DEF nodes, edges
<1>5. Joined(nodes', edges')
  BY <1>1, <1>3, <1>4 DEF Joined, Live
<1>6. Joined(tables.nodes, tables.edges)'
  BY <1>2, <1>3 DEF Joined, Live
<1> QED
  BY <1>2, <1>5, <1>6 DEF Sound, nodes, edges

\* Statements about edges write dead edges, or live ones between active nodes.
LEMMA JoinedEdges ==
  ASSUME TypeInv, JoinedInv, expired = {}, NEW r \in Saves,
         NEW x, NEW row, NEW next, Write(r, "edges", x, row, next),
         pc[r].do \in Transaction, next.do \notin {"insertEdge", "updateEdge", "tombstone"},
         next.do = "edge" => pc[r].do \in {"edge", "insertEdge", "updateEdge"},
         \/ ~row.live
         \/ /\ pc[r].do \in {"insertEdge", "updateEdge"}
            /\ row.from = EdgeItem(r).from /\ row.to = EdgeItem(r).to
  PROVE  Joined(tables.nodes, tables.edges)' /\ Sound(r)'
<1> DEFINE nodes == View(r, "nodes")
           edges == View(r, "edges")
<1>1. /\ DOMAIN edges' = DOMAIN edges \cup {x} /\ edges'[x] = row
      /\ \A y \in DOMAIN edges \ {x} : edges'[y] = edges[y]
      /\ nodes' = nodes
  BY ViewAfterWrite
<1>2. pc'[r] = next /\ tables' = tables /\ active' = active
  BY DEF Write, Step, TypeInv, TypeOK
<1>3. /\ Joined(nodes, edges) /\ Joined(tables.nodes, tables.edges)
      /\ pc[r].do \in {"edge", "insertEdge", "updateEdge"} => active[r] \subseteq Live(nodes)
      /\ pc[r].do \in {"insertEdge", "updateEdge"} => {EdgeItem(r).from, EdgeItem(r).to} \subseteq active[r]
  BY DEF JoinedInv, Sound
<1>4. row.live => row.from \in Live(nodes) /\ row.to \in Live(nodes)
  BY <1>3
<1> HIDE DEF nodes, edges
<1>5. Joined(nodes', edges')
  BY <1>1, <1>3, <1>4 DEF Joined, Live
<1>6. Joined(tables.nodes, tables.edges)'
  BY <1>2, <1>3 DEF Joined, Live
<1>7. next.do = "edge" => active'[r] \subseteq Live(nodes')
  BY <1>1, <1>2, <1>3
<1> QED
  BY <1>2, <1>5, <1>6, <1>7 DEF Sound, nodes, edges

\* With the lock the handlers keep edges joined.
LEMMA JoinedHandler ==
  ASSUME TypeInv, JoinedInv, expired = {}, NEW r \in Saves, Handler(r), pc[r].do \in Transaction,
         ~Commit(r), ~Reread(r), ~Release(r), ~\E why : Fail(r, why)
  PROVE  Joined(tables.nodes, tables.edges)' /\ Sound(r)'
<1> DEFINE i == pc[r].at
<1>1. Joined(tables.nodes, tables.edges) /\ Sound(r)
  BY DEF JoinedInv
<1>2. ASSUME NEW why, Fail(r, why)
      PROVE  FALSE
  BY <1>2
<1>3. ASSUME NEW next, Proceed(r, next)
      PROVE  /\ pc'[r] = next /\ Joined(tables.nodes, tables.edges)' /\ Joined(View(r, "nodes"), View(r, "edges"))'
             /\ View(r, "nodes")' = View(r, "nodes") /\ View(r, "edges")' = View(r, "edges")
             /\ active' = active /\ payload' = payload
  <2>1. View(r, "nodes")' = View(r, "nodes") /\ View(r, "edges")' = View(r, "edges") /\ tables' = tables
    BY <1>3 DEF Proceed, View
  <2>2. pc'[r] = next
    BY <1>3 DEF Proceed, Step, TypeInv, TypeOK
  <2> QED
    BY <1>1, <1>3, <2>1, <2>2 DEF Proceed, Sound, Joined, Live
<1>4. ASSUME NEW next, Proceed(r, next), next.do \notin {"edge", "insertEdge", "updateEdge", "tombstone"}
      PROVE  Joined(tables.nodes, tables.edges)' /\ Sound(r)'
  BY <1>3, <1>4 DEF Sound
<1>5. CASE Node(r)
  <2> DEFINE item == NodeItem(r)
             new == [version |-> 1, live |-> TRUE, text |-> item.text, order |-> i - 1]
  <2>1. \/ Write(r, "nodes", item.id, new, AfterNode(payload[r], i))
        \/ \E why : Fail(r, why)
        \/ Proceed(r, At("updateNode", i))
    BY <1>5, Zenon DEF Node
  <2>2. new.live
    OBVIOUS
  <2>3. At("updateNode", i).do \notin {"edge", "insertEdge", "updateEdge", "tombstone"}
    BY DEF At
  <2> HIDE DEF new, item
  <2> QED
    BY <1>2, <1>4, <2>1, <2>2, <2>3, LoopPlaces, JoinedNodes
<1>6. CASE UpdateNode(r)
  <2> DEFINE item == NodeItem(r)
             row == View(r, "nodes")[item.id]
             new == [row EXCEPT !.version = row.version + 1, !.text = item.text, !.order = i - 1]
  <2>1. \/ Matches(View(r, "nodes"), item) /\ Write(r, "nodes", item.id, new, AfterNode(payload[r], i))
        \/ \E why : Fail(r, why)
        \/ Proceed(r, AfterNode(payload[r], i))
    BY <1>6, Zenon DEF UpdateNode, NodeChanges
  <2>2. CASE Matches(View(r, "nodes"), item) /\ Write(r, "nodes", item.id, new, AfterNode(payload[r], i))
    <3>1. row \in NodeRow /\ row.live
      BY <2>2, ViewTypes DEF Matches, IsTable, TypeInv
    <3> HIDE DEF row
    <3>2. new.live
      BY <3>1 DEF NodeRow
    <3> HIDE DEF new, item
    <3> QED
      BY <2>2, <3>2, LoopPlaces, JoinedNodes
  <2> QED
    BY <1>2, <1>4, <2>1, <2>2, LoopPlaces
<1>7. CASE Facet(r)
  <2>1. Write(r, "facets", NodeItem(r).id, NodeItem(r).facet, FromNodes(payload[r], i + 1))
    BY <1>7 DEF Facet
  <2>2. "facets" \in {"nodes", "facets", "edges"} /\ {"nodes", "edges"} \subseteq {"nodes", "facets", "edges"} \ {"facets"}
    OBVIOUS
  <2>3. View(r, "nodes")' = View(r, "nodes") /\ View(r, "edges")' = View(r, "edges")
    BY <2>1, <2>2, ViewAfterWrite
  <2>4. pc'[r] = FromNodes(payload[r], i + 1) /\ tables' = tables
    BY <2>1 DEF Write, Step, TypeInv, TypeOK
  <2> QED
    BY <1>1, <2>3, <2>4, LoopPlaces DEF Sound, Joined, Live
<1>8. CASE ActiveNodes(r)
  <2>1. /\ View(r, "nodes")' = View(r, "nodes") /\ View(r, "edges")' = View(r, "edges") /\ tables' = tables
        /\ active'[r] = Live(View(r, "nodes")) /\ pc'[r] = FromEdges(payload[r], 1)
    BY <1>8 DEF ActiveNodes, Step, View, TypeInv, TypeOK
  <2> QED
    BY <1>1, <2>1, LoopPlaces DEF Sound, Joined, Live
<1>9. CASE Edge(r)
  <2>1. \/ \E why : Fail(r, why)
        \/ /\ {EdgeItem(r).from, EdgeItem(r).to} \subseteq active[r] /\ pc[r].do = "edge"
           /\ \E do \in {"insertEdge", "updateEdge"} : Proceed(r, At(do, i))
    BY <1>9, Zenon DEF Edge
  <2>2. PICK do \in {"insertEdge", "updateEdge"} :
          /\ {EdgeItem(r).from, EdgeItem(r).to} \subseteq active[r] /\ pc[r].do = "edge"
          /\ Proceed(r, At(do, i))
    BY <1>2, <2>1
  <2>3. At(do, i).do = do /\ At(do, i).at = i
    BY DEF At
  <2>4. EdgeItem(r)' = EdgeItem(r)
    BY <1>3, <2>2, <2>3 DEF EdgeItem
  <2>5. active[r] \subseteq Live(View(r, "nodes"))
    BY <1>1, <2>2 DEF Sound
  <2> QED
    BY <1>3, <2>2, <2>3, <2>4, <2>5 DEF Sound, Live
<1>10. CASE InsertEdge(r)
  <2> DEFINE item == EdgeItem(r)
             new == [version |-> 1, live |-> TRUE, from |-> item.from, to |-> item.to, order |-> i - 1]
  <2>1. \/ Write(r, "edges", item.id, new, FromEdges(payload[r], i + 1))
        \/ \E why : Fail(r, why)
    BY <1>10, Zenon DEF InsertEdge
  <2>2. new.from = EdgeItem(r).from /\ new.to = EdgeItem(r).to /\ pc[r].do = "insertEdge"
    BY <1>10 DEF InsertEdge
  <2> HIDE DEF new, item
  <2> QED
    BY <1>2, <2>1, <2>2, LoopPlaces, JoinedEdges
<1>11. CASE UpdateEdge(r)
  <2> DEFINE item == EdgeItem(r)
             row == View(r, "edges")[item.id]
             new == [row EXCEPT !.version = row.version + 1, !.from = item.from, !.to = item.to, !.order = i - 1]
  <2>1. \/ Matches(View(r, "edges"), item) /\ Write(r, "edges", item.id, new, FromEdges(payload[r], i + 1))
        \/ \E why : Fail(r, why)
        \/ Proceed(r, FromEdges(payload[r], i + 1))
    BY <1>11, Zenon DEF UpdateEdge, EdgeChanges
  <2>2. pc[r].do = "updateEdge"
    BY <1>11 DEF UpdateEdge
  <2>3. CASE Matches(View(r, "edges"), item) /\ Write(r, "edges", item.id, new, FromEdges(payload[r], i + 1))
    <3>1. row \in EdgeRow
      BY <2>3, ViewTypes DEF Matches, IsTable, TypeInv
    <3> HIDE DEF row
    <3>2. new.from = EdgeItem(r).from /\ new.to = EdgeItem(r).to
      BY <3>1 DEF EdgeRow
    <3> HIDE DEF new, item
    <3> QED
      BY <2>2, <2>3, <3>2, LoopPlaces, JoinedEdges
  <2>4. CASE Proceed(r, FromEdges(payload[r], i + 1))
    <3>1. active[r] \subseteq Live(View(r, "nodes"))
      BY <1>1, <2>2 DEF Sound
    <3> QED
      BY <1>3, <2>4, <3>1, LoopPlaces DEF Sound, Live
  <2> QED
    BY <1>2, <2>1, <2>3, <2>4
<1>12. CASE DeleteEdge(r)
  <2> DEFINE row == View(r, "edges")[GoneEdge(r).id]
             new == Tombstone(row)
  <2>1. \/ /\ Matches(View(r, "edges"), GoneEdge(r))
           /\ Write(r, "edges", GoneEdge(r).id, new, FromGoneEdges(payload[r], i + 1))
        \/ \E why : Fail(r, why)
    BY <1>12, Zenon DEF DeleteEdge
  <2>2. CASE /\ Matches(View(r, "edges"), GoneEdge(r))
             /\ Write(r, "edges", GoneEdge(r).id, new, FromGoneEdges(payload[r], i + 1))
    <3>1. row \in EdgeRow
      BY <2>2, ViewTypes DEF Matches, IsTable, TypeInv
    <3> HIDE DEF row
    <3>2. ~new.live
      BY <3>1 DEF EdgeRow, Tombstone
    <3> HIDE DEF new
    <3> QED
      BY <2>2, <3>2, LoopPlaces, JoinedEdges
  <2> QED
    BY <1>2, <2>1, <2>2
<1>13. CASE DeleteNode(r)
  <2>1. \/ \E why : Fail(r, why)
        \/ /\ Proceed(r, At("tombstone", i)) /\ pc[r].at = i
           /\ \A e \in Live(View(r, "edges")) :
                GoneNode(r).id \notin {View(r, "edges")[e].from, View(r, "edges")[e].to}
    BY <1>13 DEF DeleteNode
  <2>2. At("tombstone", i).do = "tombstone" /\ At("tombstone", i).at = i
    BY DEF At
  <2>3. Proceed(r, At("tombstone", i)) => GoneNode(r)' = GoneNode(r)
    BY <1>3, <2>2 DEF GoneNode
  <2> QED
    BY <1>2, <1>3, <2>1, <2>2, <2>3 DEF Sound, Live
<1>14. CASE TombstoneNode(r)
  <2> DEFINE row == View(r, "nodes")[GoneNode(r).id]
             new == Tombstone(row)
  <2>1. \/ Write(r, "nodes", GoneNode(r).id, new, FromGoneNodes(payload[r], i + 1))
        \/ \E why : Fail(r, why)
    BY <1>14, Zenon DEF TombstoneNode
  <2>2. pc[r].do = "tombstone"
    BY <1>14 DEF TombstoneNode
  <2> HIDE DEF new
  <2> QED
    BY <1>2, <2>1, <2>2, LoopPlaces, JoinedNodes
<1> QED
  BY <1>5, <1>6, <1>7, <1>8, <1>9, <1>10, <1>11, <1>12, <1>13, <1>14 DEF Handler

\* Joined edges are invariant as long as no lock runs out.
LEMMA JoinedInvariance == Spec => []JoinedInv
<1>1. Init => JoinedInv
  <2> SUFFICES ASSUME Init
               PROVE  JoinedInv
    OBVIOUS
  <2>1. \A e \in DOMAIN tables.edges : {tables.edges[e].from, tables.edges[e].to} \subseteq DOMAIN tables.nodes
    BY StartedAssumption DEF Init
  <2>2. \A e \in DOMAIN tables.edges : tables.edges[e].live =>
          tables.nodes[tables.edges[e].from].live /\ tables.nodes[tables.edges[e].to].live
    BY StartedAssumption DEF Init
  <2>3. \A r \in Saves : pc[r].do \notin Transaction
    BY DEF Init, At, Transaction
  <2> QED
    BY <2>1, <2>2, <2>3 DEF JoinedInv, Joined, Live
<1>2. TypeInv /\ LockExclusion /\ JoinedInv /\ [Next]_vars => JoinedInv'
  <2> SUFFICES ASSUME TypeInv, LockExclusion, JoinedInv, [Next]_vars
               PROVE  JoinedInv'
    OBVIOUS
  <2> USE DEF TypeInv, TypeOK
  <2>1. ASSUME NEW r \in Saves, LoadNodes(r) \/ LoadFacets(r) \/ LoadEdges(r) \/ SendWithoutLock(r) \/ Reread(r) \/ Release(r)
        PROVE  JoinedInv'
    <3>1. UNCHANGED <<tables, expired, wrote>>
      BY <2>1 DEF LoadNodes, LoadFacets, LoadEdges, SendWithoutLock, Reread, Release, Answer
    <3>2. pc'[r].do \notin Transaction
      BY <2>1 DEF LoadNodes, LoadFacets, LoadEdges, SendWithoutLock, Reread, Release, Answer, Step, At, Transaction, Answers
    <3>3. \A s \in Saves \ {r} : pc'[s] = pc[s] /\ payload'[s] = payload[s] /\ active'[s] = active[s]
      BY <2>1 DEF LoadNodes, LoadFacets, LoadEdges, SendWithoutLock, Reread, Release, Answer, Step
    <3> QED
      BY <3>1, <3>2, <3>3, JoinedOutside
  <2>2. ASSUME NEW r \in Saves, NEW why, Fail(r, why)
        PROVE  JoinedInv'
    BY <2>2, JoinedOutside DEF Fail, Step, At, Transaction
  <2>3. ASSUME NEW r \in Saves, Send(r)
        PROVE  JoinedInv'
    <3>1. /\ lock = Free /\ UNCHANGED <<tables, expired, wrote, active>>
          /\ \E next : Step(r, next)
      BY <2>3 DEF Send
    <3>2. wrote[r] = Nothing
      BY <2>3 DEF Send, Transaction
    <3>3. View(r, "nodes")' = tables.nodes /\ View(r, "edges")' = tables.edges
      BY <3>1, <3>2, NothingWritten DEF View
    <3>4. pc'[r].do \in Transaction => pc'[r].do \notin {"edge", "insertEdge", "updateEdge", "tombstone"}
      <4>1. PICK body : Step(r, At("release", 0)) \/ Step(r, FromNodes(body, 1))
        BY <2>3 DEF Send
      <4> QED
        BY <4>1, LoopPlaces DEF Step, At
    <3>5. expired = {} => /\ Joined(tables.nodes, tables.edges)'
                          /\ pc'[r].do \in Transaction => Sound(r)'
      BY <3>1, <3>3, <3>4 DEF JoinedInv, Sound, Joined, Live
    <3>6. \A s \in Saves \ {r} : pc'[s] = pc[s]
      BY <3>1 DEF Step
    <3> QED
      BY <3>1, <3>5, <3>6, JoinedInside
  <2>4. ASSUME NEW r \in Saves, Commit(r)
        PROVE  JoinedInv'
    <3>1. /\ pc'[r].do \notin Transaction /\ expired' = expired /\ Holding(r)
          /\ \A s \in Saves \ {r} : pc'[s] = pc[s]
      BY <2>4 DEF Commit, Step, At, Transaction, Holding
    <3>2. tables'.nodes = View(r, "nodes") /\ tables'.edges = View(r, "edges") /\ pc[r].do \in Transaction
      BY <2>4 DEF Commit, Transaction
    <3>3. expired = {} => Joined(tables.nodes, tables.edges)'
      BY <3>2 DEF JoinedInv, Sound, Joined, Live
    <3> QED
      BY <3>1, <3>3, JoinedInside
  <2>5. ASSUME NEW r \in Saves, Handler(r), ~Commit(r), ~Reread(r), ~Release(r)
        PROVE  JoinedInv'
    <3>1. CASE \E why : Fail(r, why)
      BY <2>2, <3>1
    <3>2. CASE ~\E why : Fail(r, why)
      <4>1. pc[r].do \in Transaction
        BY <2>5 DEF Handler, Node, UpdateNode, Facet, ActiveNodes, Edge, InsertEdge, UpdateEdge,
                    DeleteEdge, DeleteNode, TombstoneNode, Transaction
      <4>2. Holding(r)
        BY <4>1 DEF Holding
      <4>3. expired' = expired /\ \E next : Step(r, next)
        <5>1. \/ \E next : Proceed(r, next)
              \/ \E table, x, row, next : Write(r, table, x, row, next)
              \/ ActiveNodes(r)
          BY <2>5, <3>2, Zenon DEF Handler, Node, UpdateNode, Facet, Edge, InsertEdge, UpdateEdge,
                                   DeleteEdge, DeleteNode, TombstoneNode
        <5> QED
          BY <5>1 DEF Proceed, Write, ActiveNodes
      <4>4. \A s \in Saves \ {r} : pc'[s] = pc[s]
        BY <4>3 DEF Step
      <4>5. expired = {} => Joined(tables.nodes, tables.edges)' /\ Sound(r)'
        BY <2>5, <3>2, <4>1, JoinedHandler
      <4> QED
        BY <4>2, <4>3, <4>4, <4>5, JoinedInside
    <3> QED
      BY <3>1, <3>2
  <2>6. CASE Expire
    <3>1. UNCHANGED <<tables, pc, wrote, payload, active>> /\ expired \subseteq expired'
      BY <2>6 DEF Expire
    <3>2. \A r \in Saves : Sound(r) => Sound(r)'
      BY <3>1 DEF Sound, View, EdgeItem, GoneNode, Joined, Live
    <3> QED
      BY <3>1, <3>2 DEF JoinedInv, Joined, Live
  <2>7. CASE UNCHANGED vars
    <3>1. \A r \in Saves : Sound(r) => Sound(r)'
      BY <2>7 DEF vars, Sound, View, EdgeItem, GoneNode, Joined, Live
    <3> QED
      BY <2>7, <3>1 DEF vars, JoinedInv, Joined, Live
  <2>8. ASSUME NEW r \in Saves, DatabaseError(r)
        PROVE  JoinedInv'
    BY <2>2, <2>8 DEF DatabaseError
  <2> QED
    BY <2>1, <2>3, <2>4, <2>5, <2>6, <2>7, <2>8 DEF Next
<1> QED
  BY <1>1, <1>2, TypeInvariance, LockExclusionHolds, PTL DEF Spec

\* Whatever the editors delete and connect, an edge hangs on a deleted node only if
\* some save outlived its lock.
THEOREM DanglingNeedsExpiryHolds == Spec => []DanglingNeedsExpiry
<1>1. JoinedInv => DanglingNeedsExpiry
  BY DEF JoinedInv, Joined, DanglingNeedsExpiry, NoDanglingEdges
<1> QED
  BY <1>1, JoinedInvariance, PTL

-----------------------------------------------------------------------------
(***************************************************************************)
(* What a save sends is made of what its editor loaded                     *)
(***************************************************************************)

HasNode(g, n, version) ==
  \E k \in DOMAIN g.nodes : g.nodes[k].id = n /\ g.nodes[k].version = version

\* A body keeps the identifiers, the versions and the ends of what was loaded,
\* adds what is new under the editor's own identifiers, and drops no edge silently.
Fits(r, g, body) ==
  /\ \A i \in DOMAIN body.nodes :
       \/ body.nodes[i].id = NewNode[r] /\ body.nodes[i].version = 0
       \/ HasNode(g, body.nodes[i].id, body.nodes[i].version)
  /\ \A i \in DOMAIN body.goneNodes : HasNode(g, body.goneNodes[i].id, body.goneNodes[i].version)
  /\ \A i \in DOMAIN body.edges :
       \/ body.edges[i].id = NewEdge[r] /\ body.edges[i].version = 0
       \/ \E k \in DOMAIN g.edges : g.edges[k] = body.edges[i]
  /\ \A k \in DOMAIN g.edges :
       \/ \E i \in DOMAIN body.edges : body.edges[i] = g.edges[k]
       \/ \E i \in DOMAIN body.goneEdges : body.goneEdges[i].id = g.edges[k].id

\* The items of a sequence without one are those of the sequence, and all but that.
LEMMA WithoutItems ==
  ASSUME NEW S, NEW s \in Seq(S), NEW i \in DOMAIN s
  PROVE  /\ \A j \in DOMAIN Without(s, i) : \E k \in DOMAIN s : Without(s, i)[j] = s[k]
         /\ \A k \in DOMAIN s \ {i} : \E j \in DOMAIN Without(s, i) : Without(s, i)[j] = s[k]
<1>1. Len(s) \in Nat /\ DOMAIN s = 1 .. Len(s) /\ i \in 1 .. Len(s)
  OBVIOUS
<1>2. /\ DOMAIN Without(s, i) = 1 .. Len(s) - 1
      /\ \A j \in 1 .. Len(s) - 1 : Without(s, i)[j] = IF j < i THEN s[j] ELSE s[j + 1]
  BY DEF Without
<1>3. ASSUME NEW j \in 1 .. Len(s) - 1
      PROVE  \E k \in 1 .. Len(s) : Without(s, i)[j] = s[k]
  <2>1. j \in 1 .. Len(s) /\ j + 1 \in 1 .. Len(s)
    BY <1>1
  <2> QED
    BY <1>2, <2>1
<1>4. ASSUME NEW k \in 1 .. Len(s), k # i
      PROVE  \E j \in 1 .. Len(s) - 1 : Without(s, i)[j] = s[k]
  <2>1. CASE k < i
    <3>1. k \in 1 .. Len(s) - 1
      BY <1>1, <2>1
    <3> QED
      BY <1>2, <2>1, <3>1
  <2>2. CASE k > i
    <3>1. k - 1 \in 1 .. Len(s) - 1 /\ ~(k - 1 < i) /\ (k - 1) + 1 = k
      BY <1>1, <2>2
    <3> QED
      BY <1>2, <3>1
  <2> QED
    BY <1>1, <1>4, <2>1, <2>2
<1> QED
  BY <1>1, <1>2, <1>3, <1>4

\* A listing of positions in order misses none.
LEMMA InOrderAll ==
  ASSUME NEW S, NEW s \in Seq(S), NEW K \in SUBSET (DOMAIN s), NEW f \in InOrder(K)
  PROVE  /\ \A i \in DOMAIN f : f[i] \in K
         /\ \A k \in K : \E i \in DOMAIN f : f[i] = k
<1> DEFINE n == Cardinality(K)
<1>1. DOMAIN s = 1 .. Len(s) /\ Len(s) \in Nat /\ IsFiniteSet(DOMAIN s)
  BY FS_Interval
<1>2. IsFiniteSet(K) /\ n \in Nat
  BY <1>1, FS_Subset, FS_CardinalityType
<1> HIDE DEF n
<1>3. f \in [1 .. n -> K] /\ \A i, j \in 1 .. n : i < j => f[i] < f[j]
  BY DEF InOrder, n
<1>4. \A i \in 1 .. n : f[i] \in Nat
  BY <1>1, <1>3
<1>5. f \in Injection(1 .. n, K)
  <2>1. ASSUME NEW i \in 1 .. n, NEW j \in 1 .. n, f[i] = f[j] PROVE i = j
    <3>1. i < j \/ j < i \/ i = j
      BY <1>2
    <3> QED
      BY <1>3, <1>4, <2>1, <3>1
  <2> QED
    BY <1>3, <2>1 DEF Injection, IsInjective
<1>6. Cardinality(1 .. n) = n
  BY <1>2, FS_Interval
<1>7. f \in Surjection(1 .. n, K)
  BY <1>2, <1>5, <1>6, FS_Injection DEF n
<1> QED
  BY <1>3, <1>7 DEF Surjection

LEMMA BodyFits ==
  ASSUME NEW r \in Saves, NEW g \in Graph, NEW change \in Changes, NEW body \in Bodies(r, g)[change]
  PROVE  Fits(r, g, body)
<1>1. PICK nodes \in Seq(NodeItems), edges \in Seq(EdgeItems) : g = [nodes |-> nodes, edges |-> edges]
  BY DEF Graph
<1>2. /\ g.nodes = nodes /\ g.edges = edges
      /\ \A i \in DOMAIN nodes : nodes[i] \in NodeItems
      /\ \A k \in DOMAIN edges : edges[k] \in EdgeItems
  BY <1>1
<1> DEFINE NodesFit(ns) == \A i \in DOMAIN ns :
             \/ ns[i].id = NewNode[r] /\ ns[i].version = 0
             \/ HasNode(g, ns[i].id, ns[i].version)
           Known(es) == \A i \in DOMAIN es :
             \/ es[i].id = NewEdge[r] /\ es[i].version = 0
             \/ \E k \in DOMAIN edges : edges[k] = es[i]
<1>3. ASSUME NEW ns, NEW es, NEW gn, NEW ge, NodesFit(ns), Known(es),
             \A i \in DOMAIN gn : HasNode(g, gn[i].id, gn[i].version),
             \A k \in DOMAIN edges :
               \/ \E i \in DOMAIN es : es[i] = edges[k]
               \/ \E i \in DOMAIN ge : ge[i].id = edges[k].id
      PROVE  Fits(r, g, Body(ns, es, gn, ge))
  BY <1>2, <1>3 DEF Fits, Body
<1>4. NodesFit(nodes) /\ Known(edges) /\ \A i \in DOMAIN nodes : HasNode(g, nodes[i].id, nodes[i].version)
  BY <1>2 DEF HasNode
<1> HIDE DEF NodesFit, Known
<1>5. ASSUME NEW ns, NodesFit(ns)
      PROVE  Fits(r, g, Body(ns, edges, <<>>, <<>>))
  BY <1>3, <1>4, <1>5
<1>15. ASSUME NEW es, NEW ge, Known(es),
              \A k \in DOMAIN edges :
                \/ \E i \in DOMAIN es : es[i] = edges[k]
                \/ \E i \in DOMAIN ge : ge[i].id = edges[k].id
       PROVE  Fits(r, g, Body(nodes, es, <<>>, ge))
  BY <1>3, <1>4, <1>15
<1>6. CASE change = "nothing"
  BY <1>2, <1>4, <1>5, <1>6 DEF Bodies, Untouched
<1>7. CASE change = "editText"
  <2>1. body \in TextEdits(g)
    BY <1>7 DEF Bodies
  <2>2. PICK i \in DOMAIN nodes, text \in Texts :
          body = Body(WithText(nodes, i, text), edges, <<>>, <<>>)
    BY <1>2, <2>1 DEF TextEdits
  <2>3. /\ DOMAIN WithText(nodes, i, text) = DOMAIN nodes
        /\ \A j \in DOMAIN nodes : /\ WithText(nodes, i, text)[j].id = nodes[j].id
                                   /\ WithText(nodes, i, text)[j].version = nodes[j].version
    BY <1>2 DEF WithText, NodeItems
  <2>4. NodesFit(WithText(nodes, i, text))
    BY <1>4, <2>3 DEF NodesFit
  <2> QED
    BY <1>5, <2>2, <2>4, Zenon
<1>8. CASE change = "editFacet"
  <2>1. body \in FacetEdits(g)
    BY <1>8 DEF Bodies
  <2>2. PICK i \in DOMAIN nodes, facet \in Facets :
          body = Body(WithFacet(nodes, i, facet), edges, <<>>, <<>>)
    BY <1>2, <2>1 DEF FacetEdits
  <2>3. /\ DOMAIN WithFacet(nodes, i, facet) = DOMAIN nodes
        /\ \A j \in DOMAIN nodes : /\ WithFacet(nodes, i, facet)[j].id = nodes[j].id
                                   /\ WithFacet(nodes, i, facet)[j].version = nodes[j].version
    BY <1>2 DEF WithFacet, NodeItems
  <2>4. NodesFit(WithFacet(nodes, i, facet))
    BY <1>4, <2>3 DEF NodesFit
  <2> QED
    BY <1>5, <2>2, <2>4, Zenon
<1>9. CASE change = "addNode"
  <2>1. body \in NodeAdditions(r, g)
    BY <1>9 DEF Bodies
  <2>2. PICK text \in Texts, facet \in Facets :
          body = Body(Append(nodes, [id |-> NewNode[r], version |-> 0, text |-> text, facet |-> facet]),
                      edges, <<>>, <<>>)
    BY <1>2, <2>1 DEF NodeAdditions
  <2> DEFINE new == [id |-> NewNode[r], version |-> 0, text |-> text, facet |-> facet]
  <2>3. new \in NodeItems /\ new.id = NewNode[r] /\ new.version = 0
    BY ItemTypes
  <2> HIDE DEF new
  <2>4. \A j \in DOMAIN Append(nodes, new) :
          Append(nodes, new)[j] = new \/ (j \in DOMAIN nodes /\ Append(nodes, new)[j] = nodes[j])
    BY <2>3
  <2>5. NodesFit(Append(nodes, new))
    BY <1>4, <2>3, <2>4 DEF NodesFit
  <2> QED
    BY <1>5, <2>2, <2>5, Zenon DEF new
<1>10. CASE change = "connect"
  <2>1. body \in Connections(r, g)
    BY <1>10 DEF Bodies
  <2>2. PICK ends \in Connectable(g) :
          body = Body(nodes, Append(edges, NewEdgeItem(r, ends[1], ends[2])), <<>>, <<>>)
    BY <1>2, <2>1 DEF Connections
  <2>3. ends[1] \in Nodes /\ ends[2] \in Nodes
    BY <1>2, ItemTypes DEF Connectable
  <2> DEFINE new == NewEdgeItem(r, ends[1], ends[2])
  <2>4. new \in EdgeItems /\ new.id = NewEdge[r] /\ new.version = 0
    BY <2>3, ItemTypes DEF NewEdgeItem
  <2> HIDE DEF new
  <2>5. /\ \A j \in DOMAIN Append(edges, new) :
             Append(edges, new)[j] = new \/ (j \in DOMAIN edges /\ Append(edges, new)[j] = edges[j])
        /\ \A k \in DOMAIN edges : k \in DOMAIN Append(edges, new) /\ Append(edges, new)[k] = edges[k]
    BY <2>4
  <2>6. Known(Append(edges, new))
    BY <2>4, <2>5 DEF Known
  <2>7. \A k \in DOMAIN edges : \E i \in DOMAIN Append(edges, new) : Append(edges, new)[i] = edges[k]
    BY <2>5
  <2>8. Fits(r, g, Body(nodes, Append(edges, new), <<>>, <<>>))
    BY <1>15, <2>6, <2>7, Zenon
  <2> QED
    BY <2>2, <2>8, Zenon DEF new
<1>11. ASSUME NEW k \in DOMAIN edges
       PROVE  /\ Known(Without(edges, k))
              /\ \A j \in DOMAIN edges : (\E i \in DOMAIN Without(edges, k) : Without(edges, k)[i] = edges[j]) \/ j = k
              /\ DOMAIN <<Gone(edges[k])>> = {1} /\ <<Gone(edges[k])>>[1].id = edges[k].id
  <2>1. /\ \A j \in DOMAIN Without(edges, k) : \E i \in DOMAIN edges : Without(edges, k)[j] = edges[i]
        /\ \A i \in DOMAIN edges \ {k} : \E j \in DOMAIN Without(edges, k) : Without(edges, k)[j] = edges[i]
    BY WithoutItems
  <2> QED
    BY <2>1 DEF Known, Gone
<1>12. CASE change = "deleteEdge"
  <2>1. body \in EdgeDeletions(g)
    BY <1>12 DEF Bodies
  <2>2. PICK k \in DOMAIN edges : body = Body(nodes, Without(edges, k), <<>>, <<Gone(edges[k])>>)
    BY <1>2, <2>1 DEF EdgeDeletions
  <2>3. \A j \in DOMAIN edges :
          \/ \E i \in DOMAIN Without(edges, k) : Without(edges, k)[i] = edges[j]
          \/ \E i \in DOMAIN <<Gone(edges[k])>> : <<Gone(edges[k])>>[i].id = edges[j].id
    BY <1>11
  <2>4. Fits(r, g, Body(nodes, Without(edges, k), <<>>, <<Gone(edges[k])>>))
    BY <1>3, <1>4, <1>11, <2>3
  <2> QED
    BY <2>2, <2>4, Zenon
<1>13. CASE change = "reconnect"
  <2>1. body \in Reconnections(r, g)
    BY <1>13 DEF Bodies
  <2>2. PICK k \in DOMAIN edges :
          body = Body(nodes, Append(Without(edges, k), NewEdgeItem(r, edges[k].from, edges[k].to)),
                      <<>>, <<Gone(edges[k])>>)
    BY <1>2, <2>1 DEF Reconnections
  <2> DEFINE new == NewEdgeItem(r, edges[k].from, edges[k].to)
             rest == Without(edges, k)
  <2>3. new \in EdgeItems /\ new.id = NewEdge[r] /\ new.version = 0
    BY <1>2, ItemTypes DEF NewEdgeItem
  <2>4. rest \in Seq(EdgeItems) /\ Known(rest)
    BY <1>11, WithoutTypes
  <2>5. \A j \in DOMAIN edges :
          \/ \E i \in DOMAIN rest : rest[i] = edges[j]
          \/ \E i \in DOMAIN <<Gone(edges[k])>> : <<Gone(edges[k])>>[i].id = edges[j].id
    BY <1>11
  <2> HIDE DEF new, rest
  <2>6. /\ \A j \in DOMAIN Append(rest, new) :
             Append(rest, new)[j] = new \/ (j \in DOMAIN rest /\ Append(rest, new)[j] = rest[j])
        /\ \A i \in DOMAIN rest : i \in DOMAIN Append(rest, new) /\ Append(rest, new)[i] = rest[i]
    BY <2>3, <2>4
  <2>7. Known(Append(rest, new))
    BY <2>3, <2>4, <2>6 DEF Known
  <2>8. \A j \in DOMAIN edges :
          \/ \E i \in DOMAIN Append(rest, new) : Append(rest, new)[i] = edges[j]
          \/ \E i \in DOMAIN <<Gone(edges[k])>> : <<Gone(edges[k])>>[i].id = edges[j].id
    BY <2>5, <2>6
  <2>9. Fits(r, g, Body(nodes, Append(rest, new), <<>>, <<Gone(edges[k])>>))
    BY <1>15, <2>7, <2>8, Zenon
  <2> QED
    BY <2>2, <2>9, Zenon DEF new, rest
<1>14. CASE change = "deleteNode"
  <2>1. body \in NodeDeletions(g)
    BY <1>14 DEF Bodies
  <2>2. PICK i \in DOMAIN nodes : body \in DeletionsOf(g, i)
    BY <1>2, <2>1 DEF NodeDeletions
  <2>3. PICK f \in Staying(g, i), h \in Leaving(g, i) : body = WithoutNode(g, i, f, h)
    BY <2>2 DEF DeletionsOf
  <2> DEFINE K == Touching(g, i)
             es == [k \in DOMAIN f |-> edges[f[k]]]
             ge == [k \in DOMAIN h |-> Gone(edges[h[k]])]
             gn == <<Gone(nodes[i])>>
  <2>4. /\ K \in SUBSET (DOMAIN edges) /\ DOMAIN edges \ K \in SUBSET (DOMAIN edges)
        /\ f \in InOrder(DOMAIN edges \ K) /\ h \in InOrder(K)
    BY <1>2 DEF Touching, Staying, Leaving
  <2> HIDE DEF K
  <2>5. /\ \A j \in DOMAIN f : f[j] \in DOMAIN edges
        /\ \A k \in DOMAIN edges \ K : \E j \in DOMAIN f : f[j] = k
        /\ \A k \in K : \E j \in DOMAIN h : h[j] = k
    BY <2>4, InOrderAll
  <2>6. Known(es)
    BY <2>5 DEF Known
  <2>7. \A k \in DOMAIN edges :
          (\E j \in DOMAIN es : es[j] = edges[k]) \/ (\E j \in DOMAIN ge : ge[j].id = edges[k].id)
    <3> SUFFICES ASSUME NEW k \in DOMAIN edges
                 PROVE  (\E j \in DOMAIN es : es[j] = edges[k]) \/ (\E j \in DOMAIN ge : ge[j].id = edges[k].id)
      OBVIOUS
    <3>1. CASE k \in K
      <4>1. PICK j \in DOMAIN h : h[j] = k
        BY <2>5, <3>1
      <4> QED
        BY <4>1 DEF Gone
    <3>2. CASE k \notin K
      <4>1. PICK j \in DOMAIN f : f[j] = k
        BY <2>5, <3>2
      <4> QED
        BY <4>1
    <3> QED
      BY <3>1, <3>2
  <2>8. \A j \in DOMAIN gn : HasNode(g, gn[j].id, gn[j].version)
    BY <1>4 DEF Gone
  <2>9. NodesFit(Without(nodes, i))
    BY <1>4, WithoutItems DEF NodesFit
  <2> HIDE DEF es, ge, gn
  <2>10. Fits(r, g, Body(Without(nodes, i), es, gn, ge))
    BY <1>3, <2>6, <2>7, <2>8, <2>9
  <2> QED
    BY <1>2, <2>3, <2>10, Zenon DEF WithoutNode, es, ge, gn
<1> QED
  BY <1>6, <1>7, <1>8, <1>9, <1>10, <1>12, <1>13, <1>14, ChangesAssumption

\* While its transaction runs, what a save sent fits what its editor loaded and
\* has no cycle.
BodiesFit ==
  \A r \in Saves : pc[r].do \in Transaction =>
    Fits(r, loaded[r], payload[r]) /\ ~HasCycle(Pairs(payload[r].edges))

\* What the statements of a handler come down to.
LEMMA HandlerKinds ==
  ASSUME NEW r \in Saves, Handler(r) \/ DatabaseError(r)
  PROVE  \/ pc[r].do \in Transaction /\ \E why : Fail(r, why)
         \/ pc[r].do \in Transaction /\ \E next : Proceed(r, next)
         \/ pc[r].do \in Transaction /\ \E table, x, row, next : Write(r, table, x, row, next)
         \/ ActiveNodes(r) \/ Commit(r) \/ Reread(r) \/ Release(r)
<1>1. \/ Commit(r) \/ Reread(r) \/ Release(r)
      \/ pc[r].do \in Transaction
  BY DEF Handler, DatabaseError, Node, UpdateNode, Facet, ActiveNodes, Edge, InsertEdge, UpdateEdge,
         DeleteEdge, DeleteNode, TombstoneNode, Transaction
<1>2. \/ \E why : Fail(r, why)
      \/ \E next : Proceed(r, next)
      \/ \E table, x, row, next : Write(r, table, x, row, next)
      \/ ActiveNodes(r) \/ Commit(r) \/ Reread(r) \/ Release(r)
  BY Zenon DEF Handler, DatabaseError, Node, UpdateNode, Facet, Edge, InsertEdge, UpdateEdge,
               DeleteEdge, DeleteNode, TombstoneNode
<1> QED
  BY <1>1, <1>2

LEMMA BodiesFitInvariance == Spec => []BodiesFit
<1>1. Init => BodiesFit
  BY DEF Init, BodiesFit, At, Transaction
<1>2. TypeInv /\ BodiesFit /\ [Next]_vars => BodiesFit'
  <2> SUFFICES ASSUME TypeInv, BodiesFit, [Next]_vars
               PROVE  BodiesFit'
    OBVIOUS
  <2> USE DEF TypeInv, TypeOK
  <2>1. ASSUME NEW r \in Saves,
               \A s \in Saves \ {r} : pc'[s] = pc[s] /\ loaded'[s] = loaded[s] /\ payload'[s] = payload[s],
               pc'[r].do \in Transaction => Fits(r, loaded'[r], payload'[r]) /\ ~HasCycle(Pairs(payload'[r].edges))
        PROVE  BodiesFit'
    <3>1. \A s \in Saves : pc'[s].do \in Transaction =>
            Fits(s, loaded'[s], payload'[s]) /\ ~HasCycle(Pairs(payload'[s].edges))
      BY <2>1 DEF BodiesFit
    <3> QED
      BY <3>1 DEF BodiesFit, Fits, HasNode, HasCycle, Pairs, Ends
  <2>2. ASSUME NEW r \in Saves, LoadNodes(r) \/ LoadFacets(r) \/ LoadEdges(r) \/ SendWithoutLock(r) \/ Release(r)
        PROVE  BodiesFit'
    <3>1. pc'[r].do \notin Transaction
      BY <2>2 DEF LoadNodes, LoadFacets, LoadEdges, SendWithoutLock, Release, Answer, Step, At, Transaction, Answers
    <3>2. \A s \in Saves \ {r} : pc'[s] = pc[s] /\ loaded'[s] = loaded[s] /\ payload'[s] = payload[s]
      BY <2>2 DEF LoadNodes, LoadFacets, LoadEdges, SendWithoutLock, Release, Answer, Step
    <3> QED
      BY <2>1, <3>1, <3>2
  <2>3. ASSUME NEW r \in Saves, pc[r].do \in Transaction \/ pc'[r].do \notin Transaction,
               \E next : Step(r, next), UNCHANGED <<loaded, payload>>
        PROVE  BodiesFit'
    <3>1. \A s \in Saves \ {r} : pc'[s] = pc[s]
      BY <2>3 DEF Step
    <3> QED
      BY <2>1, <2>3, <3>1 DEF BodiesFit
  <2>4. ASSUME NEW r \in Saves, Send(r)
        PROVE  BodiesFit'
    <3> DEFINE Sent(body) ==
          /\ payload' = [payload EXCEPT ![r] = body]
          /\ IF HasCycle(Pairs(body.edges))
             THEN Step(r, At("release", 0)) /\ answer' = [answer EXCEPT ![r] = "cycle"]
             ELSE Step(r, FromNodes(body, 1)) /\ UNCHANGED answer
    <3>1. PICK change \in Changes : \E body \in Bodies(r, loaded[r])[change] : Sent(body)
      BY <2>4, Zenon DEF Send
    <3>2. PICK body \in Bodies(r, loaded[r])[change] : Sent(body)
      BY <3>1
    <3>3. Fits(r, loaded[r], body)
      BY BodyFits
    <3>4. loaded' = loaded /\ payload'[r] = body
      BY <2>4, <3>2 DEF Send
    <3>5. \A s \in Saves \ {r} : pc'[s] = pc[s] /\ payload'[s] = payload[s]
      BY <3>2 DEF Step
    <3>6. pc'[r].do \in Transaction => ~HasCycle(Pairs(body.edges))
      BY <3>2 DEF Step, At, Transaction
    <3> QED
      BY <2>1, <3>3, <3>4, <3>5, <3>6
  <2>5. ASSUME NEW r \in Saves, Handler(r) \/ DatabaseError(r)
        PROVE  BodiesFit'
    <3>1. CASE ActiveNodes(r) \/ Commit(r)
      <4>1. pc[r].do \in Transaction /\ UNCHANGED <<loaded, payload>> /\ \E next : Step(r, next)
        BY <3>1 DEF ActiveNodes, Commit, Transaction
      <4> QED
        BY <2>3, <4>1
    <3>2. CASE Reread(r)
      <4>1. pc'[r].do \notin Transaction /\ UNCHANGED <<loaded, payload>> /\ \E next : Step(r, next)
        BY <3>2 DEF Reread, Step, At, Transaction
      <4> QED
        BY <2>3, <4>1
    <3>3. CASE Release(r)
      BY <2>2, <3>3
    <3>4. ASSUME pc[r].do \in Transaction, NEW why, Fail(r, why)
          PROVE  BodiesFit'
      BY <2>3, <3>4 DEF Fail
    <3>5. ASSUME pc[r].do \in Transaction, NEW next, Proceed(r, next)
          PROVE  BodiesFit'
      BY <2>3, <3>5 DEF Proceed
    <3>6. ASSUME pc[r].do \in Transaction, NEW table, NEW x, NEW row, NEW next, Write(r, table, x, row, next)
          PROVE  BodiesFit'
      BY <2>3, <3>6 DEF Write
    <3> QED
      BY <2>5, <3>1, <3>2, <3>3, <3>4, <3>5, <3>6, HandlerKinds
  <2>6. CASE Expire \/ UNCHANGED vars
    <3>1. UNCHANGED <<pc, loaded, payload>>
      BY <2>6 DEF Expire, vars
    <3> QED
      BY <3>1 DEF BodiesFit
  <2> QED
    BY <2>2, <2>4, <2>5, <2>6 DEF Next
<1> QED
  BY <1>1, <1>2, TypeInvariance, PTL DEF Spec

-----------------------------------------------------------------------------
(***************************************************************************)
(* The versions of the nodes                                               *)
(***************************************************************************)

\* Two transactions never hold a row of one node, and what one has written
\* replaces, with a later version, the very version that its editor loaded.
NodesGuarded ==
  /\ \A r, s \in Saves : r # s => DOMAIN wrote[r].nodes \cap DOMAIN wrote[s].nodes = {}
  /\ \A r \in Saves : \A n \in DOMAIN wrote[r].nodes :
       \/ n \notin DOMAIN tables.nodes /\ n = NewNode[r]
       \/ /\ n \in DOMAIN tables.nodes
          /\ tables.nodes[n].version < wrote[r].nodes[n].version
          /\ HasNode(loaded[r], n, tables.nodes[n].version)

\* What an editor holds of a node is what the row was in that version.
LoadsAreOld ==
  \A r \in Saves : \A i \in DOMAIN loaded[r].nodes :
    LET item == loaded[r].nodes[i]
        row == tables.nodes[item.id]
    IN  /\ item.id \in DOMAIN tables.nodes
        /\ item.version <= row.version
        /\ item.version = row.version => row.live /\ row.text = item.text

NodesInv == NodesGuarded /\ LoadsAreOld

\* A step that writes no node, and loads only where nothing is written.
LEMMA NodesKept ==
  ASSUME NodesGuarded, tables'.nodes = tables.nodes,
         \A r \in Saves : \/ DOMAIN wrote'[r].nodes = {}
                          \/ wrote'[r].nodes = wrote[r].nodes /\ loaded'[r] = loaded[r]
  PROVE  NodesGuarded'
<1>1. ASSUME NEW r \in Saves, NEW s \in Saves, r # s
      PROVE  DOMAIN wrote'[r].nodes \cap DOMAIN wrote'[s].nodes = {}
  BY <1>1 DEF NodesGuarded
<1>2. ASSUME NEW r \in Saves, NEW n \in DOMAIN wrote'[r].nodes
      PROVE  \/ n \notin DOMAIN tables.nodes /\ n = NewNode[r]
             \/ /\ n \in DOMAIN tables.nodes
                /\ tables.nodes[n].version < wrote'[r].nodes[n].version
                /\ HasNode(loaded'[r], n, tables.nodes[n].version)
  BY <1>2 DEF NodesGuarded
<1> QED
  BY <1>1, <1>2 DEF NodesGuarded

\* A step that leaves the rows alone, and the nodes that the editors hold or drops them.
LEMMA LoadsKept ==
  ASSUME LoadsAreOld, tables'.nodes = tables.nodes,
         \A r \in Saves : DOMAIN loaded'[r].nodes = {} \/ loaded'[r].nodes = loaded[r].nodes
  PROVE  LoadsAreOld'
  BY DEF LoadsAreOld

\* The statement that writes a node: a new one of the editor's own, or the row
\* that it loaded, which nobody else is writing.
LEMMA NodeWritten ==
  ASSUME TypeInv, NodesInv, BodiesFit, NEW r \in Saves,
         Node(r) \/ UpdateNode(r) \/ TombstoneNode(r)
  PROVE  \/ \E why : Fail(r, why)
         \/ \E next : Proceed(r, next)
         \/ \E x, row, next :
              /\ Write(r, "nodes", x, row, next)
              /\ \/ x \notin DOMAIN tables.nodes /\ x = NewNode[r]
                 \/ /\ x \in DOMAIN tables.nodes
                    /\ tables.nodes[x].version < row.version
                    /\ HasNode(loaded[r], x, tables.nodes[x].version)
                    /\ \A s \in Saves \ {r} : x \notin DOMAIN wrote[s].nodes
<1> DEFINE table == View(r, "nodes")
<1>1. /\ DOMAIN table = DOMAIN wrote[r].nodes \cup DOMAIN tables.nodes
      /\ \A n \in DOMAIN wrote[r].nodes : table[n] = wrote[r].nodes[n]
      /\ \A n \in DOMAIN tables.nodes \ DOMAIN wrote[r].nodes : table[n] = tables.nodes[n]
  BY DEF View, Over
<1>2. IsTable(table, Nodes, NodeRow) /\ IsTable(tables.nodes, Nodes, NodeRow)
  BY ViewTypes DEF TypeInv, TypeOK, IsTables
<1>3. pc[r].do \in Transaction
  BY DEF Node, UpdateNode, TombstoneNode, Transaction
<1>4. Fits(r, loaded[r], payload[r])
  BY <1>3 DEF BodiesFit
<1>5. \A n, version : HasNode(loaded[r], n, version) =>
        n \in DOMAIN tables.nodes /\ version <= tables.nodes[n].version
  BY DEF NodesInv, LoadsAreOld, HasNode
<1>6. \A n \in DOMAIN table : n \in DOMAIN tables.nodes \/ n = NewNode[r]
  BY <1>1 DEF NodesInv, NodesGuarded
<1> HIDE DEF table
\* The row that a version sent matches is the committed one, not one of its own.
<1>7. ASSUME NEW item, HasNode(loaded[r], item.id, item.version), Matches(table, item)
      PROVE  /\ item.id \in DOMAIN tables.nodes
             /\ tables.nodes[item.id].version = item.version /\ table[item.id].version = item.version
             /\ table[item.id] \in NodeRow
  <2>1. item.id \in DOMAIN tables.nodes /\ item.version <= tables.nodes[item.id].version
    BY <1>5, <1>7
  <2>2. table[item.id].version = item.version /\ table[item.id] \in NodeRow
    BY <1>2, <1>7 DEF Matches, IsTable
  <2>3. tables.nodes[item.id].version \in Nat /\ table[item.id].version \in Nat
    BY <1>2, <2>1, <2>2 DEF IsTable, NodeRow
  <2>4. CASE item.id \in DOMAIN wrote[r].nodes
    <3>1. tables.nodes[item.id].version < table[item.id].version
      BY <1>1, <2>1, <2>4 DEF NodesInv, NodesGuarded
    <3> QED
      BY <2>1, <2>2, <2>3, <3>1
  <2>5. CASE item.id \notin DOMAIN wrote[r].nodes
    BY <1>1, <2>1, <2>2, <2>5
  <2> QED
    BY <2>4, <2>5
<1>8. CASE Node(r)
  <2> DEFINE item == NodeItem(r)
             new == [version |-> 1, live |-> TRUE, text |-> item.text, order |-> pc[r].at - 1]
  <2>1. \/ item.id \notin DOMAIN table /\ Write(r, "nodes", item.id, new, AfterNode(payload[r], pc[r].at))
        \/ \E why : Fail(r, why)
        \/ \E next : Proceed(r, next)
    BY <1>8, Zenon DEF Node, table
  <2>2. item.id = NewNode[r] \/ HasNode(loaded[r], item.id, item.version)
    BY <1>4, <1>8, CurrentItems DEF Fits, NodeItem, Node
  <2> HIDE DEF item, new
  <2>3. item.id \notin DOMAIN table => item.id = NewNode[r] /\ item.id \notin DOMAIN tables.nodes
    BY <1>1, <1>5, <2>2
  <2> QED
    BY <2>1, <2>3
<1>9. CASE UpdateNode(r)
  <2> DEFINE item == NodeItem(r)
             row == table[item.id]
             new == [row EXCEPT !.version = row.version + 1, !.text = item.text, !.order = pc[r].at - 1]
  <2>1. \/ NodeChanges(r) /\ Write(r, "nodes", item.id, new, AfterNode(payload[r], pc[r].at))
        \/ \E why : Fail(r, why)
        \/ \E next : Proceed(r, next)
    BY <1>9, Zenon DEF UpdateNode, table
  <2>2. CASE NodeChanges(r) /\ Write(r, "nodes", item.id, new, AfterNode(payload[r], pc[r].at))
    <3>1. Matches(table, item)
      BY <2>2 DEF NodeChanges, table
    <3>2. pc[r].do = "updateNode" /\ \A s \in Saves \ {r} : item.id \notin DOMAIN wrote[s].nodes
      BY <1>9, <2>2 DEF UpdateNode, WaitsFor
    <3>3. row \in NodeRow
      BY <1>2, <3>1 DEF Matches, IsTable
    <3>4. HasNode(loaded[r], item.id, item.version)
      <4>1. item.version # 0
        BY <3>1, <3>3 DEF Matches, NodeRow
      <4> QED
        BY <1>4, <3>2, <4>1, CurrentItems DEF Fits, NodeItem
    <3> HIDE DEF item
    <3>5. item.id \in DOMAIN tables.nodes /\ tables.nodes[item.id].version = item.version /\ row.version = item.version
      BY <1>7, <3>1, <3>4
    <3> HIDE DEF row
    <3>6. new.version = row.version + 1 /\ row.version \in Nat
      BY <3>3 DEF NodeRow
    <3> HIDE DEF new
    <3>7. tables.nodes[item.id].version < new.version
      BY <3>5, <3>6
    <3> QED
      BY <2>2, <3>2, <3>4, <3>5, <3>7
  <2> QED
    BY <2>1, <2>2
<1>10. CASE TombstoneNode(r)
  <2> DEFINE item == GoneNode(r)
             row == table[item.id]
             new == Tombstone(row)
  <2>1. \/ Matches(table, item) /\ Write(r, "nodes", item.id, new, FromGoneNodes(payload[r], pc[r].at + 1))
        \/ \E why : Fail(r, why)
    BY <1>10, Zenon DEF TombstoneNode, table
  <2>2. CASE Matches(table, item) /\ Write(r, "nodes", item.id, new, FromGoneNodes(payload[r], pc[r].at + 1))
    <3>1. pc[r].do = "tombstone" /\ \A s \in Saves \ {r} : item.id \notin DOMAIN wrote[s].nodes
      BY <1>10, <2>2 DEF TombstoneNode, WaitsFor, table
    <3>2. row \in NodeRow
      BY <1>2, <2>2 DEF Matches, IsTable
    <3>3. HasNode(loaded[r], item.id, item.version)
      <4>1. pc[r].at \in DOMAIN payload[r].goneNodes
        BY <3>1 DEF TypeInv, InBody
      <4> QED
        BY <1>4, <4>1 DEF Fits, GoneNode
    <3> HIDE DEF item
    <3>4. item.id \in DOMAIN tables.nodes /\ tables.nodes[item.id].version = item.version /\ row.version = item.version
      BY <1>7, <2>2, <3>3
    <3> HIDE DEF row
    <3>5. new.version = row.version + 1 /\ row.version \in Nat
      BY <3>2 DEF NodeRow, Tombstone
    <3> HIDE DEF new
    <3>6. tables.nodes[item.id].version < new.version
      BY <3>4, <3>5
    <3> QED
      BY <2>2, <3>1, <3>3, <3>4, <3>6
  <2> QED
    BY <2>1, <2>2
<1> QED
  BY <1>8, <1>9, <1>10

\* The rows of one table that a transaction has written, after it writes one.
LEMMA WroteAfterWrite ==
  ASSUME TypeInv, NEW r \in Saves, NEW table \in {"nodes", "facets", "edges"}, NEW x, NEW row, NEW next,
         Write(r, table, x, row, next)
  PROVE  /\ DOMAIN wrote'[r][table] = DOMAIN wrote[r][table] \cup {x}
         /\ wrote'[r][table][x] = row
         /\ \A y \in DOMAIN wrote[r][table] \ {x} : wrote'[r][table][y] = wrote[r][table][y]
         /\ \A t \in {"nodes", "facets", "edges"} \ {table} : wrote'[r][t] = wrote[r][t]
         /\ \A s \in Saves \ {r} : wrote'[s] = wrote[s]
<1> DEFINE own == Over([y \in {x} |-> row], wrote[r][table])
<1>1. DOMAIN own = DOMAIN wrote[r][table] \cup {x} /\ own[x] = row
      /\ \A y \in DOMAIN wrote[r][table] \ {x} : own[y] = wrote[r][table][y]
  BY DEF Over
<1> HIDE DEF own
<1>2. DOMAIN wrote = Saves /\ DOMAIN wrote[r] = {"nodes", "facets", "edges"}
  BY DEF TypeInv, TypeOK, IsTables
<1>3. wrote' = [wrote EXCEPT ![r][table] = own]
  BY DEF Write, own
<1>4. /\ wrote'[r][table] = own
      /\ \A t \in {"nodes", "facets", "edges"} \ {table} : wrote'[r][t] = wrote[r][t]
      /\ \A s \in Saves \ {r} : wrote'[s] = wrote[s]
  BY <1>2, <1>3
<1> QED
  BY <1>1, <1>4

LEMMA NodeWriteGuarded ==
  ASSUME TypeInv, NodesGuarded, NEW r \in Saves, NEW x, NEW row, NEW next,
         Write(r, "nodes", x, row, next),
         \/ x \notin DOMAIN tables.nodes /\ x = NewNode[r]
         \/ /\ x \in DOMAIN tables.nodes
            /\ tables.nodes[x].version < row.version
            /\ HasNode(loaded[r], x, tables.nodes[x].version)
            /\ \A s \in Saves \ {r} : x \notin DOMAIN wrote[s].nodes
  PROVE  NodesGuarded'
<1>1. /\ DOMAIN wrote'[r].nodes = DOMAIN wrote[r].nodes \cup {x}
      /\ wrote'[r].nodes[x] = row
      /\ \A y \in DOMAIN wrote[r].nodes \ {x} : wrote'[r].nodes[y] = wrote[r].nodes[y]
      /\ \A s \in Saves \ {r} : wrote'[s] = wrote[s]
  <2>1. "nodes" \in {"nodes", "facets", "edges"}
    OBVIOUS
  <2> QED
    BY <2>1, WroteAfterWrite
<1>2. tables' = tables /\ loaded' = loaded
  BY DEF Write
<1>3. \A s \in Saves \ {r} : x \notin DOMAIN wrote[s].nodes
  BY IdentifiersAssumption DEF NodesGuarded
<1>4. ASSUME NEW s \in Saves, NEW q \in Saves, s # q
      PROVE  DOMAIN wrote'[s].nodes \cap DOMAIN wrote'[q].nodes = {}
  <2>1. DOMAIN wrote[s].nodes \cap DOMAIN wrote[q].nodes = {}
    BY <1>4 DEF NodesGuarded
  <2> QED
    BY <1>1, <1>3, <1>4, <2>1
<1>5. ASSUME NEW s \in Saves, NEW n \in DOMAIN wrote'[s].nodes
      PROVE  \/ n \notin DOMAIN tables.nodes /\ n = NewNode[s]
             \/ /\ n \in DOMAIN tables.nodes
                /\ tables.nodes[n].version < wrote'[s].nodes[n].version
                /\ HasNode(loaded[s], n, tables.nodes[n].version)
  <2>1. CASE s = r /\ n = x
    BY <1>1, <2>1
  <2>2. CASE s = r /\ n # x
    BY <1>1, <1>5, <2>2 DEF NodesGuarded
  <2>3. CASE s # r
    BY <1>1, <1>5, <2>3 DEF NodesGuarded
  <2> QED
    BY <2>1, <2>2, <2>3
<1> QED
  BY <1>2, <1>4, <1>5 DEF NodesGuarded

\* A commit puts later versions under the nodes that its editor loaded.
LEMMA NodesCommitted ==
  ASSUME TypeInv, NodesInv, NEW r \in Saves, Commit(r)
  PROVE  /\ NodesInv'
         /\ \A n \in DOMAIN tables.nodes : tables'.nodes[n] # tables.nodes[n] =>
              HasNode(loaded[r], n, tables.nodes[n].version)
<1>1. /\ tables'.nodes = View(r, "nodes") /\ loaded' = loaded
      /\ wrote' = [wrote EXCEPT ![r] = Nothing]
  BY DEF Commit
<1>2. /\ DOMAIN tables'.nodes = DOMAIN wrote[r].nodes \cup DOMAIN tables.nodes
      /\ \A n \in DOMAIN wrote[r].nodes : tables'.nodes[n] = wrote[r].nodes[n]
      /\ \A n \in DOMAIN tables.nodes \ DOMAIN wrote[r].nodes : tables'.nodes[n] = tables.nodes[n]
  BY <1>1 DEF View, Over
<1>3. DOMAIN wrote'[r].nodes = {} /\ \A s \in Saves \ {r} : wrote'[s] = wrote[s]
  BY <1>1 DEF Nothing, Empty, TypeInv, TypeOK
<1>4. \A n \in DOMAIN wrote[r].nodes \cap DOMAIN tables.nodes :
        /\ tables.nodes[n].version < tables'.nodes[n].version
        /\ HasNode(loaded[r], n, tables.nodes[n].version)
  BY <1>2 DEF NodesInv, NodesGuarded
<1>5. NodesGuarded'
  <2>1. ASSUME NEW s \in Saves, NEW q \in Saves, s # q
        PROVE  DOMAIN wrote'[s].nodes \cap DOMAIN wrote'[q].nodes = {}
    BY <1>3, <2>1 DEF NodesInv, NodesGuarded
  <2>2. ASSUME NEW s \in Saves, NEW n \in DOMAIN wrote'[s].nodes
        PROVE  \/ n \notin DOMAIN tables'.nodes /\ n = NewNode[s]
               \/ /\ n \in DOMAIN tables'.nodes
                  /\ tables'.nodes[n].version < wrote'[s].nodes[n].version
                  /\ HasNode(loaded[s], n, tables'.nodes[n].version)
    <3>1. s # r /\ n \in DOMAIN wrote[s].nodes /\ n \notin DOMAIN wrote[r].nodes /\ wrote'[s] = wrote[s]
      BY <1>3, <2>2 DEF NodesInv, NodesGuarded
    <3>2. \/ n \notin DOMAIN tables.nodes /\ n = NewNode[s]
          \/ /\ n \in DOMAIN tables.nodes
             /\ tables.nodes[n].version < wrote[s].nodes[n].version
             /\ HasNode(loaded[s], n, tables.nodes[n].version)
      BY <3>1 DEF NodesInv, NodesGuarded
    <3> QED
      BY <1>2, <3>1, <3>2
  <2> QED
    BY <1>1, <2>1, <2>2 DEF NodesGuarded
<1>6. LoadsAreOld'
  <2> SUFFICES ASSUME NEW s \in Saves, NEW i \in DOMAIN loaded[s].nodes, NEW item, item = loaded[s].nodes[i]
               PROVE  /\ item.id \in DOMAIN tables'.nodes
                      /\ item.version <= tables'.nodes[item.id].version
                      /\ item.version = tables'.nodes[item.id].version =>
                           tables'.nodes[item.id].live /\ tables'.nodes[item.id].text = item.text
    BY <1>1 DEF LoadsAreOld
  <2>1. /\ item.id \in DOMAIN tables.nodes
        /\ item.version <= tables.nodes[item.id].version
        /\ item.version = tables.nodes[item.id].version =>
             tables.nodes[item.id].live /\ tables.nodes[item.id].text = item.text
    BY DEF NodesInv, LoadsAreOld
  <2>2. CASE item.id \in DOMAIN wrote[r].nodes
    <3>1. tables.nodes[item.id].version < tables'.nodes[item.id].version
      BY <1>4, <2>1, <2>2
    <3>2. tables.nodes[item.id].version \in Nat /\ tables'.nodes[item.id].version \in Nat /\ item.version \in Nat
      <4>1. IsTable(View(r, "nodes"), Nodes, NodeRow) /\ IsTable(tables.nodes, Nodes, NodeRow)
        BY ViewTypes DEF TypeInv, TypeOK, IsTables
      <4>2. item \in NodeItems
        <5>1. loaded[s] \in Graph
          BY DEF TypeInv, TypeOK
        <5>2. loaded[s].nodes \in Seq(NodeItems)
          BY <5>1 DEF Graph
        <5> QED
          BY <5>2
      <4> QED
        BY <1>1, <1>2, <2>1, <4>1, <4>2 DEF IsTable, NodeRow, NodeItems
    <3> QED
      BY <1>2, <2>1, <3>1, <3>2
  <2>3. CASE item.id \notin DOMAIN wrote[r].nodes
    BY <1>2, <2>1, <2>3
  <2> QED
    BY <2>2, <2>3
<1>7. ASSUME NEW n \in DOMAIN tables.nodes, tables'.nodes[n] # tables.nodes[n]
      PROVE  HasNode(loaded[r], n, tables.nodes[n].version)
  BY <1>2, <1>4, <1>7
<1> QED
  BY <1>5, <1>6, <1>7 DEF NodesInv

\* What the editors load of the nodes is what is committed.
LEMMA NodesLoaded ==
  ASSUME TypeInv, NodesInv, NEW r \in Saves, LoadNodes(r) \/ LoadFacets(r)
  PROVE  LoadsAreOld'
<1>1. tables' = tables /\ \A s \in Saves \ {r} : loaded'[s] = loaded[s]
  BY DEF LoadNodes, LoadFacets, TypeInv, TypeOK
<1>2. IsTable(tables.nodes, Nodes, NodeRow) /\ IsFiniteSet(Nodes)
  BY FinitelyMany DEF TypeInv, TypeOK, IsTables
<1>3. loaded[r] \in Graph /\ DOMAIN loaded = Saves
  BY DEF TypeInv, TypeOK
<1>4. ASSUME \A i \in DOMAIN loaded'[r].nodes :
               LET item == loaded'[r].nodes[i]
                   row == tables.nodes[item.id]
               IN  /\ item.id \in DOMAIN tables.nodes
                   /\ item.version <= row.version
                   /\ item.version = row.version => row.live /\ row.text = item.text
      PROVE  LoadsAreOld'
  BY <1>1, <1>4 DEF NodesInv, LoadsAreOld
<1>5. CASE LoadNodes(r)
  <2>1. PICK ids \in Listings(tables.nodes) :
          loaded' = [loaded EXCEPT ![r].nodes = [i \in DOMAIN ids |->
            [id |-> ids[i], version |-> tables.nodes[ids[i]].version, text |-> tables.nodes[ids[i]].text,
             facet |-> NoFacet]]]
    BY <1>5 DEF LoadNodes
  <2>2. \A i \in DOMAIN ids : ids[i] \in Live(tables.nodes)
    BY <1>2, ListingTypes DEF IsTable
  <2>3. loaded'[r].nodes = [i \in DOMAIN ids |->
            [id |-> ids[i], version |-> tables.nodes[ids[i]].version, text |-> tables.nodes[ids[i]].text,
             facet |-> NoFacet]]
    BY <1>3, <2>1 DEF Graph
  <2>4. ASSUME NEW i \in DOMAIN loaded'[r].nodes
        PROVE  /\ i \in DOMAIN ids
               /\ loaded'[r].nodes[i].id = ids[i]
               /\ loaded'[r].nodes[i].version = tables.nodes[ids[i]].version
               /\ loaded'[r].nodes[i].text = tables.nodes[ids[i]].text
    BY <2>3, <2>4
  <2>5. \A n \in Live(tables.nodes) : n \in DOMAIN tables.nodes /\ tables.nodes[n].live /\ tables.nodes[n].version \in Nat
    BY <1>2 DEF IsTable, Live, NodeRow
  <2>6. ASSUME NEW i \in DOMAIN loaded'[r].nodes
        PROVE  LET item == loaded'[r].nodes[i]
                   row == tables.nodes[item.id]
               IN  /\ item.id \in DOMAIN tables.nodes
                   /\ item.version <= row.version
                   /\ item.version = row.version => row.live /\ row.text = item.text
    <3>1. ids[i] \in Live(tables.nodes)
      BY <2>2, <2>4
    <3> QED
      BY <2>4, <2>5, <3>1
  <2> QED
    BY <1>4, <2>6
<1>6. CASE LoadFacets(r)
  <2>1. loaded'[r].nodes = [i \in DOMAIN loaded[r].nodes |-> Hydrated(loaded[r].nodes[i])]
    BY <1>3, <1>6 DEF LoadFacets, Graph
  <2>2. loaded[r].nodes \in Seq(NodeItems)
    BY <1>3 DEF Graph
  <2>3. \A i \in DOMAIN loaded[r].nodes : loaded[r].nodes[i] \in NodeItems
    BY <2>2
  <2>4. \A i \in DOMAIN loaded[r].nodes :
          /\ loaded'[r].nodes[i].id = loaded[r].nodes[i].id
          /\ loaded'[r].nodes[i].version = loaded[r].nodes[i].version
          /\ loaded'[r].nodes[i].text = loaded[r].nodes[i].text
    <3> SUFFICES ASSUME NEW i \in DOMAIN loaded[r].nodes
                 PROVE  /\ loaded'[r].nodes[i].id = loaded[r].nodes[i].id
                        /\ loaded'[r].nodes[i].version = loaded[r].nodes[i].version
                        /\ loaded'[r].nodes[i].text = loaded[r].nodes[i].text
      OBVIOUS
    <3>1. PICK facet : Hydrated(loaded[r].nodes[i]) = [loaded[r].nodes[i] EXCEPT !.facet = facet]
      BY DEF Hydrated
    <3>2. loaded'[r].nodes[i] = [loaded[r].nodes[i] EXCEPT !.facet = facet]
      BY <2>1, <3>1
    <3>3. loaded[r].nodes[i] \in NodeItems
      BY <2>3
    <3> QED
      BY <3>2, <3>3 DEF NodeItems
  <2>5. DOMAIN loaded'[r].nodes = DOMAIN loaded[r].nodes
    BY <2>1
  <2> QED
    BY <1>4, <2>4, <2>5 DEF NodesInv, LoadsAreOld
<1> QED
  BY <1>5, <1>6

\* What any step does to the nodes.
LEMMA NodesStep ==
  ASSUME TypeInv, NodesInv, BodiesFit, [Next]_vars
  PROVE  /\ NodesInv'
         /\ \/ tables'.nodes = tables.nodes
            \/ \E r \in Saves : Commit(r)
<1> USE DEF TypeInv, TypeOK
<1> DEFINE Good == NodesInv' /\ tables'.nodes = tables.nodes
<1>1. ASSUME tables'.nodes = tables.nodes,
             \A r \in Saves : \/ DOMAIN wrote'[r].nodes = {}
                              \/ wrote'[r].nodes = wrote[r].nodes /\ loaded'[r] = loaded[r],
             \A r \in Saves : DOMAIN loaded'[r].nodes = {} \/ loaded'[r].nodes = loaded[r].nodes
      PROVE  Good
  BY <1>1, NodesKept, LoadsKept DEF NodesInv
<1>2. ASSUME NEW r \in Saves, pc[r].do \notin Transaction
      PROVE  DOMAIN wrote[r].nodes = {}
  BY <1>2 DEF Nothing, Empty
<1>3. ASSUME NEW r \in Saves, LoadNodes(r) \/ LoadFacets(r)
      PROVE  Good
  <2>1. tables' = tables /\ wrote' = wrote /\ \A s \in Saves \ {r} : loaded'[s] = loaded[s]
    BY <1>3 DEF LoadNodes, LoadFacets
  <2>2. pc[r].do \notin Transaction
    BY <1>3 DEF LoadNodes, LoadFacets, Transaction
  <2>3. NodesGuarded'
    BY <1>2, <2>1, <2>2, NodesKept DEF NodesInv
  <2> QED
    BY <1>3, <2>1, <2>3, NodesLoaded DEF NodesInv
<1>4. ASSUME NEW r \in Saves, LoadEdges(r)
      PROVE  Good
  <2>1. /\ tables' = tables /\ wrote' = wrote
        /\ \A s \in Saves \ {r} : loaded'[s] = loaded[s]
        /\ loaded'[r].nodes = loaded[r].nodes
    BY <1>4 DEF LoadEdges, Graph
  <2>2. pc[r].do \notin Transaction
    BY <1>4 DEF LoadEdges, Transaction
  <2> QED
    BY <1>1, <1>2, <2>1, <2>2
<1>5. ASSUME NEW r \in Saves, SendWithoutLock(r) \/ Release(r)
      PROVE  Good
  <2>1. /\ tables' = tables /\ wrote' = wrote
        /\ \A s \in Saves \ {r} : loaded'[s] = loaded[s]
        /\ loaded'[r] = NoGraph
    BY <1>5 DEF SendWithoutLock, Release, Answer
  <2>2. pc[r].do \notin Transaction
    BY <1>5 DEF SendWithoutLock, Release, Transaction
  <2>3. DOMAIN NoGraph.nodes = {}
    BY DEF NoGraph
  <2> QED
    BY <1>1, <1>2, <2>1, <2>2, <2>3
<1>6. ASSUME UNCHANGED <<tables, wrote, loaded>>
      PROVE  Good
  BY <1>1, <1>6
<1>7. ASSUME NEW r \in Saves, NEW why, Fail(r, why)
      PROVE  Good
  <2>1. /\ tables' = tables /\ loaded' = loaded
        /\ \A s \in Saves \ {r} : wrote'[s] = wrote[s]
        /\ wrote'[r] = Nothing
    BY <1>7 DEF Fail
  <2>2. DOMAIN Nothing.nodes = {}
    BY DEF Nothing, Empty
  <2> QED
    BY <1>1, <2>1, <2>2
<1>8. ASSUME NEW r \in Saves, NEW next, Proceed(r, next)
      PROVE  Good
  BY <1>6, <1>8 DEF Proceed
<1>9. ASSUME NEW r \in Saves, NEW table \in {"facets", "edges"}, NEW x, NEW row, NEW next,
             Write(r, table, x, row, next)
      PROVE  Good
  <2>1. tables' = tables /\ loaded' = loaded
    BY <1>9 DEF Write
  <2>2. "nodes" \in {"nodes", "facets", "edges"} \ {table} /\ table \in {"nodes", "facets", "edges"}
    BY <1>9
  <2>3. /\ \A t \in {"nodes", "facets", "edges"} \ {table} : wrote'[r][t] = wrote[r][t]
        /\ \A s \in Saves \ {r} : wrote'[s] = wrote[s]
    BY <1>9, <2>2, WroteAfterWrite
  <2>4. wrote'[r].nodes = wrote[r].nodes
    BY <2>2, <2>3
  <2> QED
    BY <1>1, <2>1, <2>3, <2>4
<1>10. ASSUME NEW r \in Saves, Node(r) \/ UpdateNode(r) \/ TombstoneNode(r)
       PROVE  Good
  <2>1. ASSUME NEW x, NEW row, NEW next, Write(r, "nodes", x, row, next), NodesGuarded'
        PROVE  Good
    <3>1. tables' = tables /\ loaded' = loaded
      BY <2>1 DEF Write
    <3> QED
      BY <2>1, <3>1, LoadsKept DEF NodesInv
  <2> QED
    BY <1>7, <1>8, <1>10, <2>1, NodeWritten, NodeWriteGuarded DEF NodesInv
<1>11. ASSUME NEW r \in Saves, Facet(r)
       PROVE  Good
  BY <1>9, <1>11 DEF Facet
<1>12. ASSUME NEW r \in Saves, Edge(r) \/ InsertEdge(r) \/ UpdateEdge(r) \/ DeleteEdge(r) \/ DeleteNode(r)
       PROVE  Good
  <2>1. \/ \E why : Fail(r, why)
        \/ \E next : Proceed(r, next)
        \/ \E x, row, next : Write(r, "edges", x, row, next)
    BY <1>12, Zenon DEF Edge, InsertEdge, UpdateEdge, DeleteEdge, DeleteNode
  <2> QED
    BY <1>7, <1>8, <1>9, <2>1
<1>13. ASSUME NEW r \in Saves, Send(r) \/ ActiveNodes(r) \/ Reread(r)
       PROVE  Good
  BY <1>6, <1>13 DEF Send, ActiveNodes, Reread
<1>14. ASSUME Expire \/ UNCHANGED vars
       PROVE  Good
  BY <1>6, <1>14 DEF Expire, vars
<1>15. ASSUME NEW r \in Saves, DatabaseError(r)
       PROVE  Good
  BY <1>7, <1>15 DEF DatabaseError
<1>16. Good => NodesInv' /\ tables'.nodes = tables.nodes
  BY DEF Good
<1> HIDE DEF Good
<1>17. ASSUME NEW r \in Saves, Handler(r)
       PROVE  Good \/ Commit(r)
  BY <1>5, <1>10, <1>11, <1>12, <1>13, <1>17 DEF Handler
<1>18. ASSUME NEW r \in Saves,
              \/ LoadNodes(r) \/ LoadFacets(r) \/ LoadEdges(r) \/ Send(r) \/ SendWithoutLock(r)
              \/ Handler(r) \/ DatabaseError(r)
       PROVE  Good \/ Commit(r)
  BY <1>3, <1>4, <1>5, <1>13, <1>15, <1>17, <1>18, Zenon
<1>19. ASSUME Next
       PROVE  Good \/ \E r \in Saves : Commit(r)
  <2>1. CASE Expire
    BY <1>14, <2>1, Zenon
  <2>2. CASE ~Expire
    <3>1. PICK r \in Saves : \/ LoadNodes(r) \/ LoadFacets(r) \/ LoadEdges(r) \/ Send(r) \/ SendWithoutLock(r)
                            \/ Handler(r) \/ DatabaseError(r)
      BY <1>19, <2>2, Zenon DEF Next
    <3> QED
      BY <1>18, <3>1, Zenon
  <2> QED
    BY <2>1, <2>2, Zenon
<1>20. Good \/ \E r \in Saves : Commit(r)
  <2>1. Next \/ UNCHANGED vars
    OBVIOUS
  <2> QED
    BY <1>14, <1>19, <2>1, Zenon
<1> QED
  BY <1>16, <1>20, NodesCommitted

LEMMA NodesInvariance == Spec => []NodesInv
<1>1. Init => NodesInv
  BY DEF Init, NodesInv, NodesGuarded, LoadsAreOld, NoGraph, Nothing, Empty
<1>2. TypeInv /\ BodiesFit /\ NodesInv /\ [Next]_vars => NodesInv'
  BY NodesStep
<1> QED
  BY <1>1, <1>2, TypeInvariance, BodiesFitInvariance, PTL DEF Spec

\* The row_version an editor holds tells whether its copy of the node is current:
\* every update and deletion of upsert_nodes.go and delete_nodes.go counts it up.
THEOREM VersionTellsContentHolds == Spec => []VersionTellsContent
<1>1. NodesInv => VersionTellsContent
  BY DEF NodesInv, LoadsAreOld, VersionTellsContent
<1> QED
  BY <1>1, NodesInvariance, PTL

\* No save overwrites or deletes a node in another version than its editor loaded,
\* however many transactions run at once, with the module's lock or without it.
THEOREM NoLostNodeUpdateHolds == Spec => NoLostNodeUpdate
<1>1. ASSUME TypeInv, NodesInv, BodiesFit, [Next]_vars,
             NEW n \in DOMAIN tables.nodes, tables'.nodes[n] # tables.nodes[n]
      PROVE  \E r \in Saves :
               /\ Committing(r)
               /\ \E i \in DOMAIN loaded[r].nodes :
                    loaded[r].nodes[i].id = n /\ loaded[r].nodes[i].version = tables.nodes[n].version
  <2>1. PICK r \in Saves : Commit(r)
    BY <1>1, NodesStep
  <2>2. HasNode(loaded[r], n, tables.nodes[n].version)
    BY <1>1, <2>1, NodesCommitted
  <2>3. Committing(r)
    BY <1>1, <2>1 DEF Commit, Committing, Step, At, TypeInv, TypeOK
  <2> QED
    BY <2>2, <2>3 DEF HasNode
<1>2. TypeInv /\ NodesInv /\ BodiesFit /\ [Next]_vars =>
        [\A n \in DOMAIN tables.nodes : tables'.nodes[n] # tables.nodes[n] =>
           \E r \in Saves :
             /\ Committing(r)
             /\ \E i \in DOMAIN loaded[r].nodes :
                  loaded[r].nodes[i].id = n /\ loaded[r].nodes[i].version = tables.nodes[n].version]_vars
  BY <1>1
<1> QED
  BY <1>2, TypeInvariance, NodesInvariance, BodiesFitInvariance, PTL DEF Spec, NoLostNodeUpdate

-----------------------------------------------------------------------------
(***************************************************************************)
(* The edges                                                               *)
(***************************************************************************)

\* What a transaction has written of the edges: new rows of its own, between ends
\* of the payload that no row has, or rows that were live, with their ends.
NewPair(r, pair) ==
  /\ pair \in Pairs(payload[r].edges)
  /\ pair \notin Pairs(tables.edges)
  /\ \A s \in Saves \ {r} : pair \notin Pairs(wrote[s].edges)

KeptEnds(e, row) == tables.edges[e].live /\ Ends(row) = Ends(tables.edges[e])

EdgesGuarded ==
  /\ \A r, s \in Saves : r # s => DOMAIN wrote[r].edges \cap DOMAIN wrote[s].edges = {}
  /\ \A r \in Saves : \A e \in DOMAIN wrote[r].edges :
       IF e \in DOMAIN tables.edges THEN KeptEnds(e, wrote[r].edges[e])
       ELSE e = NewEdge[r] /\ NewPair(r, Ends(wrote[r].edges[e]))

\* UNIQUE (module_id, from_node_id, to_node_id)
OneRowPerPair == \A d, e \in DOMAIN tables.edges : d # e => Ends(tables.edges[d]) # Ends(tables.edges[e])

\* The ends of an edge that an editor holds are those of its row.
LoadedEnds ==
  \A r \in Saves : \A i \in DOMAIN loaded[r].edges :
    LET item == loaded[r].edges[i]
    IN  item.id \in DOMAIN tables.edges /\ Ends(item) = Ends(tables.edges[item.id])

\* What a transaction has deleted so far.
Deletes(r, e) == e \in DOMAIN wrote[r].edges /\ ~wrote[r].edges[e].live

Progress(r) ==
  /\ pc[r].do = "insertEdge" => EdgeItem(r).id \notin DOMAIN tables.edges
  /\ pc[r].do = "deleteEdge" =>
       \A i \in DOMAIN payload[r].goneEdges : i < pc[r].at => Deletes(r, payload[r].goneEdges[i].id)
  /\ pc[r].do \in {"deleteNode", "tombstone", "commit"} =>
       \A i \in DOMAIN payload[r].goneEdges : Deletes(r, payload[r].goneEdges[i].id)

EdgesInv == EdgesGuarded /\ OneRowPerPair /\ LoadedEnds /\ \A r \in Saves : Progress(r)

\* The edges as a transaction sees them: the committed ones with their ends, none
\* of them come back to life, and its own.
LEMMA EdgesSeen ==
  ASSUME TypeInv, EdgesInv, NEW r \in Saves
  PROVE  LET table == View(r, "edges")
         IN  /\ DOMAIN table = DOMAIN wrote[r].edges \cup DOMAIN tables.edges
             /\ \A e \in DOMAIN wrote[r].edges : table[e] = wrote[r].edges[e]
             /\ \A e \in DOMAIN tables.edges :
                  /\ Ends(table[e]) = Ends(tables.edges[e])
                  /\ table[e].live => tables.edges[e].live
             /\ \A e \in DOMAIN table \ DOMAIN tables.edges :
                  e = NewEdge[r] /\ NewPair(r, Ends(table[e]))
<1> DEFINE table == View(r, "edges")
<1>1. /\ DOMAIN table = DOMAIN wrote[r].edges \cup DOMAIN tables.edges
      /\ \A e \in DOMAIN wrote[r].edges : table[e] = wrote[r].edges[e]
      /\ \A e \in DOMAIN tables.edges \ DOMAIN wrote[r].edges : table[e] = tables.edges[e]
  BY DEF View, Over
<1> HIDE DEF table
<1>2. ASSUME NEW e \in DOMAIN tables.edges
      PROVE  /\ Ends(table[e]) = Ends(tables.edges[e])
             /\ table[e].live => tables.edges[e].live
  <2>1. CASE e \in DOMAIN wrote[r].edges
    BY <1>1, <2>1 DEF EdgesInv, EdgesGuarded, KeptEnds
  <2>2. CASE e \notin DOMAIN wrote[r].edges
    BY <1>1, <2>2
  <2> QED
    BY <2>1, <2>2
<1>3. ASSUME NEW e \in DOMAIN table \ DOMAIN tables.edges
      PROVE  e = NewEdge[r] /\ NewPair(r, Ends(table[e]))
  <2>1. e \in DOMAIN wrote[r].edges /\ table[e] = wrote[r].edges[e]
    BY <1>1
  <2> QED
    BY <2>1 DEF EdgesInv, EdgesGuarded
<1> QED
  BY <1>1, <1>2, <1>3 DEF table

\* A row that a transaction may write: a new edge of its own, or one that was live
\* and that nobody else is writing.
MayWrite(r, x, row) ==
  \/ x \notin DOMAIN tables.edges /\ x = NewEdge[r] /\ NewPair(r, Ends(row))
  \/ x \in DOMAIN tables.edges /\ KeptEnds(x, row) /\ \A s \in Saves \ {r} : x \notin DOMAIN wrote[s].edges

\* The statement that inserts an edge.
LEMMA EdgeInserted ==
  ASSUME TypeInv, BodiesFit, EdgesInv, NEW r \in Saves, InsertEdge(r)
  PROVE  \/ \E why : Fail(r, why)
         \/ \E x, row : MayWrite(r, x, row) /\ Write(r, "edges", x, row, FromEdges(payload[r], pc[r].at + 1))
<1> DEFINE table == View(r, "edges")
           item == EdgeItem(r)
           new == [version |-> 1, live |-> TRUE, from |-> item.from, to |-> item.to, order |-> pc[r].at - 1]
<1>1. \/ EndsUnique(r) /\ Write(r, "edges", item.id, new, FromEdges(payload[r], pc[r].at + 1))
      \/ \E why : Fail(r, why)
  BY Zenon DEF InsertEdge
<1>2. pc[r].do = "insertEdge" /\ WaitsFor(r) = {}
  BY DEF InsertEdge
<1>3. Fits(r, loaded[r], payload[r])
  BY <1>2 DEF BodiesFit, Transaction
<1>4. pc[r].at \in DOMAIN payload[r].edges /\ item = payload[r].edges[pc[r].at]
  BY <1>2 DEF TypeInv, InBody, EdgeItem
<1>5. item.id \notin DOMAIN tables.edges
  BY <1>2 DEF EdgesInv, Progress
<1>6. item.id = NewEdge[r]
  BY <1>3, <1>4, <1>5 DEF Fits, EdgesInv, LoadedEnds
<1>7. Ends(new) = Ends(item)
  BY DEF Ends
<1> HIDE DEF item, new
<1>8. Ends(item) \in Pairs(payload[r].edges)
  BY <1>4 DEF Pairs
<1>9. \A s \in Saves \ {r} : Ends(item) \notin Pairs(wrote[s].edges)
  BY <1>2 DEF WaitsFor, item
<1>10. ASSUME EndsUnique(r)
       PROVE  Ends(item) \notin Pairs(tables.edges)
  <2> SUFFICES ASSUME NEW e \in DOMAIN tables.edges, Ends(tables.edges[e]) = Ends(item)
               PROVE  FALSE
    BY DEF Pairs
  <2>1. e \in DOMAIN table /\ Ends(table[e]) = Ends(tables.edges[e])
    BY EdgesSeen
  <2> QED
    BY <1>10, <2>1 DEF EndsUnique, Pairs, item
<1>11. EndsUnique(r) => MayWrite(r, item.id, new)
  BY <1>5, <1>6, <1>7, <1>8, <1>9, <1>10 DEF MayWrite, NewPair
<1> QED
  BY <1>1, <1>11

\* The statement that changes an edge: only its order can change.
LEMMA EdgeUpdated ==
  ASSUME TypeInv, BodiesFit, EdgesInv, NEW r \in Saves, UpdateEdge(r)
  PROVE  \/ \E why : Fail(r, why)
         \/ Proceed(r, FromEdges(payload[r], pc[r].at + 1))
         \/ \E x, row : MayWrite(r, x, row) /\ Write(r, "edges", x, row, FromEdges(payload[r], pc[r].at + 1))
<1> DEFINE table == View(r, "edges")
           item == EdgeItem(r)
           old == table[item.id]
           new == [old EXCEPT !.version = old.version + 1, !.from = item.from, !.to = item.to,
                              !.order = pc[r].at - 1]
<1>1. \/ EdgeChanges(r) /\ Write(r, "edges", item.id, new, FromEdges(payload[r], pc[r].at + 1))
      \/ Proceed(r, FromEdges(payload[r], pc[r].at + 1))
      \/ \E why : Fail(r, why)
  BY Zenon DEF UpdateEdge
<1>2. pc[r].do = "updateEdge" /\ WaitsFor(r) = {}
  BY DEF UpdateEdge
<1>3. Fits(r, loaded[r], payload[r])
  BY <1>2 DEF BodiesFit, Transaction
<1>4. pc[r].at \in DOMAIN payload[r].edges /\ item = payload[r].edges[pc[r].at]
  BY <1>2 DEF TypeInv, InBody, EdgeItem
<1>5. IsTable(table, Edges, EdgeRow)
  BY ViewTypes DEF TypeInv
<1>6. ASSUME EdgeChanges(r)
      PROVE  MayWrite(r, item.id, new)
  <2>1. Matches(table, item)
    BY <1>6 DEF EdgeChanges
  <2>2. \A s \in Saves \ {r} : item.id \notin DOMAIN wrote[s].edges
    BY <1>2, <1>6 DEF WaitsFor
  <2> HIDE DEF table
  <2>3. item.id \in DOMAIN table /\ old \in EdgeRow /\ old.live /\ old.version = item.version
    BY <1>5, <2>1 DEF Matches, IsTable
  <2>4. Ends(new) = Ends(item)
    <3>1. DOMAIN old = {"version", "live", "from", "to", "order"}
      BY <2>3 DEF EdgeRow
    <3> HIDE DEF old
    <3> QED
      BY <3>1 DEF Ends
  <2> HIDE DEF item, new
  <2>5. item.version # 0
    BY <2>3 DEF EdgeRow
  <2>6. PICK k \in DOMAIN loaded[r].edges : loaded[r].edges[k] = item
    BY <1>3, <1>4, <2>5 DEF Fits
  <2>7. item.id \in DOMAIN tables.edges /\ Ends(item) = Ends(tables.edges[item.id])
    BY <2>6 DEF EdgesInv, LoadedEnds
  <2>8. tables.edges[item.id].live
    BY <2>3, <2>7, EdgesSeen DEF table
  <2> QED
    BY <2>2, <2>4, <2>7, <2>8 DEF MayWrite, KeptEnds
<1> QED
  BY <1>1, <1>6

\* The statement that deletes an edge.
LEMMA EdgeDeleted ==
  ASSUME TypeInv, EdgesInv, NEW r \in Saves, DeleteEdge(r)
  PROVE  \/ \E why : Fail(r, why)
         \/ \E row :
              /\ MayWrite(r, GoneEdge(r).id, row) /\ ~row.live
              /\ Write(r, "edges", GoneEdge(r).id, row, FromGoneEdges(payload[r], pc[r].at + 1))
<1> DEFINE table == View(r, "edges")
           item == GoneEdge(r)
           old == table[item.id]
           new == Tombstone(old)
<1>1. \/ Matches(table, item) /\ Write(r, "edges", item.id, new, FromGoneEdges(payload[r], pc[r].at + 1))
      \/ \E why : Fail(r, why)
  BY Zenon DEF DeleteEdge
<1>2. pc[r].do = "deleteEdge" /\ WaitsFor(r) = {}
  BY DEF DeleteEdge
<1>3. IsTable(table, Edges, EdgeRow)
  BY ViewTypes DEF TypeInv
<1>4. ASSUME Matches(table, item)
      PROVE  MayWrite(r, item.id, new) /\ ~new.live
  <2>1. \A s \in Saves \ {r} : item.id \notin DOMAIN wrote[s].edges
    BY <1>2, <1>4 DEF WaitsFor
  <2> HIDE DEF table, item
  <2>2. item.id \in DOMAIN table /\ old \in EdgeRow /\ old.live
    BY <1>3, <1>4 DEF Matches, IsTable
  <2> HIDE DEF old
  <2>3. Ends(new) = Ends(old) /\ ~new.live
    BY <2>2 DEF Ends, Tombstone, EdgeRow
  <2> HIDE DEF new
  <2>4. CASE item.id \in DOMAIN tables.edges
    <3>1. Ends(old) = Ends(tables.edges[item.id]) /\ tables.edges[item.id].live
      BY <2>2, <2>4, EdgesSeen DEF table, old
    <3> QED
      BY <2>1, <2>3, <2>4, <3>1 DEF MayWrite, KeptEnds
  <2>5. CASE item.id \notin DOMAIN tables.edges
    <3>1. item.id = NewEdge[r] /\ NewPair(r, Ends(old))
      BY <2>2, <2>5, EdgesSeen DEF table, old
    <3> QED
      BY <2>3, <2>5, <3>1 DEF MayWrite
  <2> QED
    BY <2>3, <2>4, <2>5
<1> QED
  BY <1>1, <1>4

\* Such a write keeps what was written guarded.
LEMMA EdgeWriteGuarded ==
  ASSUME TypeInv, EdgesInv, NEW r \in Saves, NEW x, NEW row, NEW next,
         Write(r, "edges", x, row, next), MayWrite(r, x, row)
  PROVE  EdgesGuarded'
<1> DEFINE NewAfter(s, pair) ==
             /\ pair \in Pairs(payload'[s].edges)
             /\ pair \notin Pairs(tables'.edges)
             /\ \A q \in Saves \ {s} : pair \notin Pairs(wrote'[q].edges)
<1>1. /\ DOMAIN wrote'[r].edges = DOMAIN wrote[r].edges \cup {x}
      /\ wrote'[r].edges[x] = row
      /\ \A y \in DOMAIN wrote[r].edges \ {x} : wrote'[r].edges[y] = wrote[r].edges[y]
      /\ \A s \in Saves \ {r} : wrote'[s] = wrote[s]
  <2>1. "edges" \in {"nodes", "facets", "edges"}
    OBVIOUS
  <2> QED
    BY <2>1, WroteAfterWrite
<1>2. tables' = tables /\ payload' = payload
  BY DEF Write
<1>3. \A s \in Saves \ {r} : x \notin DOMAIN wrote[s].edges
  <2>1. \A s \in Saves : NewEdge[s] = NewEdge[r] => s = r
    BY IdentifiersAssumption
  <2> QED
    BY <2>1 DEF MayWrite, EdgesInv, EdgesGuarded
<1>4. ASSUME NEW s \in Saves, NEW q \in Saves, s # q
      PROVE  DOMAIN wrote'[s].edges \cap DOMAIN wrote'[q].edges = {}
  <2>1. DOMAIN wrote[s].edges \cap DOMAIN wrote[q].edges = {}
    BY <1>4 DEF EdgesInv, EdgesGuarded
  <2> QED
    BY <1>1, <1>3, <1>4, <2>1
\* The pairs of r's rows are those it had, those of the tables, or a new one.
<1>5. ASSUME NEW pair \in Pairs(wrote'[r].edges)
      PROVE  \/ pair \in Pairs(wrote[r].edges) \/ pair \in Pairs(tables.edges)
             \/ \A s \in Saves \ {r} : pair \notin Pairs(wrote[s].edges)
  <2>1. PICK e \in DOMAIN wrote'[r].edges : pair = Ends(wrote'[r].edges[e])
    BY DEF Pairs
  <2>2. CASE e = x
    BY <1>1, <2>1, <2>2 DEF MayWrite, NewPair, KeptEnds, Pairs
  <2>3. CASE e # x
    BY <1>1, <2>1, <2>3 DEF Pairs
  <2> QED
    BY <2>2, <2>3
<1>6. ASSUME NEW s \in Saves, NEW e \in DOMAIN wrote'[s].edges
      PROVE  IF e \in DOMAIN tables.edges THEN KeptEnds(e, wrote'[s].edges[e])
             ELSE e = NewEdge[s] /\ NewAfter(s, Ends(wrote'[s].edges[e]))
  <2>1. CASE s = r
    <3>1. \A q \in Saves \ {r} : wrote'[q] = wrote[q]
      BY <1>1
    <3>2. CASE e = x
      BY <1>1, <1>2, <2>1, <3>1, <3>2 DEF MayWrite, NewPair
    <3>3. CASE e # x
      <4>1. e \in DOMAIN wrote[r].edges /\ wrote'[r].edges[e] = wrote[r].edges[e]
        BY <1>1, <1>6, <2>1, <3>3
      <4>2. IF e \in DOMAIN tables.edges THEN KeptEnds(e, wrote[r].edges[e])
            ELSE e = NewEdge[r] /\ NewPair(r, Ends(wrote[r].edges[e]))
        BY <4>1 DEF EdgesInv, EdgesGuarded
      <4> QED
        BY <1>2, <2>1, <3>1, <4>1, <4>2 DEF NewPair
    <3> QED
      BY <3>2, <3>3
  <2>2. CASE s # r
    <3>1. wrote'[s] = wrote[s] /\ e \in DOMAIN wrote[s].edges
      BY <1>1, <1>6, <2>2
    <3>2. IF e \in DOMAIN tables.edges THEN KeptEnds(e, wrote[s].edges[e])
          ELSE e = NewEdge[s] /\ NewPair(s, Ends(wrote[s].edges[e]))
      BY <3>1 DEF EdgesInv, EdgesGuarded
    <3>3. CASE e \in DOMAIN tables.edges
      BY <3>1, <3>2, <3>3
    <3>4. CASE e \notin DOMAIN tables.edges
      <4> DEFINE pair == Ends(wrote[s].edges[e])
      <4>1. NewPair(s, pair) /\ e = NewEdge[s] /\ pair \in Pairs(wrote[s].edges)
        BY <3>1, <3>2, <3>4 DEF Pairs
      <4> HIDE DEF pair
      <4>2. pair \notin Pairs(wrote'[r].edges)
        BY <1>5, <2>2, <4>1 DEF NewPair
      <4>3. \A q \in Saves \ {s} : pair \notin Pairs(wrote'[q].edges)
        BY <1>1, <4>1, <4>2 DEF NewPair
      <4>4. pair \in Pairs(payload'[s].edges) /\ pair \notin Pairs(tables'.edges)
        BY <1>2, <4>1 DEF NewPair
      <4>5. Ends(wrote'[s].edges[e]) = pair
        BY <3>1 DEF pair
      <4> QED
        BY <3>4, <4>1, <4>3, <4>4, <4>5
    <3> QED
      BY <3>3, <3>4
  <2> QED
    BY <2>1, <2>2
<1> QED
  BY <1>2, <1>4, <1>6 DEF EdgesGuarded, KeptEnds, NewPair
\* A step that commits no edge, and writes none or rolls back.
LEMMA EdgesKept ==
  ASSUME EdgesGuarded, tables'.edges = tables.edges,
         \A r \in Saves : \/ DOMAIN wrote'[r].edges = {}
                          \/ wrote'[r].edges = wrote[r].edges /\ payload'[r] = payload[r]
  PROVE  EdgesGuarded'
<1>1. ASSUME NEW r \in Saves, NEW s \in Saves, r # s
      PROVE  DOMAIN wrote'[r].edges \cap DOMAIN wrote'[s].edges = {}
  BY <1>1 DEF EdgesGuarded
<1>2. \A r \in Saves : Pairs(wrote'[r].edges) \subseteq Pairs(wrote[r].edges)
  BY DEF Pairs
<1>3. ASSUME NEW r \in Saves, NEW e \in DOMAIN wrote'[r].edges, NEW pair, pair = Ends(wrote'[r].edges[e])
      PROVE  IF e \in DOMAIN tables.edges THEN KeptEnds(e, wrote'[r].edges[e])
             ELSE /\ e = NewEdge[r]
                  /\ pair \in Pairs(payload'[r].edges)
                  /\ pair \notin Pairs(tables.edges)
                  /\ \A s \in Saves \ {r} : pair \notin Pairs(wrote'[s].edges)
  <2>1. wrote'[r].edges = wrote[r].edges /\ payload'[r] = payload[r]
    BY <1>3
  <2>2. IF e \in DOMAIN tables.edges THEN KeptEnds(e, wrote[r].edges[e])
        ELSE e = NewEdge[r] /\ NewPair(r, pair)
    BY <1>3, <2>1 DEF EdgesGuarded
  <2> QED
    BY <1>2, <2>1, <2>2 DEF NewPair
<1> QED
  BY <1>1, <1>3 DEF EdgesGuarded, KeptEnds, NewPair

\* A step of one save that commits no edge, and writes none or rolls back.
LEMMA EdgesQuiet ==
  ASSUME EdgesInv, NEW r \in Saves, tables'.edges = tables.edges,
         \A s \in Saves \ {r} : /\ pc'[s] = pc[s] /\ wrote'[s] = wrote[s]
                               /\ payload'[s] = payload[s] /\ loaded'[s] = loaded[s],
         \/ DOMAIN wrote'[r].edges = {}
         \/ wrote'[r].edges = wrote[r].edges /\ payload'[r] = payload[r],
         DOMAIN loaded'[r].edges = {} \/ loaded'[r].edges = loaded[r].edges,
         Progress(r)'
  PROVE  EdgesInv'
<1>1. EdgesGuarded'
  BY EdgesKept DEF EdgesInv
<1>2. OneRowPerPair'
  BY DEF EdgesInv, OneRowPerPair, Ends
<1>3. LoadedEnds'
  BY DEF EdgesInv, LoadedEnds, Ends
<1>4. ASSUME NEW s \in Saves \ {r}
      PROVE  Progress(s)'
  <2>1. Progress(s)
    BY DEF EdgesInv
  <2> QED
    BY <2>1 DEF Progress, EdgeItem, Deletes
<1> QED
  BY <1>1, <1>2, <1>3, <1>4 DEF EdgesInv

\* Where the loops go at first, nothing is said of what has been deleted.
Early(body, next) ==
  /\ next.do # "insertEdge"
  /\ next.do = "deleteEdge" => next.at = 1
  /\ next.do \in {"deleteNode", "tombstone", "commit"} => DOMAIN body.goneEdges = {}

LEMMA LoopsBegin ==
  ASSUME NEW body \in Payload, NEW i
  PROVE  /\ Early(body, FromEdges(body, i))
         /\ Early(body, FromNodes(body, i))
         /\ Early(body, AfterNode(body, i))
<1>1. Early(body, FromGoneEdges(body, 1))
  <2>1. body.goneEdges \in Seq(GoneEdges)
    BY DEF Payload, GoneEdges
  <2>2. DOMAIN body.goneEdges = 1 .. Len(body.goneEdges) /\ Len(body.goneEdges) \in Nat
    BY <2>1
  <2>3. CASE 1 \in DOMAIN body.goneEdges
    BY <2>3 DEF FromGoneEdges, Early, At
  <2>4. CASE 1 \notin DOMAIN body.goneEdges
    <3>1. DOMAIN body.goneEdges = {}
      BY <2>2, <2>4
    <3> QED
      BY <2>4, <3>1 DEF FromGoneEdges, FromGoneNodes, Early, At
  <2> QED
    BY <2>3, <2>4
<1>2. \A j : Early(body, FromEdges(body, j))
  BY <1>1 DEF FromEdges, Early, At
<1>3. \A j : Early(body, FromNodes(body, j))
  BY <1>1 DEF FromNodes, Early, At
<1>4. Early(body, AfterNode(body, i))
  BY <1>3 DEF AfterNode, Early, At
<1> QED
  BY <1>2, <1>3, <1>4

LEMMA ProgressAtFirst ==
  ASSUME TypeInv', NEW r \in Saves, Early(payload'[r], pc'[r])
  PROVE  Progress(r)'
<1>1. payload'[r] \in Payload
  BY DEF TypeInv, TypeOK
<1>2. payload'[r].goneEdges \in Seq(GoneEdges)
  BY <1>1 DEF Payload, GoneEdges
<1>3. \A i \in DOMAIN payload'[r].goneEdges : i \in Nat /\ ~(i < 1)
  BY <1>2
<1> QED
  BY <1>3 DEF Early, Progress

\* What a commit makes of the edges.
LEMMA EdgesCommitted ==
  ASSUME TypeInv, BodiesFit, EdgesInv, NEW r \in Saves, Commit(r)
  PROVE  EdgesInv'
<1>1. /\ tables'.edges = View(r, "edges") /\ loaded' = loaded /\ payload' = payload
      /\ wrote' = [wrote EXCEPT ![r] = Nothing] /\ pc' = [pc EXCEPT ![r] = At("reread", 0)]
  BY DEF Commit, Step
<1>2. /\ DOMAIN wrote'[r].edges = {}
      /\ \A s \in Saves \ {r} : wrote'[s] = wrote[s] /\ pc'[s] = pc[s]
      /\ pc'[r].do = "reread"
  BY <1>1 DEF Nothing, Empty, At, TypeInv, TypeOK
<1>3. /\ DOMAIN tables'.edges = DOMAIN wrote[r].edges \cup DOMAIN tables.edges
      /\ \A e \in DOMAIN tables.edges : Ends(tables'.edges[e]) = Ends(tables.edges[e])
      /\ \A e \in DOMAIN tables'.edges \ DOMAIN tables.edges :
           e = NewEdge[r] /\ NewPair(r, Ends(tables'.edges[e]))
  BY <1>1, EdgesSeen
<1>4. \A e \in DOMAIN tables.edges \ DOMAIN wrote[r].edges : tables'.edges[e] = tables.edges[e]
  BY <1>1 DEF View, Over
<1>5. \A pair \in Pairs(tables'.edges) : pair \in Pairs(tables.edges) \/ pair \in Pairs(wrote[r].edges)
  <2> SUFFICES ASSUME NEW e \in DOMAIN tables'.edges
               PROVE  Ends(tables'.edges[e]) \in Pairs(tables.edges) \/ Ends(tables'.edges[e]) \in Pairs(wrote[r].edges)
    BY DEF Pairs
  <2>1. CASE e \in DOMAIN tables.edges
    BY <1>3, <2>1 DEF Pairs
  <2>2. CASE e \notin DOMAIN tables.edges
    <3>1. e \in DOMAIN wrote[r].edges
      BY <1>3, <2>2
    <3>2. tables'.edges[e] = wrote[r].edges[e]
      BY <1>1, <3>1, EdgesSeen
    <3> QED
      BY <3>1, <3>2 DEF Pairs
  <2> QED
    BY <2>1, <2>2
<1>6. EdgesGuarded'
  <2>1. ASSUME NEW s \in Saves, NEW q \in Saves, s # q
        PROVE  DOMAIN wrote'[s].edges \cap DOMAIN wrote'[q].edges = {}
    BY <1>2, <2>1 DEF EdgesInv, EdgesGuarded
  <2>2. ASSUME NEW s \in Saves, NEW e \in DOMAIN wrote'[s].edges, NEW pair, pair = Ends(wrote'[s].edges[e])
        PROVE  IF e \in DOMAIN tables'.edges
               THEN tables'.edges[e].live /\ pair = Ends(tables'.edges[e])
               ELSE /\ e = NewEdge[s]
                    /\ pair \in Pairs(payload'[s].edges)
                    /\ pair \notin Pairs(tables'.edges)
                    /\ \A q \in Saves \ {s} : pair \notin Pairs(wrote'[q].edges)
    <3>1. s # r /\ e \in DOMAIN wrote[s].edges /\ wrote'[s] = wrote[s] /\ pair = Ends(wrote[s].edges[e])
      BY <1>2, <2>2
    <3>2. e \notin DOMAIN wrote[r].edges
      BY <3>1 DEF EdgesInv, EdgesGuarded
    <3>3. IF e \in DOMAIN tables.edges THEN KeptEnds(e, wrote[s].edges[e])
          ELSE e = NewEdge[s] /\ NewPair(s, pair)
      BY <3>1 DEF EdgesInv, EdgesGuarded
    <3>4. CASE e \in DOMAIN tables.edges
      BY <1>3, <1>4, <3>1, <3>2, <3>3, <3>4 DEF KeptEnds
    <3>5. CASE e \notin DOMAIN tables.edges
      <4>1. e \notin DOMAIN tables'.edges
        BY <1>3, <3>2, <3>5
      <4>2. /\ pair \in Pairs(payload[s].edges) /\ pair \notin Pairs(tables.edges)
            /\ \A q \in Saves \ {s} : pair \notin Pairs(wrote[q].edges)
        BY <3>3, <3>5 DEF NewPair
      <4>3. pair \notin Pairs(tables'.edges)
        BY <1>5, <3>1, <4>2
      <4>4. \A q \in Saves \ {s} : pair \notin Pairs(wrote'[q].edges)
        BY <1>2, <4>2 DEF Pairs
      <4> QED
        BY <1>1, <3>3, <3>5, <4>1, <4>2, <4>3, <4>4
    <3> QED
      BY <3>4, <3>5
  <2> QED
    BY <2>1, <2>2 DEF EdgesGuarded, KeptEnds, NewPair
<1>7. OneRowPerPair'
  <2> SUFFICES ASSUME NEW d \in DOMAIN tables'.edges, NEW e \in DOMAIN tables'.edges, d # e,
                      Ends(tables'.edges[d]) = Ends(tables'.edges[e])
               PROVE  FALSE
    BY DEF OneRowPerPair, Ends
  <2>1. \A x \in DOMAIN tables.edges : Ends(tables'.edges[x]) \in Pairs(tables.edges)
    BY <1>3 DEF Pairs
  <2>2. CASE d \in DOMAIN tables.edges /\ e \in DOMAIN tables.edges
    BY <1>3, <2>2 DEF EdgesInv, OneRowPerPair
  <2>3. CASE d \notin DOMAIN tables.edges \/ e \notin DOMAIN tables.edges
    BY <1>3, <2>1, <2>3 DEF NewPair
  <2> QED
    BY <2>2, <2>3
<1>8. LoadedEnds'
  <2> SUFFICES ASSUME NEW s \in Saves, NEW i \in DOMAIN loaded[s].edges, NEW item, item = loaded[s].edges[i]
               PROVE  item.id \in DOMAIN tables'.edges /\ Ends(item) = Ends(tables'.edges[item.id])
    BY <1>1 DEF LoadedEnds, Ends
  <2>1. item.id \in DOMAIN tables.edges /\ Ends(item) = Ends(tables.edges[item.id])
    BY DEF EdgesInv, LoadedEnds
  <2> QED
    BY <1>3, <2>1
<1>9. ASSUME NEW s \in Saves
      PROVE  Progress(s)'
  <2>1. CASE s = r
    BY <1>2, <2>1 DEF Progress
  <2>2. CASE s # r
    <3>1. pc'[s] = pc[s] /\ wrote'[s] = wrote[s] /\ payload'[s] = payload[s] /\ Progress(s)
      BY <1>1, <1>2, <2>2 DEF EdgesInv
    <3>2. ASSUME pc[s].do = "insertEdge"
          PROVE  EdgeItem(s).id \notin DOMAIN tables'.edges
      <4> DEFINE item == EdgeItem(s)
      <4>1. pc[s].at \in DOMAIN payload[s].edges /\ item = payload[s].edges[pc[s].at]
        BY <3>2 DEF TypeInv, InBody, EdgeItem
      <4>2. item.id \notin DOMAIN tables.edges
        BY <3>1, <3>2 DEF Progress
      <4>3. Fits(s, loaded[s], payload[s])
        BY <3>2 DEF BodiesFit, Transaction
      <4> HIDE DEF item
      <4>4. item.id = NewEdge[s]
        BY <4>1, <4>2, <4>3 DEF Fits, EdgesInv, LoadedEnds
      <4>5. NewEdge[s] # NewEdge[r]
        BY <2>2, IdentifiersAssumption
      <4>6. item.id \notin DOMAIN tables'.edges
        BY <1>3, <4>2, <4>4, <4>5
      <4> QED
        BY <4>6 DEF item
    <3>3. EdgeItem(s)' = EdgeItem(s)
      BY <3>1 DEF EdgeItem
    <3> QED
      BY <3>1, <3>2, <3>3 DEF Progress, Deletes
  <2> QED
    BY <2>1, <2>2
<1> QED
  BY <1>6, <1>7, <1>8, <1>9 DEF EdgesInv
\* What an editor loads of the edges is what is committed.
LEMMA EdgesLoaded ==
  ASSUME TypeInv, EdgesInv, NEW r \in Saves, LoadEdges(r)
  PROVE  EdgesInv'
<1>1. PICK ids \in Listings(tables.edges) :
        loaded' = [loaded EXCEPT ![r].edges = [i \in DOMAIN ids |->
          [id |-> ids[i], version |-> tables.edges[ids[i]].version,
           from |-> tables.edges[ids[i]].from, to |-> tables.edges[ids[i]].to]]]
  BY DEF LoadEdges
<1>2. /\ pc[r].do = "loading" /\ pc' = [pc EXCEPT ![r] = At("editing", 0)]
      /\ UNCHANGED <<tables, payload, wrote>>
  BY DEF LoadEdges, Step
<1>3. DOMAIN loaded = Saves /\ DOMAIN pc = Saves /\ loaded[r] \in Graph
      /\ IsTable(tables.edges, Edges, EdgeRow) /\ IsFiniteSet(Edges)
  BY FinitelyMany DEF TypeInv, TypeOK, IsTables
<1>4. \A i \in DOMAIN ids : ids[i] \in Live(tables.edges)
  BY <1>3, ListingTypes DEF IsTable
<1>5. /\ \A s \in Saves \ {r} : loaded'[s] = loaded[s]
      /\ loaded'[r].edges = [i \in DOMAIN ids |->
           [id |-> ids[i], version |-> tables.edges[ids[i]].version,
            from |-> tables.edges[ids[i]].from, to |-> tables.edges[ids[i]].to]]
  BY <1>1, <1>3 DEF Graph
<1>6. LoadedEnds'
  <2> SUFFICES ASSUME NEW s \in Saves, NEW i \in DOMAIN loaded'[s].edges, NEW item, item = loaded'[s].edges[i]
               PROVE  item.id \in DOMAIN tables.edges /\ Ends(item) = Ends(tables.edges[item.id])
    BY <1>2 DEF LoadedEnds, Ends
  <2>1. CASE s = r
    <3>1. i \in DOMAIN ids
      BY <1>5, <2>1
    <3>2. item.id = ids[i] /\ item.from = tables.edges[ids[i]].from /\ item.to = tables.edges[ids[i]].to
      BY <1>5, <2>1, <3>1
    <3> QED
      BY <1>4, <3>1, <3>2 DEF Live, Ends
  <2>2. CASE s # r
    BY <1>5, <2>2 DEF EdgesInv, LoadedEnds
  <2> QED
    BY <2>1, <2>2
<1>7. EdgesGuarded'
  BY <1>2, EdgesKept DEF EdgesInv
<1>8. OneRowPerPair'
  BY <1>2 DEF EdgesInv, OneRowPerPair, Ends
<1>9. ASSUME NEW s \in Saves
      PROVE  Progress(s)'
  <2>1. CASE s = r
    BY <1>2, <1>3, <2>1 DEF Progress, At
  <2>2. CASE s # r
    <3>1. pc'[s] = pc[s] /\ Progress(s)
      BY <1>2, <1>3, <2>2 DEF EdgesInv
    <3> QED
      BY <1>2, <3>1 DEF Progress, EdgeItem, Deletes
  <2> QED
    BY <2>1, <2>2
<1> QED
  BY <1>6, <1>7, <1>8, <1>9 DEF EdgesInv

\* The statements of the transaction, but for the commit.
LEMMA EdgesHandled ==
  ASSUME TypeInv, TypeInv', BodiesFit, EdgesInv, NEW r \in Saves, pc[r].do \in Transaction,
         ~Commit(r), Handler(r) \/ DatabaseError(r)
  PROVE  EdgesInv'
<1>1. payload[r] \in Payload /\ DOMAIN pc = Saves /\ DOMAIN wrote = Saves
  BY DEF TypeInv, TypeOK
<1>2. ASSUME NEW why, Fail(r, why)
      PROVE  EdgesInv'
  <2>1. /\ pc' = [pc EXCEPT ![r] = At("release", 0)] /\ wrote' = [wrote EXCEPT ![r] = Nothing]
        /\ UNCHANGED <<tables, loaded, payload>>
    BY <1>2 DEF Fail, Step
  <2>2. pc'[r].do = "release" /\ DOMAIN wrote'[r].edges = {}
    BY <1>1, <2>1 DEF At, Nothing, Empty
  <2>3. Progress(r)'
    BY <2>2 DEF Progress
  <2> QED
    BY <1>1, <2>1, <2>2, <2>3, EdgesQuiet
<1>3. ASSUME NEW next, Proceed(r, next), Progress(r)'
      PROVE  EdgesInv'
  BY <1>1, <1>3, EdgesQuiet DEF Proceed, Step
<1>4. ASSUME NEW next, Early(payload[r], next), pc' = [pc EXCEPT ![r] = next], payload' = payload
      PROVE  Progress(r)'
  BY <1>1, <1>4, ProgressAtFirst
<1>5. ASSUME NEW table \in {"nodes", "facets"}, NEW x, NEW row, NEW next,
             Write(r, table, x, row, next), Progress(r)'
      PROVE  EdgesInv'
  <2>1. /\ pc' = [pc EXCEPT ![r] = next] /\ UNCHANGED <<tables, loaded, payload>>
    BY <1>5 DEF Write, Step
  <2>2. "edges" \in {"nodes", "facets", "edges"} \ {table} /\ table \in {"nodes", "facets", "edges"}
    BY <1>5
  <2>3. /\ \A t \in {"nodes", "facets", "edges"} \ {table} : wrote'[r][t] = wrote[r][t]
        /\ \A s \in Saves \ {r} : wrote'[s] = wrote[s]
    BY <1>5, <2>2, WroteAfterWrite
  <2>4. wrote'[r].edges = wrote[r].edges
    BY <2>2, <2>3
  <2> QED
    BY <1>1, <1>5, <2>1, <2>3, <2>4, EdgesQuiet
<1>6. ASSUME NEW x, NEW row, NEW next, MayWrite(r, x, row), Write(r, "edges", x, row, next), Progress(r)'
      PROVE  EdgesInv'
  <2>1. /\ pc' = [pc EXCEPT ![r] = next] /\ UNCHANGED <<tables, loaded, payload>>
    BY <1>6 DEF Write, Step
  <2>2. EdgesGuarded'
    BY <1>6, EdgeWriteGuarded
  <2>3. OneRowPerPair' /\ LoadedEnds'
    BY <2>1 DEF EdgesInv, OneRowPerPair, LoadedEnds, Ends
  <2>4. \A s \in Saves \ {r} : wrote'[s] = wrote[s]
    <3>1. "edges" \in {"nodes", "facets", "edges"}
      OBVIOUS
    <3> QED
      BY <1>6, <3>1, WroteAfterWrite
  <2>5. ASSUME NEW s \in Saves \ {r}
        PROVE  Progress(s)'
    <3>1. Progress(s) /\ pc'[s] = pc[s] /\ wrote'[s] = wrote[s]
      BY <1>1, <2>1, <2>4 DEF EdgesInv
    <3> QED
      BY <2>1, <3>1 DEF Progress, EdgeItem, Deletes
  <2> QED
    BY <1>6, <2>2, <2>3, <2>5 DEF EdgesInv
<1>7. Early(payload[r], At("updateNode", pc[r].at)) /\ Early(payload[r], At("updateEdge", pc[r].at))
  BY DEF Early, At
<1>8. CASE Node(r) \/ UpdateNode(r) \/ Facet(r)
  <2>1. \/ \E why : Fail(r, why)
        \/ \E next : Early(payload[r], next) /\ Proceed(r, next)
        \/ \E next : Early(payload[r], next) /\ \E table \in {"nodes", "facets"} : \E x, row : Write(r, table, x, row, next)
    <3>1. CASE Node(r)
      BY <1>1, <1>7, <3>1, LoopsBegin, Zenon DEF Node
    <3>2. CASE UpdateNode(r)
      BY <1>1, <1>7, <3>2, LoopsBegin, Zenon DEF UpdateNode
    <3>3. CASE Facet(r)
      BY <1>1, <3>3, LoopsBegin, Zenon DEF Facet
    <3> QED
      BY <1>8, <3>1, <3>2, <3>3
  <2>2. ASSUME NEW next, Early(payload[r], next), Proceed(r, next)
        PROVE  EdgesInv'
    BY <1>3, <1>4, <2>2 DEF Proceed, Step
  <2>3. ASSUME NEW next, Early(payload[r], next),
               NEW table \in {"nodes", "facets"}, NEW x, NEW row, Write(r, table, x, row, next)
        PROVE  EdgesInv'
    <3>1. Progress(r)'
      BY <1>4, <2>3 DEF Write, Step
    <3> QED
      BY <1>5, <2>3, <3>1
  <2> QED
    BY <1>2, <2>1, <2>2, <2>3, Zenon
<1>9. CASE ActiveNodes(r)
  <2>1. /\ pc' = [pc EXCEPT ![r] = FromEdges(payload[r], 1)] /\ UNCHANGED <<tables, loaded, payload, wrote>>
    BY <1>9 DEF ActiveNodes, Step
  <2>2. Progress(r)'
    BY <1>1, <1>4, <2>1, LoopsBegin
  <2> QED
    BY <1>1, <2>1, <2>2, EdgesQuiet
<1>10. CASE Edge(r)
  <2> DEFINE table == View(r, "edges")
             item == EdgeItem(r)
  <2>1. \/ \E why : Fail(r, why)
        \/ item.id \notin DOMAIN table /\ Proceed(r, At("insertEdge", pc[r].at))
        \/ Proceed(r, At("updateEdge", pc[r].at))
    BY <1>10, Zenon DEF Edge
  <2>2. CASE item.id \notin DOMAIN table /\ Proceed(r, At("insertEdge", pc[r].at))
    <3>1. pc' = [pc EXCEPT ![r] = At("insertEdge", pc[r].at)] /\ UNCHANGED <<tables, payload>>
      BY <2>2 DEF Proceed, Step
    <3>2. pc'[r].do = "insertEdge" /\ pc'[r].at = pc[r].at
      BY <1>1, <3>1 DEF At
    <3>3. EdgeItem(r)' = item
      BY <3>1, <3>2 DEF EdgeItem
    <3>4. item.id \notin DOMAIN tables.edges
      BY <2>2, EdgesSeen
    <3>5. Progress(r)'
      BY <3>1, <3>2, <3>3, <3>4 DEF Progress
    <3> QED
      BY <1>3, <2>2, <3>5
  <2>3. CASE Proceed(r, At("updateEdge", pc[r].at))
    BY <1>3, <1>4, <1>7, <2>3 DEF Proceed, Step
  <2> QED
    BY <1>2, <2>1, <2>2, <2>3
<1>11. CASE InsertEdge(r) \/ UpdateEdge(r)
  <2> DEFINE next == FromEdges(payload[r], pc[r].at + 1)
  <2>1. Early(payload[r], next)
    BY <1>1, LoopsBegin
  <2>2. \/ \E why : Fail(r, why)
        \/ Proceed(r, next)
        \/ \E x, row : MayWrite(r, x, row) /\ Write(r, "edges", x, row, next)
    BY <1>11, EdgeInserted, EdgeUpdated
  <2> HIDE DEF next
  <2>3. CASE Proceed(r, next)
    BY <1>3, <1>4, <2>1, <2>3 DEF Proceed, Step
  <2>4. ASSUME NEW x, NEW row, MayWrite(r, x, row), Write(r, "edges", x, row, next)
        PROVE  EdgesInv'
    <3>1. Progress(r)'
      BY <1>4, <2>1, <2>4 DEF Write, Step
    <3> QED
      BY <1>6, <2>4, <3>1
  <2> QED
    BY <1>2, <2>2, <2>3, <2>4
<1>12. CASE DeleteEdge(r)
  <2> DEFINE next == FromGoneEdges(payload[r], pc[r].at + 1)
             item == GoneEdge(r)
  <2>1. ASSUME NEW row, MayWrite(r, item.id, row), ~row.live, Write(r, "edges", item.id, row, next)
        PROVE  Progress(r)'
    <3>1. pc' = [pc EXCEPT ![r] = next] /\ UNCHANGED <<tables, payload>>
      BY <2>1 DEF Write, Step
    <3>2. /\ DOMAIN wrote'[r].edges = DOMAIN wrote[r].edges \cup {item.id}
          /\ wrote'[r].edges[item.id] = row
          /\ \A y \in DOMAIN wrote[r].edges \ {item.id} : wrote'[r].edges[y] = wrote[r].edges[y]
      <4>1. "edges" \in {"nodes", "facets", "edges"}
        OBVIOUS
      <4> QED
        BY <2>1, <4>1, WroteAfterWrite
    <3>3. pc[r].do = "deleteEdge" /\ pc[r].at \in DOMAIN payload[r].goneEdges
          /\ item = payload[r].goneEdges[pc[r].at]
      BY <1>12 DEF DeleteEdge, TypeInv, InBody, GoneEdge
    <3>4. payload[r].goneEdges \in Seq(GoneEdges)
      BY <1>1 DEF Payload, GoneEdges
    <3>5. DOMAIN payload[r].goneEdges = 1 .. Len(payload[r].goneEdges) /\ Len(payload[r].goneEdges) \in Nat
      BY <3>4
    <3>6. \A i \in DOMAIN payload[r].goneEdges : i < pc[r].at => Deletes(r, payload[r].goneEdges[i].id)
      BY <3>3 DEF EdgesInv, Progress
    <3> DEFINE at == pc[r].at
    <3>7. ASSUME NEW i \in DOMAIN payload[r].goneEdges, i < at + 1
          PROVE  Deletes(r, payload[r].goneEdges[i].id)'
      <4>1. CASE payload[r].goneEdges[i].id = item.id
        BY <2>1, <3>1, <3>2, <4>1 DEF Deletes
      <4>2. CASE payload[r].goneEdges[i].id # item.id
        <5>1. i < at
          BY <3>3, <3>5, <3>7, <4>2
        <5>2. Deletes(r, payload[r].goneEdges[i].id)
          BY <3>6, <5>1
        <5> QED
          BY <3>1, <3>2, <4>2, <5>2 DEF Deletes
      <4> QED
        BY <4>1, <4>2
    <3>8. pc'[r] = next
      BY <1>1, <3>1
    <3>9. CASE at + 1 \in DOMAIN payload[r].goneEdges
      <4>1. next.do = "deleteEdge" /\ next.at = at + 1
        BY <3>9 DEF FromGoneEdges, At
      <4> HIDE DEF next
      <4> QED
        BY <3>1, <3>7, <3>8, <4>1 DEF Progress
    <3>10. CASE at + 1 \notin DOMAIN payload[r].goneEdges
      <4>1. next.do \in {"deleteNode", "commit"}
        BY <3>10 DEF FromGoneEdges, FromGoneNodes, At
      <4>2. \A i \in DOMAIN payload[r].goneEdges : i < at + 1
        BY <3>3, <3>5, <3>10
      <4> HIDE DEF next
      <4> QED
        BY <3>1, <3>7, <3>8, <4>1, <4>2 DEF Progress
    <3> QED
      BY <3>9, <3>10
  <2>2. \/ \E why : Fail(r, why)
        \/ \E row : MayWrite(r, item.id, row) /\ ~row.live /\ Write(r, "edges", item.id, row, next)
    BY <1>12, EdgeDeleted
  <2> HIDE DEF next, item
  <2> QED
    BY <1>2, <1>6, <2>1, <2>2
<1>13. ASSUME pc[r].do \in {"deleteNode", "tombstone"}, pc'[r].do \in {"deleteNode", "tombstone", "commit"},
              tables' = tables, payload' = payload, wrote'[r].edges = wrote[r].edges
       PROVE  Progress(r)'
  <2>1. Progress(r)
    BY DEF EdgesInv
  <2> QED
    BY <1>13, <2>1 DEF Progress, Deletes
<1>14. CASE DeleteNode(r)
  <2>1. \/ \E why : Fail(r, why)
        \/ Proceed(r, At("tombstone", pc[r].at))
    BY <1>14, Zenon DEF DeleteNode
  <2>2. pc[r].do = "deleteNode" /\ At("tombstone", pc[r].at).do = "tombstone"
    BY <1>14 DEF DeleteNode, At
  <2> DEFINE next == At("tombstone", pc[r].at)
  <2>3. ASSUME Proceed(r, next)
        PROVE  EdgesInv'
    <3>1. pc' = [pc EXCEPT ![r] = next] /\ tables' = tables /\ payload' = payload /\ wrote' = wrote
      BY <2>3 DEF Proceed, Step
    <3> HIDE DEF next
    <3>2. pc'[r].do \in {"deleteNode", "tombstone", "commit"}
      BY <1>1, <2>2, <3>1 DEF next
    <3>3. Progress(r)'
      BY <1>13, <2>2, <3>1, <3>2
    <3> QED
      BY <1>3, <2>3, <3>3
  <2> QED
    BY <1>2, <2>1, <2>3
<1>15. CASE TombstoneNode(r)
  <2> DEFINE next == FromGoneNodes(payload[r], pc[r].at + 1)
  <2>1. \/ \E why : Fail(r, why)
        \/ \E x, row : Write(r, "nodes", x, row, next)
    BY <1>15, Zenon DEF TombstoneNode
  <2>2. pc[r].do = "tombstone" /\ next.do \in {"deleteNode", "commit"}
    BY <1>15 DEF TombstoneNode, FromGoneNodes, At
  <2> HIDE DEF next
  <2>3. ASSUME NEW x, NEW row, Write(r, "nodes", x, row, next)
        PROVE  EdgesInv'
    <3>1. "nodes" \in {"nodes", "facets", "edges"} /\ "edges" \in {"nodes", "facets", "edges"} \ {"nodes"}
      OBVIOUS
    <3>2. wrote'[r].edges = wrote[r].edges
      BY <2>3, <3>1, WroteAfterWrite
    <3>3. pc' = [pc EXCEPT ![r] = next] /\ tables' = tables /\ payload' = payload
      BY <2>3 DEF Write, Step
    <3>4. pc'[r].do \in {"deleteNode", "tombstone", "commit"}
      BY <1>1, <2>2, <3>3
    <3>5. Progress(r)'
      BY <1>13, <2>2, <3>2, <3>3, <3>4
    <3> QED
      BY <1>5, <2>3, <3>5
  <2> QED
    BY <1>2, <2>1, <2>3
<1>16. CASE DatabaseError(r)
  BY <1>2, <1>16 DEF DatabaseError
<1>17. ~Reread(r) /\ ~Release(r)
  BY DEF Reread, Release, Transaction
<1> QED
  BY <1>8, <1>9, <1>10, <1>11, <1>12, <1>14, <1>15, <1>16, <1>17, Zenon DEF Handler
\* What any step does to the edges.
LEMMA EdgesStep ==
  ASSUME TypeInv, TypeInv', BodiesFit, EdgesInv, [Next]_vars
  PROVE  EdgesInv'
<1>1. /\ DOMAIN pc = Saves /\ DOMAIN wrote = Saves /\ DOMAIN payload = Saves /\ DOMAIN loaded = Saves
      /\ \A r \in Saves : /\ loaded[r] \in Graph
                         /\ pc[r].do \notin Transaction => wrote[r] = Nothing
  BY DEF TypeInv, TypeOK
<1>2. DOMAIN Nothing.edges = {}
  BY DEF Nothing, Empty
<1>3. ASSUME NEW r \in Saves, pc'[r].do \notin Transaction
      PROVE  Progress(r)'
  BY <1>3 DEF Progress, Transaction
<1>4. ASSUME NEW r \in Saves, LoadNodes(r) \/ LoadFacets(r)
      PROVE  EdgesInv'
  <2>1. \E nodes, do : /\ loaded' = [loaded EXCEPT ![r].nodes = nodes]
                       /\ do \notin Transaction /\ pc' = [pc EXCEPT ![r] = At(do, 0)]
                       /\ UNCHANGED <<tables, payload, wrote>>
    <3>1. "hydrating" \notin Transaction /\ "loading" \notin Transaction
      BY DEF Transaction
    <3> QED
      BY <1>4, <3>1, Zenon DEF LoadNodes, LoadFacets, Step
  <2>2. /\ loaded'[r].edges = loaded[r].edges /\ pc'[r].do \notin Transaction
        /\ \A s \in Saves \ {r} : loaded'[s] = loaded[s] /\ pc'[s] = pc[s]
    BY <1>1, <2>1 DEF Graph, At
  <2> QED
    BY <1>3, <2>1, <2>2, EdgesQuiet
<1>5. ASSUME NEW r \in Saves, Send(r)
      PROVE  EdgesInv'
  <2>1. PICK body : /\ payload' = [payload EXCEPT ![r] = body]
                    /\ \/ pc' = [pc EXCEPT ![r] = At("release", 0)]
                       \/ pc' = [pc EXCEPT ![r] = FromNodes(body, 1)]
                    /\ UNCHANGED <<tables, loaded, wrote>>
    BY <1>5 DEF Send, Step
  <2>2. DOMAIN wrote'[r].edges = {}
    <3>1. pc[r].do = "editing"
      BY <1>5 DEF Send
    <3>2. pc[r].do \notin Transaction
      BY <3>1 DEF Transaction
    <3>3. wrote[r] = Nothing /\ wrote' = wrote
      BY <2>1, <3>2 DEF TypeInv, TypeOK
    <3> QED
      BY <1>2, <3>3
  <2>3. Progress(r)'
    <3>1. payload'[r] = body /\ (pc'[r] = At("release", 0) \/ pc'[r] = FromNodes(body, 1))
      BY <1>1, <2>1
    <3>2. CASE pc'[r] = At("release", 0)
      BY <1>3, <3>2 DEF At, Transaction
    <3>3. CASE pc'[r] = FromNodes(body, 1)
      <4>1. body \in Payload
        BY <3>1 DEF TypeInv, TypeOK
      <4> QED
        BY <3>1, <3>3, <4>1, LoopsBegin, ProgressAtFirst
    <3> QED
      BY <3>1, <3>2, <3>3
  <2>4. \A s \in Saves \ {r} : pc'[s] = pc[s] /\ payload'[s] = payload[s]
    BY <1>1, <2>1
  <2> QED
    BY <2>1, <2>2, <2>3, <2>4, EdgesQuiet
<1>6. ASSUME NEW r \in Saves, SendWithoutLock(r) \/ Release(r)
      PROVE  EdgesInv'
  <2>1. /\ loaded' = [loaded EXCEPT ![r] = NoGraph] /\ UNCHANGED <<tables, wrote>>
        /\ payload' = payload \/ payload' = [payload EXCEPT ![r] = NoBody]
        /\ pc[r].do \notin Transaction
    BY <1>6 DEF SendWithoutLock, Release, Answer, Transaction
  <2>2. \E do : pc' = [pc EXCEPT ![r] = At(do, 0)] /\ do \notin Transaction
    <3>1. CASE SendWithoutLock(r)
      BY <3>1 DEF SendWithoutLock, Step, Transaction
    <3>2. CASE Release(r)
      <4>1. answer[r] \in Answers
        BY DEF TypeInv, TypeOK
      <4>2. answer[r] \notin Transaction
        BY <4>1 DEF Answers, Transaction
      <4> QED
        BY <3>2, <4>2 DEF Release, Answer, Step
    <3> QED
      BY <1>6, <3>1, <3>2
  <2>3. pc'[r].do \notin Transaction
        /\ \A s \in Saves \ {r} : loaded'[s] = loaded[s] /\ pc'[s] = pc[s] /\ payload'[s] = payload[s]
    BY <1>1, <2>1, <2>2 DEF At
  <2>4. DOMAIN loaded'[r].edges = {}
    BY <1>1, <2>1 DEF NoGraph
  <2>5. DOMAIN wrote'[r].edges = {}
    <3>1. wrote[r] = Nothing /\ wrote' = wrote
      BY <2>1 DEF TypeInv, TypeOK
    <3> QED
      BY <1>2, <3>1
  <2> QED
    BY <1>3, <2>1, <2>3, <2>4, <2>5, EdgesQuiet
<1>7. ASSUME NEW r \in Saves, Reread(r)
      PROVE  EdgesInv'
  <2>1. UNCHANGED <<tables, loaded, payload, wrote>> /\ pc' = [pc EXCEPT ![r] = At("release", 0)]
    BY <1>7 DEF Reread, Step
  <2>2. pc'[r].do \notin Transaction
    BY <1>1, <2>1 DEF At, Transaction
  <2> QED
    BY <1>1, <1>3, <2>1, <2>2, EdgesQuiet
<1>8. ASSUME Expire \/ UNCHANGED vars
      PROVE  EdgesInv'
  <2>1. UNCHANGED <<tables, pc, loaded, payload, wrote>>
    BY <1>8 DEF Expire, vars
  <2>2. EdgesGuarded'
    BY <2>1, EdgesKept DEF EdgesInv
  <2> QED
    BY <2>1, <2>2 DEF EdgesInv, OneRowPerPair, LoadedEnds, Progress, EdgeItem, Deletes, Ends
<1>9. ASSUME NEW r \in Saves, Handler(r) \/ DatabaseError(r)
      PROVE  EdgesInv'
  <2>1. CASE Commit(r)
    BY <2>1, EdgesCommitted
  <2>2. CASE Reread(r) \/ Release(r)
    BY <1>6, <1>7, <2>2
  <2>3. CASE ~Commit(r) /\ ~Reread(r) /\ ~Release(r)
    <3>1. pc[r].do \in Transaction
      <4>1. pc[r].do \in Transaction \/ ActiveNodes(r)
        BY <1>9, <2>3, HandlerKinds
      <4> QED
        BY <4>1 DEF ActiveNodes, Transaction
    <3> QED
      BY <1>9, <2>3, <3>1, EdgesHandled
  <2> QED
    BY <2>1, <2>2, <2>3
<1>10. ASSUME Next
       PROVE  EdgesInv'
  <2>1. CASE Expire
    BY <1>8, <2>1
  <2>2. CASE ~Expire
    <3>1. PICK r \in Saves : \/ LoadNodes(r) \/ LoadFacets(r) \/ LoadEdges(r) \/ Send(r) \/ SendWithoutLock(r)
                            \/ Handler(r) \/ DatabaseError(r)
      BY <1>10, <2>2, Zenon DEF Next
    <3> QED
      BY <1>4, <1>5, <1>6, <1>9, <3>1, EdgesLoaded, Zenon
  <2> QED
    BY <2>1, <2>2, Zenon
<1> QED
  <2>1. Next \/ UNCHANGED vars
    OBVIOUS
  <2> QED
    BY <1>8, <1>10, <2>1, Zenon

\* Only a commit changes what is committed.
LEMMA OnlyCommits ==
  ASSUME [Next]_vars, tables' # tables
  PROVE  \E r \in Saves : Commit(r)
<1>1. ~Expire /\ ~UNCHANGED vars
  BY DEF Expire, vars
<1>2. PICK r \in Saves : \/ LoadNodes(r) \/ LoadFacets(r) \/ LoadEdges(r) \/ Send(r) \/ SendWithoutLock(r)
                        \/ Handler(r) \/ DatabaseError(r)
  <2>1. Next
    BY <1>1
  <2> QED
    BY <1>1, <2>1, Zenon DEF Next
<1>3. \A why : ~Fail(r, why)
  BY DEF Fail
<1>4. \A next : ~Proceed(r, next)
  BY DEF Proceed
<1>5. \A table, x, row, next : ~Write(r, table, x, row, next)
  BY DEF Write
<1>6. ~(\/ LoadNodes(r) \/ LoadFacets(r) \/ LoadEdges(r) \/ Send(r) \/ SendWithoutLock(r)
        \/ ActiveNodes(r) \/ Reread(r) \/ Release(r))
  BY DEF LoadNodes, LoadFacets, LoadEdges, Send, SendWithoutLock, ActiveNodes, Reread, Release, Answer
<1> QED
  BY <1>2, <1>3, <1>4, <1>5, <1>6, HandlerKinds

LEMMA EdgesInvariance == Spec => []EdgesInv
<1>1. Init => EdgesInv
  <2> SUFFICES ASSUME Init
               PROVE  EdgesInv
    OBVIOUS
  <2>1. /\ tables \in Started
        /\ \A r \in Saves : /\ DOMAIN wrote[r].edges = {} /\ DOMAIN loaded[r].edges = {}
                           /\ pc[r].do = "new"
    BY DEF Init, Nothing, Empty, NoGraph, At
  <2>2. OneRowPerPair
    BY <2>1, StartedAssumption DEF OneRowPerPair
  <2> QED
    BY <2>1, <2>2 DEF EdgesInv, EdgesGuarded, LoadedEnds, Progress
<1>2. TypeInv /\ TypeInv' /\ BodiesFit /\ EdgesInv /\ [Next]_vars => EdgesInv'
  BY EdgesStep
<1> QED
  BY <1>1, <1>2, TypeInvariance, BodiesFitInvariance, PTL DEF Spec

\* More pairs close no fewer cycles.
LEMMA MorePairsMoreCycles ==
  ASSUME NEW few, NEW more, few \subseteq more, HasCycle(few)
  PROVE  HasCycle(more)
<1>1. PICK S \in (SUBSET Nodes) \ {{}} : \A x \in S : \E y \in S : <<x, y>> \in few
  BY DEF HasCycle
<1>2. \A x \in S : \E y \in S : <<x, y>> \in more
  BY <1>1
<1> QED
  BY <1>1, <1>2 DEF HasCycle

\* A save made from the live edges leaves no live edge but those that it sent.
LEMMA CommittedPairs ==
  ASSUME TypeInv, BodiesFit, EdgesInv, NEW r \in Saves, Commit(r), Pairs(loaded[r].edges) = LivePairs
  PROVE  LivePairs' \subseteq Pairs(payload[r].edges)
<1> DEFINE table == View(r, "edges")
<1>1. pc[r].do = "commit" /\ tables'.edges = table
  BY DEF Commit
<1>2. Fits(r, loaded[r], payload[r])
  BY <1>1 DEF BodiesFit, Transaction
<1>3. /\ DOMAIN table = DOMAIN wrote[r].edges \cup DOMAIN tables.edges
      /\ \A e \in DOMAIN wrote[r].edges : table[e] = wrote[r].edges[e]
      /\ \A e \in DOMAIN tables.edges :
           /\ Ends(table[e]) = Ends(tables.edges[e])
           /\ table[e].live => tables.edges[e].live
      /\ \A e \in DOMAIN table \ DOMAIN tables.edges : NewPair(r, Ends(table[e]))
  BY EdgesSeen
<1>4. \A i \in DOMAIN payload[r].goneEdges : Deletes(r, payload[r].goneEdges[i].id)
  BY <1>1 DEF EdgesInv, Progress
<1> HIDE DEF table
<1>5. ASSUME NEW e \in DOMAIN table, table[e].live
      PROVE  Ends(table[e]) \in Pairs(payload[r].edges)
  <2>1. CASE e \notin DOMAIN tables.edges
    BY <1>3, <2>1 DEF NewPair
  <2>2. CASE e \in DOMAIN tables.edges
    <3>1. Ends(table[e]) = Ends(tables.edges[e]) /\ tables.edges[e].live
      BY <1>3, <1>5, <2>2
    <3>2. Ends(tables.edges[e]) \in Pairs(loaded[r].edges)
      BY <2>2, <3>1 DEF LivePairs, Live
    <3>3. PICK k \in DOMAIN loaded[r].edges : Ends(loaded[r].edges[k]) = Ends(tables.edges[e])
      BY <3>2 DEF Pairs
    <3>4. /\ loaded[r].edges[k].id \in DOMAIN tables.edges
          /\ Ends(loaded[r].edges[k]) = Ends(tables.edges[loaded[r].edges[k].id])
      BY DEF EdgesInv, LoadedEnds
    <3>5. loaded[r].edges[k].id = e
      BY <2>2, <3>3, <3>4 DEF EdgesInv, OneRowPerPair
    <3>6. ~\E i \in DOMAIN payload[r].goneEdges : payload[r].goneEdges[i].id = e
      BY <1>3, <1>4, <1>5 DEF Deletes
    <3>7. PICK i \in DOMAIN payload[r].edges : payload[r].edges[i] = loaded[r].edges[k]
      BY <1>2, <3>5, <3>6 DEF Fits
    <3> QED
      BY <3>1, <3>3, <3>7 DEF Pairs
  <2> QED
    BY <2>1, <2>2
<1>6. LivePairs' = {Ends(table[e]) : e \in {x \in DOMAIN table : table[x].live}}
  BY <1>1 DEF LivePairs, Live, Ends
<1> QED
  BY <1>5, <1>6

\* A step that closes a cycle is the commit of a save whose editor did not load the
\* edges as they are: DetectCycles looks at the payload (cycle_detector.go), and
\* a payload made of the live edges holds all that is live after its commit.
THEOREM CyclesNeedAStaleLoadHolds == Spec => CyclesNeedAStaleLoad
<1>1. ASSUME TypeInv, BodiesFit, EdgesInv, [Next]_vars, ~HasCycle(LivePairs), HasCycle(LivePairs)'
      PROVE  \E r \in Saves : Committing(r) /\ Pairs(loaded[r].edges) # LivePairs
  <2>1. PICK r \in Saves : Commit(r)
    <3>1. tables' # tables
      <4>1. ASSUME tables' = tables
            PROVE  LivePairs' = LivePairs
        BY <4>1 DEF LivePairs, Live, Ends
      <4>2. HasCycle(LivePairs')
        BY <1>1 DEF HasCycle
      <4> QED
        BY <1>1, <4>1, <4>2
    <3> QED
      BY <1>1, <3>1, OnlyCommits
  <2>2. Committing(r)
    BY <1>1, <2>1 DEF Commit, Committing, Step, At, TypeInv, TypeOK
  <2>3. Pairs(loaded[r].edges) # LivePairs
    <3> SUFFICES ASSUME Pairs(loaded[r].edges) = LivePairs
                 PROVE  FALSE
      OBVIOUS
    <3>1. LivePairs' \subseteq Pairs(payload[r].edges)
      BY <1>1, <2>1, CommittedPairs
    <3>2. HasCycle(LivePairs')
      BY <1>1 DEF HasCycle
    <3>3. ~HasCycle(Pairs(payload[r].edges))
      BY <1>1, <2>1 DEF BodiesFit, Commit, Transaction
    <3> QED
      BY <3>1, <3>2, <3>3, MorePairsMoreCycles
  <2> QED
    BY <2>2, <2>3
<1>2. TypeInv /\ BodiesFit /\ EdgesInv /\ [Next]_vars =>
        [~HasCycle(LivePairs) /\ HasCycle(LivePairs)' =>
           \E r \in Saves : Committing(r) /\ Pairs(loaded[r].edges) # LivePairs]_vars
  BY <1>1
<1> QED
  BY <1>2, TypeInvariance, BodiesFitInvariance, EdgesInvariance, PTL DEF Spec, CyclesNeedAStaleLoad
=============================================================================
