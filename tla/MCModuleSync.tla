---------------------------- MODULE MCModuleSync ----------------------------
(***************************************************************************)
(* Instances of ModuleSync for TLC.                                        *)
(***************************************************************************)
EXTENDS ModuleSync, TLC

CONSTANTS s1, s2, n1, n2, m1, m2, e1, f1, f2

MCNewNode == [r \in Saves |-> CASE r = s1 -> m1 [] r = s2 -> m2]

MCNewEdge == [r \in Saves |-> CASE r = s1 -> f1 [] r = s2 -> f2]

MCNodes == {n1, n2} \cup {MCNewNode[r] : r \in Saves}

MCEdges == {e1} \cup {MCNewEdge[r] : r \in Saves}

MCRow(i) == [version |-> 1, live |-> TRUE, text |-> "a", order |-> i]

MCTables(facets, edges) ==
  [nodes |-> n1 :> MCRow(0) @@ n2 :> MCRow(1), facets |-> facets, edges |-> edges]

MCConnected == e1 :> [version |-> 1, live |-> TRUE, from |-> n1, to |-> n2, order |-> 0]

MCFacets == n1 :> "f" @@ n2 :> "f"

\* Two connected nodes without facets.
MCPlainStart == {MCTables(Empty, MCConnected)}

\* Two nodes with nothing else.
MCEmptyStart == {MCTables(Empty, Empty)}

\* Two nodes with facets and no edge.
MCFacetStart == {MCTables(MCFacets, Empty)}

MCPairStarts == MCPlainStart \cup MCFacetStart \cup MCEmptyStart
=============================================================================
