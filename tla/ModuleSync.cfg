SPECIFICATION Spec
CONSTANTS
  s1 = s1
  s2 = s2
  n1 = n1
  n2 = n2
  m1 = m1
  m2 = m2
  e1 = e1
  f1 = f1
  f2 = f2
  Free = Free
  NoFacet = NoFacet
  Saves = {s1, s2}
  Nodes <- MCNodes
  Edges <- MCEdges
  NewNode <- MCNewNode
  NewEdge <- MCNewEdge
  Texts = {"a", "b"}
  Facets = {"f"}
  Changes = {"editText", "editFacet", "addNode", "connect", "deleteEdge", "reconnect", "deleteNode"}
  Started <- MCPairStarts
INVARIANTS VersionTellsContent DanglingNeedsExpiry LockExclusion
PROPERTIES NoLostNodeUpdate CyclesNeedAStaleLoad EverySaveAnswered
\* Every save of the run may have been answered.
CHECK_DEADLOCK FALSE
