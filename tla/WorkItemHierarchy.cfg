SPECIFICATION FairSpec
CONSTANTS
  Items = {a, b, c}
  Clients = {c1, c2}
  None = None
  MaxVersion = 2
INVARIANTS Validated
PROPERTIES CyclesNeedARace AnsweredWithoutCycles
