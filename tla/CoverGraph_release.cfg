SPECIFICATION Spec
CONSTANTS
  NumThreads = 3
  Place = {"A", "B", "P", "Q"}
  CardTransition = 4
  Arcs <- CycleArcs
  Pre <- MCPre
  Post <- MCPost
  InitialMarking <- OnA
  Hash <- MCHash
  SIZEOF_MARKINGTABLE = 11
  TokenWidth = 16
  Properties <- OneProperty
  Value <- MCValue
  Unknown <- MCUnknown
INVARIANTS
  ReleasedOnce
