SPECIFICATION MCFairSpec
CONSTANTS
  NumThreads = 3
  Place = {"A", "B", "C", "P", "Q"}
  CardTransition = 4
  Arcs <- FactoryArcs
  Pre <- MCPre
  Post <- MCPost
  InitialMarking <- OnA
  Hash <- MCHash
  SIZEOF_MARKINGTABLE = 11
  TokenWidth = 16
  Properties <- ThreeProperties
  Value <- MCValue
  Unknown <- MCUnknown
  Kinds = {"cover", "live", "ctl"}
INVARIANTS
  HelperTakenOnce
  NodeReached
  NodesOnOneList
  LeaveTogether
  VerdictCorrect
  LivenessVerdictCorrect
  ResultsCorrect
PROPERTIES
  SearchesEnd
