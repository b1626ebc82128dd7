SPECIFICATION MCFairSpec
CONSTANTS
  Place <- MCPlace
  CardTransition = 5
  Pre <- MCPre
  Post <- MCPost
  Hash <- MCHash
  SIZEOF_MARKINGTABLE = 11
  TokenWidth = 4
  InitialMarking <- MCInitial
  LookForDeadlock = FALSE
  Target <- MCTarget
  Markings <- MCMarkings
INVARIANTS
  EnablednessExact
  HashExact
  VerdictsCorrect
PROPERTIES
  BacktrackRestores
  Termination
