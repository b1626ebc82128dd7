SPECIFICATION FairSpec
CONSTANTS
  M = 1
  root = root
  left = left
  right = right
  some = some
  few = few
  many = many
  fire = fire
  nofire = nofire
  dead = dead
  Place <- MCPlace
  CardTransition = 4
  Pre <- MCPre
  Post <- MCPost
  InitialMarking <- MCInitial
  Hash <- MCHash
  SIZEOF_MARKINGTABLE = 7
  TokenWidth = 4
  Junction = {root, left, right, some}
  Atomic = {few, many}
  Fireable = {fire, nofire}
  Deadlock = {dead}
  Root = root
  Parent <- MCParent
  IsAnd <- MCIsAnd
  Factor <- MCFactor
  Threshold <- MCThreshold
  Observed <- MCObserved
  Sign <- MCSign
  MaxDepth = 6
INVARIANTS
  CallsFit
  LeavesExact
  JunctionsExact
  AnswerCorrect
PROPERTIES
  UpdateEnds
