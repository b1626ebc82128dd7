SPECIFICATION Spec
CONSTANTS
  Setups <- HelpedFronts
  Arcs <- Nets
  Marking <- MCMarking
  Firelist <- MCFirelist
  Successor <- MCSuccessor
  ProgressMeasure <- MCProgressMeasure
  Properties <- MCProperties
  Hash <- MCHash
  Delay = 1
  Progress <- MCProgress
  Reachable <- MCReachable
INVARIANTS
  FrontsLinked
