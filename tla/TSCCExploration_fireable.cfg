SPECIFICATION Spec
CONSTANTS
  Marking = {"p", "q"}
  Initial = "p"
  Transition = {"t1", "t2"}
  Enabled <- MCEnabled
  Successor <- MCSuccessor
  Firelists <- MCFirelists
  Goal = {"q"}
  Possible = FALSE
  Observed = "t2"
  Touching = {"t1", "t2"}
INVARIANTS
  LivenessVerdictCorrect
