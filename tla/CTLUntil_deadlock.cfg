SPECIFICATION Spec
CONSTANTS
  Marking = {"p", "q", "r"}
  Initial = "p"
  Transition = {"t", "u"}
  Enabled <- MCEnabled
  Successor <- MCSuccessor
  Firelists <- MCFirelists
  Goal = {}
  Formulas <- MCFormulas
  Stubborn = TRUE
  Assertions = TRUE
  Alone = {"t", "u"}
INVARIANTS
  NoFirelistInDeadlock
