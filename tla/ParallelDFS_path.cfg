SPECIFICATION MCSpec
CONSTANTS
  NumThreads = 2
  Kinds = {"first"}
  GoalSize = 2
  Marking <- FirstMarking
  Initial = {}
  Transition = {1, 2, 3, 4, 5, 6}
  Enabled <- FirstEnabled
  Successor <- FirstSuccessor
  Firelists <- FirstFirelists
  Goal <- FirstGoal
INVARIANT
  WitnessPathComplete
