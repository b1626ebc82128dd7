SPECIFICATION MCFairSpec
CONSTANTS
  NumThreads = 3
  Kinds = {"first", "goal"}
  GoalSize = 6
  Marking <- FirstMarking
  Initial = {}
  Transition = {1, 2, 3, 4, 5, 6}
  Enabled <- FirstEnabled
  Successor <- FirstSuccessor
  Firelists <- FirstFirelists
  Goal <- FirstGoal
INVARIANTS
  StackIsPath
  HandOverToIdle
  WakeUpExact
  AllAsleepIsEnd
  VerdictCorrect
PROPERTIES
  ImplementsSearch
  GoalImplementsSearch
  SearchReturns
