SPECIFICATION RelayFairSpec
CONSTANTS
  Ids = {"a", "b"}
  MaxLines = 2
  MaxAnswers = 2
  Buffer = 1
INVARIANTS
  SuccessIsComplete
  ChildIsContained
PROPERTIES
  RelayEnds
CHECK_DEADLOCK FALSE
