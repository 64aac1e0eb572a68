SPECIFICATION FairSpec
CONSTANTS
  MaxTurns = 3
  TurnBudget = 2
  Repetitions = 2
  HistoryCap = 2
  Allocation = 2
  Evidences = {1}
  Grants = {"remote", "other"}
  Deployed = "remote"
  MaxAmendments = 1
  Versions = {0, 1}
  MaxChanges = 2
  MaxCrashes = 1
INVARIANTS
  PacketIsCurrent
  DeliveryIsCurrent
  ChildrenJoined
PROPERTIES
  TaskEnds
CHECK_DEADLOCK FALSE
