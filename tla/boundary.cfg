SPECIFICATION BoundaryFairSpec
CONSTANTS
  Tasks = {"s", "t"}
  NumObservers = 2
  MaxAttempts = 2
  MaxTurns = 2
  MaxCrashes = 1
INVARIANTS
  AdmittedIsAssessed
PROPERTIES
  AdmissionEnds
CHECK_DEADLOCK FALSE
