SPECIFICATION FairSpec
CONSTANTS
  Runs = {a, b, c}
  NoRun = NoRun
  Probed = {b}
  Steps = 2
  Fragile = {a, b}
  Broken = {c}
  MaxCrashes = 2
INVARIANTS
  OneRunExecutes
PROPERTIES
  ImplementsCore
  EverySubmissionEnds
CHECK_DEADLOCK FALSE
