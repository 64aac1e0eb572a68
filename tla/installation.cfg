SPECIFICATION FairSpec
CONSTANTS
  Procs = {"p", "q"}
  MaxKeys = 2
  MaxNodes = 2
  MaxLost = 2
INVARIANTS
  ConnectedIsPinned
  PinsHold
PROPERTIES
  LeaseIsReleased
CHECK_DEADLOCK FALSE
