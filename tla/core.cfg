SPECIFICATION Spec
CONSTANTS
  Runs = {a, b, c, h}
  NoRun = NoRun
  Hermetic = {h}
  Probed = {b, h}
INVARIANTS
  StrictFIFO
  NoRunLost
CHECK_DEADLOCK FALSE
