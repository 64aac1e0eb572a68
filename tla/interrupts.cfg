SPECIFICATION FairSpec
CONSTANTS
  MaxTurns = 1
  MaxPolls = 2
  AskBefore <- MCAskBefore
  Authority <- MCFullAuthority
  Preconditions <- MCPreconditions
  StrongAbsence = TRUE
  MaxCrashes = 2
  MaxFailures = 2
INVARIANTS
  NoDuplicateDispatch
  StopClosesEffects
PROPERTIES
  NoEffectAfterStop
  CancelEndsRun
  SupervisionEnds
