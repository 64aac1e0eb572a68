SPECIFICATION Spec
CONSTANTS
  MaxTurns = 2
  MaxPolls = 1
  AskBefore <- MCAskBefore
  Authority <- MCAuthority
  Preconditions <- MCPreconditions
  StrongAbsence = TRUE
  MaxCrashes = 0
  MaxFailures = 0
INVARIANTS
  OutcomeTruthful
  DispatchIsAuthorized
  CompletionIsQuiescent
  JournalSound
  EvidenceIsTrue
