SPECIFICATION Spec
CONSTANTS
  MaxCriteria = 4
  Mutating = TRUE
  Contract0 <- MCContract0
  Submissions <- MCSubmissions
  NoSubmission = NoSubmission
  Clients = {c1, c2}
  MaxRevision = 2
  MaxTurns = 3
  Artifacts = {"d", "h"}
  Requests = {"q"}
  Contents = {"x"}
  Values = {"yes", "no"}
CONSTRAINT LastTurnAdmits
SYMMETRY ClientSymmetry
INVARIANTS
  ProtectedCriteria
  CompletedIsDemonstrated
  OneWinner
  RejectedOnlyForReplacedAnswer
PROPERTIES
  ImplementsRegister
CHECK_DEADLOCK FALSE
