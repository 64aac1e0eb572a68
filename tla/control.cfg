SPECIFICATION FairSpec
CONSTANTS
  Clients = {"c", "d"}
  Inputs = {"x", "y"}
  Refused = {"y"}
  MaxWaits = 2
  MaxLost = 1
INVARIANTS
  ExistingIsMine
  AcceptedIsTheAnswer
PROPERTIES
  SubmissionIsSettled
CHECK_DEADLOCK FALSE
