SPECIFICATION FairSpec
CONSTANTS
  Sessions = {"s1", "s2", "s3"}
  Nodes = {"n1", "n2"}
  NodeOf <- MCNodeOf
  Acp = {"s1", "s3"}
  Capacity = 2
  MaxHubs = 2
INVARIANTS
  ServedIsRouted
  ReceiptsAgree
PROPERTIES
  StaleSessionIsForgotten
CHECK_DEADLOCK FALSE
