SPECIFICATION FairSpec
CONSTANTS
  Users = {u1}
  MaxOps = 3
  MaxConns = 3
  MaxContexts = 3
  MaxLosses = 1
  Refused = {"first", "retry"}
  NoOne = NoOne
PROPERTY
  DisconnectCloses
CHECK_DEADLOCK FALSE
