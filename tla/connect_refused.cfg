SPECIFICATION FairSpec
CONSTANTS
  Users = {u1}
  MaxOps = 3
  MaxConns = 3
  MaxContexts = 3
  MaxLosses = 1
  Refused = {"first", "again", "retry"}
  NoOne = NoOne
PROPERTIES
  CallsReturn
CHECK_DEADLOCK FALSE
