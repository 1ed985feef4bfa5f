SPECIFICATION FairSpec
CONSTANTS
  Users = {u1}
  MaxOps = 3
  MaxConns = 3
  MaxContexts = 3
  MaxLosses = 1
  Refused = {"first", "retry"}
  NoOne = NoOne
INVARIANTS
  IPConnectionTypeOK
  OneSocket
  ProbesOwnSocket
PROPERTIES
  CallsReturn
  LossDetected
CHECK_DEADLOCK FALSE
