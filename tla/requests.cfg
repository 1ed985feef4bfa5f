SPECIFICATION FairSpec
CONSTANTS
  Threads = {t1, t2}
  Devices = {d1}
  Functions = {f, g}
  Plain = {g}
  SeqMod = 2
  MaxCalls = 4
  None = None
INVARIANTS
  RequestsTypeOK
  AnswerMatches
  ExpectsOwn
PROPERTY
  RequestsReturn
CHECK_DEADLOCK FALSE
