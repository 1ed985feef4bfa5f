SPECIFICATION Spec
CONSTANTS
  Bindings <- AllBindings
  Threads = {t1, t2}
  MaxOps = 2
  MaxOf <- MCMaxOf
  MaxPackets = 1
SYMMETRY ThreadSymmetry
INVARIANTS
  DeviceTypeOK
  FixedFlags
  GettersReturnValues
  EndsOnlyIfTakenBack
CHECK_DEADLOCK FALSE
