SPECIFICATION Spec
CONSTANTS
  Values = {v0, v1, v2}
  Default = v0
  Missing = Missing
  Corrupt = Corrupt
  Foreign = Foreign
  Bad = Bad
  None = None
  MaxCuts = 2
  MaxFaults = 2
INVARIANTS TypeOK OneFaultLosesNothing
PROPERTIES ImportCommitted ChangesPersist
CHECK_DEADLOCK FALSE
