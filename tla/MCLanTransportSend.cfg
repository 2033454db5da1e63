SPECIFICATION Spec
CONSTANTS
  Cap = 4
  HeaderLen = 2
  RequestLen = 3
  Lengths = {2, 3}
  Fates = {"good"}
  MaxSent = 3
INVARIANT SendKeepsStream
CHECK_DEADLOCK FALSE
