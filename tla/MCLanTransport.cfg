SPECIFICATION Spec
CONSTANTS
  Cap = 4
  HeaderLen = 2
  RequestLen = 3
  Lengths = {2, 3}
  Fates = {"good", "corrupt", "alien", "badsize"}
  MaxSent = 3
INVARIANTS TypeOK NeverFull InOrder V2SendKeepsStream
PROPERTIES IsFrameStream FramesArrive
CHECK_DEADLOCK FALSE
