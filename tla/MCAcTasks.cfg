SPECIFICATION TasksSpec
CONSTANTS
  None = None
  Temps = {0, 1}
  Sleeps = {0}
  Blank <- MCBlank
  BaseKinds = {}
  MoreKinds = {}
  BeepKind = "beep"
  Modes = {"none", "state"}
  PowerGroups <- MCNoGroups
  AllGroups <- MCNoGroups
  CapsSeeded = TRUE
  QueueDepth = 1
  Burst = 1
  MaxPollTimeouts = 2
  LockMaxStrikes = 2
  MaxInbound = 1
  MaxEdits = 1
  MaxFlips = 2
  MaxRemote = 1
  MaxFaults = 1
INVARIANTS TypeOK AtMostOnce
PROPERTIES EventuallyFresh GoesQuiet NothingStranded LockSettles
CHECK_DEADLOCK FALSE
