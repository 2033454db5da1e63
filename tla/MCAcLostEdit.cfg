SPECIFICATION Spec
CONSTANTS
  None = None
  Temps = {0, 1}
  Sleeps = {0, 1}
  Blank <- MCBlank
  BaseKinds = {}
  MoreKinds = {}
  BeepKind = "beep"
  Modes = {"state"}
  PowerGroups <- MCNoGroups
  AllGroups <- MCNoGroups
  CapsSeeded = TRUE
  QueueDepth = 2
  Burst = 2
  MaxPollTimeouts = 2
  LockMaxStrikes = 1
  MaxInbound = 2
  MaxEdits = 2
  MaxFlips = 1
  MaxRemote = 0
  MaxFaults = 0
INVARIANT CommandsAccumulate
CHECK_DEADLOCK FALSE
