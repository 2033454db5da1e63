SPECIFICATION SessionSpec
CONSTANTS
  None = None
  Temps = {0, 1}
  Sleeps = {0}
  Blank <- MCBlank
  BaseKinds = {}
  MoreKinds = {}
  BeepKind = "beep"
  Modes = {"state"}
  PowerGroups <- MCNoGroups
  AllGroups <- MCNoGroups
  CapsSeeded = TRUE
  QueueDepth = 1
  Burst = 2
  MaxPollTimeouts = 2
  LockMaxStrikes = 1
  MaxInbound = 2
  MaxEdits = 1
  MaxFlips = 2
  MaxRemote = 1
  MaxFaults = 0
INVARIANT LockFollowsUser
CHECK_DEADLOCK FALSE
