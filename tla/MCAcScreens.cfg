SPECIFICATION ScreensSpec
CONSTANTS
  None = None
  Temps = {0}
  Sleeps = {0}
  Blank <- MCBlank
  BaseKinds = {}
  MoreKinds = {"flash"}
  BeepKind = "beep"
  Modes = {"none", "power"}
  PowerGroups <- MCPowerGroups
  AllGroups <- MCPowerGroups
  CapsSeeded = FALSE
  QueueDepth = 1
  Burst = 1
  MaxPollTimeouts = 1
  LockMaxStrikes = 1
  MaxInbound = 2
  MaxEdits = 0
  MaxFlips = 3
  MaxRemote = 2
  MaxFaults = 1
INVARIANTS NoMissedRepaint NoMissedReading
CHECK_DEADLOCK FALSE
