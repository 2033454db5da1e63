SPECIFICATION Spec
CONSTANTS
  None = None
  Rows = {"mode", "target", "selfClean", "beep"}
  RowSpan = 3
  TempMin = 17
  TempMax = 18
  QueueDepth = 1
  StatePages <- MCStatePages
  CapPages <- MCCapPages
  PropPages <- MCPropPages
  GroupPages <- MCGroupPages
  Capacity = 6
  Networks = 2
  DetailSpan = 9
  LicenseSpan = 1
  PageLines = 2
  TextLines <- MCTextLines
  Devices = {1, 2}
  Datagrams <- MCDatagrams
  MaxDevices = 1
  MaxResults = 1
  DevSpan = 2
  MaxBurst <- MCMaxBurst
  MaxEdits <- MCMaxEdits
  MaxNews <- MCMaxNews
INVARIANTS TypeOK FrameCurrent StackSound SentAsChosen
PROPERTIES ActsAsShown
CHECK_DEADLOCK FALSE
