SPECIFICATION Spec
CONSTANTS
  None = None
  Slots = {s1, s2}
  Names = {netA, netB}
  WgConfigs = {c1, c2}
  BadConfigs = {c2}
  MaxDrops = 1
  MaxEdits = 1
  MaxFaults = 1
  MaxRedirects = 1
  s1 = s1
  s2 = s2
  netA = netA
  netB = netB
  c1 = c1
  c2 = c2
INVARIANTS TypeOK OneProbePerSession PromptOncePerSession ReportedVerdictIsLast WgStatusTrue RefreshKept ForecastShown
PROPERTIES LinkReturns FreshSessionProbed LoginReported WantedTunnelTried
