CONSTANTS
  o1 = o1
  o2 = o2
  tcp = tcp
  xhttp = xhttp
  Ops = {o1}
  Rank <- MCRankOne
  Modes <- MCModes
  VisionModes <- MCVision
  Absent = Absent
  None = None
  FaultKinds = {"reject", "xray", "database", "xui_restart", "network", "timeout", "lease", "gateway_crash", "helper_crash"}
  MaxFaults = 2
SPECIFICATION GFairSpec
INVARIANTS ResultsTruthful CrashSafe
PROPERTIES DecidedOnce GatewayAvailable SwitchSettles SnapshotsClose
CHECK_DEADLOCK FALSE
