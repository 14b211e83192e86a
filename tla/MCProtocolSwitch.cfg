CONSTANTS
  o1 = o1
  o2 = o2
  tcp = tcp
  xhttp = xhttp
  Ops = {o1, o2}
  Rank <- MCRank
  Modes <- MCModes
  VisionModes <- MCVision
  Absent = Absent
  None = None
  FaultKinds = {"reject", "database", "network", "timeout", "storage", "lease", "disconnect", "gateway_crash"}
  MaxFaults = 2
SPECIFICATION GSpec
INVARIANTS GTypeOK NotAppliedIsFinal ReadyIsServed OutcomeMatchesRecord CommittedStays
PROPERTY GatewayIsClient
CHECK_DEADLOCK FALSE
