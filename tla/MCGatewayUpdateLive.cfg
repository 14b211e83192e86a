CONSTANTS
  r1 = r1
  r2 = r2
  Runs = {r1, r2}
  Builds <- MCBuilds
  Good <- MCGood
  None = None
  FaultKinds = {"installer_crash", "storage", "systemctl"}
  MaxFaults = 2
SPECIFICATION FairSpec
PROPERTY RunsEnd
CHECK_DEADLOCK FALSE
