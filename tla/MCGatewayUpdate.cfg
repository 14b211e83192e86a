CONSTANTS
  r1 = r1
  r2 = r2
  Runs = {r1, r2}
  Builds <- MCBuilds
  Good <- MCGood
  None = None
  FaultKinds = {"installer_crash", "fetch_crash", "submit_crash", "storage", "systemctl", "health", "drift", "reboot"}
  MaxFaults = 2
SPECIFICATION Spec
INVARIANTS UTypeOK SettledServes OldBuildKept
PROPERTY RepairStops
CHECK_DEADLOCK FALSE
