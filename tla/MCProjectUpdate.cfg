SPECIFICATION FairSpec
CONSTANTS
  r1 = r1
  r2 = r2
  r3 = r3
  None = None
  Runs <- ThreeRuns
  Releases = {1, 2}
  Engines = {1, 2}
  MinEngine <- Min
  Ships <- Ship
  NFiles = 2
  FaultKinds = {"fail", "kill", "die", "power"}
  MaxFaults = 2
  MaxChanges = 1
INVARIANTS PTypeOK HostIsWhole
PROPERTIES OutcomeIsServed FailedEngineStaysOut RunsEnd
CHECK_DEADLOCK FALSE
