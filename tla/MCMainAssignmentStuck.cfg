SPECIFICATION FairSpec
CONSTANTS
  a1 = a1
  a2 = a2
  n1 = n1
  n2 = n2
  n3 = n3
  None = None
  Ops <- OneOp
  Candidates <- TwoNodes
  FaultKinds = {"crash"}
  MaxFaults = 1
PROPERTY RestartRecovers
CHECK_DEADLOCK FALSE
