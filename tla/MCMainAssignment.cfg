SPECIFICATION FairSpec
CONSTANTS
  a1 = a1
  a2 = a2
  n1 = n1
  n2 = n2
  n3 = n3
  None = None
  Ops <- TwoOps
  Candidates <- ThreeNodes
  FaultKinds = {"crash", "storage"}
  MaxFaults = 2
INVARIANTS MTypeOK AnswersKept
PROPERTIES MainMovesByRight OutcomeIsServed PendingEnds
CHECK_DEADLOCK FALSE
