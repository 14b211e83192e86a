CONSTANTS
  n1 = n1
  n2 = n2
  tun0 = tun0
  tun30 = tun30
  Nodes = {n1, n2}
  None = None
  Own = tun0
  Spares = {tun30}
  MaxRounds = 1
  MaxEvents = 1
SPECIFICATION FairSpec
PROPERTIES OnlyTheFailedIsReplaced MainRecovers
