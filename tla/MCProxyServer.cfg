SPECIFICATION Spec
CONSTANTS
  c1 = c1
  c2 = c2
  Main = main
  Slot = slot
  None = None
  Clients <- TwoClients
  SlotClients <- OneClient
  MainDevice = tun0
  StandbyDevice = tun9
  SlotDevice = tun1
  Configured = 2
  PerListener = 2
  Reserve = 1
  MaxStarts = 1
INVARIANTS XTypeOK CapacityExact NoStaleConnection DnsOfTunnel
CHECK_DEADLOCK FALSE
