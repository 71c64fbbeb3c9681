SPECIFICATION FairSpec
CONSTANTS
  c1 = c1
  c2 = c2
  c3 = c3
  Clients = {c1, c2, c3}
  Enabled = {c1, c2}
  FillClients = {c1, c3}
  LateClients = {c2}
  FaultKinds = {}
  MaxFaults = 1
  MaxOrders = 1
CHECK_DEADLOCK FALSE
PROPERTY OrderLands
