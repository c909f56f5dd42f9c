SPECIFICATION Spec
CONSTANTS
  k1 = k1
  k2 = k2
  alice = alice
  bob = bob
  None = None
  Conns = {c1, c2, c3}
  Keys = {k1}
  Clients = {alice, bob}
  Peers <- MCPeers
  Commands <- MCCommands
  Requests <- MCRequests
  Capabilities <- MCCapabilities
  MaxSessions = 1
  MaxHosts = 2
  MaxClients = 2
  MaxReceipts = 2
  MaxTickets = 2
  Retention = 1
  Deadline = 1
  TTL = 1
  MaxNow = 3
  MaxId = 3
  MaxWaits = 1
SYMMETRY Symmetry
CHECK_DEADLOCK FALSE
INVARIANTS TypeOK Accounted Reserved
PROPERTIES DispatchOnce DecideOnce
