SPECIFICATION Spec
CONSTANTS
  k1 = k1
  k2 = k2
  alice = alice
  bob = bob
  None = None
  Conns = {c1, c2, c3}
  Keys = {k1, k2}
  Clients = {alice}
  Peers <- LivePeers
  Commands <- SessionCommands
  Requests <- RequestRequests
  Capabilities <- MCCapabilities
  MaxSessions = 2
  MaxHosts = 2
  MaxClients = 1
  MaxReceipts = 2
  MaxTickets = 2
  Retention = 1
  Deadline = 1
  TTL = 1
  MaxNow = 2
  MaxId = 2
  MaxWaits = 1
SYMMETRY Symmetry
CHECK_DEADLOCK FALSE
INVARIANTS Lease FocusActive ActivityFresh
