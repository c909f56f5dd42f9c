SPECIFICATION FairSpec
CONSTANTS
  k1 = k1
  k2 = k2
  alice = alice
  bob = bob
  None = None
  Conns = {c1, c2}
  Keys = {k1}
  Clients = {alice}
  Peers <- LivePeers
  Commands <- LiveCommands
  Requests <- MCRequests
  Capabilities <- RequestCapabilities
  MaxSessions = 1
  MaxHosts = 1
  MaxClients = 1
  MaxReceipts = 2
  MaxTickets = 2
  Retention = 1
  Deadline = 1
  TTL = 1
  MaxNow = 3
  MaxId = 3
  MaxWaits = 1
PROPERTIES Answered NoneLingers
CHECK_DEADLOCK FALSE
