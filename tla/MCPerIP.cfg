CONSTANTS
  c1 = c1
  c2 = c2
  c3 = c3
  reader = reader
  writer = writer
  Listeners = {l1}
  Scanners = {}
  Clients = {c1, c2}
  NoClient = NoClient
  Addresses = {reader, writer}
  Addr <- MCAddr
  WriteIPs = {writer}
  MaxClients = 0
  RESERVECONNECTIONS = 0
  MaxClientsPerIP = 1
  MaxSignals = 0
SPECIFICATION Spec
INVARIANT
  PerAddressLimit
CHECK_DEADLOCK FALSE
