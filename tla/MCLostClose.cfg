CONSTANTS
  c1 = c1
  c2 = c2
  c3 = c3
  reader = reader
  writer = writer
  Listeners = {}
  Scanners = {s1}
  Clients = {c1}
  NoClient = NoClient
  Addresses = {reader, writer}
  Addr <- MCAddr
  WriteIPs = {writer}
  MaxClients = 0
  RESERVECONNECTIONS = 0
  MaxClientsPerIP = 0
  MaxSignals = 1
SPECIFICATION Spec
INVARIANT
  EndedIsClosed
CHECK_DEADLOCK FALSE
