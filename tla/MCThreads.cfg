CONSTANTS
  c1 = c1
  c2 = c2
  c3 = c3
  reader = reader
  writer = writer
  Listeners = {l1}
  Scanners = {s1}
  Clients = {c1, c3}
  NoClient = NoClient
  Addresses = {reader, writer}
  Addr <- MCAddr
  WriteIPs = {writer}
  MaxClients = 1
  RESERVECONNECTIONS = 0
  MaxClientsPerIP = 1
  MaxSignals = 1
SPECIFICATION FairSpec
INVARIANTS
  TypeOK
  NothingOutlivesServer
  ActiveMeansAlive
PROPERTIES
  CloseIsFinal
  AdmissionBound
  ShutdownCompletes
\* The server stops when it is told to.
CHECK_DEADLOCK FALSE
