SPECIFICATION SSpec
CONSTANTS
  a = a
  b = b
  Streams = {a, b}
  NoStream = NoStream
  MaxPackets = 3
  RINGID_MAXIMUM = 20
  SuppliedIds = {}
  Instants = {0}
  MaxTime = 5
  DataTimes <- MCDataTimes
  PktLimits = {2, 3}
  Clients <- MCClients
  Patterns <- MCPatterns
  MAX_CONSECUTIVE_ERRORS = 2
  Keys <- MCKeys
  Flags = {1, 2}
  MaxOpenFiles = 10
  MaxOthers = 1
  MaxWrites = 3
  RefTimes = {2}
  SLRefTimes = {2}
  EndTimes = {3}
  SEQ_MODULUS = 4
INVARIANTS
  STypeOK
  
  ReadsPermitted
  OpenFilesExact
  OneFilePerKey
  ArchivedBeforeServed
  WindowEndsExactly
PROPERTIES
  ResumeContinues
