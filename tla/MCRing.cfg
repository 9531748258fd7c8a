CONSTANTS
  Streams = {s1, s2, s3}
  NoStream = NoStream
  MaxPackets = 3
  RINGID_MAXIMUM = 4
  SuppliedIds = {2}
  Instants = {0, 3}
  MaxTime = 7
SPECIFICATION Spec
INVARIANTS
  TypeOK
  TimesIncrease
  IndexDescribesRing
  ChainLinksStream
  StreamListExact
PROPERTY
  ImplementsWindow
\* The run stops when the clock bound MaxTime is reached.
CHECK_DEADLOCK FALSE
