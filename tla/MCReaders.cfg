CONSTANTS
  r1 = r1
  s1 = s1
  s2 = s2
  Readers = {r1}
  Streams = {s1, s2}
  NoStream = NoStream
  Selected <- MCSelected
  MaxPackets = 3
  RINGID_MAXIMUM = 4
  SuppliedIds = {}
  SkipLimit = 2
  Calls = {"before"}
  CheckTimes = {}
  Pace = 1
  MaxTime = 5
  MaxCommands = 0
SPECIFICATION FairSpec
INVARIANTS
  TypeOK
  DeliveredIntact
  NoUnwrittenSlot
  DeliveryMovesForward
  NoGapUnlessEvicted
PROPERTY
  ReaderSettles
