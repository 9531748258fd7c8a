CONSTANTS
  r1 = r1
  s1 = s1
  s2 = s2
  Readers = {r1}
  Streams = {s1}
  NoStream = NoStream
  Selected <- MCSelected
  MaxPackets = 3
  RINGID_MAXIMUM = 4
  SuppliedIds = {}
  SkipLimit = 2
  Calls = {"position", "before", "read"}
  CheckTimes = {2}
  Pace = 2
  MaxTime = 5
  MaxCommands = 1
SPECIFICATION Spec
INVARIANT
  DeliveredIntact
PROPERTY
  BeforeSkipsNothing
