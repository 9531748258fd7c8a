CONSTANTS
  r1 = r1
  s1 = s1
  s2 = s2
  Readers = {r1}
  Streams = {s1}
  NoStream = NoStream
  Selected <- MCSelected
  MaxPackets = 3
  RINGID_MAXIMUM = 4
  SuppliedIds = {}
  SkipLimit = 2
  Calls = {"position", "before", "read"}
  CheckTimes = {}
  Pace = 0
  MaxTime = 2
  MaxCommands = 1
SPECIFICATION Spec
INVARIANT
  BeforeStartsThere
