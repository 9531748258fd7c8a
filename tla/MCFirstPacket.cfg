CONSTANTS
  r1 = r1
  s1 = s1
  s2 = s2
  Readers = {r1}
  Streams = {s1}
  NoStream = NoStream
  Selected <- MCSelected
  MaxPackets = 3
  RINGID_MAXIMUM = 4
  SuppliedIds = {}
  SkipLimit = 2
  Calls = {}
  CheckTimes = {}
  Pace = 0
  MaxTime = 1
  MaxCommands = 0
SPECIFICATION Spec
INVARIANT
  ReadsOnlySlots
