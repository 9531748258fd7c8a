CONSTANTS
  Streams = {s1, s2}
  NoStream = NoStream
  MaxPackets = 2
  RINGID_MAXIMUM = 3
  SuppliedIds = {}
  Instants = {1, 2}
  MaxTime = 3
  Mine <- MyParams
  OtherParams <- ParamsOfOthers
  OtherFiles <- FilesOfOthers
  MaxStarts = 3
SPECIFICATION RSpec
INVARIANTS
  RTypeOK
  RecoveredRingSound
  TimesIncreaseOverRestarts
PROPERTIES
  RebuildKeepsPackets
  RestartRestoresSaved
SYMMETRY Symmetry
CHECK_DEADLOCK FALSE
