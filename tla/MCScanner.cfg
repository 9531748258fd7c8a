CONSTANTS
  BaseFiles = {"a"}
  SubFiles = {"b"}
  Contents <- TwoFiles
  Configs <- WithStateFile
  FileMaxRecs = 1
  IdleDelay = 2
  MaxRecur = 2
  MSSCAN_MAXRECURDEPTH = 3
  MaxRecords = 2
  MaxEvents = 1
SPECIFICATION Spec
INVARIANTS
  TypeOK
  NoRecordSkipped
  ReadOnce
PROPERTY
  RecordsAreRead
