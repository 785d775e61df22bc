SPECIFICATION FairSpec
CONSTANTS
  MaxCalls = 3
  MaxWriters = 2
  MaxOpens = 2
  MaxFaults = 1
  MaxFileNumber = 7
  Faults = {"newlog", "sync", "table", "manifest"}
  PowerLosses = TRUE
  CallKinds = {"async", "sync", "force"}
  write_buffer_size = 0
INVARIANTS
  TypeOK
  KillLosesNothing
  SyncedWritesSurvive
  DatabaseOpens
  FilesInUseExist
  SequencesAreUnique
PROPERTY
  WritersReturn
CHECK_DEADLOCK FALSE
