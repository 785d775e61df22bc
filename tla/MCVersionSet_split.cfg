SPECIFICATION Spec
CONSTANTS
  MaxKey = 1
  MaxSequence = 3
  ValueTypes = {"value", "deletion"}
  MaxSnapshots = 1
  MaxRangeCompactions = 0
  Ranges <- WholeRange
  kNumLevels = 4
  kMaxMemCompactLevel = 2
  kL0_CompactionTrigger = 2
  kL0_StopWritesTrigger = 3
  write_buffer_size = 0
  max_file_size = 1
  LevelBytes = 1
  MaxGrandParentOverlapBytes = 1
  ExpandedCompactionByteSizeLimit = 9
INVARIANT
  EntriesNeverHop
CHECK_DEADLOCK FALSE
