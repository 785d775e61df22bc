SPECIFICATION Spec
CONSTANTS
  MaxKey = 3
  MaxSequence = 6
  ValueTypes = {"value"}
  MaxSnapshots = 0
  MaxRangeCompactions = 1
  Ranges <- WholeRange
  kNumLevels = 4
  kMaxMemCompactLevel = 2
  kL0_CompactionTrigger = 3
  kL0_StopWritesTrigger = 3
  write_buffer_size = 0
  max_file_size = 9
  LevelBytes = 9
  MaxGrandParentOverlapBytes = 1
  ExpandedCompactionByteSizeLimit = 9
INVARIANT
  LevelsDisjoint
CHECK_DEADLOCK FALSE
