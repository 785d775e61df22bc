SPECIFICATION FairSpec
CONSTANTS
  MaxKey = 2
  MaxSequence = 3
  ValueTypes = {"value", "deletion"}
  MaxSnapshots = 1
  MaxRangeCompactions = 1
  Ranges <- WholeRange
  kNumLevels = 3
  kMaxMemCompactLevel = 1
  kL0_CompactionTrigger = 1
  kL0_StopWritesTrigger = 2
  write_buffer_size = 0
  max_file_size = 9
  LevelBytes = 2
  MaxGrandParentOverlapBytes = 1
  ExpandedCompactionByteSizeLimit = 9
INVARIANTS
  EntriesInOrder
  LevelsDisjoint
  WorkIsScheduled
PROPERTIES
  ImplementsKVStore
  RoomIsMade
  RangeCompactionEnds
