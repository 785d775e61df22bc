SPECIFICATION Spec
CONSTANTS
  kBlockSize = 6
  MaxRecords = 3
  RecordLengths = {0, 2, 7}
  Damages = {"none", "cut", "zeros", "flip"}
  MaxKey = 2
  MaxSequence = 3
  MaxInserts = 1
  BlockSize = 1
  BadBlocks <- MCBadBlocks
  UserKeys <- MCUserKeys
  MaxByte = 3
  MaxTag = 2
  MaxEntries = 8
  block_restart_interval = 2
  block_size = 30
  MinOpened = 8
  kFilterBase = 16
  bits_per_key_ = 4
  k_ = 2
  MinBits = 8
  GroupBits = 2
  Width32 = 5
  Width64 = 9
  kNumLevels = 3
  Slices <- MCKeys
  Values <- MCValues
  EditNumbers = {0, 3, 4, 511}
  Levels = {0, 2}
  MaxUint = 255
  PadTo = 2
  MaxOps = 3
  MaxFields = 2
  ByteBits = 4
  Width32Bits = 10
  Width64Bits = 20
  WordBits = 2
  Types <- MCTypes
  Messages <- MCMessages
  Followers <- MCFollowers
  Unknowns <- MCUnknowns
  BufferSizes = {5, 40}
  UnitBits = 1
  ByteValues = {0, 13}
  MaxBytes = 4
  HandshakeLengths = {16, 20}
  TargetSizes = {2, 3, 9}
  MaxDamages = 2
INVARIANTS
  LogIsRead
  IteratorIsExact
  TableIsExact
  RecordsSurvive
  MessageSurvives
CHECK_DEADLOCK FALSE
