SPECIFICATION Spec
CONSTANTS
  MaxRank = 3
  kMaxHeight = 3
  Readers = {"r"}
  FileNumbers = {1, 2, 3, 4}
  Clients = {"c", "d"}
  capacity_ = 2
  Files = {1, 2, 3}
  MaxMmaps = 1
  MaxOpenFiles = 1
  Processes = {"p", "q"}
  Threads = {"t", "u"}
  MaxItems = 3
  ArenaBlock = 32
  Align = 4
  Requests = {1, 3, 5, 8, 9}
  MaxAllocations = 5
  Sequences_ = {1, 2}
  TableNumbers = {2, 9}
  LogNumbers = {4, 7}
  ManifestNumbers = {3}
  MaxCrashes = 1
  MaxFaults = 1
  MaxShort = 2
  MaxLong = 5
  Z_BUFSIZE = 2
  UNZ_BUFSIZE = 3
  SIZEDATA_INDATABLOCK = 3
  Kinds <- MCKinds
  Sizes = {1, 5}
  DiskSizes = {0, 4}
  MaxEntries = 3
  MaxOpens = 2
INVARIANTS
  HandlesAreCounted
  OpenTablesBounded
  LimitsHold
  RepairIsSafe
  
PROPERTIES
  ReadsAreExact
  ScheduledRuns
CHECK_DEADLOCK FALSE
