SPECIFICATION Spec
CONSTANTS
  MaxCalls = 3
  MaxWriters = 2
  MaxOpens = 2
  MaxFaults = 1
  MaxFileNumber = 7
  Faults = {"append"}
  PowerLosses = TRUE
  CallKinds = {"async", "sync", "force"}
  write_buffer_size = 0
INVARIANT
  KillLosesNothing
CHECK_DEADLOCK FALSE
