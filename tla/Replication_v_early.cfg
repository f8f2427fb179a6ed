SPECIFICATION ReplicationSpec
CONSTANTS
  Disks = 2
  Chunks = 2
  MaxCalls = 3
  MaxFailures = 0
INVARIANT EveryDiskReplicated
CHECK_DEADLOCK FALSE
