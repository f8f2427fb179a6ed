SPECIFICATION MCSpec
CONSTANTS
  NChunks = 6
  Encoders = {1, 2}
  Capacity = 1
  MaxFailures = 2
  SetupAttempts = 3
  SetupFailures = 3
  ReplicaDisks = 2
  ReplicaChunks = 2
  ReplicaCalls = 3
  ReplicaFailures = 1
  ExportInstances = {1, 2}
  ExportDisks = 2
  ExportUnits = {1, 2, 3, 4, 5}
  ExportExecutions = 2
INVARIANTS
  WorkerReady
  CallReplicates
  ExportReadsItsOwn
PROPERTIES
  WritesTheDisk
  PathEnds
  ExportDetachesItsOwn
CHECK_DEADLOCK FALSE
