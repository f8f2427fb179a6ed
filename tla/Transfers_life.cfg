CONSTANTS
  Instances = {"vm"}
  Operations <- AllOperations
  TransferOptions <- AllTransferOptions
  DeploymentOptions <- AllDeploymentOptions
  MaxRequests = 3
  MaxFailures = 1
SPECIFICATION Spec
INVARIANTS
  TasksServed
  NoConcurrentWriters
  NothingLeftBehind
  RecordIsRight
CHECK_DEADLOCK FALSE
