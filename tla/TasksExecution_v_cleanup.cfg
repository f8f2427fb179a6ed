CONSTANTS
  NTasks = 6
  DependsOn <- TransferDependsOn
  OnError <- TransferOnError
  OnErrorOnly = {}
  Instance <- TransferInstance
  OSMorphing = {}
  DebugOSMorphing = FALSE
  CreatedStatus <- TransferStatus
  Faults = {}
  EarlyReports = FALSE
  MaxUserCancels = 1
  MaxTimeouts = 0
SPECIFICATION FairSpec
INVARIANT CompletedWorkIsCleanedUp
CHECK_DEADLOCK FALSE
