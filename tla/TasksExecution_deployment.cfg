CONSTANTS
  NTasks = 4
  DependsOn <- DeploymentDependsOn
  OnError <- DeploymentOnError
  OnErrorOnly = {3}
  Instance <- DeploymentInstance
  OSMorphing = {}
  DebugOSMorphing = FALSE
  CreatedStatus <- DeploymentStatus
  Faults = {"no_worker", "cancel_lost", "crash", "post_task"}
  EarlyReports = FALSE
  MaxUserCancels = 1
  MaxTimeouts = 1
SPECIFICATION Spec
INVARIANTS
  NeverDeadlocked
  CleanupRuns
PROPERTY WorkflowSpec
CHECK_DEADLOCK FALSE
