CONSTANTS
  Ids = {d1, d2}
  Poolings = {{}, {d1, d2}}
  Deletions = TRUE
  Faults = {"timeout", "restart", "no_worker"}
  MaxFaults = 1
SPECIFICATION FairSpec
INVARIANTS
  DisksHaveOneUser
  TruthfulUntilFault
  WaitsForDeployer
PROPERTIES
  WaitsEnd
CHECK_DEADLOCK FALSE
