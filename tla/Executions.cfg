SPECIFICATION FairSpec
INVARIANTS
  GivenUpHasNothingActive
  EarlyReportsInOrder
  TransferSound
PROPERTIES
  AreWorkflows
  ExecutionsTerminate
CHECK_DEADLOCK FALSE
