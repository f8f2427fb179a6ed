CONSTANTS
  one = one
  two = two
  Executions = {one, two}
  Transfer = one
  Refreshes = {r1}
  Machines = {m1, m2, m3}
  Instances <- TwoInstances
  MinimumMinions = 1
  MaximumMinions = 2
  Scenarios <- RefreshUnhealthy
SPECIFICATION Spec
INVARIANTS
  ExclusiveUse
CHECK_DEADLOCK FALSE
