CONSTANTS
  Procs = {p1, p2, p3}
  Schedules = {s1}
  ScheduleValues <- MCValues
  MaxNow = 6
  MaxFailures = 1
  MaxRestarts = 2
  MachineIds = {m1, m2}
  Flows = {f1, f2}
  MaxAttempts = 3
  MaxReservations = 3
  MaxLost = 3
  MaxDeployments = 2
  MaxForgotten = 1
  Endpoints = {d1, d2}
  Hosts = {h1}
  Regions = {r1, r2}
  MaxTries = 2
  MaxChanges = 2
  Steps = {d1, d2}
  Messages = {t1}
  Totals = {0, 2, 300}
  Values = {1, 2, 3, 299, 300}
  MaxTimeouts = 1
  Pools = {"pool1", "pool2"}
  Actions = {d1, d2}
  Instances = {"i1", "i2"}
  Machines = {1, 2, 3, 4}
  PoolKinds <- MCPoolKinds
  Selections <- MCSelections
  Patches = {"u1"}
  MaxFaults = 1
SPECIFICATION Spec
SYMMETRY Symmetry
INVARIANTS
  LockCircles
  JobsFollowSchedules
  EverythingCharged
  PoolStatusTells
  WorkerFits
  ProgressShown
  SelectionsServed
CHECK_DEADLOCK FALSE
