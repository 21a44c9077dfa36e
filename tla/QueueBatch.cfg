SPECIFICATION Spec
CONSTANTS
  w1 = w1
  w2 = w2
  MaxTasks = 2
  Worker = {w1, w2}
  Key = {k1}
  NoKey = NoKey
  LeaseId = {l1, l2, l3}
  NoLease = NoLease
  Batch = 2
  Timeout = 1
  MarkTimeout = 0
  Margin = 0
  Slack = 0
  RetryDelay <- MCAtOnce
  MaxAttempts = 1
  Retention = 0
  Delay = {0}
  Outcome = {"ok", "halt"}
  Skew <- MCFar
  Overrun = {w1, w2}
  MaxTime = 1
SYMMETRY MCSymmetry
INVARIANTS
  KeyUnique
  TasksAreKept
PROPERTIES
  LifeSpec
CHECK_DEADLOCK FALSE
