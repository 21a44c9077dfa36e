SPECIFICATION Spec
CONSTANTS
  w1 = w1
  w2 = w2
  MaxTasks = 1
  Worker = {w1, w2}
  Key = {}
  NoKey = NoKey
  LeaseId = {l1, l2, l3}
  NoLease = NoLease
  Batch = 1
  Timeout = 1
  MarkTimeout = 1
  Margin = 1
  Slack = 0
  RetryDelay <- MCRetryDelay
  MaxAttempts = 2
  Retention = 1
  Delay = {0}
  Outcome = {"ok", "retry", "permanent"}
  Skew <- MCSkew
  Overrun = {}
  MaxTime = 7
SYMMETRY MCSymmetry
INVARIANTS
  NoOverlap
  MarksUnderLease
CHECK_DEADLOCK FALSE
