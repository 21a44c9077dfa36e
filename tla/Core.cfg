SPECIFICATION MCSpec
CONSTANTS
  Parts = {"group", "pool", "tran", "backoff"}
  c1 = c1
  c2 = c2
  r1 = r1
  r2 = r2
  N = 2
  Setup <- MCSetup
  Job = {j1, j2, j3}
  Stopper = {s1}
  MaxConcurrent = 2
  Call = {c1, c2}
  Row = {r1, r2}
  Order <- MCOrder
  MaxAttempts = 2
INVARIANTS
  GroupSafety
  PoolSafety
  TranSafety
  

  
CHECK_DEADLOCK FALSE
