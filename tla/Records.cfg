SPECIFICATION MCSpec
CONSTANTS
  Parts = {"audit", "batch", "translation", "scaffold"}
  w1 = w1
  w2 = w2
  m1 = m1
  m2 = m2
  k1 = k1
  k2 = k2
  Pkg = {"w", "store"}
  EntityNames = {"store"}
  Cmd <- MCCmd
  MaxRuns = 3
  MaxEdits = 1
INVARIANTS
  AuditSafety
  
  

  
CHECK_DEADLOCK FALSE
