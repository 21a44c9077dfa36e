SPECIFICATION MCSpec
CONSTANTS
  Parts = {"live", "servers", "periodic", "closer"}
  t1 = t1
  t2 = t2
  t3 = t3
  w1 = w1
  w2 = w2
  Task = {t1, t2, t3}
  NoTask = NoTask
  Worker = {w1, w2}
  Req = {r1, r2, r3}
  Firing = {f1, f2}
  Resource = {d1, d2}
  Closing = {g1, g2}
  Deps = 2
  GroupTimeout = 2
  HttpTimeout = 1
  GrpcTimeout = 1
INVARIANTS
  DepsOutliveRequests
  PeriodicSafety
  CloserSafety
PROPERTIES
  
  TasksEnd
  ProcessEnds
CHECK_DEADLOCK FALSE
