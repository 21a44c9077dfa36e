SPECIFICATION MCSpec
CONSTANTS
  Parts = {"dedup", "lock", "settings", "partition"}
  Call = {c1, c2, c3}
  Key = {k1}
  Lease = 2
  TTL = 2
  SweepEvery = 1
  Holder = {h1, h2, h3}
  Ttl = 2
  Replica = {r1, r2}
  MaxSaves = 2
  MaxFaults = 1
  Keeper = {p1, p2}
  Tables <- MCTables
  PeriodStart <- MCPeriodStart
  Ahead = 1
  Retention = 1
  MaxDay = 3
INVARIANTS
  LeaseIsKept
  LockSafety
  PartitionSafety
PROPERTIES
  SuccessIsFinal
  
  StateSettles
CHECK_DEADLOCK FALSE
