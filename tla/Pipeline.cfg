SPECIFICATION MCSpec
CONSTANTS
  Parts = {"outbox", "recorder", "client", "statements"}
  Event = {e1, e2}
  Producer = {p1, p2}
  Subject = {m1}
  Shard = {h1, h2}
  Buffer = 1
  MaxEntries = 2
  Modes = {"sync", "block", "drop", "queue"}
  Call = {c1}
  MaxAttempts = 3
  MaxDelay = 2
  Timeout = 5
  TokenLife = 2
  Concurrency = 1
  MaxFaults = 2
INVARIANTS
  OutboxSafety
  RecorderSafety
  
  StatementsSafety

  
  
CHECK_DEADLOCK FALSE
