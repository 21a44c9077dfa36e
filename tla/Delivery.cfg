CONSTANTS
  Event = {e1, e2}
  Refused = {e2}
  Bad = Bad
  Concurrency = 2
  MaxRetries = 1
  MaxFaults = 3
SPECIFICATION FairSpec
INVARIANTS
  DeliverySafety

  
CHECK_DEADLOCK FALSE
