SPECIFICATION MCSpec
CONSTANTS
  Parts = {"request", "rpc", "wiring", "tracing", "logger", "paging"}
  Rpc = {c1, c2}
  Method = {"get", "health"}
  Technical = {"health"}
  Type = {t1, t2}
  Kind = {d1, d2}
  Queue = {q1}
  Func = {f1, f2}
  Dispatcher = {p1}
  Samplers = {"always_on", "parentbased_traceidratio", "no_sdk"}
  MaxSpans = 4
  MaxInt = 31
  MaxRowsPerPage = 4
  DefaultRowsPerPage = 2
  Rows <- MCRows
  Late <- MCLate
INVARIANTS
  
  RpcSafety
  WiringSafety
  TracingSafety
  LoggerSafety
  PagingSafety
CHECK_DEADLOCK FALSE
