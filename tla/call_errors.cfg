SPECIFICATION Spec
CONSTANTS
  c1 = c1
  c2 = c2
  s1 = s1
  s2 = s2
  f1 = f1
  Calls = {c1}
  CallMethod = {c1}
  Subs = {}
  Filters = {f1}
  FilterOf <- NoSubs
  MaxConns = 1
  MaxLogs <- NoLogs
INVARIANTS
  NotFoundMeansMissing
CHECK_DEADLOCK FALSE
