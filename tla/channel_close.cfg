SPECIFICATION FairSpec
CONSTANTS
  c1 = c1
  c2 = c2
  s1 = s1
  s2 = s2
  f1 = f1
  Calls = {c1}
  CallMethod = {}
  Subs = {s1}
  Filters = {f1}
  FilterOf <- OneSub
  MaxConns = 2
  MaxLogs <- OneLog
PROPERTIES
  CloseReturns
CHECK_DEADLOCK FALSE
