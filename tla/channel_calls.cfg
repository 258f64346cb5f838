SPECIFICATION Spec
CONSTANTS
  c1 = c1
  c2 = c2
  s1 = s1
  s2 = s2
  f1 = f1
  Calls = {c1, c2}
  CallMethod = {c1}
  Subs = {}
  Filters = {f1}
  FilterOf <- NoSubs
  MaxConns = 2
  MaxLogs <- NoLogs
INVARIANTS
  TypeOK
  TableMatchesCalls
PROPERTIES
  CallsAreRpcCalls
CHECK_DEADLOCK FALSE
