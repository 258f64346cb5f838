SPECIFICATION Spec
CONSTANTS
  c1 = c1
  c2 = c2
  s1 = s1
  s2 = s2
  f1 = f1
  Calls = {}
  CallMethod = {}
  Subs = {s1, s2}
  Filters = {f1}
  FilterOf <- SharedFilter
  MaxConns = 2
  MaxLogs <- FirstMost
INVARIANTS
  BufferHasOneOwner
  RegisterNeverBlocksReader
  LogsContiguous
  WatchedFiltersAccepted
CHECK_DEADLOCK FALSE
SYMMETRY SubSymmetry
