SPECIFICATION Spec
CONSTANTS
  Subs = {s1, s2}
  Senders = {p1, p2}
  Cap = 1
  MaxSends = 3
PROPERTIES
  UnsubscribeReturns
  SendReturns
CHECK_DEADLOCK FALSE
