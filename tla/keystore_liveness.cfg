SPECIFICATION Spec
CONSTANTS
  Addresses = {a1}
  Calls = {c1, c2, c3}
  Lockers = {l1}
  None = None
PROPERTIES
  TimedUnlockEnds
CHECK_DEADLOCK FALSE
