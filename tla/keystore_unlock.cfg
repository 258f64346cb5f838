SPECIFICATION Spec
CONSTANTS
  Addresses = {a1, a2}
  Calls = {c1, c2, c3, c4}
  Lockers = {l1, l2}
  None = None
SYMMETRY Symmetry
INVARIANTS
  UnlockInv
  UnlockedKeysUsable
  AbortClosedOnce
  LockedIsGone
PROPERTIES
  EntriesEndProperly
CHECK_DEADLOCK FALSE
