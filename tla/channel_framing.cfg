SPECIFICATION Spec
CONSTANTS
  Splits <- SmallSplits
  MaxMsgs = 3
  MaxConns = 2
INVARIANTS
  WaitsOnlyForItsOwn
PROPERTIES
  FramesAreMessages
  EveryMessageArrives
CHECK_DEADLOCK FALSE
