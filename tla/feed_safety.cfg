SPECIFICATION Spec
CONSTANTS
  Subs = {s1, s2, s3}
  Senders = {p1, p2}
  Cap = 1
  MaxSends = 3
SYMMETRY Symmetry
INVARIANTS
  TypeOK
  DeliveredOnce
  RemovedIsFound
  SentIsCounted
PROPERTIES
  QuietAfterUnsubscribe
CHECK_DEADLOCK FALSE
