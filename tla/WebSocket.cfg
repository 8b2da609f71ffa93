SPECIFICATION FairSpec
CONSTANTS
  Conns = {c1}
  MaxMessages = 1
  MaxSends = 1
INVARIANTS
  TypeOK
  EventsInOrder
PROPERTIES
  ClosedForGood
CHECK_DEADLOCK FALSE
