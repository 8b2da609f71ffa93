SPECIFICATION FairSpec
CONSTANTS
  Content = 3
  MaxEmpty = 1
  HighWaterMark = 2
INVARIANTS
  ControllerCallsLegal
  InOrder
  HooksOnce
PROPERTIES
  ReadAnswered
  Released
CHECK_DEADLOCK FALSE
