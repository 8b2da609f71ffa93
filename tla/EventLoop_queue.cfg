SPECIFICATION Spec
CONSTANTS
  Timeouts = {}
  Intervals = {}
  Immediates = {m1}
  GoHandles = {}
  Tasks = {a, b}
  Requires = {b}
  MaxTicks = 1
  FnPanics = TRUE
INVARIANTS
  NoLostWakeup
PROPERTY
  ImplementsScheduler
\* After a panic of the function given to Run, Stop waits forever.
CHECK_DEADLOCK FALSE
