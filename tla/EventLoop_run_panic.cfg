SPECIFICATION FairSpec
CONSTANTS
  Timeouts = {}
  Intervals = {}
  Immediates = {}
  GoHandles = {}
  Tasks = {a}
  Requires = {}
  MaxTicks = 1
  FnPanics = TRUE
PROPERTY
  LifecycleCallsReturn
CHECK_DEADLOCK FALSE
