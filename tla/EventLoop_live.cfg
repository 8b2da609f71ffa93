SPECIFICATION FairSpec
CONSTANTS
  Timeouts = {}
  Intervals = {i1}
  Immediates = {}
  GoHandles = {}
  Tasks = {a}
  Requires = {}
  MaxTicks = 1
  FnPanics = FALSE
PROPERTIES
  AcceptedTaskRuns
  LifecycleCallsReturn
