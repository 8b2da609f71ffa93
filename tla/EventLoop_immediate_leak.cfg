SPECIFICATION Spec
CONSTANTS
  Timeouts = {}
  Intervals = {}
  Immediates = {m1}
  GoHandles = {}
  Tasks = {a}
  Requires = {}
  MaxTicks = 1
  FnPanics = FALSE
INVARIANT
  RunWaitsForAJob
