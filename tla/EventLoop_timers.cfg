SPECIFICATION Spec
CONSTANTS
  Timeouts = {t1}
  Intervals = {i1}
  Immediates = {}
  GoHandles = {t1}
  Tasks = {}
  Requires = {}
  MaxTicks = 1
  FnPanics = FALSE
INVARIANTS
  JobsIndexed
  JobCountExact
  CountedJobCanEnd
  TerminateIsClean
