SPECIFICATION FsFairSpec
CONSTANTS
  Callers = {"loop", "open", "late", "sink", "call"}
  NoCaller = NoCaller
  MaxChunks = 2
INVARIANTS
  NoUseAfterClose
  ClosedAtMostOnce
  ResolvedMeansWritten
PROPERTIES
  CloseHappens
  CallsEndAndRelease
CHECK_DEADLOCK FALSE
