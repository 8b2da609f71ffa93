SPECIFICATION FairSpec
CONSTANTS
  Callers = {c1, c2, c3}
  Keys = {k1, k2}
  k1 = k1
  k2 = k2
  Uses <- MCUses
  MaxEntries = 3
INVARIANTS
  OneValuePerKey
PROPERTY
  CallsReturn
