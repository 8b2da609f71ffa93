SPECIFICATION ModulesSpec
CONSTANTS
  Bytes = {65, 187, 191, 216, 220, 239, 240}
  MaxBytes = 4
  MaxChunk = 2
  RandomStream <- MCRandomStream
  Scripts <- MCScripts
  Formats <- MCFormats
  UsageSets <- MCUsageSets
  BitLengths = {256}
  Holdings <- MCHoldings
  Halves <- MCHalves
  Meddling <- MCMeddling
  MaxHeld = 4
  Primes = {3, 5, 7, 11, 13, 17, 19}
  Exponents = {3, 5, 7}
  BlockSize = 3
  PadBytes = {0, 1, 2, 3}
  MaxPadded = 6
  WordBits = 4
  WrapKeys = {3}
  MaxWords = 3
  Databases = {d1}
  SQLs = {"rows", "named"}
  Parameters <- MCParameters
  NRows = 2
  Iterators = {i1, i2}
  Args <- MCArgs
  Capacity = 1
  MaxHandles = 3
  Files = {f1, f2, f3}
  Names = {"db"}
  nameOf <- MCNameOf
  NoFile = NoFile
  Requests <- MCRequests
  Exists <- MCExists
  Unreliable <- MCUnreliable
  Links <- MCLinks
  Main <- MCMain
  GlobalFolders <- MCGlobalFolders
  Core <- MCCore
  Natives <- MCNatives
  MaxModules = 3
INVARIANTS
  SameInAnyChunks
  WritesAreWhole
  Confined
  RoundTrip
  VerifiesOwn
  ArithmeticExact
  TablesAgree
  RowsFromTheStart
  LocksExclude
  RequireSound
SYMMETRY MCSymmetry
CHECK_DEADLOCK FALSE
