SPECIFICATION FairSpec
CONSTANTS
  Sizes <- MCSizes
INVARIANTS
  EnqueueNeverBlocks
  UploadInOrder
PROPERTY
  FetchEnds
CHECK_DEADLOCK FALSE
