CONSTANTS
  DecodeCap = 1
  Frame = {1, 2, 3}
  Assets <- AllFiles
  Repeats <- RepeatCounts
SPECIFICATION FairSpec
INVARIANTS
  OwnerSerialized
PROPERTIES
  PlayFrameReturns
  StopReturns
CHECK_DEADLOCK FALSE
