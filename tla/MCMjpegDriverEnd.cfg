CONSTANTS
  DecodeCap = 1
  Frame = {1, 2, 3}
  Assets <- TwoFrames
  Repeats <- RepeatCounts
SPECIFICATION FairSpec
PROPERTIES
  PlaybackEnds
CHECK_DEADLOCK FALSE
