CONSTANTS
  DecodeCap = 2
  DrawCap = 1
  MaxPieces = 2
  MaxFrames = 3
  MaxLost = 0
  Patient = FALSE
SPECIFICATION FairSpec
PROPERTIES
  StopReturns
  KeepsPipeOrder
