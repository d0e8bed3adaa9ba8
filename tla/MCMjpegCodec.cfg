CONSTANTS
  DecodeCap = 2
  DrawCap = 1
  MaxPieces = 2
  MaxFrames = 4
  MaxLost = 1
  Patient = TRUE
SPECIFICATION FairSpec
INVARIANTS
  TypeOK
  NoTaskOutlivesCodec
  DrawOutlivesDecode
  OwnedOnce
  NothingLeftBehind
PROPERTIES
  StopReturns
  DeleteReturns
  FrameReleased
  ImplementsFramePipe
