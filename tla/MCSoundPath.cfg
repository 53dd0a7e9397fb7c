SPECIFICATION PathSpec
CONSTANTS
  FrameUnits = 3
  BufUnits = 6
  JunkUnits = 2
  MaxPieces = 3
  TagUnits = {0, 3, 8}
  StartUnits = {0, 4}
  MaxFrames = 4
  AmrSize <- Sizes
  Users = {u1, u2}
  Body = 2
  DataLen = 2
  Width = 4
  MaxSeeks = 1
  MaxRedirects = 1
  PageValues = 2
  InitSamples = 1
  MaxPut = 2
  MaxHeld = 4
  Values = 5
CHECK_DEADLOCK FALSE
INVARIANT DecodedInOrder
INVARIANT BodyWhole
INVARIANT SocketsOwned
INVARIANT FifoInOrder
PROPERTY DecodersEnd
