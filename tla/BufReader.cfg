SPECIFICATION FairSpec
CONSTANTS
  BufSize = 2
  MinRoom = 1
  MaxInput = 6
  MaxArg = 5
  VarRoom = 1
  VarMax = 3
  FrameSize = 5
  Prefix = 2
  Header = 1
INVARIANTS
  TypeOK
  BufferIsStream
PROPERTIES
  PositionsMeant
  FirstLookReturns
  WritesFit
CHECK_DEADLOCK FALSE
