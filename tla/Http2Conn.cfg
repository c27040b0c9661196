SPECIFICATION FairSpec
CONSTANTS
  Streams = {1, 3}
  Pushes = 1
  MaxFrames = 3
  MaxTime = 1
  Bodies = {2}
  PostBody = 1
  FrameMax = 1
  PushAllowed = {TRUE}
  Window = 1
  Limit = 2
  InitWindows = {2}
  Limits = {1}
  Increments = {3}
  LostBit = 2
INVARIANTS WindowAccounts EndMeansWhole HalfClosedIsReal
PROPERTIES GetsBack CodingsAgree
