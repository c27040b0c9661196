SPECIFICATION Spec
CONSTANTS
  Streams = {1}
  Pushes = 0
  MaxFrames = 2
  MaxTime = 0
  Bodies = {2}
  PostBody = 1
  FrameMax = 1
  PushAllowed = {TRUE}
  Window = 1
  Limit = 2
  InitWindows = {1}
  Limits = {2}
  Increments = {1, 2, 3}
  LostBit = 2
INVARIANT GrantCounted
