SPECIFICATION LbFairSpec
CONSTANTS
  Ticket = {1, 2, 3}
  Capture = {c1, c2}
  FrameSize = {1, 2}
  Counts = {2}
  Burst = 1
  Bufs <- BufSet
  MaxTickets = 4
  MaxBufs = 2
CHECK_DEADLOCK FALSE
INVARIANTS
  CapturesSound
  CaptureIsContiguous
PROPERTIES
  LiveBufferProgress
