SPECIFICATION SpSpec
CONSTANTS
  Nb = 2
  FramesPerCell = 2
  Samples = 2
  Tuning = {1, 2}
  Pol = {0}
  Format = {"drx", "drx8"}
  Feeds <- FeedSet
  OutTickets = 1
  OutFrames = 2
  Unset = Unset
CHECK_DEADLOCK FALSE
INVARIANTS
  SpectraSound
  SpectraFollow
PROPERTIES
  ShutdownReturnsTickets
  SpectrometerProgress
