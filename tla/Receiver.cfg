SPECIFICATION RxFairSpec
CONSTANTS
  t1 = t1
  t2 = t2
  t3 = t3
  s1 = s1
  NoTicket = NoTicket
  NoGeom = NoGeom
  NoMode = NoMode
  Ticket <- MCTicket
  Sub <- MCSub
  Geom <- MCGeom
  Mode <- MCMode
  FrameSize <- MCFrameSize
  DefaultMode = "DRX"
  BufSize = 12
  TransferSize = 4
  MaxPosts = 1
  MaxKept = 0
  RefMod = 8
  MaxSwitch = 1
CHECK_DEADLOCK FALSE
INVARIANTS
  FormatSound
PROPERTIES
  Follows
  ReceiverStops
