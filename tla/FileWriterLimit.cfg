SPECIFICATION FWSpec
CONSTANTS
  t1 = t1
  t2 = t2
  w = w
  s = s
  NoTicket = NoTicket
  NoGeom = NoGeom
  Ticket <- MCTicket
  Sub <- MCSub
  Geom <- MCGeom
  Writer = w
  MaxPosts = 3
  MaxKept = 0
  RefMod = 8
  SizeLimit = 2
  MaxOverrun = 1
  CanStop = FALSE
INVARIANTS
  RecordingSound
