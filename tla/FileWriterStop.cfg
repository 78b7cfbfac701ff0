SPECIFICATION FWFairSpec
CONSTANTS
  t1 = t1
  t2 = t2
  w = w
  s = s
  NoTicket = NoTicket
  NoGeom = NoGeom
  Ticket <- MCTicket
  Sub <- MCSub
  Geom <- MCGeom
  Writer = w
  MaxPosts = 1
  MaxKept = 0
  RefMod = 8
  SizeLimit = 1
  MaxOverrun = 0
  CanStop = TRUE
INVARIANTS
  WriterSettled
  VerdictStands
PROPERTIES
  StopTerminates
