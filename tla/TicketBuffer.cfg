SPECIFICATION FairSpec
CONSTANTS
  t1 = t1
  t2 = t2
  s1 = s1
  s2 = s2
  NoTicket = NoTicket
  NoGeom = NoGeom
  Ticket <- MCTicket
  Sub <- MCSub
  Geom <- MCGeom
  MaxPosts = 3
  MaxKept = 1
  RefMod = 8
INVARIANTS
  TypeOK
  RefCountExact
  Conservation
  ResetQuiesced
  GeometryAgrees
  InOrder
  NothingLeftBehind
PROPERTIES
  TicketsReturn
