SPECIFICATION Spec
CONSTANTS
  r1 = r1
  r2 = r2
  r3 = r3
  Ref <- MCRefPair
  Idle = Idle
  Commands = {"REC", "TST", "SYN", "FMT", "CPY", "STP", "SHT"}
  RecSlots <- MCRecSlots
  MillisPerDay = 8
  Word = 1024
  Window = 1
  Lead = 1
  TestLead = 3
  TestLength = 1
  MaxStep = 1
  Begin = 5
  End = 18
CHECK_DEADLOCK FALSE
SYMMETRY Symmetry
INVARIANTS
  QueueSound
  OneAtATime
  CallbackProtocol
PROPERTIES
  NeverEarly
