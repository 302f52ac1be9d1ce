CONSTANTS
  Program = {p1, p2, p3}
  GlobalId = {g1, g2}
  MAX_LOCAL_CLIENTS = 2
  QueueCap = 2
  MaxRefused = 1
  MaxCreates = 3
  MaxPubs = 1
  MaxKills = 1
SPECIFICATION Spec
SYMMETRY FullSymmetry
INVARIANTS
  TypeOK
  AnsweredOnce
  IdsToAskers
  OneEntryPerId
CHECK_DEADLOCK FALSE
