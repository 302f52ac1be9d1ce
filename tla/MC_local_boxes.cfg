CONSTANTS
  Program = {p1, p2}
  GlobalId = {g1, g2}
  MAX_LOCAL_CLIENTS = 2
  QueueCap = 2
  MaxRefused = 1
  MaxCreates = 2
  MaxPubs = 3
  MaxKills = 1
SPECIFICATION Spec
SYMMETRY FullSymmetry
PROPERTIES
  BoxesKept
CHECK_DEADLOCK FALSE
