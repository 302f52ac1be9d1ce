CONSTANTS
  c1 = c1
  c2 = c2
  c3 = c3
  N = 2
  Client = {c2, c3}
  Home <- HomeTogether
  Topic = {t1}
  NoTopic = NoTopic
  MAX_CLIENTS = 3
  Garbage <- NoGarbage
  QueueCap = 6
  MaxCreates = 3
  MaxPubs = 1
  MaxSubs = 1
  MaxLost = 1
SPECIFICATION Spec
SYMMETRY PairSymmetry
INVARIANTS
  NoOrphanLines
  
  IdsNotShared
  AddressedToHolder
  AnsweredOnce
CHECK_DEADLOCK FALSE
