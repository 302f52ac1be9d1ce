CONSTANTS
  c1 = c1
  c2 = c2
  c3 = c3
  N = 2
  Client = {c1, c2}
  Home <- HomeSpread
  Topic = {t1}
  NoTopic = NoTopic
  MAX_CLIENTS = 3
  Garbage <- GarbageLists
  QueueCap = 6
  MaxCreates = 2
  MaxPubs = 1
  MaxSubs = 1
  MaxLost = 0
SPECIFICATION Spec
INVARIANT
  OnlySubscribersGetMessage
CHECK_DEADLOCK FALSE
