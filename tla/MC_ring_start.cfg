CONSTANTS
  c1 = c1
  c2 = c2
  c3 = c3
  N = 2
  Client = {c2, c3}
  Home <- HomeTogether
  Topic = {t1}
  NoTopic = NoTopic
  MAX_CLIENTS = 2
  Garbage <- GarbageLists
  QueueCap = 6
  MaxCreates = 2
  MaxPubs = 1
  MaxSubs = 1
  MaxLost = 0
SPECIFICATION FairSpec
INVARIANTS
  LinkKnown
  Inv
  TypeOK
  AnsweredOnce
PROPERTIES
  RequestAnswered
  PublishLeavesRing
CHECK_DEADLOCK FALSE
