CONSTANTS
  c1 = c1
  c2 = c2
  c3 = c3
  N = 3
  Client = {c1, c2, c3}
  Home <- HomeThree
  Topic = {t1}
  NoTopic = NoTopic
  MAX_CLIENTS = 4
  Garbage <- NoGarbage
  QueueCap = 6
  MaxCreates = 3
  MaxPubs = 1
  MaxSubs = 1
  MaxLost = 0
SPECIFICATION OneTwice
INVARIANTS
  OneCopyInRing
  HomeDelivery
  AtMostOncePerSubscription
  RingCarriesStamped
CHECK_DEADLOCK FALSE
