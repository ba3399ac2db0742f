SPECIFICATION FairSpec
CHECK_DEADLOCK FALSE
CONSTANTS
  c1 = c1
  c2 = c2
  t1 = t1
  Clients = {c1, c2}
  Turns = {t1}
  QueueMax <- ShortAndLong
  ReplayMax = 2
  WireMax = 1
  MaxPublished = 4
  MaxDrops = 1
  MaxBuses = 2
INVARIANTS
  TypeOK
  LossAccounted
  GapNeverSent
PROPERTIES
  ShowsInOrder
  CatchesUp
