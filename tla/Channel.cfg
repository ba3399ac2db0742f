SPECIFICATION FairSpec
CHECK_DEADLOCK FALSE
CONSTANTS
  Shims = {x1, x2}
  Polls = {p1, p2}
  QueueMax = 2
  MaxEvents = 3
  MaxQueues = 2
  MaxTokens = 2
  MaxFaults = 1
  None = None
INVARIANTS
  TypeOK
  EventsAccounted
PROPERTIES
  ToldInOrder
  EventsAreSettled
