SPECIFICATION FairSpec
CHECK_DEADLOCK FALSE
CONSTANTS
  Users = {u1}
  BotTokens = {t1, t2}
  Chats = {c1}
  Sessions = {s1}
  Calls = {k1}
  Clients = {w1}
  MaxUpdates = 1
  MaxSaves = 2
  MaxCrashes = 1
  None = None
PROPERTIES
  BotIsPolled
  UpdateIsDispatched
  ShutdownEnds
