SPECIFICATION Spec
SYMMETRY Symmetry
CHECK_DEADLOCK FALSE
CONSTANTS
  Users = {u1}
  BotTokens = {t1, t2}
  Chats = {c1, c2}
  Sessions = {s1}
  Calls = {k1, k2}
  Clients = {w1, w2}
  MaxUpdates = 2
  MaxSaves = 2
  MaxCrashes = 1
  None = None
INVARIANTS
  TypeOK
  NoUpdateSkipped
  NoPollerRepeats
PROPERTIES
  OwnerWroteToBot
  OwnerLocked
  DeleteFailsOnlyByAttach
