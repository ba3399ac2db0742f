SPECIFICATION FairSpec
CHECK_DEADLOCK FALSE
CONSTANTS
  Sessions = {s1}
  Tasks = {t1, t2}
  Ports = {1}
  Slots = 1
  Ops = {"start", "turn", "stop", "archive", "delete", "patch"}
  MaxRuns = 2
  MaxCrashes = 1
PROPERTIES
  RequestsFinish
  IdleIsReaped
