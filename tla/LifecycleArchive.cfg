SPECIFICATION Spec
CHECK_DEADLOCK FALSE
CONSTANTS
  Sessions = {s1}
  Tasks = {t1, t2}
  Ports = {1}
  Slots = 1
  Ops = {"start", "archive"}
  MaxRuns = 1
  MaxCrashes = 0
INVARIANT ArchivedForGood
