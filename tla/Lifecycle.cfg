SPECIFICATION Spec
CHECK_DEADLOCK FALSE
CONSTANTS
  Sessions = {s1, s2}
  Tasks = {t1, t2}
  Ports = {1}
  Slots = 1
  Ops = {"turn", "stop", "delete"}
  MaxRuns = 2
  MaxCrashes = 1
SYMMETRY Symmetry
INVARIANTS
  TypeOK
  NoDoubleSpawn
  SlotsAccounted
  RowNamesItsBox
  ProxyReachesOwnApp
  RecoveryAccountsForBoxes
  InFlightHasTurn
