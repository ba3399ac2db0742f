SPECIFICATION FairSpec
CHECK_DEADLOCK FALSE
CONSTANTS
  Turns = {t1, t2}
  MaxProcs = 2
  MaxWakes = 1
  MaxStops = 1
  Slow = {1}
  Wordy = {1}
INVARIANTS
  TypeOK
  TurnIsHeard
  CleanTurnOwnsItsOutput
PROPERTY TurnsEnd
