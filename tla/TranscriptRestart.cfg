SPECIFICATION Spec
CHECK_DEADLOCK FALSE
CONSTANTS
  Readers = {}
  Turns = {t1}
  MaxEvents = 3
  MaxBuses = 2
INVARIANT EveryEventIsWritten
