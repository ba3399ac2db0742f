SPECIFICATION Spec
CHECK_DEADLOCK FALSE
CONSTANTS
  Readers = {r1, r2}
  Turns = {t1}
  MaxEvents = 4
  MaxBuses = 3
SYMMETRY Symmetry
INVARIANTS
  TypeOK
  TranscriptAccounted
  TranscriptInOrder
