SPECIFICATION Spec
CHECK_DEADLOCK FALSE
CONSTANTS
  Turns = {t1, t2}
  MaxProcs = 1
  MaxWakes = 0
  MaxStops = 0
  Slow = {}
  Wordy = {}
INVARIANT OwnAnswers
